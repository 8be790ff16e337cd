SPECIFICATION Spec
CONSTANTS
    r1 = r1  r2 = r2  r3 = r3  None = None
    Requests = {r1, r2, r3}
    Creates = {r1, r2}
    BufferSize = 1
    Attempts = 2
    Fallback = TRUE
    ServiceDown = TRUE
    MayStop = FALSE
    DrainTimeout = FALSE
INVARIANT FailureIsExhausted
CHECK_DEADLOCK FALSE
