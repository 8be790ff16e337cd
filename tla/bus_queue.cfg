SPECIFICATION FairSpec
CONSTANTS
    r1 = r1  r2 = r2  r3 = r3  None = None
    Requests = {r1, r2, r3}
    Creates = {r1, r2}
    BufferSize = 1
    Attempts = 2
    Fallback = FALSE
    ServiceDown = TRUE
    MayStop = TRUE
    DrainTimeout = TRUE
INVARIANTS TypeOK QueueLaw  EarlyFailureIsCancelled
PROPERTIES SelfPublishWaitsInVain PublishReturns AcceptedIsHandled CloseDrains
CHECK_DEADLOCK FALSE
