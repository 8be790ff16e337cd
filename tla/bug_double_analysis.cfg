SPECIFICATION Spec
CONSTANTS
    t1 = t1  t2 = t2  c1 = c1  alice = alice
    general = general  payments = payments  support = support
    billing = billing  other = other  normal = normal  urgent = urgent
    h1 = h1  h2 = h2  w1 = w1  w2 = w2  none = none
    General = general  Normal = normal  None = none
    Customers = {c1}
    Categories = {billing, other}
    Priorities = {normal, urgent}
    Tickets = {t1}
    Staff = {}
    Departments = {general, payments}
    Seeded <- SeedPayments
    Patches <- NoPatches
    Handlers = {h1}
    Consumers = {w1, w2}
    Kafka = TRUE
    Overlap = TRUE
    Faults = FALSE
    MaxRequests = 2
    MaxCrashes = 0
INVARIANTS
    AnalyzedOnce
CHECK_DEADLOCK FALSE
