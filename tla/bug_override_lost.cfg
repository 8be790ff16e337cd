SPECIFICATION Spec
CONSTANTS
    t1 = t1  t2 = t2  c1 = c1  alice = alice
    general = general  payments = payments  support = support
    billing = billing  other = other  normal = normal  urgent = urgent
    h1 = h1  h2 = h2  w1 = w1  w2 = w2  none = none
    General = general  Normal = normal  None = none
    Customers = {c1}
    Categories = {billing, other}
    Priorities = {normal, urgent}
    Tickets = {t1}
    Staff = {}
    Departments = {general}
    Seeded <- SeedNothing
    Patches <- UrgentPatch
    Handlers = {h1, h2}
    Consumers = {w1}
    Kafka = FALSE
    Overlap = TRUE
    Faults = FALSE
    MaxRequests = 4
    MaxCrashes = 0
PROPERTIES
    HumanDecisionSurvives
CHECK_DEADLOCK FALSE
