SPECIFICATION MCFairSpec
CONSTANTS
    Parts = {"webhooks", "usage", "checkout"}
    None = None
    NoProduct = NoProduct
    NoPlan = NoPlan
    Slugs <- MCSlugs
    Checkouts = {c1, c2}
    MaxCheckoutFails = 1
    s1 = s1
    s2 = s2
    Subs <- MCSubs
    Events <- MCEvents
    Handlers = {h1, h2}
    MaxRollbacks = 1
    Null = Null
    Requests = {r1, r2, r3}
    WordsPerDay = 2
    UploadsPerDay = 1
    BytesPerDay = 2
    PoolSize = 2
    Sizes <- MCSizes
    Answers <- MCAnswers
    LastDay = 1
    MaxFails = 1
INVARIANTS
    BillingTypeOK
    AppliedOnceWithItsLedgerRow
    NewestEventWins
    PaidPeriodIsKept
    OverrunIsBoundedByOverlap
    MetersAddUp
    PaidPlanIsGranted
PROPERTIES
    DeliveredEventTakesEffect
    EveryRequestIsAnswered
CHECK_DEADLOCK FALSE
