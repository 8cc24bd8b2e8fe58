CONSTANTS
    h1 = h1
    h2 = h2
    t1 = t1
    Handlers = {h1, h2}
    Tickers = {t1}
    Capacity = 4
    MaxChanges = 4
    MaxFailures = 2
    MaxRestored = 1
SPECIFICATION FairSpec
CHECK_DEADLOCK FALSE
INVARIANTS
    NoCircularWait
    LostOnlyInGap
PROPERTIES
    ChangeIsPlanned
    TakenIsServed
