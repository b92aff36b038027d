SPECIFICATION Spec
CONSTANTS
    Handler = {h1}
    Policy <- Yaml
    Profile <- ThreePaise
    Proposals <- ContactKinds
    Budget = 2000000
    DemoStart = 14
    Hours = {20}
    PromiseAt = 46
    MaxClock = 60
    MaxRequests = 4
    MaxResets = 0
INVARIANTS
    ActionRunsOnce
    MoneyIsInTheCase
    ObjectionNeedsHuman
