SPECIFICATION Spec
CONSTANTS
    Handler = {h1}
    Policy <- Yaml
    Profile <- TwoPaise
    Proposals <- ReminderOrStop
    Budget = 2000000
    DemoStart = 14
    Hours = {20}
    PromiseAt = 46
    MaxClock = 60
    MaxRequests = 3
    MaxResets = 0
INVARIANTS
    PaidIsNotContacted
