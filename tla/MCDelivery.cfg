SPECIFICATION Spec
CONSTANTS
    Intervention = {i1, i2}
    Handler = {h1, h2}
    Evidence <- HighSeverity
    Draft = {"draft"}
    ReplySid = {s1}
    MaxRuns = 1
    MaxClock = 2
    MaxRequests = 2
SYMMETRY Symmetry
INVARIANTS
    TypeOK
    NothingDangles
    CooldownHolds
    SentIsAccepted
    ShownTextWasSent
PROPERTIES
    AcceptedStaysRecorded
