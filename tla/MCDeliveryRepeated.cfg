SPECIFICATION Spec
CONSTANTS
    Intervention = {i1}
    Handler = {h1, h2}
    Evidence <- HighSeverity
    Draft = {"draft"}
    ReplySid = {s1}
    MaxRuns = 0
    MaxClock = 0
    MaxRequests = 3
INVARIANTS
    EmailIsSentOnce
