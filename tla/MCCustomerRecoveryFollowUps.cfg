SPECIFICATION Spec
CONSTANTS
    Recipients = 1
    Handler = {h1, h2}
    MaxRuns = 1
    MaxMessages = 3
SYMMETRY Threads
INVARIANTS
    OneFollowUp
