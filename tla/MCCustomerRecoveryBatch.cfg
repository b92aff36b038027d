SPECIFICATION Spec
CONSTANTS
    Recipients = 2
    Handler = {h1, h2}
    MaxRuns = 1
    MaxMessages = 1
SYMMETRY Threads
INVARIANTS
    SentBatchWasAttempted
    NothingSentBeforeApproval
