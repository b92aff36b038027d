SPECIFICATION FairSpec
CONSTANTS
    Merchant = {m1, m2}
    Browser = {b1, b2}
    Token = {t1, t2}
    Handler = {h1, h2}
    HistoryLimit = 2
    MaxAsks = 2
    MaxRuns = 1
INVARIANTS
    TypeOK
    PanelIsTheirs
    ShownIsRemembered
PROPERTY
    AskedIsAnswered
CHECK_DEADLOCK FALSE
