SPECIFICATION FairSpec
CONSTANTS
    Recipients = 1
    Handler = {h1, h2}
    MaxRuns = 2
    MaxMessages = 2
INVARIANTS
    TypeOK
    TrackedMessageIsReal
    RetryFollowsFailure
    FirstContactIsApproved
PROPERTIES
    UnfinishedIsFollowedUp
