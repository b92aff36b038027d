SPECIFICATION Spec
CONSTANTS
    MaxNow = 48
    ActionId = {this, other}
    this = this
    other = other
    thisCase = thisCase
    otherCase = otherCase
INVARIANTS
    RetriesWhenQuietEnds
    DeferralIsTight
    MoreDiscountIsNeverEasier
    SeededPlanIsAccepted
    GateAgreesWithLedger
