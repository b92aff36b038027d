SPECIFICATION Spec
CONSTANTS
    f1 = f1
    f2 = f2
    m1 = m1
    m2 = m2
    upi = upi
    Finding = {f1, f2}
    Handler = {h1, h2}
    MerchantOf <- MCMerchantOf
    PatternOf <- MCPatternOf
    CustomerPattern = {}
    PrivacyThreshold = 2
    MaxRuns = 1
INVARIANTS
    MerchantApprovedWhenRequired
