SPECIFICATION Spec
CONSTANTS
    User = {u1, u2}
    b1 = b1
    b2 = b2
    ExtBridge = {b1, b2}
    FirstBridge = b1
    Fee = {0, 50}
    Limits <- AllLimits
    ExtLimits <- AllExtLimits
    StartFee = 50
    StartExtLimits <- ExtStart
    Scenarios <- All
INVARIANTS BurnsArePayable Backed SupplyIsHeld TwiceTheLimit
SYMMETRY UserSymmetry
