CONSTANTS
    Request = {r1, r2, r3}
    Amount = {1, 3}
    Limit = {1, 3}
    NoKycCap = 2
    NoPolicy = NoPolicy
SPECIFICATION Spec
SYMMETRY Symmetry
INVARIANTS TypeOK OvershootIsBounded
PROPERTIES BlockHoldsOnceQuiet
