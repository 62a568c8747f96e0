CONSTANTS
    Issuer = {i1, i2}
    Identity = {id1, id2}
    Topic = {kyc}
    Signer = {s1}
    Expiry = {0, 1}
    Wallet = {w1, w2, w3}
    Policy = {dealRoom}
    MaxClaimsPerTopic = 2
    MaxTime = 2
    NoClaim = NoClaim
    NoWallet = NoWallet
    NoIdentity = NoIdentity
SPECIFICATION Spec
SYMMETRY Symmetry
INVARIANTS TypeOK CountMatchesClaims ClaimsAreBound ResolutionConsistent EligibleIffVouched IndexMatchesList
PROPERTIES OnlyGrantsMakeEligible LatchKeepsClaimsOut ResolutionNeverMoves ImplementsTrustSet
