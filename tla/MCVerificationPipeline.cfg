CONSTANTS
    KycSession = {k1, k2}
    AccreditedSession = {a1}
    Handler = {h1, h2}
    Workflow = {w1, w2}
    Failures = TRUE
    Fallback = TRUE
    OnchainStatus = {"GREEN"}
    NoSession = NoSession
    NoVerdict = NoVerdict
    NoPolicy = NoPolicy
SPECIFICATION Spec
CONSTRAINT Bounded
SYMMETRY Symmetry
INVARIANTS TypeOK RowsFollowTheChain SettledRowsAreFinal RejectionBlocks
