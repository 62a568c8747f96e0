CONSTANTS
    KycSession = {k1, k2}
    AccreditedSession = {}
    Handler = {h1}
    Workflow = {w1, w2}
    Failures = FALSE
    Fallback = FALSE
    OnchainStatus = {"GREEN"}
    NoSession = NoSession
    NoVerdict = NoVerdict
    NoPolicy = NoPolicy
SPECIFICATION Spec
SYMMETRY Symmetry
INVARIANT RejectedWalletIsBlocked
