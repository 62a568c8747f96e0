CONSTANTS
    KycSession = {k1}
    AccreditedSession = {a1}
    Handler = {h1}
    Workflow = {w1}
    Failures = FALSE
    Fallback = FALSE
    OnchainStatus = {"GREEN"}
    NoSession = NoSession
    NoVerdict = NoVerdict
    NoPolicy = NoPolicy
SPECIFICATION FairSpec
PROPERTIES VerdictIsSettled
