CONSTANTS
    Wallet = {w1}
    Agent = {a1}
    Identity = {id1, id2}
    Label = {casa}
    Handler = {h1, h2}
    MaxAttempts = 2
    MaxInFlight = 1
    MintAmount = 1
    Score = 87
    NoIdentity = NoIdentity
    NoHandler = NoHandler
    DemoMode = TRUE
    WorldKeys = TRUE
    Refused = Refused
    NoWallet = NoWallet
    NoLabel = NoLabel
    NoAgent = NoAgent
    Pressed = {"selfie"}
    Run = {r1, r2}
    MaxMishaps = 1
SPECIFICATION FairSpec
CONSTRAINT Bounded
INVARIANTS TypeOK AnswersNameTheFactorysIdentity MintsArePaidFor AnsweredAgentIsWhole DelegationIsEarned
PROPERTIES AnsweredRevocationHolds BusyClears
CHECK_DEADLOCK FALSE
