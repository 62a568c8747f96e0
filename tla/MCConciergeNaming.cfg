CONSTANTS
    Wallet = {o1, o2, a1, v1}
    Owner = {o1, o2}
    ApprovalThreshold = 2
    Amount = {2}
    PerTxCap = {1}
    Deadline = {1}
    MaxPayments = 2
    NoWallet = NoWallet
    NoPayment = NoPayment
    Treasury = Treasury
    Pool = Pool
    InitialSpend = 0
    MaxTime = 1
    MaxScrip = 0
    Agent = a1
    Vendor = v1
    Cap = 1
    ExpiresAt = 1
    Budget = 0
    Reserve = 3
    Depth = 3
    Clerk = {c1, c2}
    MaxTickets = 2
    OwnVendor = {TRUE}
    MockRules = TRUE
    Failures = FALSE
SPECIFICATION Spec
SYMMETRY Symmetry
INVARIANT TicketNamesItsPayment
