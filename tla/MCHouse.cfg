CONSTANTS
    Wallet = {o1, o2, a1}
    Owner = {o1, o2}
    ApprovalThreshold = 2
    Amount = {1}
    PerTxCap = {0, 1}
    Deadline = {0, 1}
    MaxPayments = 2
    InitialSpend = 1
    MaxTime = 2
    MaxScrip = 1
    NoWallet = NoWallet
    NoPayment = NoPayment
    Treasury = Treasury
    Pool = Pool
SPECIFICATION MCSpec
SYMMETRY Symmetry
INVARIANTS TypeOK QuorumIsDistinctOwners QuorumStaysReachable
PROPERTIES TreasuryPaysWhatWasApproved ApprovalsAreFinal KillSwitch CapBindsOneLeg
