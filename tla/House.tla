-------------------------------- MODULE House -------------------------------
(***************************************************************************)
(* A house: the treasury, its scrip CASA, the spend token mUSD, and the    *)
(* CASA/mUSD pool behind the mandate hook.  The concierge spends on two    *)
(* rails: swaps of its CASA (rail 1), and payments the owners approve      *)
(* (rail 2).  Both ask whether the owners are compliant now.               *)
(*                                                                         *)
(* The compliance core is the environment here: it may clear or refuse any *)
(* owner at any moment, more freely than the Passport core does, and time  *)
(* passes.  A call that reverts is a stuttering step.                      *)
(***************************************************************************)
EXTENDS Integers, FiniteSets, Functions

CONSTANTS
    Wallet, Owner, ApprovalThreshold, Amount, PerTxCap, Deadline, MaxPayments,
    NoWallet, NoPayment,
    Treasury, Pool,     \* the contracts that hold tokens
    InitialSpend,       \* mUSD each owner holds at the start
    MaxTime,            \* model bound: the clock stops here
    MaxScrip            \* model bound: CASA in existence at any moment

Holder == Wallet \cup {Treasury, Pool}

ASSUME HouseAssumption ==
    /\ Owner \subseteq Wallet
    /\ IsFiniteSet(Owner)
    /\ ApprovalThreshold \in 1..Cardinality(Owner)
    /\ Amount \subseteq Nat \ {0}
    /\ PerTxCap \subseteq Nat
    /\ Deadline \subseteq Nat
    /\ MaxPayments \in Nat
    /\ InitialSpend \in Nat
    /\ MaxTime \in Nat \ {0}
    /\ MaxScrip \in Nat

ASSUME NameAssumption ==
    /\ NoWallet \notin Wallet
    /\ Treasury \notin Wallet
    /\ Pool \notin Wallet
    /\ Treasury # Pool
    /\ NoPayment \notin [vendor : Wallet, amount : Amount, approvals : Nat,
                         executed : BOOLEAN]

VARIABLES
    mandate, nextPaymentId, payments, approvedBy,   \* HouseTreasury
    casa,         \* HouseToken: holder -> CASA
    spend,        \* SPEND_TOKEN: holder -> mUSD
    position,     \* wallets with liquidity in the pool
    cleared, now  \* the compliance core, as the treasury sees it

House == INSTANCE HouseTreasury
Casa  == INSTANCE HouseToken WITH balanceOf <- casa
Spend == INSTANCE HouseToken WITH balanceOf <- spend
Hook  == INSTANCE MandateHook

treasuryVars == <<mandate, nextPaymentId, payments, approvedBy>>
coreVars     == <<cleared, now>>

vars == <<treasuryVars, casa, spend, position, coreVars>>

Init ==
    /\ House!Init
    /\ casa = [h \in Holder |-> 0]
    /\ spend = [h \in Holder |-> IF h \in Owner THEN InitialSpend ELSE 0]
    /\ position = {}
    /\ cleared \in SUBSET Owner
    /\ now = 1

-----------------------------------------------------------------------------
(* The owners.                                                             *)
GrantMandate(o, agent, cap, expiresAt) ==
    /\ House!GrantMandate(o, agent, cap, expiresAt)
    /\ UNCHANGED <<casa, spend, position, coreVars>>

RevokeMandate(o) ==
    /\ House!RevokeMandate(o)
    /\ UNCHANGED <<casa, spend, position, coreVars>>

(* MaxScrip bounds the model.                                              *)
FundConcierge(o, amount) ==
    /\ o \in Owner
    /\ House!HasMandate
    /\ FoldFunction(+, amount, casa) <= MaxScrip
    /\ Casa!Mint(mandate.agent, amount)
    /\ UNCHANGED <<treasuryVars, spend, position, coreVars>>

(* The budget is taken back whether or not the mandate still stands.       *)
ReclaimBudget(o, amount) ==
    /\ o \in Owner
    /\ House!HasMandate
    /\ Casa!Reclaim(mandate.agent, amount)
    /\ UNCHANGED <<treasuryVars, spend, position, coreVars>>

ApprovePayment(o, id) ==
    /\ House!ApprovePayment(o, id)
    /\ UNCHANGED <<casa, spend, position, coreVars>>

(* Anyone.                                                                 *)
Deposit(w, amount) ==
    /\ Spend!Transfer(w, Treasury, amount)
    /\ UNCHANGED <<treasuryVars, casa, position, coreVars>>

ProposePayment(w, vendor, amount) ==
    /\ House!ProposePayment(w, vendor, amount)
    /\ UNCHANGED <<casa, spend, position, coreVars>>

ExecutePayment(id) ==
    /\ House!ExecutePayment(id)
    /\ Spend!Transfer(Treasury, payments[id].vendor, payments[id].amount)
    /\ UNCHANGED <<casa, position, coreVars>>

-----------------------------------------------------------------------------
(* The pool.  Prices are the pool's own business: the two legs of a swap   *)
(* and of a change of liquidity are any amounts both sides can cover.      *)
MaySwap(w, specified) ==
    Hook!BeforeSwap(House!IsCompliantOwner(w), House!InGoodStanding(w), specified,
                    mandate.perTxCap)

SellCasa(w, casaIn, spendOut, specified) ==
    /\ MaySwap(w, specified)
    /\ Casa!Transfer(w, Pool, casaIn)
    /\ Spend!Transfer(Pool, w, spendOut)
    /\ UNCHANGED <<treasuryVars, position, coreVars>>

BuyCasa(w, spendIn, casaOut, specified) ==
    /\ MaySwap(w, specified)
    /\ Spend!Transfer(w, Pool, spendIn)
    /\ Casa!Transfer(Pool, w, casaOut)
    /\ UNCHANGED <<treasuryVars, position, coreVars>>

AddLiquidity(w, casaIn, spendIn) ==
    /\ Hook!BeforeAddLiquidity(House!IsCompliantOwner(w))
    /\ Casa!Transfer(w, Pool, casaIn)
    /\ Spend!Transfer(w, Pool, spendIn)
    /\ position' = position \cup {w}
    /\ UNCHANGED <<treasuryVars, coreVars>>

(* Exit is never gated.                                                    *)
RemoveLiquidity(w, casaOut, spendOut) ==
    /\ w \in position
    /\ Casa!Transfer(Pool, w, casaOut)
    /\ Spend!Transfer(Pool, w, spendOut)
    /\ position' = position \ {w}
    /\ UNCHANGED <<treasuryVars, coreVars>>

(* Neither token gates its transfers: rail 1 ends with one, the agent      *)
(* settling an invoice from its own wallet.                                *)
TransferSpend(from, to, amount) ==
    /\ Spend!Transfer(from, to, amount)
    /\ UNCHANGED <<treasuryVars, casa, position, coreVars>>

TransferCasa(from, to, amount) ==
    /\ Casa!Transfer(from, to, amount)
    /\ UNCHANGED <<treasuryVars, spend, position, coreVars>>

(* Issuers latch and unlatch, claims expire, blocks pass.                  *)
Environment ==
    /\ cleared' \in SUBSET Owner
    /\ now' \in {now, now + 1}
    /\ now' <= MaxTime
    /\ UNCHANGED <<treasuryVars, casa, spend, position>>

OwnerStep ==
    \E o \in Owner :
        \/ \E agent \in Wallet, cap \in PerTxCap, expiresAt \in Deadline :
              GrantMandate(o, agent, cap, expiresAt)
        \/ RevokeMandate(o)
        \/ \E amount \in Amount : FundConcierge(o, amount)
        \/ \E amount \in Amount : ReclaimBudget(o, amount)
        \/ \E id \in House!PaymentId : ApprovePayment(o, id)

RailStep ==
    \/ \E w \in Wallet, amount \in Amount : Deposit(w, amount)
    \/ \E w, vendor \in Wallet, amount \in Amount : ProposePayment(w, vendor, amount)
    \/ \E id \in House!PaymentId : ExecutePayment(id)

PoolStep ==
    \E w \in Wallet :
        \/ \E x, y \in Amount : \E s \in {x, y} : SellCasa(w, x, y, s)
        \/ \E x, y \in Amount : \E s \in {x, y} : BuyCasa(w, x, y, s)
        \/ \E x, y \in Amount \cup {0} : AddLiquidity(w, x, y)
        \/ \E x, y \in Amount \cup {0} : RemoveLiquidity(w, x, y)

TransferStep ==
    \E from \in Wallet, to \in Holder, amount \in Amount :
        \/ TransferSpend(from, to, amount)
        \/ TransferCasa(from, to, amount)

Next == OwnerStep \/ RailStep \/ PoolStep \/ TransferStep \/ Environment

Spec == Init /\ [][Next]_vars

-----------------------------------------------------------------------------
(* Storage keeps its shape, no balance goes negative, and the payments     *)
(* known are exactly the ids handed out.                                   *)
Payment == [vendor : Wallet, amount : Amount, approvals : Nat, executed : BOOLEAN]

TypeOK ==
    /\ mandate \in [agent : Wallet \cup {NoWallet}, perTxCap : PerTxCap \cup {0},
                    expiresAt : Deadline \cup {0}, revoked : BOOLEAN]
    /\ nextPaymentId \in 1..(MaxPayments + 1)
    /\ payments \in [House!PaymentId -> Payment \cup {NoPayment}]
    /\ \A id \in House!PaymentId : House!Known(id) <=> id < nextPaymentId
    /\ approvedBy \in [House!PaymentId -> SUBSET Owner]
    /\ casa \in [Holder -> Nat]
    /\ spend \in [Holder -> Nat]
    /\ position \in SUBSET Wallet
    /\ cleared \in SUBSET Owner
    /\ now \in 1..MaxTime

(* The number compared with the threshold is the number of distinct owners *)
(* who approved (HouseTreasury.sol:208-217), and what was paid out had     *)
(* that many, whatever was granted, revoked or de-cleared in between.      *)
QuorumIsDistinctOwners ==
    \A id \in House!PaymentId :
        IF House!Known(id)
        THEN /\ payments[id].approvals = Cardinality(approvedBy[id])
             /\ payments[id].executed =>
                   Cardinality(approvedBy[id]) >= ApprovalThreshold
        ELSE approvedBy[id] = {}

(* No payment is ever stuck.  While as many owners as the threshold asks   *)
(* for are cleared, those of them who can approve it this moment make up   *)
(* what its count lacks; with its count full anybody can execute it, as    *)
(* soon as the treasury holds the sum.  Which owners were cleared when it  *)
(* was filed or approved, and what became of the mandate since, makes no   *)
(* difference (HouseTreasury.sol:206-227).                                 *)
QuorumStaysReachable ==
    \A id \in House!PaymentId :
        House!Known(id) /\ ~payments[id].executed =>
            IF payments[id].approvals < ApprovalThreshold
            THEN LET able == {o \in Owner : ENABLED ApprovePayment(o, id)}
                 IN  Cardinality(cleared) >= ApprovalThreshold =>
                        payments[id].approvals + Cardinality(able) >= ApprovalThreshold
            ELSE spend[Treasury] >= payments[id].amount =>
                    ENABLED ExecutePayment(id)

(* The kill switch on both rails: in a state where the mandate is absent,  *)
(* revoked or expired, or any one owner is not cleared, no payment is      *)
(* filed, and nobody but a compliant owner takes anything out of the pool, *)
(* save a liquidity provider leaving (HouseTreasury.sol:140-148,           *)
(* MandateHook.sol:52-68).                                                 *)
Halted ==
    \/ ~House!HasMandate
    \/ mandate.revoked
    \/ House!MandateExpired
    \/ ~(Owner \subseteq cleared)

DrawsFromPool(w) ==
    \/ casa'[Pool] < casa[Pool] /\ casa'[w] > casa[w]
    \/ spend'[Pool] < spend[Pool] /\ spend'[w] > spend[w]

KillSwitch ==
    [][Halted =>
          /\ nextPaymentId' = nextPaymentId
          /\ \A w \in Wallet \ position :
                DrawsFromPool(w) => House!IsCompliantOwner(w)]_vars

(* The per-transaction cap is enforced at the market, on the leg the agent *)
(* named: whatever a wallet that is no compliant owner swaps, one of the   *)
(* two legs is within the cap of the mandate (MandateHook.sol:59-66).      *)
CapBindsOneLeg ==
    [][\A w \in Wallet \ position :
          DrawsFromPool(w) /\ ~House!IsCompliantOwner(w) =>
              \/ casa'[Pool] - casa[Pool] \in -mandate.perTxCap .. mandate.perTxCap
              \/ spend'[Pool] - spend[Pool] \in -mandate.perTxCap .. mandate.perTxCap]_vars

(* The treasury's money leaves only for a payment that owners approved to  *)
(* the threshold, once, in the amount and to the vendor that were on the   *)
(* table when they approved (HouseTreasury.sol:206-227).                   *)
TreasuryPaysWhatWasApproved ==
    [][spend'[Treasury] < spend[Treasury] =>
          \E id \in House!PaymentId :
              /\ House!Known(id)
              /\ ~payments[id].executed
              /\ payments'[id].executed
              /\ Cardinality(approvedBy[id]) >= ApprovalThreshold
              /\ spend'[Treasury] = spend[Treasury] - payments[id].amount
              /\ spend'[payments[id].vendor] =
                    spend[payments[id].vendor] + payments[id].amount]_vars

(* A filed payment cannot be altered, refilled or un-executed, an approval *)
(* is never withdrawn, and each new one comes from an owner compliant at   *)
(* that moment: a revoked owner cannot push a queued payment over the      *)
(* threshold (HouseTreasury.sol:206-207).                                  *)
ApprovalsAreFinal ==
    [][\A id \in House!PaymentId :
          House!Known(id) =>
              /\ payments'[id] # NoPayment
              /\ payments'[id].vendor = payments[id].vendor
              /\ payments'[id].amount = payments[id].amount
              /\ payments[id].executed => payments'[id] = payments[id]
              /\ approvedBy[id] \subseteq approvedBy'[id]
              /\ approvedBy'[id] \ approvedBy[id] \subseteq Owner \cap cleared]_vars
=============================================================================
