--------------------------- MODULE HouseTreasury ----------------------------
(***************************************************************************)
(* contracts/src/agents/HouseTreasury.sol: the mandate a house gives its   *)
(* AI concierge, and the queue of payments its owners approve m-of-n.  The *)
(* treasury asks the gate about an owner on every read that matters; the   *)
(* gate's answers at this moment are the set cleared.  The tokens moved by *)
(* these calls are conjoined by House.                                     *)
(***************************************************************************)
EXTENDS Integers

CONSTANTS
    Wallet,             \* externally owned accounts
    Owner,              \* owners: fixed by the constructor, without duplicates
    ApprovalThreshold,  \* APPROVAL_THRESHOLD
    Amount,             \* amounts a call can name; none is zero
    PerTxCap,           \* caps a mandate can set
    Deadline,           \* mandate expiry times; 0 means it never expires
    MaxPayments,        \* model bound: payments proposed
    NoWallet, NoPayment

VARIABLES
    mandate,            \* the one mandate; its agent is NoWallet before a grant
    nextPaymentId,
    payments,           \* id -> payment or NoPayment
    approvedBy,         \* id -> owners whose flag is set
    cleared,            \* owners the gate clears for POLICY_ID now
    now                 \* block.timestamp

treasuryVars == <<mandate, nextPaymentId, payments, approvedBy>>

PaymentId == 1..MaxPayments

Init ==
    /\ mandate = [agent |-> NoWallet, perTxCap |-> 0, expiresAt |-> 0, revoked |-> FALSE]
    /\ nextPaymentId = 1
    /\ payments = [id \in PaymentId |-> NoPayment]
    /\ approvedBy = [id \in PaymentId |-> {}]

-----------------------------------------------------------------------------
HasMandate == mandate.agent # NoWallet

MandateExpired == mandate.expiresAt # 0 /\ now > mandate.expiresAt

(* Fault: one compliant owner is enough.                                   *)
InGoodStandingWithOneOwner(w) ==
    /\ HasMandate
    /\ w = mandate.agent
    /\ ~mandate.revoked
    /\ ~MandateExpired
    /\ Owner \cap cleared # {}

(* isAgentInGoodStanding: every owner, not only those needed for a quorum. *)
InGoodStanding(w) ==
    /\ HasMandate
    /\ w = mandate.agent
    /\ ~mandate.revoked
    /\ ~MandateExpired
    /\ Owner \subseteq cleared

IsCompliantOwner(w) == w \in Owner /\ w \in cleared

Known(id) == payments[id] # NoPayment

-----------------------------------------------------------------------------
(* Any single owner grants; the grant replaces whatever mandate stood.     *)
GrantMandate(o, agent, cap, expiresAt) ==
    /\ o \in Owner
    /\ mandate' = [agent |-> agent, perTxCap |-> cap, expiresAt |-> expiresAt,
                   revoked |-> FALSE]
    /\ UNCHANGED <<nextPaymentId, payments, approvedBy>>

RevokeMandate(o) ==
    /\ o \in Owner
    /\ HasMandate
    /\ mandate' = [mandate EXCEPT !.revoked = TRUE]
    /\ UNCHANGED <<nextPaymentId, payments, approvedBy>>

(* MaxPayments bounds the model.                                           *)
ProposePayment(w, vendor, amount) ==
    /\ nextPaymentId \in PaymentId
    /\ InGoodStanding(w)
    /\ payments' = [payments EXCEPT ![nextPaymentId] =
                      [vendor |-> vendor, amount |-> amount, approvals |-> 0,
                       executed |-> FALSE]]
    /\ nextPaymentId' = nextPaymentId + 1
    /\ UNCHANGED <<mandate, approvedBy>>

(* Faults: an owner approves twice; approvals end with the mandate; the    *)
(* gate is not asked about the approver.                                   *)
ApprovePaymentTwice(o, id) ==
    /\ IsCompliantOwner(o)
    /\ Known(id)
    /\ ~payments[id].executed
    /\ payments[id].approvals < ApprovalThreshold
    /\ approvedBy' = [approvedBy EXCEPT ![id] = @ \cup {o}]
    /\ payments' = [payments EXCEPT ![id].approvals = @ + 1]
    /\ UNCHANGED <<mandate, nextPaymentId>>

ApprovePaymentUnderMandate(o, id) ==
    /\ IsCompliantOwner(o)
    /\ ~mandate.revoked
    /\ Known(id)
    /\ ~payments[id].executed
    /\ o \notin approvedBy[id]
    /\ approvedBy' = [approvedBy EXCEPT ![id] = @ \cup {o}]
    /\ payments' = [payments EXCEPT ![id].approvals = @ + 1]
    /\ UNCHANGED <<mandate, nextPaymentId>>

ApprovePaymentUnasked(o, id) ==
    /\ o \in Owner
    /\ Known(id)
    /\ ~payments[id].executed
    /\ o \notin approvedBy[id]
    /\ approvedBy' = [approvedBy EXCEPT ![id] = @ \cup {o}]
    /\ payments' = [payments EXCEPT ![id].approvals = @ + 1]
    /\ UNCHANGED <<mandate, nextPaymentId>>

ApprovePayment(o, id) ==
    /\ IsCompliantOwner(o)
    /\ Known(id)
    /\ ~payments[id].executed
    /\ o \notin approvedBy[id]
    /\ approvedBy' = [approvedBy EXCEPT ![id] = @ \cup {o}]
    /\ payments' = [payments EXCEPT ![id].approvals = @ + 1]
    /\ UNCHANGED <<mandate, nextPaymentId>>

(* Fault: an executed payment is paid again.                               *)
ExecutePaymentAgain(id) ==
    /\ Known(id)
    /\ payments[id].approvals >= ApprovalThreshold
    /\ payments' = [payments EXCEPT ![id].executed = TRUE]
    /\ UNCHANGED <<mandate, nextPaymentId, approvedBy>>

(* Anyone executes; neither the mandate nor the owners are asked again.    *)
ExecutePayment(id) ==
    /\ Known(id)
    /\ ~payments[id].executed
    /\ payments[id].approvals >= ApprovalThreshold
    /\ payments' = [payments EXCEPT ![id].executed = TRUE]
    /\ UNCHANGED <<mandate, nextPaymentId, approvedBy>>
=============================================================================
