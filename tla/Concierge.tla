------------------------------ MODULE Concierge ------------------------------
(***************************************************************************)
(* The house concierge as the web app runs it: the handlers of             *)
(* apps/web/src/app/api/demo/concierge/route.ts over a House, the ticket   *)
(* feed they keep in memory (lib/demo/tickets.ts) and the x402 client that *)
(* settles invoices (lib/demo/x402.js).                                    *)
(*                                                                         *)
(* A write to the chain is simulated, sent and waited for (chain.ts,       *)
(* send): it may revert after a simulation that passed, and the receipt's  *)
(* status is not looked at.  Handlers interleave at every await.  A ticket *)
(* has one handler, so its record says what that handler does next; an     *)
(* approval takes one of the clerks.  The flag paid of a ticket says the   *)
(* same as its status and is left out, as are rationales and messages.     *)
(***************************************************************************)
EXTENDS Integers, FiniteSets, Sequences, Functions

CONSTANTS
    Wallet, Owner, ApprovalThreshold, Amount, PerTxCap, Deadline, MaxPayments,
    NoWallet, NoPayment, Treasury, Pool, InitialSpend, MaxTime, MaxScrip,
    Agent, Vendor,       \* the concierge's and the plumber's wallet
    Cap, ExpiresAt,      \* terms of the mandate the app grants
    Budget,              \* CASA of the agent after deployment
    Reserve,             \* mUSD of the treasury after deployment
    Depth,               \* CASA and mUSD of the pool after deployment
    Clerk,               \* approvals the server handles at one time
    MaxTickets,          \* model bound: tickets opened
    OwnVendor,           \* whether the vendor may be the app's own, or another
    MockRules,           \* DECIDER is mock, not a language model
    Failures             \* calls may throw after they took effect, or before

ASSUME ConciergeAssumption ==
    /\ Agent \in Wallet \ Owner
    /\ Vendor \in Wallet \ (Owner \cup {Agent})
    /\ Cap \in PerTxCap
    /\ ExpiresAt \in Deadline
    /\ Budget \in Nat /\ Reserve \in Nat /\ Depth \in Nat
    /\ MaxTickets \in Nat /\ MaxTickets <= MaxPayments
    /\ OwnVendor \cup {MockRules, Failures} \subseteq BOOLEAN

(* What the modules of the house assume of the same constants.             *)
ASSUME DeploymentAssumption ==
    /\ Owner \subseteq Wallet
    /\ IsFiniteSet(Owner)
    /\ ApprovalThreshold \in 1..Cardinality(Owner)
    /\ Amount \subseteq Nat \ {0}
    /\ PerTxCap \subseteq Nat
    /\ Deadline \subseteq Nat
    /\ MaxPayments \in Nat
    /\ InitialSpend \in Nat
    /\ MaxTime \in Nat \ {0}
    /\ MaxScrip \in Nat
    /\ NoWallet \notin Wallet
    /\ Treasury \notin Wallet
    /\ Pool \notin Wallet
    /\ Treasury # Pool
    /\ NoPayment \notin [vendor : Wallet, amount : Amount, approvals : Nat,
                         executed : BOOLEAN]

VARIABLES
    mandate, nextPaymentId, payments, approvedBy,
    casa, spend, position, cleared, now,            \* the House
    counter,     \* store.counter
    feed,        \* store.tickets: ids in the order they were added
    ticket,      \* id -> record, and what its handler does next
    clerk,       \* approval handlers
    filedFor,    \* payment id -> the ticket its evidenceHash commits to
    ownVendor    \* the vendor is the app's own plumber

H == INSTANCE House
T == INSTANCE HouseTreasury

houseVars == <<mandate, nextPaymentId, payments, approvedBy, casa, spend,
               position, cleared, now>>

ticketVars == <<counter, feed, ticket>>

vars == <<houseVars, ticketVars, clerk, filedFor, ownVendor>>

TicketId == 1..MaxTickets

Unopened == [step |-> "unopened", status |-> "none", paymentId |-> 0, landed |-> {}]

Idle == [step |-> "idle"]

(* DeployAll.s.sol leaves a funded treasury, a pool and a standing mandate. *)
Init ==
    /\ mandate = [agent |-> Agent, perTxCap |-> Cap, expiresAt |-> ExpiresAt,
                  revoked |-> FALSE]
    /\ nextPaymentId = 1
    /\ payments = [id \in T!PaymentId |-> NoPayment]
    /\ approvedBy = [id \in T!PaymentId |-> {}]
    /\ casa = [h \in H!Holder |-> CASE h = Agent -> Budget [] h = Pool -> Depth [] OTHER -> 0]
    /\ spend = [h \in H!Holder |->
                  CASE h = Treasury -> Reserve [] h = Pool -> Depth [] OTHER -> 0]
    /\ \E o \in Owner : position = {o}
    /\ cleared = Owner
    /\ now = 1
    /\ counter = 0
    /\ feed = <<>>
    /\ ticket = [i \in TicketId |-> Unopened]
    /\ clerk = [c \in Clerk |-> Idle]
    /\ filedFor = [id \in T!PaymentId |-> 0]
    /\ ownVendor \in OwnVendor

(* Whether the answer of a call reaches the handler that made it.          *)
Heard == IF Failures THEN BOOLEAN ELSE {TRUE}

-----------------------------------------------------------------------------
(* doTicket.  A record carries what its handler has read, the offer it is  *)
(* to pay, and which of its transactions of rail 1 landed.                 *)
At(i, step) == ticket[i].step = step

Move(i, step) == ticket' = [ticket EXCEPT ![i].step = step]

Close(i, status) == ticket' = [ticket EXCEPT ![i].step = "done", ![i].status = status]

(* Fault: two tickets share an id.                                         *)
OpenTicketSameId(amount) ==
    /\ counter < MaxTickets
    /\ ticket' = [ticket EXCEPT ![counter + 1] =
                    [step |-> "decide", status |-> "none", paymentId |-> 0, landed |-> {},
                     amount |-> amount, read |-> (casa[Agent] * 98) \div 100,
                     offer |-> [payTo |-> Vendor, amount |-> amount]]]
    /\ UNCHANGED <<houseVars, counter, feed, clerk, filedFor, ownVendor>>

OpenTicket(amount) ==
    /\ counter < MaxTickets
    /\ counter' = counter + 1
    /\ ticket' = [ticket EXCEPT ![counter + 1] =
                    [step |-> "decide", status |-> "none", paymentId |-> 0, landed |-> {},
                     amount |-> amount, read |-> (casa[Agent] * 98) \div 100,
                     offer |-> [payTo |-> Vendor, amount |-> amount]]]
    /\ UNCHANGED <<houseVars, feed, clerk, filedFor, ownVendor>>

MockDecide(amount, allowed, cap, budget) ==
    CASE ~allowed -> "reject"
      [] allowed /\ amount <= cap /\ amount <= budget -> "pay"
      [] OTHER -> "propose"

(* A language model says any of the three; where it fails the rules do.    *)
Decisions(i, allowed) ==
    IF MockRules
    THEN {MockDecide(ticket[i].amount, allowed, mandate.perTxCap, ticket[i].read)}
    ELSE {"pay", "propose", "reject"}

Decide(i, allowed) ==
    /\ At(i, "decide")
    /\ \E d \in Decisions(i, allowed) :
          ticket' = [ticket EXCEPT
                       ![i].step = CASE d = "pay" -> "swap" [] d = "propose" -> "propose"
                                     [] d = "reject" -> "done",
                       ![i].status = IF d = "reject" THEN "rejected" ELSE d]
    /\ feed' = Append(feed, i)
    /\ UNCHANGED <<houseVars, counter, clerk, filedFor, ownVendor>>

(* Rail 1, first leg: an exact-output sale of CASA at the pool's price.    *)
CanSwap(i, casaIn) ==
    /\ H!MaySwap(Agent, ticket[i].amount)
    /\ casa[Agent] >= casaIn
    /\ spend[Pool] >= ticket[i].amount

SimulateSwap(i) ==
    /\ At(i, "swap")
    /\ \E casaIn \in Amount, heard \in Heard :
          IF CanSwap(i, casaIn) /\ heard
          THEN Move(i, "sendSwap")
          ELSE Close(i, "refused")
    /\ UNCHANGED <<houseVars, counter, feed, clerk, filedFor, ownVendor>>

SendSwap(i) ==
    /\ At(i, "sendSwap")
    /\ \E casaIn \in Amount, heard \in Heard :
          /\ IF CanSwap(i, casaIn)
             THEN H!SellCasa(Agent, casaIn, ticket[i].amount, ticket[i].amount)
             ELSE UNCHANGED houseVars
          /\ ticket' = [ticket EXCEPT
                ![i].landed = IF CanSwap(i, casaIn) THEN {"swap"} ELSE {},
                ![i].step   = IF heard THEN "invoice" ELSE "done",
                ![i].status = IF heard THEN @ ELSE "refused"]
    /\ UNCHANGED <<counter, feed, clerk, filedFor, ownVendor>>

(* settleInvoice.  The vendor may answer anything: that it is paid, an     *)
(* offer, or something that is no offer.                                   *)
Offer == [payTo : Wallet, amount : Amount]

OwnOffer(i) == [payTo |-> Vendor, amount |-> ticket[i].amount]

(* Fault: the client checks the recipient and not the sum.                 *)
MismatchedPayToOnly(i, offer) == offer.payTo # Vendor

Mismatched(i, offer) == offer.payTo # Vendor \/ offer.amount # ticket[i].amount

FetchOffer(i) ==
    /\ At(i, "invoice")
    /\ \E offer \in IF ownVendor THEN {OwnOffer(i)} ELSE Offer, heard \in Heard :
          IF heard /\ ~Mismatched(i, offer)
          THEN ticket' = [ticket EXCEPT ![i].step = "pay", ![i].offer = offer]
          ELSE Close(i, "unsettled")
    /\ UNCHANGED <<houseVars, counter, feed, clerk, filedFor, ownVendor>>

FetchNoOffer(i) ==
    /\ At(i, "invoice")
    /\ ~ownVendor
    /\ \E status \in {"paid", "unsettled"} : Close(i, status)
    /\ UNCHANGED <<houseVars, counter, feed, clerk, filedFor, ownVendor>>

SimulatePay(i) ==
    /\ At(i, "pay")
    /\ \E heard \in Heard :
          IF heard /\ spend[Agent] >= ticket[i].offer.amount
          THEN Move(i, "sendPay")
          ELSE Close(i, "unsettled")
    /\ UNCHANGED <<houseVars, counter, feed, clerk, filedFor, ownVendor>>

SendPay(i) ==
    /\ At(i, "sendPay")
    /\ LET offer == ticket[i].offer
           lands == spend[Agent] >= offer.amount
       IN  \E heard \in Heard :
             /\ IF lands
                THEN H!TransferSpend(Agent, offer.payTo, offer.amount)
                ELSE UNCHANGED houseVars
             /\ ticket' = [ticket EXCEPT
                   ![i].landed = IF lands THEN @ \cup {"pay"} ELSE @,
                   ![i].step   = IF heard THEN "receipt" ELSE "done",
                   ![i].status = IF heard THEN @ ELSE "unsettled"]
    /\ UNCHANGED <<counter, feed, clerk, filedFor, ownVendor>>

(* Fault: the vendor takes the client's word for it.                       *)
VerifyNothing(i) == TRUE

(* verifyPayment: a receipt that succeeded and credits the plumber.        *)
VerifyPayment(i) ==
    /\ "pay" \in ticket[i].landed
    /\ ticket[i].offer.payTo = Vendor
    /\ ticket[i].offer.amount >= ticket[i].amount

ShowReceipt(i) ==
    /\ At(i, "receipt")
    /\ \E heard \in Heard, word \in IF ownVendor THEN {VerifyPayment(i)} ELSE BOOLEAN :
          Close(i, IF heard /\ word THEN "paid" ELSE "unsettled")
    /\ UNCHANGED <<houseVars, counter, feed, clerk, filedFor, ownVendor>>

-----------------------------------------------------------------------------
(* Rail 2: the payment is filed, and the ticket names it by the id the     *)
(* simulation returned.                                                    *)
SimulatePropose(i) ==
    /\ At(i, "propose")
    /\ \E heard \in Heard :
          IF heard /\ T!InGoodStanding(Agent)
          THEN ticket' = [ticket EXCEPT ![i].step = "sendPropose", ![i].read = nextPaymentId]
          ELSE Close(i, "refused")
    /\ UNCHANGED <<houseVars, counter, feed, clerk, filedFor, ownVendor>>

SendPropose(i) ==
    /\ At(i, "sendPropose")
    /\ IF T!InGoodStanding(Agent)
       THEN /\ H!ProposePayment(Agent, Vendor, ticket[i].amount)
            /\ filedFor' = [filedFor EXCEPT ![nextPaymentId] = i]
       ELSE UNCHANGED <<houseVars, filedFor>>
    /\ \E heard \in Heard : IF heard THEN Move(i, "record") ELSE Close(i, "refused")
    /\ UNCHANGED <<counter, feed, clerk, ownVendor>>

RecordProposal(i) ==
    /\ At(i, "record")
    /\ ticket' = [ticket EXCEPT ![i].step = "done", ![i].status = "pending-approval",
                                ![i].paymentId = ticket[i].read,
                                ![i].read = 0]
    /\ UNCHANGED <<houseVars, counter, feed, clerk, filedFor, ownVendor>>

-----------------------------------------------------------------------------
(* doApprove, by one clerk.                                                *)
Busy(c, step) == clerk[c].step = step

Turn(c, step) == clerk' = [clerk EXCEPT ![c].step = step]

Rest(c) == clerk' = [clerk EXCEPT ![c] = Idle]

CanApprove(o, id) ==
    /\ T!IsCompliantOwner(o)
    /\ T!Known(id)
    /\ ~payments[id].executed
    /\ o \notin approvedBy[id]

BeginApprove(c, o, id) ==
    /\ Busy(c, "idle")
    /\ CanApprove(o, id)
    /\ clerk' = [clerk EXCEPT ![c] = [step |-> "sendApprove", id |-> id, owner |-> o]]
    /\ UNCHANGED <<houseVars, ticketVars, filedFor, ownVendor>>

SendApprove(c) ==
    /\ Busy(c, "sendApprove")
    /\ IF CanApprove(clerk[c].owner, clerk[c].id)
       THEN H!ApprovePayment(clerk[c].owner, clerk[c].id)
       ELSE UNCHANGED houseVars
    /\ \/ clerk' = [clerk EXCEPT ![c] = [step |-> "read", id |-> clerk[c].id]]
       \/ Failures /\ Rest(c)
    /\ UNCHANGED <<ticketVars, filedFor, ownVendor>>

(* Fault: the last approval is not seen as the last.                       *)
ReadPaymentPastThreshold(c) ==
    /\ Busy(c, "read")
    /\ LET p == payments[clerk[c].id]
       IN  Turn(c, CASE p.executed -> "reportExecuted"
                     [] ~p.executed /\ p.approvals > ApprovalThreshold -> "execute"
                     [] OTHER -> "reportPending")
    /\ UNCHANGED <<houseVars, ticketVars, filedFor, ownVendor>>

ReadPayment(c) ==
    /\ Busy(c, "read")
    /\ LET p == payments[clerk[c].id]
       IN  Turn(c, CASE p.executed -> "reportExecuted"
                     [] ~p.executed /\ p.approvals >= ApprovalThreshold -> "execute"
                     [] OTHER -> "reportPending")
    /\ UNCHANGED <<houseVars, ticketVars, filedFor, ownVendor>>

CanExecute(id) ==
    /\ ~payments[id].executed
    /\ payments[id].approvals >= ApprovalThreshold
    /\ spend[Treasury] >= payments[id].amount

(* A simulation that fails throws: the ticket is not touched.              *)
SimulateExecute(c) ==
    /\ Busy(c, "execute")
    /\ \/ CanExecute(clerk[c].id) /\ Turn(c, "sendExecute")
       \/ (Failures \/ ~CanExecute(clerk[c].id)) /\ Rest(c)
    /\ UNCHANGED <<houseVars, ticketVars, filedFor, ownVendor>>

SendExecute(c) ==
    /\ Busy(c, "sendExecute")
    /\ IF CanExecute(clerk[c].id)
       THEN H!ExecutePayment(clerk[c].id)
       ELSE UNCHANGED houseVars
    /\ \/ Turn(c, "reportExecuted")
       \/ Failures /\ Rest(c)
    /\ UNCHANGED <<ticketVars, filedFor, ownVendor>>

(* findTicketByPaymentId: the first in the feed.                           *)
Naming(id) == {n \in 1..Len(feed) : ticket[feed[n]].paymentId = id}

FoundTicket(id) == feed[CHOOSE n \in Naming(id) : \A m \in Naming(id) : n <= m]

(* Fault: whoever approves reports the payment as executed.                *)
ReportAnyApproval(c) ==
    /\ clerk[c].step \in {"reportExecuted", "reportPending"}
    /\ ticket' = IF Naming(clerk[c].id) = {}
                 THEN ticket
                 ELSE [ticket EXCEPT ![FoundTicket(clerk[c].id)].status = "executed"]
    /\ Rest(c)
    /\ UNCHANGED <<houseVars, counter, feed, filedFor, ownVendor>>

ReportApproval(c) ==
    /\ clerk[c].step \in {"reportExecuted", "reportPending"}
    /\ ticket' = IF Naming(clerk[c].id) = {}
                 THEN ticket
                 ELSE [ticket EXCEPT ![FoundTicket(clerk[c].id)].status =
                         IF Busy(c, "reportExecuted") THEN "executed" ELSE "pending-approval"]
    /\ Rest(c)
    /\ UNCHANGED <<houseVars, counter, feed, filedFor, ownVendor>>

-----------------------------------------------------------------------------
(* The remaining requests are one write each; one that reverts changes     *)
(* nothing.  The operator is an owner.                                     *)
offChain == <<ticketVars, clerk, filedFor, ownVendor>>

Fund(amount) ==
    /\ \E o \in Owner : H!FundConcierge(o, amount)
    /\ UNCHANGED offChain

GrantMandate ==
    /\ \E o \in Owner : H!GrantMandate(o, Agent, Cap, ExpiresAt)
    /\ UNCHANGED offChain

RevokeMandate ==
    /\ \E o \in Owner : H!RevokeMandate(o)
    /\ UNCHANGED offChain

(* One flip of the issuer's latch; the latch opened again, and a fresh     *)
(* claim where the stored one expired; time passing, which expires claims. *)
RevokeOwnerKyc(o) ==
    /\ cleared' = cleared \ {o}
    /\ now' = now
    /\ H!Environment
    /\ UNCHANGED offChain

RestoreOwnerKyc(o) ==
    /\ cleared' = cleared \cup {o}
    /\ now' = now
    /\ H!Environment
    /\ UNCHANGED offChain

Timewarp ==
    /\ now' = now + 1
    /\ cleared' \in SUBSET cleared
    /\ H!Environment
    /\ UNCHANGED offChain

-----------------------------------------------------------------------------
TicketStep(i) ==
    \/ \E allowed \in BOOLEAN : Decide(i, allowed)
    \/ SimulateSwap(i)
    \/ SendSwap(i)
    \/ FetchOffer(i)
    \/ FetchNoOffer(i)
    \/ SimulatePay(i)
    \/ SendPay(i)
    \/ ShowReceipt(i)
    \/ SimulatePropose(i)
    \/ SendPropose(i)
    \/ RecordProposal(i)

ClerkStep(c) ==
    \/ \E o \in Owner, id \in T!PaymentId : BeginApprove(c, o, id)
    \/ SendApprove(c)
    \/ ReadPayment(c)
    \/ SimulateExecute(c)
    \/ SendExecute(c)
    \/ ReportApproval(c)

OwnerStep ==
    \/ \E amount \in Amount : Fund(amount)
    \/ GrantMandate
    \/ RevokeMandate
    \/ \E o \in Owner : RevokeOwnerKyc(o) \/ RestoreOwnerKyc(o)
    \/ Timewarp

Next ==
    \/ \E amount \in Amount : OpenTicket(amount)
    \/ \E i \in TicketId : TicketStep(i)
    \/ \E c \in Clerk : ClerkStep(c)
    \/ OwnerStep

Spec == Init /\ [][Next]_vars

-----------------------------------------------------------------------------
(* Records keep their shape at every step of their handlers.               *)
TicketRecord ==
    {Unopened}
    \cup [step : {"decide", "swap", "sendSwap", "invoice", "pay", "sendPay", "receipt",
                  "propose", "sendPropose", "record", "done"},
          status : {"none", "pay", "propose", "rejected", "refused", "paid", "unsettled",
                    "pending-approval", "executed"},
          paymentId : Nat, landed : SUBSET {"swap", "pay"},
          amount : Amount, read : Nat, offer : Offer]

ClerkRecord ==
    {Idle}
    \cup [step : {"sendApprove"}, id : T!PaymentId, owner : Owner]
    \cup [step : {"read", "execute", "sendExecute", "reportExecuted", "reportPending"},
          id : T!PaymentId]

TypeOK ==
    /\ H!TypeOK
    /\ counter \in 0..MaxTickets
    /\ feed \in Seq(TicketId)
    /\ ticket \in [TicketId -> TicketRecord]
    /\ \A i \in TicketId : ticket[i].step = "unopened" <=> i > counter
    /\ clerk \in [Clerk -> ClerkRecord]
    /\ filedFor \in [T!PaymentId -> TicketId \cup {0}]
    /\ ownVendor \in OwnVendor

(* Every coin the agent or the plumber holds is accounted for by tickets   *)
(* and executed payments: whatever an untrusted vendor answers, and        *)
(* however two tickets interleave or calls fail, the agent parts with what *)
(* a ticket says, to the plumber, at most once per ticket                  *)
(* (route.ts:134-149, x402.js:16-26, 56-61).                               *)
Total(S) == FoldFunction(+, 0, [i \in S |-> ticket[i].amount])

Landed(leg) == {i \in TicketId : leg \in ticket[i].landed}

Executed == {id \in T!PaymentId : T!Known(id) /\ payments[id].executed}

CoinsAreAccounted ==
    /\ spend[Agent] = Total(Landed("swap")) - Total(Landed("pay"))
    /\ spend[Vendor] = Total(Landed("pay"))
                         + FoldFunction(+, 0, [id \in Executed |-> payments[id].amount])

(* With the app's own plumber a ticket marked paid was paid on chain, even *)
(* though the client never looks at a receipt: the vendor does             *)
(* (vendor/invoice/route.ts:57-76, x402.js:61-72).                         *)
PaidMeansReceived ==
    \A i \in TicketId :
        ownVendor /\ ticket[i].status = "paid" => "pay" \in ticket[i].landed

(* Where no call fails, and once no approval of it is being handled, a     *)
(* payment with a full quorum has been executed, unless the treasury       *)
(* cannot pay it (route.ts:244-254): of several owners approving at once   *)
(* the last one to land sees the quorum.                                   *)
NothingSitsApproved ==
    \A id \in T!PaymentId :
        /\ ~Failures
        /\ T!Known(id)
        /\ payments[id].approvals >= ApprovalThreshold
        /\ \A c \in Clerk : ~Busy(c, "idle") => clerk[c].id # id
        => payments[id].executed \/ spend[Treasury] < payments[id].amount

(* A ticket shown as executed names a payment that was executed, although  *)
(* nobody checks that the transaction did not revert: it can only have     *)
(* reverted because another approval executed the payment first, or for    *)
(* want of money (route.ts:250-260, chain.ts:379-381).                     *)
ShownExecutedIsExecuted ==
    \A i \in TicketId :
        ticket[i].status = "executed" =>
            LET p == payments[ticket[i].paymentId]
            IN  p # NoPayment /\ (p.executed \/ spend[Treasury] < p.amount)

(* chain.ts:362-363 calls the simulated return value "proposePayment's new *)
(* id": the payment a ticket names is the one filed with its evidence.  It *)
(* fails when two tickets are simulated before either is mined, or when    *)
(* the transaction reverts after its simulation.                           *)
TicketNamesItsPayment ==
    \A i \in TicketId : ticket[i].paymentId # 0 => filedFor[ticket[i].paymentId] = i
=============================================================================
