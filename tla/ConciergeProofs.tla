--------------------------- MODULE ConciergeProofs --------------------------
(***************************************************************************)
(* Proofs about the concierge runtime, for any number of tickets, clerks,  *)
(* wallets and amounts, with or without failing calls.                     *)
(*                                                                         *)
(* Every handler's effect on the chain is a call the house accepts, so the *)
(* house keeps its types whatever the handlers do.  What a ticket shows    *)
(* then follows from what each clerk has seen of the payment it handles,   *)
(* and from the treasury's balance never rising: what it cannot pay now it *)
(* cannot pay later.                                                       *)
(***************************************************************************)
EXTENDS Concierge, SumTheorems

HP == INSTANCE HouseProofs

-----------------------------------------------------------------------------
(* The assumptions of the house hold, and its facts may be used.           *)
LEMMA SameFinite == HP!IsFiniteSet(Owner) <=> IsFiniteSet(Owner)
BY DEF HP!IsFiniteSet, IsFiniteSet

LEMMA SameCardinality == HP!Cardinality(Owner) = Cardinality(Owner)
BY DEF HP!Cardinality, Cardinality

LEMMA HouseAssumed == HP!HouseAssumption /\ HP!NameAssumption
<1>1. HP!HouseAssumption
  BY DeploymentAssumption, SameFinite, SameCardinality
     DEF DeploymentAssumption, HP!HouseAssumption
<1>2. HP!NameAssumption
  BY DeploymentAssumption DEF DeploymentAssumption, HP!NameAssumption
<1> QED
  BY <1>1, <1>2

LEMMA SameType == H!TypeOK <=> HP!TypeOK
BY DEF H!TypeOK, HP!TypeOK, H!House!Known, HP!House!Known, H!House!PaymentId,
       HP!House!PaymentId, H!Payment, HP!Payment, H!Holder, HP!Holder

LEMMA HouseTypeStep == H!TypeOK /\ HP!Next => H!TypeOK'
<1>1. HP!TypeOK /\ HP!Next => HP!TypeOK'
  BY HouseAssumed, HP!TypeStep
<1>2. HP!TypeOK' => H!TypeOK'
  BY SameType, PTL
<1> QED
  BY <1>1, <1>2, SameType

-----------------------------------------------------------------------------
(* The calls the handlers make are steps of the house.                     *)
USE DEF HP!Next

LEMMA SellIsHouse ==
    ASSUME NEW x \in Amount, NEW y \in Amount, H!SellCasa(Agent, x, y, y)
    PROVE  HP!Next
<1>1. HP!SellCasa(Agent, x, y, y)
  BY DEF H!SellCasa, H!MaySwap, H!Hook!BeforeSwap, H!House!IsCompliantOwner,
         H!House!InGoodStanding, H!House!HasMandate, H!House!MandateExpired,
         H!Casa!Transfer, H!Spend!Transfer, H!treasuryVars, H!coreVars,
         HP!SellCasa, HP!MaySwap, HP!Hook!BeforeSwap, HP!House!IsCompliantOwner,
         HP!House!InGoodStanding, HP!House!HasMandate, HP!House!MandateExpired,
         HP!Casa!Transfer, HP!Spend!Transfer, HP!treasuryVars, HP!coreVars
<1>2. Agent \in Wallet
  BY ConciergeAssumption DEF ConciergeAssumption
<1> QED
  BY <1>1, <1>2 DEF HP!PoolStep

LEMMA PayIsHouse ==
    ASSUME NEW w \in Wallet, NEW a \in Amount, H!TransferSpend(Agent, w, a)
    PROVE  HP!Next
<1>1. HP!TransferSpend(Agent, w, a)
  BY DEF H!TransferSpend, H!Spend!Transfer, H!treasuryVars, H!coreVars,
         HP!TransferSpend, HP!Spend!Transfer, HP!treasuryVars, HP!coreVars
<1>2. Agent \in Wallet /\ w \in HP!Holder
  BY ConciergeAssumption DEF ConciergeAssumption, HP!Holder
<1> QED
  BY <1>1, <1>2 DEF HP!TransferStep

LEMMA ProposeIsHouse ==
    ASSUME NEW a \in Amount, H!ProposePayment(Agent, Vendor, a)
    PROVE  HP!Next
<1>1. HP!ProposePayment(Agent, Vendor, a)
  BY DEF H!ProposePayment, H!House!ProposePayment, H!House!InGoodStanding,
         H!House!HasMandate, H!House!MandateExpired, H!House!PaymentId, H!coreVars,
         HP!ProposePayment, HP!House!ProposePayment, HP!House!InGoodStanding,
         HP!House!HasMandate, HP!House!MandateExpired, HP!House!PaymentId, HP!coreVars
<1>2. Agent \in Wallet /\ Vendor \in Wallet
  BY ConciergeAssumption DEF ConciergeAssumption
<1> QED
  BY <1>1, <1>2 DEF HP!RailStep

LEMMA ApproveIsHouse ==
    ASSUME NEW o \in Owner, NEW id \in T!PaymentId, H!ApprovePayment(o, id)
    PROVE  HP!Next
<1>1. HP!ApprovePayment(o, id)
  BY DEF H!ApprovePayment, H!House!ApprovePayment, H!House!IsCompliantOwner,
         H!House!Known, H!coreVars,
         HP!ApprovePayment, HP!House!ApprovePayment, HP!House!IsCompliantOwner,
         HP!House!Known, HP!coreVars
<1> QED
  BY <1>1 DEF HP!OwnerStep, HP!House!PaymentId, T!PaymentId

LEMMA ExecuteIsHouse ==
    ASSUME NEW id \in T!PaymentId, H!ExecutePayment(id)
    PROVE  HP!Next
<1>1. HP!ExecutePayment(id)
  BY DEF H!ExecutePayment, H!House!ExecutePayment, H!House!Known, H!Spend!Transfer,
         H!coreVars,
         HP!ExecutePayment, HP!House!ExecutePayment, HP!House!Known, HP!Spend!Transfer,
         HP!coreVars
<1> QED
  BY <1>1 DEF HP!RailStep, HP!House!PaymentId, T!PaymentId

LEMMA FundIsHouse ==
    ASSUME NEW o \in Owner, NEW a \in Amount, H!FundConcierge(o, a)
    PROVE  HP!Next
<1>1. HP!FundConcierge(o, a)
  BY DEF H!FundConcierge, H!House!HasMandate, H!Casa!Mint, H!treasuryVars, H!coreVars,
         HP!FundConcierge, HP!House!HasMandate, HP!Casa!Mint, HP!treasuryVars, HP!coreVars,
         H!FoldFunction, H!FoldFunctionOnSet, H!MapThenFoldSet,
         HP!FoldFunction, HP!FoldFunctionOnSet, HP!MapThenFoldSet
<1> QED
  BY <1>1 DEF HP!OwnerStep

LEMMA GrantIsHouse ==
    ASSUME NEW o \in Owner, H!GrantMandate(o, Agent, Cap, ExpiresAt)
    PROVE  HP!Next
<1>1. HP!GrantMandate(o, Agent, Cap, ExpiresAt)
  BY DEF H!GrantMandate, H!House!GrantMandate, H!coreVars,
         HP!GrantMandate, HP!House!GrantMandate, HP!coreVars
<1>2. Agent \in Wallet /\ Cap \in PerTxCap /\ ExpiresAt \in Deadline
  BY ConciergeAssumption DEF ConciergeAssumption
<1> QED
  BY <1>1, <1>2 DEF HP!OwnerStep

LEMMA RevokeIsHouse ==
    ASSUME NEW o \in Owner, H!RevokeMandate(o)
    PROVE  HP!Next
<1>1. HP!RevokeMandate(o)
  BY DEF H!RevokeMandate, H!House!RevokeMandate, H!House!HasMandate, H!coreVars,
         HP!RevokeMandate, HP!House!RevokeMandate, HP!House!HasMandate, HP!coreVars
<1> QED
  BY <1>1 DEF HP!OwnerStep

LEMMA EnvironmentIsHouse == H!Environment => HP!Next
BY DEF H!Environment, HP!Environment, H!treasuryVars, HP!treasuryVars
-----------------------------------------------------------------------------
(* A ticket once opened.                                                   *)
TicketSteps == {"decide", "swap", "sendSwap", "invoice", "pay", "sendPay", "receipt",
                "propose", "sendPropose", "record", "done"}

TicketStatus == {"none", "pay", "propose", "rejected", "refused", "paid", "unsettled",
                 "pending-approval", "executed"}

Opened ==
    [step : TicketSteps, status : TicketStatus, paymentId : Nat,
     landed : SUBSET {"swap", "pay"}, amount : Amount, read : Nat, offer : Offer]

RuntimeType ==
    /\ counter \in 0..MaxTickets
    /\ feed \in Seq(TicketId)
    /\ ticket \in [TicketId -> TicketRecord]
    /\ \A i \in TicketId : ticket[i].step = "unopened" <=> i > counter
    /\ clerk \in [Clerk -> ClerkRecord]
    /\ filedFor \in [T!PaymentId -> TicketId \cup {0}]
    /\ ownVendor \in OwnVendor

LEMMA TypeParts == TypeOK <=> H!TypeOK /\ RuntimeType
BY DEF TypeOK, RuntimeType

LEMMA RecordParts == TicketRecord = {Unopened} \cup Opened
BY DEF TicketRecord, Opened, TicketSteps, TicketStatus

LEMMA OpenedOnes ==
    ASSUME RuntimeType, NEW i \in TicketId, ticket[i].step # "unopened"
    PROVE  ticket[i] \in Opened
BY RecordParts DEF RuntimeType, Unopened

(* What an edit of an opened ticket leaves.                                *)
LEMMA EditStep ==
    ASSUME NEW r \in Opened, NEW s \in TicketSteps
    PROVE  /\ [r EXCEPT !.step = s] \in Opened
           /\ [r EXCEPT !.step = s].step = s
           /\ [r EXCEPT !.step = s].status = r.status
           /\ [r EXCEPT !.step = s].landed = r.landed
           /\ [r EXCEPT !.step = s].paymentId = r.paymentId
           /\ [r EXCEPT !.step = s].amount = r.amount
           /\ [r EXCEPT !.step = s].offer = r.offer
BY DEF Opened

LEMMA EditStatus ==
    ASSUME NEW r \in Opened, NEW s \in TicketStatus
    PROVE  /\ [r EXCEPT !.status = s] \in Opened
           /\ [r EXCEPT !.status = s].step = r.step
           /\ [r EXCEPT !.status = s].status = s
           /\ [r EXCEPT !.status = s].landed = r.landed
           /\ [r EXCEPT !.status = s].paymentId = r.paymentId
           /\ [r EXCEPT !.status = s].amount = r.amount
           /\ [r EXCEPT !.status = s].offer = r.offer
BY DEF Opened

LEMMA EditRead ==
    ASSUME NEW r \in Opened, NEW n \in Nat
    PROVE  /\ [r EXCEPT !.read = n] \in Opened
           /\ [r EXCEPT !.read = n].step = r.step
           /\ [r EXCEPT !.read = n].status = r.status
           /\ [r EXCEPT !.read = n].landed = r.landed
           /\ [r EXCEPT !.read = n].paymentId = r.paymentId
           /\ [r EXCEPT !.read = n].amount = r.amount
           /\ [r EXCEPT !.read = n].offer = r.offer
BY DEF Opened

LEMMA EditLanded ==
    ASSUME NEW r \in Opened, NEW l \in SUBSET {"swap", "pay"}
    PROVE  /\ [r EXCEPT !.landed = l] \in Opened
           /\ [r EXCEPT !.landed = l].step = r.step
           /\ [r EXCEPT !.landed = l].status = r.status
           /\ [r EXCEPT !.landed = l].paymentId = r.paymentId
           /\ [r EXCEPT !.landed = l].amount = r.amount
           /\ [r EXCEPT !.landed = l].offer = r.offer
           /\ [r EXCEPT !.landed = l].landed = l
BY DEF Opened

LEMMA EditOffer ==
    ASSUME NEW r \in Opened, NEW o \in Offer
    PROVE  /\ [r EXCEPT !.offer = o] \in Opened
           /\ [r EXCEPT !.offer = o].step = r.step
           /\ [r EXCEPT !.offer = o].status = r.status
           /\ [r EXCEPT !.offer = o].landed = r.landed
           /\ [r EXCEPT !.offer = o].paymentId = r.paymentId
           /\ [r EXCEPT !.offer = o].amount = r.amount
           /\ [r EXCEPT !.offer = o].offer = o
BY DEF Opened

LEMMA EditPayment ==
    ASSUME NEW r \in Opened, NEW n \in Nat
    PROVE  /\ [r EXCEPT !.paymentId = n] \in Opened
           /\ [r EXCEPT !.paymentId = n].step = r.step
           /\ [r EXCEPT !.paymentId = n].status = r.status
           /\ [r EXCEPT !.paymentId = n].landed = r.landed
           /\ [r EXCEPT !.paymentId = n].amount = r.amount
           /\ [r EXCEPT !.paymentId = n].offer = r.offer
BY DEF Opened

(* A least element, for the first ticket of the feed that names a payment. *)
LEMMA Least ==
    ASSUME NEW S \in SUBSET Nat, S # {}
    PROVE  \E n \in S : \A m \in S : n <= m
<1>1. PICK n \in S : \A m \in S : ~ (<<m, n>> \in OpToRel(<, Nat))
  BY NatLessThanWellFounded, WFMin
<1>2. \A m \in S : ~ (m < n)
  BY <1>1 DEF OpToRel
<1> QED
  BY <1>2
-----------------------------------------------------------------------------
(* A handler of doTicket rewrites its own ticket, which is not yet done.   *)
OnlyWhenDone ==
    \A i \in TicketId :
        ticket[i].status \in {"paid", "executed"} \/ ticket[i].paymentId # 0
            => ticket[i].step = "done"

PaidIsPaid(r) ==
    /\ r.status # "executed"
    /\ r.status = "paid" => r.step = "done" /\ (ownVendor => "pay" \in r.landed)
    /\ r.paymentId # 0 => r.step = "done"

TicketRewrite(i) ==
    /\ ticket[i].step \notin {"unopened", "done"}
    /\ \E r \in Opened : ticket' = [ticket EXCEPT ![i] = r] /\ PaidIsPaid(r)

LEMMA Pending ==
    ASSUME RuntimeType, OnlyWhenDone, NEW i \in TicketId,
           ticket[i].step \notin {"unopened", "done"}
    PROVE  /\ ticket[i] \in Opened
           /\ ticket[i].status \notin {"paid", "executed"}
           /\ ticket[i].paymentId = 0
BY OpenedOnes DEF OnlyWhenDone

LEMMA MoveEffect ==
    ASSUME RuntimeType, OnlyWhenDone, NEW i \in TicketId,
           ticket[i].step \notin {"unopened", "done"},
           NEW s \in TicketSteps, Move(i, s)
    PROVE  TicketRewrite(i)
<1> DEFINE r == [ticket[i] EXCEPT !.step = s]
<1>1. ticket' = [ticket EXCEPT ![i] = r]
  BY DEF Move, RuntimeType
<1>2. r \in Opened /\ r.status = ticket[i].status /\ r.paymentId = ticket[i].paymentId
  BY Pending, EditStep
<1>3. PaidIsPaid(r)
  BY <1>2, Pending DEF PaidIsPaid
<1> QED
  BY <1>1, <1>2, <1>3 DEF TicketRewrite

LEMMA CloseEffect ==
    ASSUME RuntimeType, OnlyWhenDone, NEW i \in TicketId,
           ticket[i].step \notin {"unopened", "done"},
           NEW s \in TicketStatus \ {"executed"},
           s = "paid" /\ ownVendor => "pay" \in ticket[i].landed,
           Close(i, s)
    PROVE  TicketRewrite(i)
<1> DEFINE q == [ticket[i] EXCEPT !.step = "done"]
           r == [q EXCEPT !.status = s]
<1>1. ticket' = [ticket EXCEPT ![i] = r]
  BY DEF Close, RuntimeType
<1>2. q \in Opened /\ q.step = "done" /\ q.landed = ticket[i].landed
  BY Pending, EditStep DEF TicketSteps
<1> HIDE DEF q
<1>3. r \in Opened /\ r.step = "done" /\ r.status = s /\ r.landed = ticket[i].landed
  BY <1>2, EditStatus
<1>4. PaidIsPaid(r)
  BY <1>3 DEF PaidIsPaid
<1> QED
  BY <1>1, <1>3, <1>4 DEF TicketRewrite

TicketEffect(i) ==
    /\ TicketRewrite(i)
    /\ UNCHANGED <<counter, clerk, ownVendor>>
    /\ feed' \in Seq(TicketId)
    /\ filedFor' \in [T!PaymentId -> TicketId \cup {0}]
    /\ HP!Next \/ UNCHANGED houseVars

LEMMA DecideEffect ==
    ASSUME RuntimeType, OnlyWhenDone, NEW i \in TicketId, NEW allowed \in BOOLEAN,
           Decide(i, allowed)
    PROVE  TicketEffect(i)
<1>0. ticket[i].step \notin {"unopened", "done"}
  BY DEF Decide, At
<1>1. PICK d \in Decisions(i, allowed) :
        ticket' = [ticket EXCEPT
                     ![i].step = CASE d = "pay" -> "swap" [] d = "propose" -> "propose"
                                   [] d = "reject" -> "done",
                     ![i].status = IF d = "reject" THEN "rejected" ELSE d]
  BY DEF Decide
<1>2. d \in {"pay", "propose", "reject"}
  BY DEF Decisions, MockDecide
<1> DEFINE a == CASE d = "pay" -> "swap" [] d = "propose" -> "propose"
                  [] d = "reject" -> "done"
           b == IF d = "reject" THEN "rejected" ELSE d
           q == [ticket[i] EXCEPT !.step = a]
           r == [q EXCEPT !.status = b]
<1>3. a \in TicketSteps /\ b \in TicketStatus \ {"paid", "executed"}
  BY <1>2 DEF TicketSteps, TicketStatus
<1>4. ticket' = [ticket EXCEPT ![i].step = a, ![i].status = b]
  BY <1>1
<1> HIDE DEF a, b
<1>4a. ticket' = [ticket EXCEPT ![i] = r]
  BY <1>4 DEF RuntimeType
<1>5. q \in Opened /\ q.paymentId = 0
  BY <1>0, <1>3, Pending, EditStep
<1> HIDE DEF q
<1>6. r \in Opened /\ r.status = b /\ r.paymentId = 0
  BY <1>3, <1>5, EditStatus
<1>7. TicketRewrite(i)
  BY <1>0, <1>3, <1>4a, <1>6 DEF TicketRewrite, PaidIsPaid
<1>8. feed' \in Seq(TicketId)
  BY DEF Decide, RuntimeType
<1> QED
  BY <1>7, <1>8 DEF Decide, TicketEffect, RuntimeType

LEMMA SimulateSwapEffect ==
    ASSUME RuntimeType, OnlyWhenDone, NEW i \in TicketId, SimulateSwap(i)
    PROVE  TicketEffect(i)
<1>0. ticket[i].step \notin {"unopened", "done"}
  BY DEF SimulateSwap, At
<1>1. Move(i, "sendSwap") \/ Close(i, "refused")
  BY DEF SimulateSwap
<1>2. TicketRewrite(i)
  BY <1>0, <1>1, MoveEffect, CloseEffect DEF TicketSteps, TicketStatus
<1> QED
  BY <1>2 DEF SimulateSwap, TicketEffect, RuntimeType

LEMMA SendSwapEffect ==
    ASSUME RuntimeType, OnlyWhenDone, NEW i \in TicketId, SendSwap(i)
    PROVE  TicketEffect(i)
<1>0. ticket[i].step \notin {"unopened", "done"}
  BY DEF SendSwap, At
<1>1. PICK casaIn \in Amount, heard \in Heard :
        /\ IF CanSwap(i, casaIn)
           THEN H!SellCasa(Agent, casaIn, ticket[i].amount, ticket[i].amount)
           ELSE UNCHANGED houseVars
        /\ ticket' = [ticket EXCEPT
              ![i].landed = IF CanSwap(i, casaIn) THEN {"swap"} ELSE {},
              ![i].step   = IF heard THEN "invoice" ELSE "done",
              ![i].status = IF heard THEN @ ELSE "refused"]
  BY DEF SendSwap
<1> DEFINE l == IF CanSwap(i, casaIn) THEN {"swap"} ELSE {}
           a == IF heard THEN "invoice" ELSE "done"
           b == IF heard THEN ticket[i].status ELSE "refused"
           p == [ticket[i] EXCEPT !.landed = l]
           q == [p EXCEPT !.step = a]
           r == [q EXCEPT !.status = b]
<1>2. ticket[i] \in Opened /\ ticket[i].status \in TicketStatus \ {"paid", "executed"}
  BY <1>0, Pending DEF Opened
<1>3. /\ l \in SUBSET {"swap", "pay"}
      /\ a \in TicketSteps
      /\ b \in TicketStatus \ {"paid", "executed"}
  BY <1>2 DEF TicketSteps, TicketStatus
<1>4. ticket' = [ticket EXCEPT ![i] = r]
  <2>1. ticket' = [ticket EXCEPT ![i].landed = l, ![i].step = a,
                                 ![i].status = IF heard THEN @ ELSE "refused"]
    BY <1>1
  <2>2. q.status = ticket[i].status
    BY <1>2 DEF Opened
  <2> HIDE DEF l, a
  <2> QED
    BY <2>1, <2>2 DEF RuntimeType
<1> HIDE DEF l, a, b
<1>5. p \in Opened /\ p.paymentId = 0
  BY <1>0, <1>3, Pending, EditLanded
<1> HIDE DEF p
<1>6. q \in Opened /\ q.paymentId = 0
  BY <1>3, <1>5, EditStep
<1> HIDE DEF q
<1>7. r \in Opened /\ r.status = b /\ r.paymentId = 0
  BY <1>3, <1>6, EditStatus
<1>8. TicketRewrite(i)
  BY <1>0, <1>3, <1>4, <1>7 DEF TicketRewrite, PaidIsPaid
<1>9. HP!Next \/ UNCHANGED houseVars
  <2>1. ticket[i].amount \in Amount
    BY <1>2 DEF Opened
  <2> QED
    BY <1>1, <2>1, SellIsHouse
<1> QED
  BY <1>8, <1>9 DEF SendSwap, TicketEffect, RuntimeType

LEMMA FetchOfferEffect ==
    ASSUME RuntimeType, OnlyWhenDone, NEW i \in TicketId, FetchOffer(i)
    PROVE  TicketEffect(i)
<1>0. ticket[i].step \notin {"unopened", "done"}
  BY DEF FetchOffer, At
<1>1. PICK offer \in IF ownVendor THEN {OwnOffer(i)} ELSE Offer, heard \in Heard :
        IF heard /\ ~Mismatched(i, offer)
        THEN ticket' = [ticket EXCEPT ![i].step = "pay", ![i].offer = offer]
        ELSE Close(i, "unsettled")
  BY DEF FetchOffer
<1>2. offer \in Offer
  <2>1. ticket[i].amount \in Amount
    BY <1>0, Pending DEF Opened
  <2>2. Vendor \in Wallet
    BY ConciergeAssumption DEF ConciergeAssumption
  <2> QED
    BY <2>1, <2>2 DEF OwnOffer, Offer
<1>3. ASSUME ticket' = [ticket EXCEPT ![i].step = "pay", ![i].offer = offer]
      PROVE  TicketRewrite(i)
  <2>0. "pay" \in TicketSteps
    BY DEF TicketSteps
  <2> DEFINE q == [ticket[i] EXCEPT !.step = "pay"]
             r == [q EXCEPT !.offer = offer]
  <2>1. ticket' = [ticket EXCEPT ![i] = r]
    BY <1>3 DEF RuntimeType
  <2>2. /\ q \in Opened /\ q.paymentId = 0
        /\ q.status = ticket[i].status
    BY <1>0, <2>0, Pending, EditStep
  <2> HIDE DEF q
  <2>3. r \in Opened /\ r.status = ticket[i].status /\ r.paymentId = 0
    BY <1>2, <2>2, EditOffer
  <2> QED
    BY <1>0, <2>1, <2>3, Pending DEF TicketRewrite, PaidIsPaid
<1>4. ASSUME Close(i, "unsettled") PROVE TicketRewrite(i)
  BY <1>0, <1>4, CloseEffect DEF TicketStatus
<1>5. TicketRewrite(i)
  BY <1>1, <1>3, <1>4
<1> QED
  BY <1>5 DEF FetchOffer, TicketEffect, RuntimeType

LEMMA FetchNoOfferEffect ==
    ASSUME RuntimeType, OnlyWhenDone, NEW i \in TicketId, FetchNoOffer(i)
    PROVE  TicketEffect(i)
<1>0. ticket[i].step \notin {"unopened", "done"} /\ ~ownVendor
  BY DEF FetchNoOffer, At
<1>1. Close(i, "paid") \/ Close(i, "unsettled")
  BY DEF FetchNoOffer
<1>2. TicketRewrite(i)
  BY <1>0, <1>1, CloseEffect DEF TicketStatus
<1> QED
  BY <1>2 DEF FetchNoOffer, TicketEffect, RuntimeType

LEMMA SimulatePayEffect ==
    ASSUME RuntimeType, OnlyWhenDone, NEW i \in TicketId, SimulatePay(i)
    PROVE  TicketEffect(i)
<1>0. ticket[i].step \notin {"unopened", "done"}
  BY DEF SimulatePay, At
<1>1. Move(i, "sendPay") \/ Close(i, "unsettled")
  BY DEF SimulatePay
<1>2. TicketRewrite(i)
  BY <1>0, <1>1, MoveEffect, CloseEffect DEF TicketSteps, TicketStatus
<1> QED
  BY <1>2 DEF SimulatePay, TicketEffect, RuntimeType

LEMMA SendPayEffect ==
    ASSUME RuntimeType, OnlyWhenDone, NEW i \in TicketId, SendPay(i)
    PROVE  TicketEffect(i)
<1>0. ticket[i].step \notin {"unopened", "done"}
  BY DEF SendPay, At
<1> DEFINE offer == ticket[i].offer
           lands == spend[Agent] >= offer.amount
<1>1. PICK heard \in Heard :
        /\ IF lands
           THEN H!TransferSpend(Agent, offer.payTo, offer.amount)
           ELSE UNCHANGED houseVars
        /\ ticket' = [ticket EXCEPT
              ![i].landed = IF lands THEN @ \cup {"pay"} ELSE @,
              ![i].step   = IF heard THEN "receipt" ELSE "done",
              ![i].status = IF heard THEN @ ELSE "unsettled"]
  BY DEF SendPay
<1> DEFINE l == IF lands THEN ticket[i].landed \cup {"pay"} ELSE ticket[i].landed
           a == IF heard THEN "receipt" ELSE "done"
           b == IF heard THEN ticket[i].status ELSE "unsettled"
           p == [ticket[i] EXCEPT !.landed = l]
           q == [p EXCEPT !.step = a]
           r == [q EXCEPT !.status = b]
<1>2. /\ ticket[i] \in Opened
      /\ ticket[i].status \in TicketStatus \ {"paid", "executed"}
      /\ ticket[i].landed \in SUBSET {"swap", "pay"}
      /\ ticket[i].offer \in Offer
  BY <1>0, Pending DEF Opened
<1>3. /\ l \in SUBSET {"swap", "pay"}
      /\ a \in TicketSteps
      /\ b \in TicketStatus \ {"paid", "executed"}
  BY <1>2 DEF TicketSteps, TicketStatus
<1>9. HP!Next \/ UNCHANGED houseVars
  BY <1>1, <1>2, PayIsHouse DEF Offer
<1> HIDE DEF lands
<1>4. ticket' = [ticket EXCEPT ![i] = r]
  <2>1. ticket' = [ticket EXCEPT ![i].landed = IF lands THEN @ \cup {"pay"} ELSE @,
                                 ![i].step = a,
                                 ![i].status = IF heard THEN @ ELSE "unsettled"]
    BY <1>1
  <2>2. q.status = ticket[i].status
    BY <1>2 DEF Opened
  <2> HIDE DEF a
  <2> QED
    BY <2>1, <2>2 DEF RuntimeType
<1> HIDE DEF l, a, b
<1>5. p \in Opened /\ p.paymentId = 0
  BY <1>0, <1>3, Pending, EditLanded
<1> HIDE DEF p
<1>6. q \in Opened /\ q.paymentId = 0
  BY <1>3, <1>5, EditStep
<1> HIDE DEF q
<1>7. r \in Opened /\ r.status = b /\ r.paymentId = 0
  BY <1>3, <1>6, EditStatus
<1>8. TicketRewrite(i)
  BY <1>0, <1>3, <1>4, <1>7 DEF TicketRewrite, PaidIsPaid
<1> QED
  BY <1>8, <1>9 DEF SendPay, TicketEffect, RuntimeType

LEMMA ShowReceiptEffect ==
    ASSUME RuntimeType, OnlyWhenDone, NEW i \in TicketId, ShowReceipt(i)
    PROVE  TicketEffect(i)
<1>0. ticket[i].step \notin {"unopened", "done"}
  BY DEF ShowReceipt, At
<1>1. PICK heard \in Heard, word \in IF ownVendor THEN {VerifyPayment(i)} ELSE BOOLEAN :
        Close(i, IF heard /\ word THEN "paid" ELSE "unsettled")
  BY DEF ShowReceipt
<1> DEFINE s == IF heard /\ word THEN "paid" ELSE "unsettled"
<1>2. s = "paid" /\ ownVendor => "pay" \in ticket[i].landed
  BY DEF VerifyPayment
<1>3. s \in TicketStatus \ {"executed"}
  BY DEF TicketStatus
<1>4. Close(i, s)
  BY <1>1
<1> HIDE DEF s
<1>5. TicketRewrite(i)
  BY <1>0, <1>2, <1>3, <1>4, CloseEffect
<1> QED
  BY <1>5 DEF ShowReceipt, TicketEffect, RuntimeType

LEMMA SimulateProposeEffect ==
    ASSUME H!TypeOK, RuntimeType, OnlyWhenDone, NEW i \in TicketId, SimulatePropose(i)
    PROVE  TicketEffect(i)
<1>0. ticket[i].step \notin {"unopened", "done"}
  BY DEF SimulatePropose, At
<1>1. \/ ticket' = [ticket EXCEPT ![i].step = "sendPropose", ![i].read = nextPaymentId]
      \/ Close(i, "refused")
  BY DEF SimulatePropose
<1>2. nextPaymentId \in Nat
  BY DEF H!TypeOK
<1>3. ASSUME ticket' = [ticket EXCEPT ![i].step = "sendPropose", ![i].read = nextPaymentId]
      PROVE  TicketRewrite(i)
  <2>0. "sendPropose" \in TicketSteps
    BY DEF TicketSteps
  <2> DEFINE q == [ticket[i] EXCEPT !.step = "sendPropose"]
             r == [q EXCEPT !.read = nextPaymentId]
  <2>1. ticket' = [ticket EXCEPT ![i] = r]
    BY <1>3 DEF RuntimeType
  <2>2. /\ q \in Opened /\ q.paymentId = 0
        /\ q.status = ticket[i].status
    BY <1>0, <2>0, Pending, EditStep
  <2> HIDE DEF q
  <2>3. r \in Opened /\ r.status = ticket[i].status /\ r.paymentId = 0
    BY <1>2, <2>2, EditRead
  <2> QED
    BY <1>0, <2>1, <2>3, Pending DEF TicketRewrite, PaidIsPaid
<1>4. ASSUME Close(i, "refused") PROVE TicketRewrite(i)
  BY <1>0, <1>4, CloseEffect DEF TicketStatus
<1>5. TicketRewrite(i)
  BY <1>1, <1>3, <1>4
<1> QED
  BY <1>5 DEF SimulatePropose, TicketEffect, RuntimeType

LEMMA SendProposeEffect ==
    ASSUME RuntimeType, OnlyWhenDone, NEW i \in TicketId, SendPropose(i)
    PROVE  TicketEffect(i)
<1>0. ticket[i].step \notin {"unopened", "done"}
  BY DEF SendPropose, At
<1>1. Move(i, "record") \/ Close(i, "refused")
  BY DEF SendPropose
<1>2. TicketRewrite(i)
  BY <1>0, <1>1, MoveEffect, CloseEffect DEF TicketSteps, TicketStatus
<1>3. HP!Next \/ UNCHANGED houseVars
  <2>1. ticket[i].amount \in Amount
    BY <1>0, Pending DEF Opened
  <2> QED
    BY <2>1, ProposeIsHouse DEF SendPropose
<1>4. filedFor' \in [T!PaymentId -> TicketId \cup {0}]
  BY DEF SendPropose, RuntimeType
<1> QED
  BY <1>2, <1>3, <1>4 DEF SendPropose, TicketEffect, RuntimeType

LEMMA RecordProposalEffect ==
    ASSUME RuntimeType, OnlyWhenDone, NEW i \in TicketId, RecordProposal(i)
    PROVE  TicketEffect(i)
<1>0. ticket[i].step \notin {"unopened", "done"}
  BY DEF RecordProposal, At
<1>1. ticket' = [ticket EXCEPT ![i].step = "done", ![i].status = "pending-approval",
                               ![i].paymentId = ticket[i].read,
                               ![i].read = 0]
  BY DEF RecordProposal
<1> DEFINE n == ticket[i].read
           o == [ticket[i] EXCEPT !.step = "done"]
           p == [o EXCEPT !.status = "pending-approval"]
           q == [p EXCEPT !.paymentId = n]
           r == [q EXCEPT !.read = 0]
<1>2. ticket[i] \in Opened /\ n \in Nat
  BY <1>0, Pending DEF Opened
<1>3. ticket' = [ticket EXCEPT ![i] = r]
  <2>1. ticket' = [ticket EXCEPT ![i].step = "done", ![i].status = "pending-approval",
                                 ![i].paymentId = n, ![i].read = 0]
    BY <1>1
  <2> HIDE DEF n
  <2> QED
    BY <2>1 DEF RuntimeType
<1> HIDE DEF n
<1>4. o \in Opened /\ o.step = "done"
  BY <1>2, EditStep DEF TicketSteps
<1> HIDE DEF o
<1>5. p \in Opened /\ p.step = "done" /\ p.status = "pending-approval"
  BY <1>4, EditStatus DEF TicketStatus
<1> HIDE DEF p
<1>6. q \in Opened /\ q.step = "done" /\ q.status = "pending-approval"
  BY <1>2, <1>5, EditPayment
<1> HIDE DEF q
<1>7. r \in Opened /\ r.step = "done" /\ r.status = "pending-approval"
  BY <1>6, EditRead
<1>8. TicketRewrite(i)
  BY <1>0, <1>3, <1>7 DEF TicketRewrite, PaidIsPaid
<1> QED
  BY <1>8 DEF RecordProposal, TicketEffect, RuntimeType

LEMMA TicketStepEffect ==
    ASSUME H!TypeOK, RuntimeType, OnlyWhenDone, NEW i \in TicketId, TicketStep(i)
    PROVE  TicketEffect(i)
BY DecideEffect, SimulateSwapEffect, SendSwapEffect, FetchOfferEffect,
   FetchNoOfferEffect, SimulatePayEffect, SendPayEffect, ShowReceiptEffect,
   SimulateProposeEffect, SendProposeEffect, RecordProposalEffect DEF TicketStep
-----------------------------------------------------------------------------
(* What a step may do to payments: the treasury's balance never rises, a   *)
(* payment is never lost, altered or un-executed, and, but for an          *)
(* approval, none reaches its quorum.                                      *)
Quorum(id) == T!Known(id) /\ payments[id].approvals >= ApprovalThreshold

PaymentsKept ==
    /\ spend'[Treasury] <= spend[Treasury]
    /\ \A id \in T!PaymentId :
          T!Known(id) =>
              /\ T!Known(id)'
              /\ payments'[id].amount = payments[id].amount
              /\ payments[id].executed => payments'[id].executed
              /\ payments'[id].approvals >= payments[id].approvals

Calm ==
    /\ PaymentsKept
    /\ \A id \in T!PaymentId : Quorum(id)' => Quorum(id)

LEMMA HouseNumbers ==
    ASSUME H!TypeOK
    PROVE  /\ spend[Treasury] \in Nat
           /\ ApprovalThreshold \in Nat \ {0}
           /\ \A id \in T!PaymentId : T!Known(id) =>
                 /\ payments[id] \in H!Payment
                 /\ payments[id].amount \in Nat
                 /\ payments[id].approvals \in Nat
<1>1. ApprovalThreshold \in 1..HP!Cardinality(Owner)
  BY HouseAssumed DEF HP!HouseAssumption
<1>2. ApprovalThreshold \in Nat \ {0}
  BY <1>1
<1>3. Amount \subseteq Nat
  BY DeploymentAssumption DEF DeploymentAssumption
<1> QED
  BY <1>2, <1>3 DEF H!TypeOK, H!Holder, H!Payment, H!House!PaymentId, T!PaymentId, T!Known

LEMMA SamePayments ==
    ASSUME H!TypeOK, payments' = payments, spend'[Treasury] <= spend[Treasury]
    PROVE  Calm
<1>1. \A id \in T!PaymentId : T!Known(id) => payments[id].approvals \in Nat
  BY HouseNumbers
<1> QED
  BY <1>1 DEF Calm, PaymentsKept, Quorum, T!Known

LEMMA StillCalm == H!TypeOK /\ UNCHANGED houseVars => Calm
BY SamePayments, HouseNumbers DEF houseVars

LEMMA Places == Treasury # Pool /\ Treasury # Agent /\ Treasury \notin Wallet
BY DeploymentAssumption, ConciergeAssumption DEF DeploymentAssumption, ConciergeAssumption

LEMMA SpendElsewhere ==
    ASSUME H!TypeOK, NEW from, NEW to, NEW a, from # Treasury, to # Treasury,
           H!Spend!Transfer(from, to, a)
    PROVE  spend'[Treasury] <= spend[Treasury]
<1>1. spend'[Treasury] = spend[Treasury]
  BY DEF H!Spend!Transfer, H!TypeOK, H!Holder
<1> QED
  BY <1>1, HouseNumbers

LEMMA SellCalm ==
    ASSUME H!TypeOK, NEW x, NEW y, H!SellCasa(Agent, x, y, y)
    PROVE  Calm
BY SpendElsewhere, SamePayments, Places DEF H!SellCasa, H!treasuryVars

LEMMA PayCalm ==
    ASSUME H!TypeOK, NEW w \in Wallet, NEW a, H!TransferSpend(Agent, w, a)
    PROVE  Calm
BY SpendElsewhere, SamePayments, Places DEF H!TransferSpend, H!treasuryVars

LEMMA ProposeCalm ==
    ASSUME H!TypeOK, NEW a \in Amount, H!ProposePayment(Agent, Vendor, a)
    PROVE  Calm
<1> DEFINE new == [vendor |-> Vendor, amount |-> a, approvals |-> 0, executed |-> FALSE]
<1>1. /\ nextPaymentId \in T!PaymentId
      /\ payments' = [payments EXCEPT ![nextPaymentId] = new]
      /\ spend' = spend
  BY DEF H!ProposePayment, H!House!ProposePayment, H!House!PaymentId, T!PaymentId
<1>2. ~T!Known(nextPaymentId)
  BY <1>1 DEF H!TypeOK, H!House!Known, T!Known, H!House!PaymentId, T!PaymentId
<1>3. new.approvals = 0
  OBVIOUS
<1> HIDE DEF new
<1>4. \A id \in T!PaymentId : id # nextPaymentId => payments'[id] = payments[id]
  BY <1>1 DEF H!TypeOK, H!House!PaymentId, T!PaymentId
<1>5. payments'[nextPaymentId] = new
  BY <1>1 DEF H!TypeOK, H!House!PaymentId, T!PaymentId
<1>6. PaymentsKept
  BY <1>1, <1>2, <1>4, HouseNumbers DEF PaymentsKept, T!Known
<1>7. \A id \in T!PaymentId : Quorum(id)' => Quorum(id)
  BY <1>3, <1>4, <1>5, HouseNumbers DEF Quorum, T!Known
<1> QED
  BY <1>6, <1>7 DEF Calm

LEMMA ExecuteCalm ==
    ASSUME H!TypeOK, NEW id \in T!PaymentId, H!ExecutePayment(id)
    PROVE  Calm /\ payments'[id].executed
<1>1. /\ T!Known(id)
      /\ payments' = [payments EXCEPT ![id].executed = TRUE]
      /\ H!Spend!Transfer(Treasury, payments[id].vendor, payments[id].amount)
  BY DEF H!ExecutePayment, H!House!ExecutePayment, H!House!Known, T!Known
<1>2. payments[id] \in H!Payment /\ payments[id].amount \in Nat
  BY <1>1, HouseNumbers
<1> DEFINE p == [payments[id] EXCEPT !.executed = TRUE]
<1>3. /\ p \in H!Payment /\ p.executed
      /\ p.amount = payments[id].amount
      /\ p.approvals = payments[id].approvals
  BY <1>2 DEF H!Payment
<1>4. payments' = [payments EXCEPT ![id] = p]
  BY <1>1
<1> HIDE DEF p
<1>5. /\ payments'[id] = p
      /\ \A j \in T!PaymentId : j # id => payments'[j] = payments[j]
  BY <1>4 DEF H!TypeOK, H!House!PaymentId, T!PaymentId
<1>6. p # NoPayment
  <2>1. NoPayment \notin H!Payment
    BY DeploymentAssumption DEF DeploymentAssumption, H!Payment
  <2> QED
    BY <1>3, <2>1
<1>7. spend'[Treasury] <= spend[Treasury]
  <2>1. payments[id].vendor # Treasury
    BY <1>2, Places DEF H!Payment
  <2>2. spend'[Treasury] = spend[Treasury] - payments[id].amount
    BY <1>1, <2>1 DEF H!Spend!Transfer, H!TypeOK, H!Holder
  <2> QED
    BY <1>2, <2>2, HouseNumbers
<1>8. PaymentsKept
  <2> SUFFICES ASSUME NEW j \in T!PaymentId, T!Known(j)
               PROVE  /\ T!Known(j)'
                      /\ payments'[j].amount = payments[j].amount
                      /\ payments[j].executed => payments'[j].executed
                      /\ payments'[j].approvals >= payments[j].approvals
    BY <1>7 DEF PaymentsKept
  <2>1. payments[j].approvals \in Nat
    BY HouseNumbers
  <2>2. CASE j = id
    BY <1>3, <1>5, <1>6, <2>1, <2>2 DEF T!Known
  <2>3. CASE j # id
    BY <1>5, <2>1, <2>3 DEF T!Known
  <2> QED
    BY <2>2, <2>3
<1>9. \A j \in T!PaymentId : Quorum(j)' => Quorum(j)
  BY <1>1, <1>3, <1>5 DEF Quorum, T!Known
<1> QED
  BY <1>3, <1>5, <1>8, <1>9 DEF Calm

LEMMA ApproveKeeps ==
    ASSUME H!TypeOK, NEW o, NEW id \in T!PaymentId, H!ApprovePayment(o, id)
    PROVE  /\ PaymentsKept
           /\ T!Known(id)'
           /\ \A j \in T!PaymentId : j # id => (Quorum(j)' => Quorum(j))
<1>1. /\ T!Known(id)
      /\ payments' = [payments EXCEPT ![id].approvals = @ + 1]
      /\ spend' = spend
  BY DEF H!ApprovePayment, H!House!ApprovePayment, H!House!Known, T!Known
<1>2. payments[id] \in H!Payment /\ payments[id].approvals \in Nat
  BY <1>1, HouseNumbers
<1> DEFINE p == [payments[id] EXCEPT !.approvals = @ + 1]
<1>3. /\ p \in H!Payment
      /\ p.amount = payments[id].amount
      /\ p.executed = payments[id].executed
      /\ p.approvals = payments[id].approvals + 1
  BY <1>2 DEF H!Payment
<1>4. payments' = [payments EXCEPT ![id] = p]
  BY <1>1
<1> HIDE DEF p
<1>5. /\ payments'[id] = p
      /\ \A j \in T!PaymentId : j # id => payments'[j] = payments[j]
  BY <1>4 DEF H!TypeOK, H!House!PaymentId, T!PaymentId
<1>6. p # NoPayment
  <2>1. NoPayment \notin H!Payment
    BY DeploymentAssumption DEF DeploymentAssumption, H!Payment
  <2> QED
    BY <1>3, <2>1
<1>7. PaymentsKept
  <2> SUFFICES ASSUME NEW j \in T!PaymentId, T!Known(j)
               PROVE  /\ T!Known(j)'
                      /\ payments'[j].amount = payments[j].amount
                      /\ payments[j].executed => payments'[j].executed
                      /\ payments'[j].approvals >= payments[j].approvals
    BY <1>1, HouseNumbers DEF PaymentsKept
  <2>1. payments[j].approvals \in Nat
    BY HouseNumbers
  <2>2. CASE j = id
    BY <1>3, <1>5, <1>6, <2>1, <2>2 DEF T!Known
  <2>3. CASE j # id
    BY <1>5, <2>1, <2>3 DEF T!Known
  <2> QED
    BY <2>2, <2>3
<1>8. \A j \in T!PaymentId : j # id => (Quorum(j)' => Quorum(j))
  BY <1>5 DEF Quorum, T!Known
<1> QED
  BY <1>5, <1>6, <1>7, <1>8 DEF T!Known

(* The handlers of a ticket leave the queue calm.                          *)
LEMMA TicketCalm ==
    ASSUME H!TypeOK, RuntimeType, OnlyWhenDone, NEW i \in TicketId, TicketStep(i)
    PROVE  Calm
<1>0. ticket[i] \in Opened
  <2>1. TicketRewrite(i)
    BY TicketStepEffect DEF TicketEffect
  <2> QED
    BY <2>1, OpenedOnes DEF TicketRewrite
<1>1. CASE SendSwap(i)
  BY <1>1, SellCalm, StillCalm DEF SendSwap
<1>2. CASE SendPay(i)
  <2>1. ticket[i].offer.payTo \in Wallet
    BY <1>0 DEF Opened, Offer
  <2> QED
    BY <1>2, <2>1, PayCalm, StillCalm DEF SendPay
<1>3. CASE SendPropose(i)
  <2>1. ticket[i].amount \in Amount
    BY <1>0 DEF Opened
  <2> QED
    BY <1>3, <2>1, ProposeCalm, StillCalm DEF SendPropose
<1>4. CASE UNCHANGED houseVars
  BY <1>4, StillCalm
<1> QED
  BY <1>1, <1>2, <1>3, <1>4
     DEF TicketStep, Decide, SimulateSwap, FetchOffer, FetchNoOffer, SimulatePay,
         ShowReceipt, SimulatePropose, RecordProposal
-----------------------------------------------------------------------------
(* The inductive invariant: beside types, what each clerk knows of the     *)
(* payment in its hands, that a quorum reached is in some clerk's hands    *)
(* until it is settled, and that settled is what a ticket says when it     *)
(* says executed.                                                          *)
Settled(id) == payments[id].executed \/ spend[Treasury] < payments[id].amount

ClerkKnows ==
    \A c \in Clerk : ~Busy(c, "idle") =>
        /\ T!Known(clerk[c].id)
        /\ clerk[c].step \in {"execute", "sendExecute"} => Quorum(clerk[c].id)
        /\ Busy(c, "reportExecuted") => Settled(clerk[c].id)

ShownIsSettled ==
    \A i \in TicketId :
        ticket[i].status = "executed" =>
            /\ ticket[i].paymentId \in T!PaymentId
            /\ T!Known(ticket[i].paymentId)
            /\ Settled(ticket[i].paymentId)

InHands(id) ==
    \E c \in Clerk :
        /\ clerk[c].step \in {"read", "execute", "sendExecute"}
        /\ clerk[c].id = id

Attended ==
    ~Failures => \A id \in T!PaymentId : Quorum(id) /\ ~Settled(id) => InHands(id)

QueueInv == ClerkKnows /\ Attended

TicketInv == OnlyWhenDone /\ PaidMeansReceived /\ ShownIsSettled

IInv == TypeOK /\ TicketInv /\ QueueInv

Numbers ==
    /\ spend[Treasury] \in Nat
    /\ \A id \in T!PaymentId : T!Known(id) => payments[id].approvals \in Nat

LEMMA NumbersNow == H!TypeOK => Numbers
BY HouseNumbers DEF Numbers

LEMMA NumbersAfter == H!TypeOK' => Numbers'
BY NumbersNow, PTL

(* Whatever is settled stays so.                                           *)
LEMMA StaysSettled ==
    ASSUME H!TypeOK, H!TypeOK', PaymentsKept, NEW id \in T!PaymentId, T!Known(id)
    PROVE  /\ T!Known(id)'
           /\ Settled(id) => Settled(id)'
           /\ Quorum(id) => Quorum(id)'
<1>1. /\ payments[id].amount \in Nat /\ payments[id].approvals \in Nat
      /\ spend[Treasury] \in Nat /\ ApprovalThreshold \in Nat
  BY HouseNumbers
<1>2. /\ T!Known(id)'
      /\ payments'[id].amount = payments[id].amount
      /\ payments[id].executed => payments'[id].executed
      /\ payments'[id].approvals >= payments[id].approvals
      /\ spend'[Treasury] <= spend[Treasury]
  BY DEF PaymentsKept
<1>3. Numbers'
  BY NumbersAfter
<1>4. payments'[id].approvals \in Nat /\ spend'[Treasury] \in Nat
  BY <1>2, <1>3 DEF Numbers
<1> QED
  BY <1>1, <1>2, <1>4 DEF Settled, Quorum

LEMMA ClerkType ==
    ASSUME RuntimeType, NEW c \in Clerk, ~Busy(c, "idle")
    PROVE  /\ clerk[c].id \in T!PaymentId
           /\ Busy(c, "sendApprove") => clerk[c].owner \in Owner
BY DEF RuntimeType, ClerkRecord, Busy, Idle

(* A step that touches no clerk.                                           *)
LEMMA QueueUndisturbed ==
    ASSUME H!TypeOK, H!TypeOK', RuntimeType, QueueInv, Calm, clerk' = clerk
    PROVE  QueueInv'
<1>1. PaymentsKept
  BY DEF Calm
<1>2. ClerkKnows'
  <2> SUFFICES ASSUME NEW c \in Clerk, ~Busy(c, "idle")
               PROVE  /\ T!Known(clerk[c].id)'
                      /\ clerk[c].step \in {"execute", "sendExecute"} => Quorum(clerk[c].id)'
                      /\ Busy(c, "reportExecuted") => Settled(clerk[c].id)'
    BY DEF ClerkKnows, Busy, Quorum, Settled, T!Known
  <2>1. clerk[c].id \in T!PaymentId
    BY ClerkType
  <2> QED
    BY <1>1, <2>1, StaysSettled DEF QueueInv, ClerkKnows
<1>3. Attended'
  <2> SUFFICES ASSUME ~Failures, NEW id \in T!PaymentId, Quorum(id)', ~Settled(id)'
               PROVE  InHands(id)'
    BY DEF Attended
  <2>1. Quorum(id)
    BY DEF Calm
  <2>2. ~Settled(id)
    BY <1>1, <2>1, StaysSettled DEF Quorum
  <2>3. InHands(id)
    BY <2>1, <2>2 DEF QueueInv, Attended
  <2> QED
    BY <2>3 DEF InHands
<1> QED
  BY <1>2, <1>3 DEF QueueInv

(* A step that touches no ticket.                                          *)
LEMMA TicketsUndisturbed ==
    ASSUME H!TypeOK, H!TypeOK', TicketInv, PaymentsKept, ticket' = ticket,
           ownVendor' = ownVendor
    PROVE  TicketInv'
<1>1. OnlyWhenDone' /\ PaidMeansReceived'
  BY DEF TicketInv, OnlyWhenDone, PaidMeansReceived
<1>2. ShownIsSettled'
  <2> SUFFICES ASSUME NEW i \in TicketId, ticket[i].status = "executed"
               PROVE  /\ ticket[i].paymentId \in T!PaymentId
                      /\ T!Known(ticket[i].paymentId)'
                      /\ Settled(ticket[i].paymentId)'
    BY DEF ShownIsSettled, Settled, T!Known
  <2> QED
    BY StaysSettled DEF TicketInv, ShownIsSettled
<1> QED
  BY <1>1, <1>2 DEF TicketInv

LEMMA RewriteKeeps ==
    ASSUME H!TypeOK, H!TypeOK', RuntimeType, TicketInv, PaymentsKept,
           NEW i \in TicketId, TicketRewrite(i), ownVendor' = ownVendor
    PROVE  /\ TicketInv'
           /\ ticket' \in [TicketId -> TicketRecord]
           /\ \A j \in TicketId : ticket'[j].step = "unopened" <=> ticket[j].step = "unopened"
<1>1. PICK r \in Opened : ticket' = [ticket EXCEPT ![i] = r] /\ PaidIsPaid(r)
  BY DEF TicketRewrite
<1>2. /\ ticket'[i] = r
      /\ \A j \in TicketId : j # i => ticket'[j] = ticket[j]
  BY <1>1 DEF RuntimeType
<1>3. ticket' \in [TicketId -> TicketRecord]
  BY <1>1, RecordParts DEF RuntimeType
<1>4. r.step # "unopened"
  BY DEF Opened, TicketSteps
<1>5. OnlyWhenDone'
  BY <1>1, <1>2 DEF TicketInv, OnlyWhenDone, PaidIsPaid
<1>6. PaidMeansReceived'
  BY <1>1, <1>2 DEF TicketInv, PaidMeansReceived, PaidIsPaid
<1>7. ShownIsSettled'
  <2> SUFFICES ASSUME NEW j \in TicketId, ticket'[j].status = "executed",
                      NEW id, id = ticket'[j].paymentId
               PROVE  id \in T!PaymentId /\ T!Known(id)' /\ Settled(id)'
    BY DEF ShownIsSettled, Settled, T!Known
  <2>1. j # i
    BY <1>1, <1>2 DEF PaidIsPaid
  <2>2. ticket'[j] = ticket[j]
    BY <1>2, <2>1
  <2>3. id \in T!PaymentId /\ T!Known(id) /\ Settled(id)
    BY <2>2 DEF TicketInv, ShownIsSettled
  <2> QED
    BY <2>3, StaysSettled
<1> QED
  BY <1>2, <1>3, <1>4, <1>5, <1>6, <1>7 DEF TicketInv, TicketRewrite
-----------------------------------------------------------------------------
(* Every step keeps the invariant.  First the house.                       *)
LEMMA HouseKeeps ==
    ASSUME H!TypeOK, HP!Next \/ UNCHANGED houseVars
    PROVE  H!TypeOK'
<1>1. CASE HP!Next
  BY <1>1, HouseTypeStep
<1>2. CASE UNCHANGED houseVars
  BY <1>2 DEF houseVars, H!TypeOK, H!House!Known, H!House!PaymentId, H!Payment, H!Holder
<1> QED
  BY <1>1, <1>2

LEMMA Percent == \A n \in Nat : (n * 98) \div 100 \in Nat
OBVIOUS

LEMMA OpenKeeps ==
    ASSUME IInv, NEW a \in Amount, OpenTicket(a)
    PROVE  IInv'
<1> DEFINE r == [step |-> "decide", status |-> "none", paymentId |-> 0, landed |-> {},
                 amount |-> a, read |-> (casa[Agent] * 98) \div 100,
                 offer |-> [payTo |-> Vendor, amount |-> a]]
           i == counter + 1
<1>0. H!TypeOK /\ RuntimeType /\ TicketInv /\ QueueInv
  BY TypeParts DEF IInv
<1>1. /\ ticket' = [ticket EXCEPT ![i] = r]
      /\ counter' = counter + 1
      /\ counter < MaxTickets
      /\ UNCHANGED <<houseVars, feed, clerk, filedFor, ownVendor>>
  BY DEF OpenTicket
<1>2. i \in TicketId
  BY <1>0, <1>1, ConciergeAssumption DEF RuntimeType, TicketId, ConciergeAssumption
<1>3. r \in Opened
  <2>1. casa[Agent] \in Nat /\ Vendor \in Wallet
    BY <1>0, ConciergeAssumption DEF ConciergeAssumption, H!TypeOK, H!Holder
  <2>2. (casa[Agent] * 98) \div 100 \in Nat
    BY <2>1, Percent
  <2>3. [payTo |-> Vendor, amount |-> a] \in Offer
    BY <2>1 DEF Offer
  <2> QED
    BY <2>2, <2>3 DEF Opened, TicketSteps, TicketStatus
<1>4. r.step = "decide" /\ r.status = "none" /\ r.paymentId = 0
  OBVIOUS
<1> HIDE DEF r
<1>5. /\ ticket'[i] = r
      /\ \A j \in TicketId : j # i => ticket'[j] = ticket[j]
  BY <1>0, <1>1, <1>2 DEF RuntimeType
<1>6. H!TypeOK' /\ Calm
  BY <1>0, <1>1, HouseKeeps, StillCalm
<1>7. RuntimeType'
  <2>1. ticket' \in [TicketId -> TicketRecord]
    BY <1>0, <1>1, <1>3, RecordParts DEF RuntimeType
  <2>2. \A j \in TicketId : ticket'[j].step = "unopened" <=> j > counter'
    BY <1>0, <1>1, <1>4, <1>5 DEF RuntimeType, TicketId
  <2>3. counter' \in 0..MaxTickets
    BY <1>0, <1>1, ConciergeAssumption DEF RuntimeType, ConciergeAssumption
  <2> QED
    BY <1>0, <1>1, <2>1, <2>2, <2>3 DEF RuntimeType
<1>8. QueueInv'
  BY <1>0, <1>1, <1>6, QueueUndisturbed
<1>9. TicketInv'
  <2>1. OnlyWhenDone' /\ PaidMeansReceived'
    BY <1>0, <1>1, <1>4, <1>5 DEF TicketInv, OnlyWhenDone, PaidMeansReceived
  <2>2. ShownIsSettled'
    <3> SUFFICES ASSUME NEW j \in TicketId, ticket'[j].status = "executed",
                        NEW id, id = ticket'[j].paymentId
                 PROVE  id \in T!PaymentId /\ T!Known(id)' /\ Settled(id)'
      BY DEF ShownIsSettled, Settled, T!Known
    <3>1. ticket'[j] = ticket[j]
      BY <1>4, <1>5
    <3>2. id \in T!PaymentId /\ T!Known(id) /\ Settled(id)
      BY <1>0, <3>1 DEF TicketInv, ShownIsSettled
    <3> QED
      BY <1>0, <1>6, <3>2, StaysSettled DEF Calm
  <2> QED
    BY <2>1, <2>2 DEF TicketInv
<1> QED
  BY <1>6, <1>7, <1>8, <1>9 DEF IInv, TypeOK, RuntimeType

LEMMA TicketKeeps ==
    ASSUME IInv, NEW i \in TicketId, TicketStep(i)
    PROVE  IInv'
<1>0. H!TypeOK /\ RuntimeType /\ TicketInv /\ QueueInv /\ OnlyWhenDone
  BY TypeParts DEF IInv, TicketInv
<1>1. TicketEffect(i) /\ Calm
  BY <1>0, TicketStepEffect, TicketCalm
<1>2. H!TypeOK'
  BY <1>0, <1>1, HouseKeeps DEF TicketEffect
<1>3. /\ TicketInv'
      /\ ticket' \in [TicketId -> TicketRecord]
      /\ \A j \in TicketId : ticket'[j].step = "unopened" <=> ticket[j].step = "unopened"
  BY <1>0, <1>1, <1>2, RewriteKeeps DEF TicketEffect, Calm
<1>4. RuntimeType'
  BY <1>0, <1>1, <1>3 DEF RuntimeType, TicketEffect
<1>5. QueueInv'
  BY <1>0, <1>1, <1>2, QueueUndisturbed DEF TicketEffect
<1> QED
  BY <1>2, <1>3, <1>4, <1>5 DEF IInv, TypeOK, RuntimeType

(* The owners' requests touch neither tickets nor clerks.                  *)
LEMMA OwnerKeeps ==
    ASSUME IInv, OwnerStep
    PROVE  IInv'
<1>0. H!TypeOK /\ RuntimeType /\ TicketInv /\ QueueInv
  BY TypeParts DEF IInv
<1>1. UNCHANGED offChain
  BY DEF OwnerStep, Fund, GrantMandate, RevokeMandate, RevokeOwnerKyc, RestoreOwnerKyc,
         Timewarp
<1>2. HP!Next /\ payments' = payments /\ spend' = spend
  <2>1. CASE \E a \in Amount : Fund(a)
    BY <2>1, FundIsHouse DEF Fund, H!FundConcierge, H!treasuryVars
  <2>2. CASE GrantMandate
    BY <2>2, GrantIsHouse DEF GrantMandate, H!GrantMandate, H!House!GrantMandate
  <2>3. CASE RevokeMandate
    BY <2>3, RevokeIsHouse DEF RevokeMandate, H!RevokeMandate, H!House!RevokeMandate
  <2>4. CASE H!Environment
    BY <2>4, EnvironmentIsHouse DEF H!Environment, H!treasuryVars
  <2> QED
    BY <2>1, <2>2, <2>3, <2>4 DEF OwnerStep, RevokeOwnerKyc, RestoreOwnerKyc, Timewarp
<1>3. H!TypeOK'
  BY <1>0, <1>2, HouseKeeps
<1>4. Calm
  BY <1>0, <1>2, SamePayments, HouseNumbers
<1>5. RuntimeType'
  BY <1>0, <1>1 DEF RuntimeType, offChain, ticketVars
<1>6. QueueInv' /\ TicketInv'
  BY <1>0, <1>1, <1>3, <1>4, QueueUndisturbed, TicketsUndisturbed
     DEF offChain, ticketVars, Calm
<1> QED
  BY <1>3, <1>5, <1>6 DEF IInv, TypeOK, RuntimeType

(* One clerk moves: what is left to show about its new record.             *)
Attends(r, id) == r.step \in {"read", "execute", "sendExecute"} /\ r.id = id

Knows(r) ==
    r.step # "idle" =>
        /\ T!Known(r.id)
        /\ r.step \in {"execute", "sendExecute"} => Quorum(r.id)
        /\ r.step = "reportExecuted" => Settled(r.id)

LEMMA ClerkMoves ==
    ASSUME H!TypeOK, H!TypeOK', RuntimeType, QueueInv, PaymentsKept,
           NEW c \in Clerk, NEW r \in ClerkRecord, clerk' = [clerk EXCEPT ![c] = r],
           Knows(r)',
           \A id \in T!PaymentId :
               ~Failures /\ Quorum(id)' /\ ~Settled(id)' =>
                   \/ Attends(r, id)
                   \/ Quorum(id) /\ ~Attends(clerk[c], id)
    PROVE  QueueInv' /\ clerk' \in [Clerk -> ClerkRecord]
<1>1. /\ clerk'[c] = r
      /\ \A d \in Clerk : d # c => clerk'[d] = clerk[d]
      /\ clerk' \in [Clerk -> ClerkRecord]
  BY DEF RuntimeType
<1>2. ClerkKnows'
  <2> SUFFICES ASSUME NEW d \in Clerk PROVE (Knows(clerk[d]))'
    BY DEF ClerkKnows, Knows, Busy
  <2>1. CASE d = c
    BY <1>1, <2>1 DEF Knows, Quorum, Settled, T!Known
  <2>2. CASE d # c
    <3>1. Knows(clerk[d])
      BY DEF QueueInv, ClerkKnows, Knows, Busy
    <3>2. clerk[d].step # "idle" => clerk[d].id \in T!PaymentId
      BY ClerkType DEF Busy
    <3>3. \A q : q = clerk[d] /\ q.step # "idle" =>
            /\ T!Known(q.id)'
            /\ q.step \in {"execute", "sendExecute"} => Quorum(q.id)'
            /\ q.step = "reportExecuted" => Settled(q.id)'
      BY <3>1, <3>2, StaysSettled DEF Knows
    <3> QED
      BY <1>1, <2>2, <3>3 DEF Knows, Quorum, Settled, T!Known
  <2> QED
    BY <2>1, <2>2
<1>3. Attended'
  <2> SUFFICES ASSUME ~Failures, NEW id \in T!PaymentId, Quorum(id)', ~Settled(id)'
               PROVE  InHands(id)'
    BY DEF Attended
  <2>1. CASE Attends(r, id)
    BY <1>1, <2>1 DEF Attends, InHands
  <2>2. CASE Quorum(id) /\ ~Attends(clerk[c], id)
    <3>1. ~Settled(id)
      BY <2>2, StaysSettled DEF Quorum
    <3>2. InHands(id)
      BY <2>2, <3>1 DEF QueueInv, Attended
    <3>3. PICK d \in Clerk : Attends(clerk[d], id)
      BY <3>2 DEF InHands, Attends
    <3>4. clerk'[d] = clerk[d]
      BY <1>1, <2>2, <3>3
    <3> QED
      BY <3>3, <3>4 DEF InHands, Attends
  <2> QED
    BY <2>1, <2>2
<1> QED
  BY <1>1, <1>2, <1>3 DEF QueueInv

(* Such a step, if it leaves the tickets alone, keeps the invariant.       *)
LEMMA ClerkKeeps ==
    ASSUME IInv, HP!Next \/ UNCHANGED houseVars, PaymentsKept,
           UNCHANGED <<ticketVars, filedFor, ownVendor>>,
           NEW c \in Clerk, NEW r \in ClerkRecord, clerk' = [clerk EXCEPT ![c] = r],
           Knows(r)',
           \A id \in T!PaymentId :
               ~Failures /\ Quorum(id)' /\ ~Settled(id)' =>
                   \/ Attends(r, id)
                   \/ Quorum(id) /\ ~Attends(clerk[c], id)
    PROVE  IInv'
<1>0. H!TypeOK /\ RuntimeType /\ TicketInv /\ QueueInv
  BY TypeParts DEF IInv
<1>1. H!TypeOK'
  BY <1>0, HouseKeeps
<1>2. QueueInv' /\ clerk' \in [Clerk -> ClerkRecord]
  BY <1>0, <1>1, ClerkMoves
<1>3. TicketInv'
  BY <1>0, <1>1, TicketsUndisturbed DEF ticketVars
<1>4. RuntimeType'
  BY <1>0, <1>2 DEF RuntimeType, ticketVars
<1> QED
  BY <1>1, <1>2, <1>3, <1>4 DEF IInv, TypeOK, RuntimeType

LEMMA IdleRecord == Idle \in ClerkRecord /\ Idle.step = "idle"
BY DEF ClerkRecord, Idle

(* The record a clerk turns to.                                            *)
LEMMA TurnRecord ==
    ASSUME RuntimeType, NEW c \in Clerk,
           clerk[c].step \in {"read", "execute", "sendExecute"},
           NEW s \in {"read", "execute", "sendExecute", "reportExecuted", "reportPending"},
           Turn(c, s)
    PROVE  /\ [step |-> s, id |-> clerk[c].id] \in ClerkRecord
           /\ clerk' = [clerk EXCEPT ![c] = [step |-> s, id |-> clerk[c].id]]
<1>1. clerk[c] \in [step : {"read", "execute", "sendExecute", "reportExecuted",
                            "reportPending"}, id : T!PaymentId]
  BY DEF RuntimeType, ClerkRecord, Idle
<1>2. [clerk[c] EXCEPT !.step = s] = [step |-> s, id |-> clerk[c].id]
  BY <1>1
<1>3. clerk' = [clerk EXCEPT ![c] = [clerk[c] EXCEPT !.step = s]]
  BY DEF Turn
<1> QED
  BY <1>1, <1>2, <1>3 DEF ClerkRecord

LEMMA RestKeeps ==
    ASSUME IInv, HP!Next \/ UNCHANGED houseVars, Calm,
           UNCHANGED <<ticketVars, filedFor, ownVendor>>,
           NEW c \in Clerk, Rest(c),
           \A id \in T!PaymentId :
               ~Failures /\ Quorum(id)' /\ ~Settled(id)' => ~Attends(clerk[c], id)
    PROVE  IInv'
<1>1. Knows(Idle)'
  BY IdleRecord DEF Knows, Idle
<1>2. \A id \in T!PaymentId :
        ~Failures /\ Quorum(id)' /\ ~Settled(id)' => Quorum(id) /\ ~Attends(clerk[c], id)
  BY DEF Calm
<1> QED
  BY <1>1, <1>2, IdleRecord, ClerkKeeps DEF Rest, Calm

LEMMA BeginApproveKeeps ==
    ASSUME IInv, NEW c \in Clerk, NEW o \in Owner, NEW id \in T!PaymentId,
           BeginApprove(c, o, id)
    PROVE  IInv'
<1> DEFINE r == [step |-> "sendApprove", id |-> id, owner |-> o]
<1>0. H!TypeOK
  BY DEF IInv, TypeOK
<1>1. /\ clerk[c].step = "idle"
      /\ T!Known(id)
      /\ clerk' = [clerk EXCEPT ![c] = r]
      /\ UNCHANGED <<houseVars, ticketVars, filedFor, ownVendor>>
  BY DEF BeginApprove, CanApprove, Busy
<1>2. r \in ClerkRecord /\ r.step = "sendApprove" /\ r.id = id
  BY DEF ClerkRecord
<1> HIDE DEF r
<1>3. Calm
  BY <1>0, <1>1, StillCalm
<1>4. T!Known(id)'
  BY <1>1 DEF houseVars, T!Known
<1>5. Knows(r)'
  BY <1>2, <1>4 DEF Knows, T!Known
<1>6. \A j \in T!PaymentId : Quorum(j)' => Quorum(j) /\ ~Attends(clerk[c], j)
  BY <1>1, <1>3 DEF Calm, Attends
<1> QED
  BY <1>1, <1>2, <1>3, <1>5, <1>6, ClerkKeeps DEF Calm

LEMMA SendApproveKeeps ==
    ASSUME IInv, NEW c \in Clerk, SendApprove(c)
    PROVE  IInv'
<1> SUFFICES ASSUME NEW id, id = clerk[c].id,
                    NEW r, r = [step |-> "read", id |-> id]
             PROVE  IInv'
  OBVIOUS
<1>0. H!TypeOK /\ RuntimeType /\ QueueInv
  BY TypeParts DEF IInv
<1>1. /\ clerk[c].step = "sendApprove"
      /\ UNCHANGED <<ticketVars, filedFor, ownVendor>>
  BY DEF SendApprove, Busy
<1>2. id \in T!PaymentId /\ T!Known(id)
  BY <1>0, <1>1, ClerkType DEF QueueInv, ClerkKnows, Busy
<1>3. /\ HP!Next \/ UNCHANGED houseVars
      /\ PaymentsKept
      /\ \A j \in T!PaymentId : j # id => (Quorum(j)' => Quorum(j))
  <2>1. CASE H!ApprovePayment(clerk[c].owner, id)
    <3>1. clerk[c].owner \in Owner
      BY <1>0, <1>1, ClerkType DEF Busy
    <3> QED
      BY <1>0, <1>2, <2>1, <3>1, ApproveIsHouse, ApproveKeeps
  <2>2. CASE UNCHANGED houseVars
    BY <1>0, <2>2, StillCalm DEF Calm
  <2> QED
    BY <2>1, <2>2 DEF SendApprove
<1>4. T!Known(id)'
  BY <1>2, <1>3 DEF PaymentsKept
<1>5. \A j \in T!PaymentId : ~Attends(clerk[c], j)
  BY <1>1 DEF Attends
<1>6. CASE clerk' = [clerk EXCEPT ![c] = r]
  <2>1. r \in ClerkRecord /\ r.step = "read" /\ r.id = id
    BY <1>2 DEF ClerkRecord
  <2>2. Knows(r)'
    BY <1>4, <2>1 DEF Knows, T!Known
  <2>3. \A j \in T!PaymentId : Quorum(j)' =>
            Attends(r, j) \/ (Quorum(j) /\ ~Attends(clerk[c], j))
    BY <1>3, <1>5, <2>1 DEF Attends
  <2> QED
    BY <1>1, <1>3, <1>6, <2>1, <2>2, <2>3, ClerkKeeps
<1>7. CASE Failures /\ Rest(c)
  <2>1. Knows(Idle)'
    BY IdleRecord DEF Knows, Idle
  <2> QED
    BY <1>1, <1>3, <1>7, <2>1, IdleRecord, ClerkKeeps DEF Rest
<1> QED
  BY <1>6, <1>7 DEF SendApprove

LEMMA ReadPaymentKeeps ==
    ASSUME IInv, NEW c \in Clerk, ReadPayment(c)
    PROVE  IInv'
<1> SUFFICES ASSUME NEW id, id = clerk[c].id,
                    NEW s, s = CASE payments[id].executed -> "reportExecuted"
                                 [] ~payments[id].executed
                                    /\ payments[id].approvals >= ApprovalThreshold -> "execute"
                                 [] OTHER -> "reportPending",
                    NEW r, r = [step |-> s, id |-> id]
             PROVE  IInv'
  OBVIOUS
<1>0. H!TypeOK /\ RuntimeType /\ QueueInv
  BY TypeParts DEF IInv
<1>1. /\ clerk[c].step = "read"
      /\ Turn(c, s)
      /\ UNCHANGED <<houseVars, ticketVars, filedFor, ownVendor>>
  BY DEF ReadPayment, Busy
<1>2. id \in T!PaymentId /\ T!Known(id)
  BY <1>0, <1>1, ClerkType DEF QueueInv, ClerkKnows, Busy
<1>3. Calm
  BY <1>0, <1>1, StillCalm
<1>4. /\ r \in ClerkRecord /\ r.step = s /\ r.id = id
      /\ clerk' = [clerk EXCEPT ![c] = r]
  BY <1>0, <1>1, TurnRecord
<1>5. payments' = payments /\ spend' = spend
  BY <1>1 DEF houseVars
<1>6. /\ s = "execute" => Quorum(id)
      /\ s = "reportExecuted" => Settled(id)
      /\ s = "execute" \/ Settled(id) \/ ~Quorum(id)
      /\ s # "sendExecute"
  BY <1>2 DEF Quorum, Settled
<1>7. Knows(r)'
  BY <1>2, <1>4, <1>5, <1>6 DEF Knows, T!Known, Quorum, Settled
<1>8. \A j \in T!PaymentId : Quorum(j)' /\ ~Settled(j)' =>
        Attends(r, j) \/ (Quorum(j) /\ ~Attends(clerk[c], j))
  BY <1>3, <1>4, <1>5, <1>6 DEF Calm, Attends, Settled, Quorum, T!Known
<1> QED
  BY <1>1, <1>3, <1>4, <1>7, <1>8, ClerkKeeps DEF Calm

LEMMA CannotExecute ==
    ASSUME IInv, NEW id \in T!PaymentId, Quorum(id), ~CanExecute(id)
    PROVE  Settled(id)
<1>1. H!TypeOK
  BY DEF IInv, TypeOK
<1> QED
  BY <1>1, HouseNumbers DEF Quorum, CanExecute, Settled

LEMMA SimulateExecuteKeeps ==
    ASSUME IInv, NEW c \in Clerk, SimulateExecute(c)
    PROVE  IInv'
<1> SUFFICES ASSUME NEW id, id = clerk[c].id,
                    NEW r, r = [step |-> "sendExecute", id |-> id]
             PROVE  IInv'
  OBVIOUS
<1>0. H!TypeOK /\ RuntimeType /\ QueueInv
  BY TypeParts DEF IInv
<1>1. /\ clerk[c].step = "execute"
      /\ UNCHANGED <<houseVars, ticketVars, filedFor, ownVendor>>
  BY DEF SimulateExecute, Busy
<1>2. id \in T!PaymentId /\ Quorum(id)
  BY <1>0, <1>1, ClerkType DEF QueueInv, ClerkKnows, Busy
<1>3. Calm
  BY <1>0, <1>1, StillCalm
<1>4. payments' = payments /\ spend' = spend
  BY <1>1 DEF houseVars
<1>5. CASE Turn(c, "sendExecute")
  <2>1. /\ r \in ClerkRecord /\ r.step = "sendExecute" /\ r.id = id
        /\ clerk' = [clerk EXCEPT ![c] = r]
    BY <1>0, <1>1, <1>5, TurnRecord
  <2>2. Knows(r)'
    BY <1>2, <1>4, <2>1 DEF Knows, T!Known, Quorum, Settled
  <2>3. \A j \in T!PaymentId : Quorum(j)' =>
          Attends(r, j) \/ (Quorum(j) /\ ~Attends(clerk[c], j))
    BY <1>3, <2>1 DEF Calm, Attends
  <2> QED
    BY <1>1, <1>3, <2>1, <2>2, <2>3, ClerkKeeps DEF Calm
<1>6. CASE (Failures \/ ~CanExecute(id)) /\ Rest(c)
  <2>1. ~Failures => Settled(id)
    BY <1>2, <1>6, CannotExecute
  <2>2. \A j \in T!PaymentId :
          ~Failures /\ Quorum(j)' /\ ~Settled(j)' => ~Attends(clerk[c], j)
    BY <1>4, <2>1 DEF Attends, Settled
  <2> QED
    BY <1>1, <1>3, <1>6, <2>2, RestKeeps
<1> QED
  BY <1>5, <1>6 DEF SimulateExecute

LEMMA SendExecuteKeeps ==
    ASSUME IInv, NEW c \in Clerk, SendExecute(c)
    PROVE  IInv'
<1> SUFFICES ASSUME NEW id, id = clerk[c].id,
                    NEW r, r = [step |-> "reportExecuted", id |-> id]
             PROVE  IInv'
  OBVIOUS
<1>0. H!TypeOK /\ RuntimeType /\ QueueInv
  BY TypeParts DEF IInv
<1>1. /\ clerk[c].step = "sendExecute"
      /\ UNCHANGED <<ticketVars, filedFor, ownVendor>>
  BY DEF SendExecute, Busy
<1>2. id \in T!PaymentId /\ Quorum(id)
  BY <1>0, <1>1, ClerkType DEF QueueInv, ClerkKnows, Busy
<1>3. (HP!Next \/ UNCHANGED houseVars) /\ Calm /\ T!Known(id)' /\ Settled(id)'
  <2>1. CASE H!ExecutePayment(id)
    <3>1. HP!Next /\ Calm /\ payments'[id].executed
      BY <1>0, <1>2, <2>1, ExecuteIsHouse, ExecuteCalm
    <3> QED
      BY <1>2, <3>1 DEF Calm, PaymentsKept, Quorum, Settled
  <2>2. CASE ~CanExecute(id) /\ UNCHANGED houseVars
    <3>1. Settled(id)
      BY <1>2, <2>2, CannotExecute
    <3> QED
      BY <1>0, <1>2, <2>2, <3>1, StillCalm DEF houseVars, Settled, Quorum, T!Known
  <2> QED
    BY <2>1, <2>2 DEF SendExecute
<1>5. CASE Turn(c, "reportExecuted")
  <2>1. /\ r \in ClerkRecord /\ r.step = "reportExecuted" /\ r.id = id
        /\ clerk' = [clerk EXCEPT ![c] = r]
    BY <1>0, <1>1, <1>5, TurnRecord
  <2>2. Knows(r)'
    BY <1>3, <2>1 DEF Knows, T!Known, Quorum, Settled
  <2>3. \A j \in T!PaymentId : Quorum(j)' /\ ~Settled(j)' =>
          Attends(r, j) \/ (Quorum(j) /\ ~Attends(clerk[c], j))
    BY <1>3 DEF Calm, Attends
  <2> QED
    BY <1>1, <1>3, <2>1, <2>2, <2>3, ClerkKeeps DEF Calm
<1>6. CASE Failures /\ Rest(c)
  BY <1>1, <1>3, <1>6, RestKeeps
<1> QED
  BY <1>5, <1>6 DEF SendExecute

(* findTicketByPaymentId answers a ticket of the feed that names the       *)
(* payment, whenever there is one.                                         *)
LEMMA Found ==
    ASSUME RuntimeType, NEW id, Naming(id) # {}
    PROVE  FoundTicket(id) \in TicketId /\ ticket[FoundTicket(id)].paymentId = id
<1>1. Len(feed) \in Nat /\ Naming(id) \subseteq 1..Len(feed)
  BY DEF RuntimeType, Naming
<1>2. \E n \in Naming(id) : \A m \in Naming(id) : n <= m
  BY <1>1, Least
<1> DEFINE n == CHOOSE n \in Naming(id) : \A m \in Naming(id) : n <= m
<1>3. n \in Naming(id)
  BY <1>2
<1>4. FoundTicket(id) = feed[n]
  BY DEF FoundTicket
<1> HIDE DEF n
<1>5. feed[n] \in TicketId
  BY <1>1, <1>3 DEF RuntimeType
<1> QED
  BY <1>3, <1>4, <1>5 DEF Naming

LEMMA ReportApprovalKeeps ==
    ASSUME IInv, NEW c \in Clerk, ReportApproval(c)
    PROVE  IInv'
<1> SUFFICES ASSUME NEW id, id = clerk[c].id PROVE IInv'
  OBVIOUS
<1>0. H!TypeOK /\ RuntimeType /\ TicketInv /\ QueueInv
  BY TypeParts DEF IInv
<1>1. /\ clerk[c].step \in {"reportExecuted", "reportPending"}
      /\ clerk' = [clerk EXCEPT ![c] = Idle]
      /\ UNCHANGED <<houseVars, counter, feed, filedFor, ownVendor>>
  BY DEF ReportApproval, Rest
<1>2. /\ id \in T!PaymentId /\ T!Known(id)
      /\ Busy(c, "reportExecuted") => Settled(id)
  BY <1>0, <1>1, ClerkType DEF QueueInv, ClerkKnows, Busy
<1>3. H!TypeOK' /\ Calm
  BY <1>0, <1>1, HouseKeeps, StillCalm
<1>4. QueueInv' /\ clerk' \in [Clerk -> ClerkRecord]
  <2>1. Knows(Idle)'
    BY IdleRecord DEF Knows, Idle
  <2>2. \A j \in T!PaymentId : Quorum(j)' => Quorum(j) /\ ~Attends(clerk[c], j)
    BY <1>1, <1>3 DEF Calm, Attends
  <2> QED
    BY <1>0, <1>1, <1>3, <2>1, <2>2, IdleRecord, ClerkMoves DEF Calm
<1>5. CASE ticket' = ticket
  <2>1. TicketInv'
    BY <1>0, <1>1, <1>3, <1>5, TicketsUndisturbed DEF Calm
  <2>2. RuntimeType'
    BY <1>0, <1>1, <1>4, <1>5 DEF RuntimeType
  <2> QED
    BY <1>3, <1>4, <2>1, <2>2 DEF IInv, TypeOK, RuntimeType
<1>6. CASE Naming(id) # {}
  <2> SUFFICES ASSUME NEW i, i = FoundTicket(id),
                      NEW st, st = IF Busy(c, "reportExecuted") THEN "executed"
                                   ELSE "pending-approval",
                      NEW r, r = [ticket[i] EXCEPT !.status = st]
               PROVE  IInv'
    OBVIOUS
  <2>1. i \in TicketId /\ ticket[i].paymentId = id
    BY <1>0, <1>6, Found
  <2>2. ticket' = [ticket EXCEPT ![i].status = st]
    BY <1>6 DEF ReportApproval
  <2>3. ticket[i].step = "done"
    BY <1>2, <2>1 DEF T!PaymentId, IInv, TicketInv, OnlyWhenDone
  <2>4. ticket[i] \in Opened
    BY <1>0, <2>1, <2>3, OpenedOnes
  <2>5. st \in TicketStatus
    BY DEF TicketStatus
  <2>6. /\ r \in Opened /\ r.step = "done" /\ r.status = st
        /\ r.landed = ticket[i].landed /\ r.paymentId = id
    BY <2>1, <2>3, <2>4, <2>5, EditStatus
  <2>7. /\ ticket'[i] = r
        /\ ticket' \in [TicketId -> TicketRecord]
        /\ \A j \in TicketId : j # i => ticket'[j] = ticket[j]
    BY <1>0, <2>1, <2>2, <2>6, RecordParts DEF RuntimeType
  <2>8. RuntimeType'
    BY <1>0, <1>1, <1>4, <2>1, <2>3, <2>6, <2>7 DEF RuntimeType
  <2>9. OnlyWhenDone' /\ PaidMeansReceived'
    BY <1>0, <1>1, <2>6, <2>7 DEF TicketInv, OnlyWhenDone, PaidMeansReceived
  <2>10. ShownIsSettled'
    <3> SUFFICES ASSUME NEW j \in TicketId, ticket'[j].status = "executed",
                        NEW p, p = ticket'[j].paymentId
                 PROVE  p \in T!PaymentId /\ T!Known(p)' /\ Settled(p)'
      BY DEF ShownIsSettled, Settled, T!Known
    <3>1. p \in T!PaymentId /\ T!Known(p) /\ Settled(p)
      <4>1. CASE j = i
        BY <1>2, <2>6, <2>7, <4>1
      <4>2. CASE j # i
        BY <1>0, <2>7, <4>2 DEF TicketInv, ShownIsSettled
      <4> QED
        BY <4>1, <4>2
    <3> QED
      BY <1>0, <1>3, <3>1, StaysSettled DEF Calm
  <2> QED
    BY <1>3, <1>4, <2>8, <2>9, <2>10 DEF IInv, TypeOK, RuntimeType, TicketInv
<1> QED
  BY <1>5, <1>6 DEF ReportApproval

-----------------------------------------------------------------------------
LEMMA InitHolds == Init => IInv
<1> SUFFICES ASSUME Init PROVE IInv
  OBVIOUS
<1> USE ConciergeAssumption, DeploymentAssumption
        DEF ConciergeAssumption, DeploymentAssumption
<1>1. H!TypeOK
  <2>1. /\ casa \in [H!Holder -> Nat]
        /\ spend \in [H!Holder -> Nat]
    BY DEF Init
  <2>2. mandate \in [agent : Wallet \cup {NoWallet}, perTxCap : PerTxCap \cup {0},
                     expiresAt : Deadline \cup {0}, revoked : BOOLEAN]
    BY DEF Init
  <2>3. nextPaymentId \in 1..(MaxPayments + 1) /\ now \in 1..MaxTime
    BY DEF Init
  <2>4. position \in SUBSET Wallet /\ cleared \in SUBSET Owner
    BY DEF Init
  <2>5. /\ payments \in [H!House!PaymentId -> H!Payment \cup {NoPayment}]
        /\ \A id \in H!House!PaymentId : H!House!Known(id) <=> id < nextPaymentId
        /\ approvedBy \in [H!House!PaymentId -> SUBSET Owner]
    BY DEF Init, H!House!PaymentId, T!PaymentId, H!House!Known
  <2> QED
    BY <2>1, <2>2, <2>3, <2>4, <2>5 DEF H!TypeOK
<1>2. \A i \in TicketId : ticket[i] = Unopened
  BY DEF Init
<1>3. RuntimeType
  <2>1. \A i \in TicketId : ticket[i].step = "unopened" <=> i > counter
    BY <1>2 DEF Init, Unopened, TicketId
  <2>2. ticket \in [TicketId -> TicketRecord]
    BY RecordParts DEF Init
  <2>3. clerk \in [Clerk -> ClerkRecord]
    BY IdleRecord DEF Init
  <2> QED
    BY <2>1, <2>2, <2>3 DEF Init, RuntimeType
<1>4. TicketInv
  BY <1>2 DEF TicketInv, OnlyWhenDone, PaidMeansReceived, ShownIsSettled, Unopened
<1>5. QueueInv
  <2>1. \A c \in Clerk : Busy(c, "idle")
    BY IdleRecord DEF Init, Busy
  <2>2. \A id \in T!PaymentId : ~T!Known(id)
    BY DEF Init, T!Known
  <2> QED
    BY <2>1, <2>2 DEF QueueInv, ClerkKnows, Attended, Quorum
<1> QED
  BY <1>1, <1>3, <1>4, <1>5, TypeParts DEF IInv

LEMMA StepKeeps == IInv /\ [Next]_vars => IInv'
<1> SUFFICES ASSUME IInv, [Next]_vars PROVE IInv'
  OBVIOUS
<1>1. ASSUME NEW c \in Clerk, ClerkStep(c) PROVE IInv'
  BY <1>1, BeginApproveKeeps, SendApproveKeeps, ReadPaymentKeeps, SimulateExecuteKeeps,
     SendExecuteKeeps, ReportApprovalKeeps DEF ClerkStep
<1>2. CASE UNCHANGED vars
  <2>1. H!TypeOK /\ RuntimeType /\ TicketInv /\ QueueInv
    BY TypeParts DEF IInv
  <2>2. /\ UNCHANGED <<houseVars, counter, feed, ticket, clerk, filedFor, ownVendor>>
    BY <1>2 DEF vars, ticketVars
  <2>3. H!TypeOK' /\ Calm
    BY <2>1, <2>2, HouseKeeps, StillCalm
  <2>4. QueueInv' /\ TicketInv'
    BY <2>1, <2>2, <2>3, QueueUndisturbed, TicketsUndisturbed DEF Calm
  <2>5. RuntimeType'
    BY <2>1, <2>2 DEF RuntimeType
  <2> QED
    BY <2>3, <2>4, <2>5 DEF IInv, TypeOK, RuntimeType
<1> QED
  BY <1>1, <1>2, OpenKeeps, TicketKeeps, OwnerKeeps DEF Next

LEMMA Invariant == Spec => []IInv
BY InitHolds, StepKeeps, PTL DEF Spec

(* Tickets, clerks and the house keep their types, the house because every *)
(* step of a handler is a call it accepts or leaves it alone.              *)
THEOREM TypeCorrect == Spec => []TypeOK
<1>1. IInv => TypeOK
  BY DEF IInv
<1> QED
  BY <1>1, Invariant, PTL

(* Paid on the ticket means paid on chain, with the app's own plumber      *)
(* (vendor/invoice/route.ts:57-76, x402.js:61-72).                         *)
THEOREM PaidCorrect == Spec => []PaidMeansReceived
<1>1. IInv => PaidMeansReceived
  BY DEF IInv, TicketInv
<1> QED
  BY <1>1, Invariant, PTL

(* Executed on the ticket means executed, or beyond what the treasury      *)
(* holds, for any number of owners approving at once (route.ts:244-260).   *)
THEOREM ShownCorrect == Spec => []ShownExecutedIsExecuted
<1>1. IInv => ShownExecutedIsExecuted
  BY DEF IInv, TicketInv, ShownIsSettled, ShownExecutedIsExecuted, Settled, T!Known
<1> QED
  BY <1>1, Invariant, PTL

(* No payment sits with its quorum once nobody handles an approval of it,  *)
(* where no call fails (route.ts:244-254).                                 *)
THEOREM ApprovedAreExecuted == Spec => []NothingSitsApproved
<1>1. ASSUME IInv, NEW id \in T!PaymentId, ~Failures, T!Known(id),
             payments[id].approvals >= ApprovalThreshold,
             \A c \in Clerk : ~Busy(c, "idle") => clerk[c].id # id
      PROVE  payments[id].executed \/ spend[Treasury] < payments[id].amount
  <2>1. ~InHands(id)
    BY <1>1 DEF InHands, Busy
  <2>2. Settled(id)
    BY <1>1, <2>1 DEF IInv, QueueInv, Attended, Quorum
  <2> QED
    BY <2>2 DEF Settled
<1>2. IInv => NothingSitsApproved
  BY <1>1 DEF NothingSitsApproved
<1> QED
  BY <1>2, Invariant, PTL

-----------------------------------------------------------------------------
(* What the house promises it promises to the app's users: no handler does *)
(* to the chain what the house does not allow.                             *)
LEMMA StepIsHouse == IInv /\ [Next]_vars => HP!Next \/ UNCHANGED houseVars
<1> SUFFICES ASSUME IInv, [Next]_vars PROVE HP!Next \/ UNCHANGED houseVars
  OBVIOUS
<1>0. H!TypeOK /\ RuntimeType /\ OnlyWhenDone
  BY TypeParts DEF IInv, TicketInv
<1>1. ASSUME NEW i \in TicketId, TicketStep(i) PROVE HP!Next \/ UNCHANGED houseVars
  BY <1>0, <1>1, TicketStepEffect DEF TicketEffect
<1>2. ASSUME NEW c \in Clerk, SendApprove(c) PROVE HP!Next \/ UNCHANGED houseVars
  <2>1. clerk[c].id \in T!PaymentId /\ clerk[c].owner \in Owner
    BY <1>0, <1>2, ClerkType DEF SendApprove, Busy
  <2> QED
    BY <1>2, <2>1, ApproveIsHouse DEF SendApprove
<1>3. ASSUME NEW c \in Clerk, SendExecute(c) PROVE HP!Next \/ UNCHANGED houseVars
  <2>1. clerk[c].id \in T!PaymentId
    BY <1>0, <1>3, ClerkType DEF SendExecute, Busy
  <2> QED
    BY <1>3, <2>1, ExecuteIsHouse DEF SendExecute
<1>4. CASE OwnerStep
  <2>1. CASE H!Environment
    BY <2>1, EnvironmentIsHouse
  <2> QED
    BY <1>4, <2>1, FundIsHouse, GrantIsHouse, RevokeIsHouse
       DEF OwnerStep, Fund, GrantMandate, RevokeMandate, RevokeOwnerKyc, RestoreOwnerKyc,
           Timewarp
<1>5. CASE UNCHANGED vars
  BY <1>5 DEF vars
<1> QED
  BY <1>1, <1>2, <1>3, <1>4, <1>5
     DEF Next, OpenTicket, ClerkStep, BeginApprove, ReadPayment, SimulateExecute,
         ReportApproval

LEMMA StepIsHouseStep == IInv /\ [Next]_vars => [HP!Next]_HP!vars
<1>1. UNCHANGED houseVars => UNCHANGED HP!vars
  BY DEF houseVars, HP!vars, HP!treasuryVars, HP!coreVars
<1> QED
  BY <1>1, StepIsHouse

HouseInv == HP!TypeOK /\ HP!QuorumIsDistinctOwners

LEMMA HouseInvInit == Init => HP!QuorumIsDistinctOwners
BY DEF Init, HP!QuorumIsDistinctOwners, HP!House!Known, HP!House!PaymentId, T!PaymentId

LEMMA HouseInvHolds == Spec => []HouseInv
<1>1. IInv => HP!TypeOK
  BY SameType DEF IInv, TypeOK
<1>2. IInv /\ HP!QuorumIsDistinctOwners /\ [Next]_vars => HP!QuorumIsDistinctOwners'
  BY <1>1, StepIsHouseStep, HouseAssumed, HP!QuorumStep
<1>3. HP!TypeOK /\ HP!QuorumIsDistinctOwners => HouseInv
  BY DEF HouseInv
<1> QED
  BY <1>1, <1>2, <1>3, HouseInvInit, Invariant, PTL DEF Spec

(* In the app as in the house, the treasury's money leaves only for a      *)
(* payment that owners approved to the threshold, once                     *)
(* (HouseTreasury.sol:206-227, route.ts:244-254).                          *)
THEOREM TreasuryPaysApproved == Spec => HP!TreasuryPaysWhatWasApproved
<1>1. HouseInv /\ [HP!Next]_HP!vars =>
        [spend'[Treasury] < spend[Treasury] =>
          \E id \in HP!House!PaymentId :
              /\ HP!House!Known(id)
              /\ ~payments[id].executed
              /\ payments'[id].executed
              /\ HP!Cardinality(approvedBy[id]) >= ApprovalThreshold
              /\ spend'[Treasury] = spend[Treasury] - payments[id].amount
              /\ spend'[payments[id].vendor] =
                    spend[payments[id].vendor] + payments[id].amount]_HP!vars
  BY HouseAssumed, HP!TreasurySpends, HP!PaysApproved DEF HouseInv
<1> QED
  BY <1>1, StepIsHouseStep, Invariant, HouseInvHolds, PTL
     DEF Spec, HP!TreasuryPaysWhatWasApproved

-----------------------------------------------------------------------------
(* The books.  That every coin is accounted for is inductive once it is    *)
(* known which legs a ticket can have behind it at each step, that what it *)
(* is about to pay is what it says, and that payments are the plumber's.   *)
Fits(r) ==
    /\ r.step \in {"unopened", "decide", "swap", "sendSwap", "propose", "sendPropose", "record"}
          => r.landed = {}
    /\ r.step \in {"invoice", "pay", "sendPay"} => "pay" \notin r.landed
    /\ r.step \in {"pay", "sendPay"} => r.offer.payTo = Vendor /\ r.offer.amount = r.amount

LegsFit == \A i \in TicketId : Fits(ticket[i])

VendorsFit == \A id \in T!PaymentId : T!Known(id) => payments[id].vendor = Vendor

Books == LegsFit /\ VendorsFit /\ CoinsAreAccounted

(* The four sums of the books, as functions that are summed.               *)
Amounts(leg) == [i \in Landed(leg) |-> ticket[i].amount]

PaidOut == [id \in Executed |-> payments[id].amount]

LEMMA BooksNow == CoinsAreAccounted <=>
    /\ spend[Agent] = Sum(Amounts("swap")) - Sum(Amounts("pay"))
    /\ spend[Vendor] = Sum(Amounts("pay")) + Sum(PaidOut)
BY DEF CoinsAreAccounted, Total, Amounts, PaidOut, Sum

LEMMA BooksNext == CoinsAreAccounted' <=>
    /\ spend'[Agent] = Sum(Amounts("swap")') - Sum(Amounts("pay")')
    /\ spend'[Vendor] = Sum(Amounts("pay")') + Sum(PaidOut')
<1>1. CoinsAreAccounted' <=>
        /\ spend'[Agent] = FoldFunction(+, 0, [i \in Landed("swap")' |-> ticket'[i].amount])
                             - FoldFunction(+, 0, [i \in Landed("pay")' |-> ticket'[i].amount])
        /\ spend'[Vendor] = FoldFunction(+, 0, [i \in Landed("pay")' |-> ticket'[i].amount])
                             + FoldFunction(+, 0, [id \in Executed' |-> payments'[id].amount])
  BY DEF CoinsAreAccounted, Total, FoldFunction, FoldFunctionOnSet, MapThenFoldSet
<1>2. /\ Amounts("swap")' = [i \in Landed("swap")' |-> ticket'[i].amount]
      /\ Amounts("pay")' = [i \in Landed("pay")' |-> ticket'[i].amount]
      /\ PaidOut' = [id \in Executed' |-> payments'[id].amount]
  BY DEF Amounts, PaidOut
<1>3. /\ Sum(Amounts("swap")')
           = FoldFunction(+, 0, [i \in Landed("swap")' |-> ticket'[i].amount])
      /\ Sum(Amounts("pay")')
           = FoldFunction(+, 0, [i \in Landed("pay")' |-> ticket'[i].amount])
      /\ Sum(PaidOut') = FoldFunction(+, 0, [id \in Executed' |-> payments'[id].amount])
  BY Zenon, <1>2 DEF Sum
<1> QED
  BY Zenon, <1>1, <1>3

LEMMA LandedIsOpened ==
    ASSUME RuntimeType, NEW leg, NEW i \in Landed(leg)
    PROVE  ticket[i] \in Opened /\ ticket[i].amount \in Nat
<1>1. ticket[i] \in TicketRecord /\ ticket[i].landed # {}
  BY DEF RuntimeType, Landed
<1>2. ticket[i] \in Opened
  BY <1>1, RecordParts DEF Unopened
<1> QED
  BY <1>2, DeploymentAssumption DEF Opened, DeploymentAssumption

LEMMA AmountsType ==
    ASSUME RuntimeType, NEW leg
    PROVE  /\ IsFiniteSet(Landed(leg))
           /\ Amounts(leg) \in [Landed(leg) -> Int]
           /\ Sum(Amounts(leg)) \in Int
<1>1. IsFiniteSet(Landed(leg))
  <2>1. IsFiniteSet(TicketId)
    BY FS_Interval, ConciergeAssumption DEF TicketId, ConciergeAssumption
  <2> QED
    BY <2>1, FS_Subset DEF Landed
<1>2. Amounts(leg) \in [Landed(leg) -> Int]
  BY LandedIsOpened DEF Amounts
<1> QED
  BY <1>1, <1>2, SumType

LEMMA PaidOutType ==
    ASSUME H!TypeOK
    PROVE  /\ IsFiniteSet(Executed)
           /\ PaidOut \in [Executed -> Int]
           /\ Sum(PaidOut) \in Int
<1>1. IsFiniteSet(Executed)
  <2>1. IsFiniteSet(T!PaymentId)
    BY FS_Interval, DeploymentAssumption DEF T!PaymentId, DeploymentAssumption
  <2> QED
    BY <2>1, FS_Subset DEF Executed
<1>2. PaidOut \in [Executed -> Int]
  BY HouseNumbers DEF PaidOut, Executed
<1> QED
  BY <1>1, <1>2, SumType

-----------------------------------------------------------------------------
(* How a rewritten ticket, and a changed payment, change the sums.         *)
LEMMA SameLeg ==
    ASSUME RuntimeType, NEW i \in TicketId, NEW r, ticket' = [ticket EXCEPT ![i] = r], NEW leg,
           leg \in r.landed <=> leg \in ticket[i].landed,
           leg \in r.landed => r.amount = ticket[i].amount
    PROVE  Amounts(leg)' = Amounts(leg)
<1>1. ticket'[i] = r /\ \A j \in TicketId : j # i => ticket'[j] = ticket[j]
  BY DEF RuntimeType
<1>2. Landed(leg)' = Landed(leg)
  BY <1>1 DEF Landed
<1>3. \A j \in Landed(leg) : ticket'[j].amount = ticket[j].amount
  BY <1>1 DEF Landed
<1> QED
  BY <1>2, <1>3 DEF Amounts

LEMMA MoreLegs ==
    ASSUME RuntimeType, NEW i \in TicketId, NEW r, ticket' = [ticket EXCEPT ![i] = r], NEW leg,
           leg \in r.landed, leg \notin ticket[i].landed, r.amount \in Int
    PROVE  Sum(Amounts(leg)') = Sum(Amounts(leg)) + r.amount
<1>1. ticket'[i] = r /\ \A j \in TicketId : j # i => ticket'[j] = ticket[j]
  BY DEF RuntimeType
<1>2. Landed(leg)' = Landed(leg) \cup {i} /\ i \notin Landed(leg)
  BY <1>1 DEF Landed
<1>3. \A j \in Landed(leg) : ticket'[j].amount = ticket[j].amount
  BY <1>1 DEF Landed
<1> DEFINE S == Landed(leg)
<1>4. PICK f \in [S -> Int] : f = Amounts(leg)
  BY AmountsType
<1>5. Amounts(leg)' = [j \in S \cup {i} |-> ticket'[j].amount]
  BY <1>2 DEF Amounts
<1>6. \A j \in S : ticket'[j].amount = f[j]
  BY <1>3, <1>4 DEF Amounts
<1> HIDE DEF S
<1>7. PICK g \in [S \cup {i} -> Int] : g = Amounts(leg)'
  BY <1>1, <1>5, <1>6
<1>8. g[i] = r.amount /\ \A j \in S : g[j] = f[j]
  BY <1>1, <1>5, <1>6, <1>7
<1>9. IsFiniteSet(S) /\ i \notin S
  BY <1>2, AmountsType DEF S
<1>10. Sum(g) = Sum(f) + g[i]
  BY <1>8, <1>9, SumExtend
<1> QED
  BY <1>4, <1>7, <1>8, <1>10

LEMMA SamePaidOut ==
    ASSUME \A id \in T!PaymentId :
             /\ T!Known(id)' /\ payments'[id].executed <=> T!Known(id) /\ payments[id].executed
             /\ T!Known(id) /\ payments[id].executed => payments'[id].amount = payments[id].amount
    PROVE  PaidOut' = PaidOut
<1>1. Executed' = Executed
  BY DEF Executed
<1>2. \A id \in Executed : payments'[id].amount = payments[id].amount
  BY DEF Executed
<1> QED
  BY <1>1, <1>2 DEF PaidOut

LEMMA MorePaidOut ==
    ASSUME H!TypeOK, H!TypeOK', NEW id \in T!PaymentId, T!Known(id), ~payments[id].executed,
           NEW p, payments' = [payments EXCEPT ![id] = p], p # NoPayment, p.executed,
           p.amount = payments[id].amount
    PROVE  Sum(PaidOut') = Sum(PaidOut) + payments[id].amount
<1>1. payments'[id] = p /\ \A k \in T!PaymentId : k # id => payments'[k] = payments[k]
  BY DEF H!TypeOK, H!House!PaymentId, T!PaymentId
<1>2. Executed' = Executed \cup {id} /\ id \notin Executed
  BY <1>1 DEF Executed, T!Known
<1> DEFINE S == Executed
<1>3. PICK f \in [S -> Int] : f = PaidOut
  BY PaidOutType
<1>4. PaidOut' = [k \in S \cup {id} |-> payments'[k].amount]
  BY <1>2 DEF PaidOut
<1>5. \A k \in S : payments'[k].amount = f[k]
  BY <1>1, <1>2, <1>3 DEF PaidOut, Executed
<1>6. p.amount \in Int
  BY HouseNumbers
<1>9. IsFiniteSet(S) /\ id \notin S
  BY <1>2, PaidOutType
<1> HIDE DEF S
<1>7. PICK g \in [S \cup {id} -> Int] : g = PaidOut'
  BY <1>1, <1>4, <1>5, <1>6
<1>8. g[id] = p.amount /\ \A k \in S : g[k] = f[k]
  BY <1>1, <1>4, <1>5, <1>7
<1>10. Sum(g) = Sum(f) + g[id]
  BY <1>8, <1>9, SumExtend
<1> QED
  BY <1>3, <1>7, <1>8, <1>10

-----------------------------------------------------------------------------
(* What the calls of the handlers do to the money and to the payments.     *)
MoneyStill ==
    /\ spend'[Agent] = spend[Agent]
    /\ spend'[Vendor] = spend[Vendor]
    /\ PaidOut' = PaidOut
    /\ VendorsFit'

LEMMA HolderFacts ==
    /\ Agent \in H!Holder /\ Vendor \in H!Holder /\ Treasury \in H!Holder /\ Pool \in H!Holder
    /\ Agent # Vendor /\ Agent # Treasury /\ Agent # Pool
    /\ Vendor # Treasury /\ Vendor # Pool
BY DeploymentAssumption, ConciergeAssumption
   DEF DeploymentAssumption, ConciergeAssumption, H!Holder

LEMMA SpendNumbers ==
    ASSUME H!TypeOK
    PROVE  spend \in [H!Holder -> Nat] /\ spend[Agent] \in Nat /\ spend[Vendor] \in Nat
BY HolderFacts DEF H!TypeOK

LEMMA SamePaymentsStill ==
    ASSUME VendorsFit, payments' = payments
    PROVE  PaidOut' = PaidOut /\ VendorsFit'
<1>1. \A id \in T!PaymentId : T!Known(id)' <=> T!Known(id)
  BY DEF T!Known
<1>2. PaidOut' = PaidOut
  BY <1>1, SamePaidOut
<1> QED
  BY <1>1, <1>2 DEF VendorsFit

LEMMA ProposeStill ==
    ASSUME H!TypeOK, VendorsFit, NEW a \in Amount, H!ProposePayment(Agent, Vendor, a)
    PROVE  MoneyStill
<1> DEFINE new == [vendor |-> Vendor, amount |-> a, approvals |-> 0, executed |-> FALSE]
<1>1. /\ nextPaymentId \in T!PaymentId
      /\ payments' = [payments EXCEPT ![nextPaymentId] = new]
      /\ spend' = spend
  BY DEF H!ProposePayment, H!House!ProposePayment, H!House!PaymentId, T!PaymentId
<1>2. ~T!Known(nextPaymentId)
  BY <1>1 DEF H!TypeOK, H!House!Known, T!Known, H!House!PaymentId, T!PaymentId
<1>3. new.vendor = Vendor /\ ~new.executed
  OBVIOUS
<1> HIDE DEF new
<1>4. /\ payments'[nextPaymentId] = new
      /\ \A id \in T!PaymentId : id # nextPaymentId => payments'[id] = payments[id]
  BY <1>1 DEF H!TypeOK, H!House!PaymentId, T!PaymentId
<1>5. PaidOut' = PaidOut
  BY <1>2, <1>3, <1>4, SamePaidOut DEF T!Known
<1>6. VendorsFit'
  BY <1>3, <1>4 DEF VendorsFit, T!Known
<1> QED
  BY <1>1, <1>5, <1>6 DEF MoneyStill

LEMMA ApproveStill ==
    ASSUME H!TypeOK, VendorsFit, NEW o \in Owner, NEW id \in T!PaymentId,
           H!ApprovePayment(o, id)
    PROVE  MoneyStill
<1>1. /\ T!Known(id)
      /\ payments' = [payments EXCEPT ![id].approvals = @ + 1]
      /\ spend' = spend
  BY DEF H!ApprovePayment, H!House!ApprovePayment, H!House!Known, T!Known
<1>2. payments[id] \in H!Payment
  BY <1>1, HouseNumbers
<1> DEFINE p == [payments[id] EXCEPT !.approvals = @ + 1]
<1>3. /\ p \in H!Payment
      /\ p.vendor = payments[id].vendor
      /\ p.amount = payments[id].amount
      /\ p.executed = payments[id].executed
  BY <1>2 DEF H!Payment
<1>4. p # NoPayment
  BY <1>3, DeploymentAssumption DEF DeploymentAssumption, H!Payment
<1>5. payments' = [payments EXCEPT ![id] = p]
  BY <1>1
<1> HIDE DEF p
<1>6. /\ payments'[id] = p
      /\ \A k \in T!PaymentId : k # id => payments'[k] = payments[k]
  BY <1>5 DEF H!TypeOK, H!House!PaymentId, T!PaymentId
<1>7. PaidOut' = PaidOut
  BY <1>1, <1>3, <1>4, <1>6, SamePaidOut DEF T!Known
<1>8. VendorsFit'
  BY <1>1, <1>3, <1>6 DEF VendorsFit, T!Known
<1> QED
  BY <1>1, <1>7, <1>8 DEF MoneyStill

LEMMA ExecutePays ==
    ASSUME H!TypeOK, H!TypeOK', VendorsFit, NEW id \in T!PaymentId, H!ExecutePayment(id)
    PROVE  /\ spend'[Agent] = spend[Agent]
           /\ spend'[Vendor] = spend[Vendor] + payments[id].amount
           /\ Sum(PaidOut') = Sum(PaidOut) + payments[id].amount
           /\ VendorsFit'
<1>1. /\ T!Known(id) /\ ~payments[id].executed
      /\ payments' = [payments EXCEPT ![id].executed = TRUE]
      /\ H!Spend!Transfer(Treasury, payments[id].vendor, payments[id].amount)
  BY DEF H!ExecutePayment, H!House!ExecutePayment, H!House!Known, T!Known
<1>2. payments[id] \in H!Payment /\ payments[id].amount \in Nat /\ payments[id].vendor = Vendor
  BY <1>1, HouseNumbers DEF VendorsFit
<1> DEFINE p == [payments[id] EXCEPT !.executed = TRUE]
<1>3. /\ p \in H!Payment /\ p.executed
      /\ p.vendor = payments[id].vendor
      /\ p.amount = payments[id].amount
  BY <1>2 DEF H!Payment
<1>4. p # NoPayment
  BY <1>3, DeploymentAssumption DEF DeploymentAssumption, H!Payment
<1>5. payments' = [payments EXCEPT ![id] = p]
  BY <1>1
<1> HIDE DEF p
<1>6. /\ payments'[id] = p
      /\ \A k \in T!PaymentId : k # id => payments'[k] = payments[k]
  BY <1>5 DEF H!TypeOK, H!House!PaymentId, T!PaymentId
<1>7. Sum(PaidOut') = Sum(PaidOut) + payments[id].amount
  BY <1>1, <1>3, <1>4, <1>5, MorePaidOut
<1>8. VendorsFit'
  BY <1>1, <1>3, <1>6 DEF VendorsFit, T!Known
<1>9. spend' = [spend EXCEPT ![Treasury] = @ - payments[id].amount,
                             ![Vendor] = @ + payments[id].amount]
  BY <1>1, <1>2 DEF H!Spend!Transfer
<1>10. spend'[Agent] = spend[Agent] /\ spend'[Vendor] = spend[Vendor] + payments[id].amount
  BY <1>9, SpendNumbers, HolderFacts
<1> QED
  BY <1>7, <1>8, <1>10

LEMMA SellPays ==
    ASSUME H!TypeOK, VendorsFit, NEW x, NEW y \in Amount, H!SellCasa(Agent, x, y, y)
    PROVE  /\ spend'[Agent] = spend[Agent] + y
           /\ spend'[Vendor] = spend[Vendor]
           /\ PaidOut' = PaidOut /\ VendorsFit'
<1>1. /\ payments' = payments
      /\ spend' = [spend EXCEPT ![Pool] = @ - y, ![Agent] = @ + y]
  BY DEF H!SellCasa, H!Spend!Transfer, H!treasuryVars
<1>2. spend'[Agent] = spend[Agent] + y /\ spend'[Vendor] = spend[Vendor]
  BY <1>1, SpendNumbers, HolderFacts
<1> QED
  BY <1>1, <1>2, SamePaymentsStill

LEMMA PayPays ==
    ASSUME H!TypeOK, VendorsFit, NEW a \in Amount, H!TransferSpend(Agent, Vendor, a)
    PROVE  /\ spend'[Agent] = spend[Agent] - a
           /\ spend'[Vendor] = spend[Vendor] + a
           /\ PaidOut' = PaidOut /\ VendorsFit'
<1>1. /\ payments' = payments
      /\ spend' = [spend EXCEPT ![Agent] = @ - a, ![Vendor] = @ + a]
  BY DEF H!TransferSpend, H!Spend!Transfer, H!treasuryVars
<1>2. spend'[Agent] = spend[Agent] - a /\ spend'[Vendor] = spend[Vendor] + a
  BY <1>1, SpendNumbers, HolderFacts
<1> QED
  BY <1>1, <1>2, SamePaymentsStill

LEMMA NothingStill ==
    ASSUME VendorsFit, payments' = payments, spend' = spend
    PROVE  MoneyStill
BY SamePaymentsStill DEF MoneyStill

-----------------------------------------------------------------------------
(* What a handler's step does to its ticket, as far as the books go.       *)
Rewrites(i, r) ==
    /\ ticket' = [ticket EXCEPT ![i] = r]
    /\ r.amount = ticket[i].amount
    /\ Fits(r)

Quiet(i) ==
    /\ \E r \in Opened : Rewrites(i, r) /\ r.landed = ticket[i].landed
    /\ MoneyStill

LEMMA RewritesFit ==
    ASSUME RuntimeType, LegsFit, NEW i \in TicketId, NEW r, Rewrites(i, r)
    PROVE  LegsFit'
<1>1. ticket'[i] = r /\ \A j \in TicketId : j # i => ticket'[j] = ticket[j]
  BY DEF RuntimeType, Rewrites
<1>2. \A j \in TicketId : Fits(ticket'[j])
  BY <1>1 DEF LegsFit, Rewrites
<1> QED
  BY <1>2 DEF LegsFit, Fits

LEMMA QuietKeepsBooks ==
    ASSUME RuntimeType, Books, NEW i \in TicketId, Quiet(i)
    PROVE  Books'
<1>1. PICK r \in Opened : Rewrites(i, r) /\ r.landed = ticket[i].landed
  BY DEF Quiet
<1>2. LegsFit'
  BY <1>1, RewritesFit DEF Books
<1>3. Amounts("swap")' = Amounts("swap") /\ Amounts("pay")' = Amounts("pay")
  BY <1>1, SameLeg DEF Rewrites
<1>4. CoinsAreAccounted'
  BY <1>3, BooksNow, BooksNext DEF Books, Quiet, MoneyStill
<1> QED
  BY <1>2, <1>4 DEF Books, Quiet, MoneyStill

LEMMA MoveQuiet ==
    ASSUME RuntimeType, Books, NEW i \in TicketId, ticket[i].step \notin {"unopened", "done"},
           NEW s \in TicketSteps, Move(i, s), MoneyStill,
           \/ At(i, "swap") /\ s = "sendSwap"
           \/ At(i, "pay") /\ s = "sendPay"
           \/ At(i, "sendPropose") /\ s = "record"
    PROVE  Quiet(i)
<1> DEFINE r == [ticket[i] EXCEPT !.step = s]
<1>1. ticket' = [ticket EXCEPT ![i] = r]
  BY DEF Move, RuntimeType
<1>2. /\ r \in Opened /\ r.step = s /\ r.landed = ticket[i].landed
      /\ r.offer = ticket[i].offer /\ r.amount = ticket[i].amount
  BY OpenedOnes, EditStep
<1> HIDE DEF r
<1>3. Fits(ticket[i])
  BY DEF Books, LegsFit
<1>4. Fits(r)
  BY <1>2, <1>3 DEF Fits, At
<1> QED
  BY <1>1, <1>2, <1>4 DEF Quiet, Rewrites

LEMMA CloseQuiet ==
    ASSUME RuntimeType, NEW i \in TicketId, ticket[i].step \notin {"unopened", "done"},
           NEW s \in TicketStatus, Close(i, s), MoneyStill
    PROVE  Quiet(i)
<1> DEFINE q == [ticket[i] EXCEPT !.step = "done"]
           r == [q EXCEPT !.status = s]
<1>1. ticket' = [ticket EXCEPT ![i] = r]
  BY DEF Close, RuntimeType
<1>2. /\ q \in Opened /\ q.step = "done" /\ q.landed = ticket[i].landed
      /\ q.amount = ticket[i].amount
  BY OpenedOnes, EditStep DEF TicketSteps
<1> HIDE DEF q
<1>3. /\ r \in Opened /\ r.step = "done" /\ r.landed = ticket[i].landed
      /\ r.amount = ticket[i].amount
  BY <1>2, EditStatus
<1> HIDE DEF r
<1>4. Fits(r)
  BY <1>3 DEF Fits
<1> QED
  BY <1>1, <1>3, <1>4 DEF Quiet, Rewrites

LEMMA DecideQuiet ==
    ASSUME RuntimeType, Books, NEW i \in TicketId, NEW allowed \in BOOLEAN, Decide(i, allowed)
    PROVE  Quiet(i)
<1>0. ticket[i].step = "decide" /\ ticket[i] \in Opened
  BY OpenedOnes DEF Decide, At
<1>1. PICK d \in Decisions(i, allowed) :
        ticket' = [ticket EXCEPT
                     ![i].step = CASE d = "pay" -> "swap" [] d = "propose" -> "propose"
                                   [] d = "reject" -> "done",
                     ![i].status = IF d = "reject" THEN "rejected" ELSE d]
  BY DEF Decide
<1>2. d \in {"pay", "propose", "reject"}
  BY DEF Decisions, MockDecide
<1> DEFINE a == CASE d = "pay" -> "swap" [] d = "propose" -> "propose"
                  [] d = "reject" -> "done"
           b == IF d = "reject" THEN "rejected" ELSE d
           q == [ticket[i] EXCEPT !.step = a]
           r == [q EXCEPT !.status = b]
<1>3. a \in {"swap", "propose", "done"} /\ a \in TicketSteps /\ b \in TicketStatus
  BY <1>2 DEF TicketSteps, TicketStatus
<1>4. ticket' = [ticket EXCEPT ![i].step = a, ![i].status = b]
  BY <1>1
<1> HIDE DEF a, b
<1>5. ticket' = [ticket EXCEPT ![i] = r]
  BY <1>4 DEF RuntimeType
<1>6. /\ q \in Opened /\ q.step = a /\ q.landed = ticket[i].landed
      /\ q.amount = ticket[i].amount
  BY <1>0, <1>3, EditStep
<1> HIDE DEF q
<1>7. /\ r \in Opened /\ r.step = a /\ r.landed = ticket[i].landed
      /\ r.amount = ticket[i].amount
  BY <1>3, <1>6, EditStatus
<1> HIDE DEF r
<1>8. ticket[i].landed = {}
  BY <1>0 DEF Books, LegsFit, Fits
<1>9. Fits(r)
  BY <1>3, <1>7, <1>8 DEF Fits
<1>10. MoneyStill
  BY NothingStill DEF Decide, houseVars, Books
<1> QED
  BY <1>5, <1>7, <1>9, <1>10 DEF Quiet, Rewrites

LEMMA FetchOfferQuiet ==
    ASSUME RuntimeType, Books, NEW i \in TicketId, FetchOffer(i)
    PROVE  Quiet(i)
<1>0. ticket[i].step = "invoice" /\ ticket[i] \in Opened /\ "pay" \notin ticket[i].landed
  BY OpenedOnes DEF FetchOffer, At, Books, LegsFit, Fits
<1>1. MoneyStill
  BY NothingStill DEF FetchOffer, houseVars, Books
<1>2. PICK offer \in IF ownVendor THEN {OwnOffer(i)} ELSE Offer, heard \in Heard :
        IF heard /\ ~Mismatched(i, offer)
        THEN ticket' = [ticket EXCEPT ![i].step = "pay", ![i].offer = offer]
        ELSE Close(i, "unsettled")
  BY DEF FetchOffer
<1>3. CASE heard /\ ~Mismatched(i, offer)
  <2>1. offer.payTo = Vendor /\ offer.amount = ticket[i].amount
    BY <1>3 DEF Mismatched
  <2>2. offer \in Offer
    <3>1. ticket[i].amount \in Amount /\ Vendor \in Wallet
      BY <1>0, ConciergeAssumption DEF ConciergeAssumption, Opened
    <3> QED
      BY <3>1 DEF OwnOffer, Offer
  <2> DEFINE q == [ticket[i] EXCEPT !.step = "pay"]
             r == [q EXCEPT !.offer = offer]
  <2>3. ticket' = [ticket EXCEPT ![i] = r]
    BY <1>2, <1>3 DEF RuntimeType
  <2>4. q \in Opened /\ q.step = "pay" /\ q.landed = ticket[i].landed /\ q.amount = ticket[i].amount
    BY <1>0, EditStep DEF TicketSteps
  <2> HIDE DEF q
  <2>5. /\ r \in Opened /\ r.step = "pay" /\ r.landed = ticket[i].landed
        /\ r.amount = ticket[i].amount /\ r.offer = offer
    BY <2>2, <2>4, EditOffer
  <2> HIDE DEF r
  <2>6. Fits(r)
    BY <1>0, <2>1, <2>5 DEF Fits
  <2> QED
    BY <1>1, <2>3, <2>5, <2>6 DEF Quiet, Rewrites
<1>4. CASE ~(heard /\ ~Mismatched(i, offer))
  BY <1>0, <1>1, <1>2, <1>4, CloseQuiet DEF TicketStatus
<1> QED
  BY <1>3, <1>4

LEMMA ProposeQuiet ==
    ASSUME H!TypeOK, RuntimeType, Books, NEW i \in TicketId,
           SimulatePropose(i) \/ SendPropose(i) \/ RecordProposal(i)
    PROVE  Quiet(i)
<1>0. /\ ticket[i].step \in {"propose", "sendPropose", "record"}
      /\ ticket[i] \in Opened /\ ticket[i].landed = {}
  BY OpenedOnes DEF SimulatePropose, SendPropose, RecordProposal, At, Books, LegsFit, Fits
<1>1. CASE SimulatePropose(i)
  <2>1. MoneyStill
    BY <1>1, NothingStill DEF SimulatePropose, houseVars, Books
  <2>2. CASE Close(i, "refused")
    BY <1>0, <2>1, <2>2, CloseQuiet DEF TicketStatus
  <2>3. CASE ticket' = [ticket EXCEPT ![i].step = "sendPropose", ![i].read = nextPaymentId]
    <3> DEFINE q == [ticket[i] EXCEPT !.step = "sendPropose"]
               r == [q EXCEPT !.read = nextPaymentId]
    <3>1. ticket' = [ticket EXCEPT ![i] = r]
      BY <2>3 DEF RuntimeType
    <3>2. /\ q \in Opened /\ q.step = "sendPropose" /\ q.landed = ticket[i].landed
          /\ q.amount = ticket[i].amount
      BY <1>0, EditStep DEF TicketSteps
    <3>3. nextPaymentId \in Nat
      BY DeploymentAssumption DEF H!TypeOK, DeploymentAssumption
    <3> HIDE DEF q
    <3>4. /\ r \in Opened /\ r.step = "sendPropose" /\ r.landed = ticket[i].landed
          /\ r.amount = ticket[i].amount
      BY <3>2, <3>3, EditRead
    <3> HIDE DEF r
    <3>5. Fits(r)
      BY <1>0, <3>4 DEF Fits
    <3> QED
      BY <2>1, <3>1, <3>4, <3>5 DEF Quiet, Rewrites
  <2> QED
    BY <1>1, <2>2, <2>3 DEF SimulatePropose
<1>2. CASE SendPropose(i)
  <2>1. ticket[i].amount \in Amount
    BY <1>0 DEF Opened
  <2>2. MoneyStill
    BY <1>2, <2>1, ProposeStill, NothingStill DEF SendPropose, houseVars, Books
  <2>3. Move(i, "record") \/ Close(i, "refused")
    BY <1>2 DEF SendPropose
  <2> QED
    BY <1>0, <1>2, <2>2, <2>3, MoveQuiet, CloseQuiet DEF SendPropose, TicketSteps, TicketStatus
<1>3. CASE RecordProposal(i)
  <2>1. MoneyStill
    BY <1>3, NothingStill DEF RecordProposal, houseVars, Books
  <2> DEFINE n == ticket[i].read
             o == [ticket[i] EXCEPT !.step = "done"]
             p == [o EXCEPT !.status = "pending-approval"]
             q == [p EXCEPT !.paymentId = n]
             r == [q EXCEPT !.read = 0]
  <2>2. n \in Nat
    BY <1>0 DEF Opened
  <2>3. ticket' = [ticket EXCEPT ![i] = r]
    <3>1. ticket' = [ticket EXCEPT ![i].step = "done", ![i].status = "pending-approval",
                                   ![i].paymentId = n, ![i].read = 0]
      BY <1>3 DEF RecordProposal
    <3> HIDE DEF n
    <3> QED
      BY <3>1 DEF RuntimeType
  <2> HIDE DEF n
  <2>4. o \in Opened /\ o.step = "done" /\ o.landed = ticket[i].landed /\ o.amount = ticket[i].amount
    BY <1>0, EditStep DEF TicketSteps
  <2> HIDE DEF o
  <2>5. p \in Opened /\ p.step = "done" /\ p.landed = ticket[i].landed /\ p.amount = ticket[i].amount
    BY <2>4, EditStatus DEF TicketStatus
  <2> HIDE DEF p
  <2>6. q \in Opened /\ q.step = "done" /\ q.landed = ticket[i].landed /\ q.amount = ticket[i].amount
    BY <2>2, <2>5, EditPayment
  <2> HIDE DEF q
  <2>7. r \in Opened /\ r.step = "done" /\ r.landed = ticket[i].landed /\ r.amount = ticket[i].amount
    BY <2>6, EditRead
  <2> HIDE DEF r
  <2>8. Fits(r)
    BY <2>7 DEF Fits
  <2> QED
    BY <2>1, <2>3, <2>7, <2>8 DEF Quiet, Rewrites
<1> QED
  BY <1>1, <1>2, <1>3

-----------------------------------------------------------------------------
(* The two steps of rail 1 that move money.                                *)
LEMMA SwapKeepsBooks ==
    ASSUME H!TypeOK, RuntimeType, Books, NEW i \in TicketId, SendSwap(i)
    PROVE  Books'
<1>0. ticket[i].step = "sendSwap" /\ ticket[i] \in Opened /\ ticket[i].landed = {}
  BY OpenedOnes DEF SendSwap, At, Books, LegsFit, Fits
<1>1. PICK casaIn \in Amount, heard \in Heard :
        /\ IF CanSwap(i, casaIn)
           THEN H!SellCasa(Agent, casaIn, ticket[i].amount, ticket[i].amount)
           ELSE UNCHANGED houseVars
        /\ ticket' = [ticket EXCEPT
              ![i].landed = IF CanSwap(i, casaIn) THEN {"swap"} ELSE {},
              ![i].step   = IF heard THEN "invoice" ELSE "done",
              ![i].status = IF heard THEN @ ELSE "refused"]
  BY DEF SendSwap
<1> DEFINE l == IF CanSwap(i, casaIn) THEN {"swap"} ELSE {}
           a == IF heard THEN "invoice" ELSE "done"
           b == IF heard THEN ticket[i].status ELSE "refused"
           p == [ticket[i] EXCEPT !.landed = l]
           q == [p EXCEPT !.step = a]
           r == [q EXCEPT !.status = b]
<1>2. ticket[i].amount \in Amount /\ ticket[i].amount \in Nat /\ ticket[i].status \in TicketStatus
  BY <1>0, DeploymentAssumption DEF Opened, DeploymentAssumption
<1>3. /\ l \in SUBSET {"swap", "pay"} /\ "pay" \notin l
      /\ a \in TicketSteps /\ a \in {"invoice", "done"}
      /\ b \in TicketStatus
  BY <1>2 DEF TicketSteps, TicketStatus
<1>4. ticket' = [ticket EXCEPT ![i] = r]
  <2>1. ticket' = [ticket EXCEPT ![i].landed = l, ![i].step = a,
                                 ![i].status = IF heard THEN @ ELSE "refused"]
    BY <1>1
  <2>2. q.status = ticket[i].status
    BY <1>0 DEF Opened
  <2> HIDE DEF l, a
  <2> QED
    BY <2>1, <2>2 DEF RuntimeType
<1>5. IF CanSwap(i, casaIn) THEN l = {"swap"} ELSE l = {}
  OBVIOUS
<1> HIDE DEF l, a, b
<1>6. p \in Opened /\ p.landed = l /\ p.amount = ticket[i].amount
  BY <1>0, <1>3, EditLanded
<1> HIDE DEF p
<1>7. q \in Opened /\ q.landed = l /\ q.step = a /\ q.amount = ticket[i].amount
  BY <1>3, <1>6, EditStep
<1> HIDE DEF q
<1>8. r \in Opened /\ r.landed = l /\ r.step = a /\ r.amount = ticket[i].amount
  BY <1>3, <1>7, EditStatus
<1> HIDE DEF r
<1>9. Rewrites(i, r)
  BY <1>3, <1>4, <1>8 DEF Rewrites, Fits
<1>10. CASE CanSwap(i, casaIn)
  <2>1. l = {"swap"}
    BY <1>5, <1>10
  <2>2. /\ spend'[Agent] = spend[Agent] + ticket[i].amount
        /\ spend'[Vendor] = spend[Vendor]
        /\ PaidOut' = PaidOut /\ VendorsFit'
    BY <1>1, <1>2, <1>10, SellPays DEF Books
  <2>3. Sum(Amounts("swap")') = Sum(Amounts("swap")) + ticket[i].amount
    <3>1. "swap" \in r.landed /\ "swap" \notin ticket[i].landed
      BY <1>0, <1>8, <2>1
    <3>2. r.amount \in Int
      BY <1>2, <1>8
    <3>3. Sum(Amounts("swap")') = Sum(Amounts("swap")) + r.amount
      BY <1>4, <3>1, <3>2, MoreLegs
    <3> QED
      BY <1>8, <3>3, Zenon
  <2>4. Amounts("pay")' = Amounts("pay")
    BY <1>0, <1>4, <1>8, <2>1, SameLeg
  <2>5. Sum(Amounts("swap")) \in Int /\ Sum(Amounts("pay")) \in Int
    BY AmountsType
  <2>6. /\ spend'[Agent] = Sum(Amounts("swap")') - Sum(Amounts("pay")')
        /\ spend'[Vendor] = Sum(Amounts("pay")') + Sum(PaidOut')
    BY <1>2, <2>2, <2>3, <2>4, <2>5, BooksNow DEF Books
  <2> QED
    BY <1>9, <2>2, <2>6, BooksNext, RewritesFit DEF Books
<1>11. CASE ~CanSwap(i, casaIn)
  <2>1. MoneyStill
    BY <1>1, <1>11, NothingStill DEF houseVars, Books
  <2>2. r.landed = ticket[i].landed
    BY <1>0, <1>5, <1>8, <1>11
  <2> QED
    BY <1>8, <1>9, <2>1, <2>2, QuietKeepsBooks DEF Quiet
<1> QED
  BY <1>10, <1>11

LEMMA PayKeepsBooks ==
    ASSUME H!TypeOK, RuntimeType, Books, NEW i \in TicketId, SendPay(i)
    PROVE  Books'
<1> DEFINE offer == ticket[i].offer
           lands == spend[Agent] >= offer.amount
<1>0. /\ ticket[i].step = "sendPay" /\ ticket[i] \in Opened /\ "pay" \notin ticket[i].landed
      /\ offer.payTo = Vendor /\ offer.amount = ticket[i].amount
  BY OpenedOnes DEF SendPay, At, Books, LegsFit, Fits
<1>1. PICK heard \in Heard :
        /\ IF lands
           THEN H!TransferSpend(Agent, offer.payTo, offer.amount)
           ELSE UNCHANGED houseVars
        /\ ticket' = [ticket EXCEPT
              ![i].landed = IF lands THEN @ \cup {"pay"} ELSE @,
              ![i].step   = IF heard THEN "receipt" ELSE "done",
              ![i].status = IF heard THEN @ ELSE "unsettled"]
  BY DEF SendPay
<1> DEFINE l == IF lands THEN ticket[i].landed \cup {"pay"} ELSE ticket[i].landed
           a == IF heard THEN "receipt" ELSE "done"
           b == IF heard THEN ticket[i].status ELSE "unsettled"
           p == [ticket[i] EXCEPT !.landed = l]
           q == [p EXCEPT !.step = a]
           r == [q EXCEPT !.status = b]
<1>2. /\ ticket[i].amount \in Amount /\ ticket[i].amount \in Nat
      /\ ticket[i].status \in TicketStatus
      /\ ticket[i].landed \in SUBSET {"swap", "pay"}
  BY <1>0, DeploymentAssumption DEF Opened, DeploymentAssumption
<1>3. /\ l \in SUBSET {"swap", "pay"}
      /\ a \in TicketSteps /\ a \in {"receipt", "done"}
      /\ b \in TicketStatus
  BY <1>2 DEF TicketSteps, TicketStatus
<1>4. ASSUME lands
      PROVE  /\ spend'[Agent] = spend[Agent] - ticket[i].amount
             /\ spend'[Vendor] = spend[Vendor] + ticket[i].amount
             /\ PaidOut' = PaidOut /\ VendorsFit'
  <2>1. H!TransferSpend(Agent, Vendor, ticket[i].amount)
    BY <1>0, <1>1, <1>4
  <2> QED
    BY <1>2, <2>1, PayPays DEF Books
<1>5. ASSUME ~lands PROVE MoneyStill
  BY <1>1, <1>5, NothingStill DEF houseVars, Books
<1> HIDE DEF lands
<1>6. ticket' = [ticket EXCEPT ![i] = r]
  <2>1. ticket' = [ticket EXCEPT ![i].landed = IF lands THEN @ \cup {"pay"} ELSE @,
                                 ![i].step = a,
                                 ![i].status = IF heard THEN @ ELSE "unsettled"]
    BY <1>1
  <2>2. q.status = ticket[i].status
    BY <1>0 DEF Opened
  <2> HIDE DEF a
  <2> QED
    BY <2>1, <2>2 DEF RuntimeType
<1>7. IF lands THEN l = ticket[i].landed \cup {"pay"} ELSE l = ticket[i].landed
  OBVIOUS
<1> HIDE DEF l, a, b
<1>8. p \in Opened /\ p.landed = l /\ p.amount = ticket[i].amount
  BY <1>0, <1>3, EditLanded
<1> HIDE DEF p
<1>9. q \in Opened /\ q.landed = l /\ q.step = a /\ q.amount = ticket[i].amount
  BY <1>3, <1>8, EditStep
<1> HIDE DEF q
<1>10. r \in Opened /\ r.landed = l /\ r.step = a /\ r.amount = ticket[i].amount
  BY <1>3, <1>9, EditStatus
<1> HIDE DEF r
<1>11. Rewrites(i, r)
  BY <1>3, <1>6, <1>10 DEF Rewrites, Fits
<1>12. CASE lands
  <2>1. "pay" \in r.landed /\ ("swap" \in r.landed <=> "swap" \in ticket[i].landed)
    BY <1>7, <1>10, <1>12
  <2>2. Sum(Amounts("pay")') = Sum(Amounts("pay")) + ticket[i].amount
    <3>1. "pay" \in r.landed /\ "pay" \notin ticket[i].landed
      BY <1>0, <2>1
    <3>2. r.amount \in Int
      BY <1>2, <1>10
    <3>3. Sum(Amounts("pay")') = Sum(Amounts("pay")) + r.amount
      BY <1>6, <3>1, <3>2, MoreLegs
    <3> QED
      BY <1>10, <3>3, Zenon
  <2>3. Amounts("swap")' = Amounts("swap")
    BY <1>6, <1>10, <2>1, SameLeg
  <2>4. /\ Sum(Amounts("swap")) \in Int /\ Sum(Amounts("pay")) \in Int
        /\ Sum(PaidOut) \in Int
    BY AmountsType, PaidOutType
  <2>5. /\ spend'[Agent] = Sum(Amounts("swap")') - Sum(Amounts("pay")')
        /\ spend'[Vendor] = Sum(Amounts("pay")') + Sum(PaidOut')
    BY <1>2, <1>4, <1>12, <2>2, <2>3, <2>4, BooksNow DEF Books
  <2> QED
    BY <1>4, <1>11, <1>12, <2>5, BooksNext, RewritesFit DEF Books
<1>13. CASE ~lands
  <2>1. r.landed = ticket[i].landed
    BY <1>7, <1>10, <1>13
  <2> QED
    BY <1>5, <1>10, <1>11, <1>13, <2>1, QuietKeepsBooks DEF Quiet
<1> QED
  BY <1>12, <1>13

LEMMA TicketKeepsBooks ==
    ASSUME H!TypeOK, RuntimeType, Books, NEW i \in TicketId, TicketStep(i)
    PROVE  Books'
<1>1. CASE \E allowed \in BOOLEAN : Decide(i, allowed)
  BY <1>1, DecideQuiet, QuietKeepsBooks
<1>2. CASE SimulateSwap(i) \/ FetchNoOffer(i) \/ SimulatePay(i) \/ ShowReceipt(i)
  <2>1. ticket[i].step \notin {"unopened", "done"}
    BY <1>2 DEF SimulateSwap, FetchNoOffer, SimulatePay, ShowReceipt, At
  <2>2. MoneyStill
    BY <1>2, NothingStill DEF SimulateSwap, FetchNoOffer, SimulatePay, ShowReceipt,
                              houseVars, Books
  <2>3. \/ Move(i, "sendSwap") /\ At(i, "swap")
        \/ Move(i, "sendPay") /\ At(i, "pay")
        \/ Close(i, "refused") \/ Close(i, "paid") \/ Close(i, "unsettled")
    BY <1>2 DEF SimulateSwap, FetchNoOffer, SimulatePay, ShowReceipt
  <2>4. Quiet(i)
    BY <2>1, <2>2, <2>3, MoveQuiet, CloseQuiet DEF TicketSteps, TicketStatus
  <2> QED
    BY <2>4, QuietKeepsBooks
<1>3. CASE SendSwap(i)
  BY <1>3, SwapKeepsBooks
<1>4. CASE FetchOffer(i)
  BY <1>4, FetchOfferQuiet, QuietKeepsBooks
<1>5. CASE SendPay(i)
  BY <1>5, PayKeepsBooks
<1>6. CASE SimulatePropose(i) \/ SendPropose(i) \/ RecordProposal(i)
  BY <1>6, ProposeQuiet, QuietKeepsBooks
<1> QED
  BY <1>1, <1>2, <1>3, <1>4, <1>5, <1>6 DEF TicketStep

LEMMA OpenKeepsBooks ==
    ASSUME RuntimeType, Books, NEW a \in Amount, OpenTicket(a)
    PROVE  Books'
<1> DEFINE r == [step |-> "decide", status |-> "none", paymentId |-> 0, landed |-> {},
                 amount |-> a, read |-> (casa[Agent] * 98) \div 100,
                 offer |-> [payTo |-> Vendor, amount |-> a]]
           i == counter + 1
<1>1. ticket' = [ticket EXCEPT ![i] = r] /\ UNCHANGED houseVars /\ counter < MaxTickets
  BY DEF OpenTicket
<1>2. i \in TicketId /\ i > counter
  BY <1>1, ConciergeAssumption DEF RuntimeType, TicketId, ConciergeAssumption
<1>3. ticket[i].landed = {}
  <2>1. ticket[i].step = "unopened"
    BY <1>2 DEF RuntimeType
  <2> QED
    BY <1>2, <2>1 DEF Books, LegsFit, Fits
<1>4. r.landed = {} /\ r.step = "decide"
  OBVIOUS
<1> HIDE DEF r, i
<1>5. Amounts("swap")' = Amounts("swap") /\ Amounts("pay")' = Amounts("pay")
  BY <1>1, <1>2, <1>3, <1>4, SameLeg
<1>6. LegsFit'
  <2>1. ticket'[i] = r /\ \A j \in TicketId : j # i => ticket'[j] = ticket[j]
    BY <1>1, <1>2 DEF RuntimeType
  <2>2. Fits(r)
    BY <1>4 DEF Fits
  <2>3. \A j \in TicketId : Fits(ticket'[j])
    BY <2>1, <2>2 DEF Books, LegsFit
  <2> QED
    BY <2>3 DEF LegsFit, Fits
<1>7. MoneyStill
  BY <1>1, NothingStill DEF houseVars, Books
<1>8. CoinsAreAccounted'
  BY <1>5, <1>7, BooksNow, BooksNext DEF Books, MoneyStill
<1> QED
  BY <1>6, <1>7, <1>8 DEF Books, MoneyStill

(* Where legs and amounts of the tickets stay, only the money matters.     *)
LEMMA OthersKeepBooks ==
    ASSUME Books, MoneyStill,
           \A i \in TicketId :
             /\ ticket'[i].step = ticket[i].step /\ ticket'[i].landed = ticket[i].landed
             /\ ticket'[i].offer = ticket[i].offer /\ ticket'[i].amount = ticket[i].amount
    PROVE  Books'
<1>1. LegsFit'
  <2>1. \A i \in TicketId : Fits(ticket[i])
    BY DEF Books, LegsFit
  <2>2. \A i \in TicketId : Fits(ticket'[i])
    BY <2>1 DEF Fits
  <2> QED
    BY <2>2 DEF LegsFit, Fits
<1>2. \A leg : Landed(leg)' = Landed(leg)
  BY DEF Landed
<1>3. Amounts("swap")' = Amounts("swap") /\ Amounts("pay")' = Amounts("pay")
  BY <1>2 DEF Amounts, Landed
<1>4. CoinsAreAccounted'
  BY <1>3, BooksNow, BooksNext DEF Books, MoneyStill
<1> QED
  BY <1>1, <1>4 DEF Books, MoneyStill

LEMMA ClerkKeepsBooks ==
    ASSUME IInv, H!TypeOK', Books, NEW c \in Clerk, ClerkStep(c)
    PROVE  Books'
<1>0. H!TypeOK /\ RuntimeType /\ VendorsFit
  BY TypeParts DEF IInv, Books
<1>1. CASE \/ \E o \in Owner, id \in T!PaymentId : BeginApprove(c, o, id)
           \/ ReadPayment(c) \/ SimulateExecute(c)
  BY <1>0, <1>1, NothingStill, OthersKeepBooks
     DEF BeginApprove, ReadPayment, SimulateExecute, houseVars, ticketVars
<1>2. CASE SendApprove(c)
  <2>1. clerk[c].id \in T!PaymentId /\ clerk[c].owner \in Owner
    BY <1>0, <1>2, ClerkType DEF SendApprove, Busy
  <2>2. MoneyStill
    BY <1>0, <1>2, <2>1, ApproveStill, NothingStill DEF SendApprove, houseVars
  <2> QED
    BY <1>2, <2>2, OthersKeepBooks DEF SendApprove, ticketVars
<1>3. CASE SendExecute(c)
  <2>1. clerk[c].id \in T!PaymentId
    BY <1>0, <1>3, ClerkType DEF SendExecute, Busy
  <2>2. ticket' = ticket
    BY <1>3 DEF SendExecute, ticketVars
  <2>3. CASE CanExecute(clerk[c].id)
    <3> DEFINE id == clerk[c].id
    <3>1. H!ExecutePayment(id)
      BY <1>3, <2>3 DEF SendExecute
    <3>2. /\ spend'[Agent] = spend[Agent]
          /\ spend'[Vendor] = spend[Vendor] + payments[id].amount
          /\ Sum(PaidOut') = Sum(PaidOut) + payments[id].amount
          /\ VendorsFit'
      BY <1>0, <2>1, <3>1, ExecutePays
    <3>3. payments[id].amount \in Nat
      BY <1>0, <2>1, <3>1, HouseNumbers
         DEF H!ExecutePayment, H!House!ExecutePayment, H!House!Known, T!Known
    <3>4. Amounts("swap")' = Amounts("swap") /\ Amounts("pay")' = Amounts("pay")
      BY <2>2 DEF Amounts, Landed
    <3>5. Sum(Amounts("pay")) \in Int /\ Sum(PaidOut) \in Int
      BY <1>0, AmountsType, PaidOutType
    <3>6. /\ spend'[Agent] = Sum(Amounts("swap")') - Sum(Amounts("pay")')
          /\ spend'[Vendor] = Sum(Amounts("pay")') + Sum(PaidOut')
      BY <3>2, <3>3, <3>4, <3>5, BooksNow DEF Books
    <3>7. LegsFit'
      BY <2>2 DEF Books, LegsFit, Fits
    <3> QED
      BY <3>2, <3>6, <3>7, BooksNext DEF Books
  <2>4. CASE ~CanExecute(clerk[c].id)
    BY <1>0, <1>3, <2>2, <2>4, NothingStill, OthersKeepBooks DEF SendExecute, houseVars
  <2> QED
    BY <2>3, <2>4
<1>4. CASE ReportApproval(c)
  <2>1. MoneyStill
    BY <1>0, <1>4, NothingStill DEF ReportApproval, houseVars
  <2>2. \A i \in TicketId :
          /\ ticket'[i].step = ticket[i].step /\ ticket'[i].landed = ticket[i].landed
          /\ ticket'[i].offer = ticket[i].offer /\ ticket'[i].amount = ticket[i].amount
    <3>1. CASE Naming(clerk[c].id) = {}
      BY <1>4, <3>1 DEF ReportApproval
    <3>2. CASE Naming(clerk[c].id) # {}
      <4>1. PICK t, s : ticket' = [ticket EXCEPT ![t].status = s]
        BY <1>4, <3>2 DEF ReportApproval
      <4> SUFFICES ASSUME NEW i \in TicketId
                   PROVE  /\ ticket'[i].step = ticket[i].step
                          /\ ticket'[i].landed = ticket[i].landed
                          /\ ticket'[i].offer = ticket[i].offer
                          /\ ticket'[i].amount = ticket[i].amount
        OBVIOUS
      <4>2. ticket'[i] = IF i = t THEN [ticket[i] EXCEPT !.status = s] ELSE ticket[i]
        BY <1>0, <4>1 DEF RuntimeType
      <4>3. PICK x : x = ticket[i]
        OBVIOUS
      <4>4. /\ [x EXCEPT !.status = s].step = x.step
            /\ [x EXCEPT !.status = s].landed = x.landed
            /\ [x EXCEPT !.status = s].offer = x.offer
            /\ [x EXCEPT !.status = s].amount = x.amount
        OBVIOUS
      <4> QED
        BY <4>2, <4>3, <4>4
    <3> QED
      BY <3>1, <3>2
  <2> QED
    BY <2>1, <2>2, OthersKeepBooks
<1> QED
  BY <1>1, <1>2, <1>3, <1>4 DEF ClerkStep

LEMMA InitBooks == Init => Books
<1> SUFFICES ASSUME Init PROVE Books
  OBVIOUS
<1>1. IInv
  BY InitHolds
<1>2. \A i \in TicketId : ticket[i] = Unopened
  BY DEF Init
<1>3. Landed("swap") = {} /\ Landed("pay") = {} /\ Executed = {}
  BY <1>2 DEF Landed, Unopened, Executed, Init, T!Known
<1>4. Sum(Amounts("swap")) = 0 /\ Sum(Amounts("pay")) = 0
  BY <1>3, SumType, FS_EmptySet DEF Amounts
<1>5. Sum(PaidOut) = 0
  BY <1>3, SumType, FS_EmptySet DEF PaidOut
<1>6. spend[Agent] = 0 /\ spend[Vendor] = 0
  BY HolderFacts DEF Init
<1>7. CoinsAreAccounted
  BY <1>4, <1>5, <1>6, BooksNow
<1>8. LegsFit
  BY <1>2 DEF LegsFit, Fits, Unopened
<1>9. VendorsFit
  BY DEF VendorsFit, Init, T!Known
<1> QED
  BY <1>7, <1>8, <1>9 DEF Books

LEMMA StepKeepsBooks == IInv /\ IInv' /\ Books /\ [Next]_vars => Books'
<1> SUFFICES ASSUME IInv, IInv', Books, [Next]_vars PROVE Books'
  OBVIOUS
<1>0. H!TypeOK /\ RuntimeType /\ H!TypeOK' /\ VendorsFit
  BY TypeParts DEF IInv, Books, TypeOK
<1>1. ASSUME NEW a \in Amount, OpenTicket(a) PROVE Books'
  BY <1>0, <1>1, OpenKeepsBooks
<1>2. ASSUME NEW i \in TicketId, TicketStep(i) PROVE Books'
  BY <1>0, <1>2, TicketKeepsBooks
<1>3. ASSUME NEW c \in Clerk, ClerkStep(c) PROVE Books'
  BY <1>0, <1>3, ClerkKeepsBooks
<1>4. CASE OwnerStep
  <2>1. UNCHANGED offChain
    BY <1>4 DEF OwnerStep, Fund, GrantMandate, RevokeMandate, RevokeOwnerKyc,
                RestoreOwnerKyc, Timewarp
  <2>2. payments' = payments /\ spend' = spend
    BY <1>4 DEF OwnerStep, Fund, GrantMandate, RevokeMandate, RevokeOwnerKyc,
                RestoreOwnerKyc, Timewarp, H!FundConcierge, H!GrantMandate, H!RevokeMandate,
                H!House!GrantMandate, H!House!RevokeMandate, H!Environment, H!treasuryVars
  <2> QED
    BY <1>0, <2>1, <2>2, NothingStill, OthersKeepBooks DEF offChain, ticketVars
<1>5. CASE UNCHANGED vars
  BY <1>0, <1>5, NothingStill, OthersKeepBooks DEF vars, houseVars, ticketVars
<1> QED
  BY <1>1, <1>2, <1>3, <1>4, <1>5 DEF Next

(* Every coin of the agent and of the plumber is accounted for by tickets  *)
(* and executed payments, for any number of tickets and any amounts,       *)
(* whatever a vendor answers and whichever calls fail                      *)
(* (route.ts:134-149, x402.js:16-26, 56-61).                               *)
THEOREM CoinsAccounted == Spec => []CoinsAreAccounted
<1>1. Books => CoinsAreAccounted
  BY DEF Books
<1> QED
  BY <1>1, InitBooks, StepKeepsBooks, Invariant, PTL DEF Spec
===============================================================================
