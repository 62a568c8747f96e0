----------------------------- MODULE HouseProofs ----------------------------
(***************************************************************************)
(* Proofs about a house, for any number of wallets, owners, payments and   *)
(* amounts, any threshold its constructor accepts and any behaviour of the *)
(* compliance core.  The inductive invariant is TypeOK together with       *)
(* QuorumIsDistinctOwners: counting an approval correctly needs the        *)
(* approver to be absent from the set already counted, and an id not yet   *)
(* handed out needs an empty set to start from.                            *)
(***************************************************************************)
EXTENDS House, FiniteSetTheorems, TLAPS

TreasuryType ==
    /\ mandate \in [agent : Wallet \cup {NoWallet}, perTxCap : PerTxCap \cup {0},
                    expiresAt : Deadline \cup {0}, revoked : BOOLEAN]
    /\ nextPaymentId \in 1..(MaxPayments + 1)
    /\ payments \in [House!PaymentId -> Payment \cup {NoPayment}]
    /\ \A id \in House!PaymentId : House!Known(id) <=> id < nextPaymentId
    /\ approvedBy \in [House!PaymentId -> SUBSET Owner]

TokenType == casa \in [Holder -> Nat] /\ spend \in [Holder -> Nat]

CoreType ==
    /\ position \in SUBSET Wallet
    /\ cleared \in SUBSET Owner
    /\ now \in 1..MaxTime

LEMMA TypeParts == TypeOK <=> TreasuryType /\ TokenType /\ CoreType
BY DEF TypeOK, TreasuryType, TokenType, CoreType

(* An ERC-20 transfer keeps every balance a natural number, whether or not *)
(* sender and receiver are the same account.                               *)
LEMMA TransferKeepsBalances ==
    ASSUME NEW f \in [Holder -> Nat], NEW from \in Holder, NEW to \in Holder,
           NEW a \in Nat, f[from] >= a
    PROVE  [f EXCEPT ![from] = @ - a, ![to] = @ + a] \in [Holder -> Nat]
OBVIOUS

LEMMA CasaTransfer ==
    ASSUME TokenType, NEW from \in Holder, NEW to \in Holder, NEW a \in Nat,
           Casa!Transfer(from, to, a)
    PROVE  casa' \in [Holder -> Nat]
BY TransferKeepsBalances DEF TokenType, Casa!Transfer

LEMMA SpendTransfer ==
    ASSUME TokenType, NEW from \in Holder, NEW to \in Holder, NEW a \in Nat,
           Spend!Transfer(from, to, a)
    PROVE  spend' \in [Holder -> Nat]
BY TransferKeepsBalances DEF TokenType, Spend!Transfer

LEMMA HolderFacts ==
    /\ Wallet \subseteq Holder
    /\ Treasury \in Holder
    /\ Pool \in Holder
    /\ Owner \subseteq Wallet
    /\ Amount \subseteq Nat
    /\ Amount \cup {0} \subseteq Nat
BY HouseAssumption DEF HouseAssumption, Holder

LEMMA AgentHolds ==
    ASSUME TreasuryType, House!HasMandate
    PROVE  mandate.agent \in Holder
BY HolderFacts DEF TreasuryType, House!HasMandate

-----------------------------------------------------------------------------
(* The treasury's own steps keep its storage in shape.                     *)
LEMMA TreasuryTypeUnchanged ==
    ASSUME TreasuryType, UNCHANGED treasuryVars
    PROVE  TreasuryType'
BY DEF TreasuryType, treasuryVars, House!Known, House!PaymentId

LEMMA GrantType ==
    ASSUME TreasuryType, NEW o, NEW agent \in Wallet, NEW cap \in PerTxCap,
           NEW e \in Deadline, House!GrantMandate(o, agent, cap, e)
    PROVE  TreasuryType'
BY DEF TreasuryType, House!GrantMandate, House!Known, House!PaymentId

LEMMA RevokeType ==
    ASSUME TreasuryType, NEW o, House!RevokeMandate(o)
    PROVE  TreasuryType'
<1>1. mandate' \in [agent : Wallet \cup {NoWallet}, perTxCap : PerTxCap \cup {0},
                    expiresAt : Deadline \cup {0}, revoked : BOOLEAN]
  BY DEF TreasuryType, House!RevokeMandate
<1> QED
  BY <1>1 DEF TreasuryType, House!RevokeMandate, House!Known, House!PaymentId

LEMMA ProposeType ==
    ASSUME TreasuryType, NEW w, NEW v \in Wallet, NEW a \in Amount,
           House!ProposePayment(w, v, a)
    PROVE  TreasuryType'
<1> DEFINE new == [vendor |-> v, amount |-> a, approvals |-> 0, executed |-> FALSE]
<1>1. new \in Payment
  BY DEF Payment
<1>2. new # NoPayment
  <2>1. NoPayment \notin Payment
    BY NameAssumption DEF NameAssumption, Payment
  <2> QED
    BY <1>1, <2>1
<1>3. nextPaymentId \in House!PaymentId /\ MaxPayments \in Nat
  BY HouseAssumption DEF HouseAssumption, House!ProposePayment
<1>4. payments' = [payments EXCEPT ![nextPaymentId] = new]
  BY DEF House!ProposePayment
<1>5. nextPaymentId' = nextPaymentId + 1
  BY DEF House!ProposePayment
<1> HIDE DEF new
<1>6. payments' \in [House!PaymentId -> Payment \cup {NoPayment}]
  BY <1>1, <1>4 DEF TreasuryType
<1>7. nextPaymentId' \in 1..(MaxPayments + 1)
  BY <1>3, <1>5 DEF TreasuryType, House!PaymentId
<1>8. \A id \in House!PaymentId : (House!Known(id))' <=> id < nextPaymentId'
  <2> SUFFICES ASSUME NEW id \in House!PaymentId
               PROVE  payments'[id] # NoPayment <=> id < nextPaymentId'
    BY DEF House!Known
  <2>1. CASE id = nextPaymentId
    BY <2>1, <1>2, <1>3, <1>4, <1>5 DEF TreasuryType, House!PaymentId
  <2>2. CASE id # nextPaymentId
    <3>1. payments'[id] = payments[id]
      BY <2>2, <1>4 DEF TreasuryType
    <3>2. payments[id] # NoPayment <=> id < nextPaymentId
      BY DEF TreasuryType, House!Known
    <3>3. id < nextPaymentId <=> id < nextPaymentId + 1
      BY <2>2, <1>3 DEF House!PaymentId
    <3> QED
      BY <3>1, <3>2, <3>3, <1>5
  <2> QED
    BY <2>1, <2>2
<1>9. mandate' = mandate /\ approvedBy' = approvedBy
  BY DEF House!ProposePayment
<1> QED
  BY <1>6, <1>7, <1>8, <1>9 DEF TreasuryType, House!PaymentId, House!Known

LEMMA PaymentUpdateType ==
    ASSUME TreasuryType, NEW id \in House!PaymentId, House!Known(id),
           NEW p \in Payment,
           payments' = [payments EXCEPT ![id] = p],
           mandate' = mandate, nextPaymentId' = nextPaymentId,
           approvedBy' \in [House!PaymentId -> SUBSET Owner]
    PROVE  TreasuryType'
<1>1. payments' \in [House!PaymentId -> Payment \cup {NoPayment}]
  BY DEF TreasuryType
<1>2. NoPayment \notin Payment
  BY NameAssumption DEF NameAssumption, Payment
<1>3. \A j \in House!PaymentId : payments'[j] # NoPayment <=> payments[j] # NoPayment
  BY <1>2 DEF TreasuryType, House!Known
<1> QED
  BY <1>1, <1>3 DEF TreasuryType, House!Known, House!PaymentId

LEMMA ApproveType ==
    ASSUME TreasuryType, NEW o, NEW id \in House!PaymentId,
           House!ApprovePayment(o, id)
    PROVE  TreasuryType'
<1> DEFINE p == [payments[id] EXCEPT !.approvals = @ + 1]
<1>1. payments[id] \in Payment /\ House!Known(id)
  BY DEF TreasuryType, House!ApprovePayment, House!Known
<1>2. p \in Payment
  BY <1>1 DEF Payment
<1>3. payments' = [payments EXCEPT ![id] = p]
  BY DEF House!ApprovePayment
<1>4. approvedBy' \in [House!PaymentId -> SUBSET Owner]
  BY DEF TreasuryType, House!ApprovePayment, House!IsCompliantOwner
<1>5. mandate' = mandate /\ nextPaymentId' = nextPaymentId
  BY DEF House!ApprovePayment
<1> HIDE DEF p
<1> QED
  BY <1>1, <1>2, <1>3, <1>4, <1>5, PaymentUpdateType

LEMMA ExecuteType ==
    ASSUME TreasuryType, NEW id \in House!PaymentId, House!ExecutePayment(id)
    PROVE  TreasuryType'
<1> DEFINE p == [payments[id] EXCEPT !.executed = TRUE]
<1>1. payments[id] \in Payment /\ House!Known(id)
  BY DEF TreasuryType, House!ExecutePayment, House!Known
<1>2. p \in Payment
  BY <1>1 DEF Payment
<1>3. payments' = [payments EXCEPT ![id] = p]
  BY DEF House!ExecutePayment
<1>4. approvedBy' \in [House!PaymentId -> SUBSET Owner]
  BY DEF TreasuryType, House!ExecutePayment
<1>5. mandate' = mandate /\ nextPaymentId' = nextPaymentId
  BY DEF House!ExecutePayment
<1> HIDE DEF p
<1> QED
  BY <1>1, <1>2, <1>3, <1>4, <1>5, PaymentUpdateType

-----------------------------------------------------------------------------
(* Every step keeps all storage in shape.                                  *)
LEMMA InitType == Init => TypeOK
<1> SUFFICES ASSUME Init PROVE TypeOK
  OBVIOUS
<1> USE HouseAssumption, NameAssumption DEF HouseAssumption, NameAssumption
<1>1. TreasuryType
  BY DEF Init, House!Init, TreasuryType, House!Known, House!PaymentId
<1>2. TokenType
  BY DEF Init, TokenType
<1>3. CoreType
  BY DEF Init, CoreType
<1> QED
  BY <1>1, <1>2, <1>3, TypeParts

LEMMA OwnerType == TypeOK /\ OwnerStep => TypeOK'
<1> SUFFICES ASSUME TypeOK, OwnerStep PROVE TypeOK'
  OBVIOUS
<1>0. TreasuryType /\ TokenType /\ CoreType
  BY TypeParts
<1>a. (TreasuryType /\ TokenType /\ CoreType)' => TypeOK'
  BY DEF TypeOK, TreasuryType, TokenType, CoreType
<1>1. ASSUME NEW o \in Owner, NEW agent \in Wallet, NEW cap \in PerTxCap,
             NEW e \in Deadline, GrantMandate(o, agent, cap, e)
      PROVE  TypeOK'
  <2>1. TreasuryType'
    BY <1>0, <1>1, GrantType DEF GrantMandate
  <2>2. TokenType' /\ CoreType'
    BY <1>0, <1>1 DEF GrantMandate, TokenType, CoreType, coreVars
  <2> QED
    BY <2>1, <2>2, <1>a
<1>2. ASSUME NEW o \in Owner, RevokeMandate(o) PROVE TypeOK'
  <2>1. TreasuryType'
    BY <1>0, <1>2, RevokeType DEF RevokeMandate
  <2>2. TokenType' /\ CoreType'
    BY <1>0, <1>2 DEF RevokeMandate, TokenType, CoreType, coreVars
  <2> QED
    BY <2>1, <2>2, <1>a
<1>3. ASSUME NEW o \in Owner, NEW a \in Amount, FundConcierge(o, a) PROVE TypeOK'
  <2>1. TreasuryType'
    BY <1>0, <1>3, TreasuryTypeUnchanged DEF FundConcierge
  <2>2. casa' \in [Holder -> Nat]
    <3>1. a \in Nat
      BY HolderFacts
    <3>2. mandate.agent \in Holder
      BY <1>0, <1>3, AgentHolds DEF FundConcierge
    <3>3. casa[mandate.agent] + a \in Nat
      BY <3>1, <3>2, <1>0 DEF TokenType
    <3>4. casa' = [casa EXCEPT ![mandate.agent] = casa[mandate.agent] + a]
      BY <1>3 DEF FundConcierge, Casa!Mint
    <3> QED
      BY <3>2, <3>3, <3>4, <1>0 DEF TokenType
  <2>3. spend' = spend /\ CoreType'
    BY <1>0, <1>3 DEF FundConcierge, CoreType, coreVars
  <2> QED
    BY <2>1, <2>2, <2>3, <1>0, <1>a DEF TokenType
<1>4. ASSUME NEW o \in Owner, NEW a \in Amount, ReclaimBudget(o, a) PROVE TypeOK'
  <2>1. TreasuryType'
    BY <1>0, <1>4, TreasuryTypeUnchanged DEF ReclaimBudget
  <2>2. casa' \in [Holder -> Nat]
    <3>1. a \in Nat
      BY HolderFacts
    <3>2. mandate.agent \in Holder
      BY <1>0, <1>4, AgentHolds DEF ReclaimBudget
    <3> QED
      BY <3>1, <3>2, <1>0, <1>4 DEF ReclaimBudget, Casa!Reclaim, TokenType
  <2>3. spend' = spend /\ CoreType'
    BY <1>0, <1>4 DEF ReclaimBudget, CoreType, coreVars
  <2> QED
    BY <2>1, <2>2, <2>3, <1>0, <1>a DEF TokenType
<1>5. ASSUME NEW o \in Owner, NEW id \in House!PaymentId, ApprovePayment(o, id)
      PROVE  TypeOK'
  <2>1. TreasuryType'
    BY <1>0, <1>5, ApproveType DEF ApprovePayment
  <2>2. TokenType' /\ CoreType'
    BY <1>0, <1>5 DEF ApprovePayment, TokenType, CoreType, coreVars
  <2> QED
    BY <2>1, <2>2, <1>a
<1> QED
  BY <1>1, <1>2, <1>3, <1>4, <1>5 DEF OwnerStep

LEMMA RailType == TypeOK /\ RailStep => TypeOK'
<1> SUFFICES ASSUME TypeOK, RailStep PROVE TypeOK'
  OBVIOUS
<1>0. TreasuryType /\ TokenType /\ CoreType
  BY TypeParts
<1>a. (TreasuryType /\ TokenType /\ CoreType)' => TypeOK'
  BY DEF TypeOK, TreasuryType, TokenType, CoreType
<1>1. ASSUME NEW w \in Wallet, NEW a \in Amount, Deposit(w, a) PROVE TypeOK'
  <2>1. TreasuryType'
    BY <1>0, <1>1, TreasuryTypeUnchanged DEF Deposit
  <2>2. spend' \in [Holder -> Nat]
    BY <1>0, <1>1, HolderFacts, SpendTransfer DEF Deposit
  <2>3. casa' = casa /\ CoreType'
    BY <1>0, <1>1 DEF Deposit, CoreType, coreVars
  <2> QED
    BY <2>1, <2>2, <2>3, <1>0, <1>a DEF TokenType
<1>2. ASSUME NEW w \in Wallet, NEW v \in Wallet, NEW a \in Amount, ProposePayment(w, v, a)
      PROVE  TypeOK'
  <2>1. TreasuryType'
    BY <1>0, <1>2, ProposeType DEF ProposePayment
  <2>2. TokenType' /\ CoreType'
    BY <1>0, <1>2 DEF ProposePayment, TokenType, CoreType, coreVars
  <2> QED
    BY <2>1, <2>2, <1>a
<1>3. ASSUME NEW id \in House!PaymentId, ExecutePayment(id) PROVE TypeOK'
  <2>1. TreasuryType'
    BY <1>0, <1>3, ExecuteType DEF ExecutePayment
  <2>2. payments[id] \in Payment
    BY <1>0, <1>3 DEF TreasuryType, ExecutePayment, House!ExecutePayment, House!Known
  <2>3. payments[id].vendor \in Holder /\ payments[id].amount \in Nat
    BY <2>2, HolderFacts DEF Payment
  <2>4. spend' \in [Holder -> Nat]
    BY <1>0, <1>3, <2>3, HolderFacts, SpendTransfer DEF ExecutePayment
  <2>5. casa' = casa /\ CoreType'
    BY <1>0, <1>3 DEF ExecutePayment, CoreType, coreVars
  <2> QED
    BY <2>1, <2>4, <2>5, <1>0, <1>a DEF TokenType
<1> QED
  BY <1>1, <1>2, <1>3 DEF RailStep

LEMMA PoolType == TypeOK /\ PoolStep => TypeOK'
<1> SUFFICES ASSUME TypeOK, PoolStep PROVE TypeOK'
  OBVIOUS
<1>0. TreasuryType /\ TokenType /\ CoreType
  BY TypeParts
<1>a. (TreasuryType /\ TokenType /\ CoreType)' => TypeOK'
  BY DEF TypeOK, TreasuryType, TokenType, CoreType
<1>1. ASSUME NEW w \in Wallet, NEW x \in Amount, NEW y \in Amount, NEW s,
             SellCasa(w, x, y, s)
      PROVE  TypeOK'
  <2>1. TreasuryType' /\ CoreType'
    BY <1>0, <1>1, TreasuryTypeUnchanged DEF SellCasa, CoreType, coreVars
  <2>2. TokenType'
    BY <1>0, <1>1, HolderFacts, CasaTransfer, SpendTransfer DEF SellCasa, TokenType
  <2> QED
    BY <2>1, <2>2, <1>a
<1>2. ASSUME NEW w \in Wallet, NEW x \in Amount, NEW y \in Amount, NEW s,
             BuyCasa(w, x, y, s)
      PROVE  TypeOK'
  <2>1. TreasuryType' /\ CoreType'
    BY <1>0, <1>2, TreasuryTypeUnchanged DEF BuyCasa, CoreType, coreVars
  <2>2. TokenType'
    BY <1>0, <1>2, HolderFacts, CasaTransfer, SpendTransfer DEF BuyCasa, TokenType
  <2> QED
    BY <2>1, <2>2, <1>a
<1>3. ASSUME NEW w \in Wallet, NEW x \in Amount \cup {0}, NEW y \in Amount \cup {0},
             AddLiquidity(w, x, y)
      PROVE  TypeOK'
  <2>1. TreasuryType' /\ CoreType'
    BY <1>0, <1>3, TreasuryTypeUnchanged DEF AddLiquidity, CoreType, coreVars
  <2>2. TokenType'
    BY <1>0, <1>3, HolderFacts, CasaTransfer, SpendTransfer DEF AddLiquidity, TokenType
  <2> QED
    BY <2>1, <2>2, <1>a
<1>4. ASSUME NEW w \in Wallet, NEW x \in Amount \cup {0}, NEW y \in Amount \cup {0},
             RemoveLiquidity(w, x, y)
      PROVE  TypeOK'
  <2>1. TreasuryType' /\ CoreType'
    BY <1>0, <1>4, TreasuryTypeUnchanged DEF RemoveLiquidity, CoreType, coreVars
  <2>2. TokenType'
    BY <1>0, <1>4, HolderFacts, CasaTransfer, SpendTransfer DEF RemoveLiquidity, TokenType
  <2> QED
    BY <2>1, <2>2, <1>a
<1> QED
  BY <1>1, <1>2, <1>3, <1>4 DEF PoolStep

LEMMA OtherType == TypeOK /\ (TransferStep \/ Environment \/ UNCHANGED vars) => TypeOK'
<1> SUFFICES ASSUME TypeOK, TransferStep \/ Environment \/ UNCHANGED vars PROVE TypeOK'
  OBVIOUS
<1>0. TreasuryType /\ TokenType /\ CoreType
  BY TypeParts
<1>a. (TreasuryType /\ TokenType /\ CoreType)' => TypeOK'
  BY DEF TypeOK, TreasuryType, TokenType, CoreType
<1>1. ASSUME NEW from \in Wallet, NEW to \in Holder, NEW a \in Amount,
             TransferSpend(from, to, a)
      PROVE  TypeOK'
  <2>1. TreasuryType' /\ CoreType' /\ casa' = casa
    BY <1>0, <1>1, TreasuryTypeUnchanged DEF TransferSpend, CoreType, coreVars
  <2>2. spend' \in [Holder -> Nat]
    BY <1>0, <1>1, HolderFacts, SpendTransfer DEF TransferSpend
  <2> QED
    BY <2>1, <2>2, <1>0, <1>a DEF TokenType
<1>2. ASSUME NEW from \in Wallet, NEW to \in Holder, NEW a \in Amount,
             TransferCasa(from, to, a)
      PROVE  TypeOK'
  <2>1. TreasuryType' /\ CoreType' /\ spend' = spend
    BY <1>0, <1>2, TreasuryTypeUnchanged DEF TransferCasa, CoreType, coreVars
  <2>2. casa' \in [Holder -> Nat]
    BY <1>0, <1>2, HolderFacts, CasaTransfer DEF TransferCasa
  <2> QED
    BY <2>1, <2>2, <1>0, <1>a DEF TokenType
<1>3. CASE Environment
  <2>1. TreasuryType' /\ TokenType'
    BY <1>0, <1>3, TreasuryTypeUnchanged DEF Environment, TokenType
  <2>2. position' \in SUBSET Wallet /\ cleared' \in SUBSET Owner
    BY <1>0, <1>3 DEF Environment, CoreType
  <2>3. now' \in 1..MaxTime
    <3>1. now \in 1..MaxTime /\ MaxTime \in Nat
      BY <1>0, HouseAssumption DEF HouseAssumption, CoreType
    <3>2. now' \in {now, now + 1} /\ now' <= MaxTime
      BY <1>3 DEF Environment
    <3> QED
      BY <3>1, <3>2
  <2> QED
    BY <2>1, <2>2, <2>3, <1>a DEF CoreType
<1>4. CASE UNCHANGED vars
  <2>1. TreasuryType' /\ TokenType' /\ CoreType'
    BY <1>0, <1>4, TreasuryTypeUnchanged DEF vars, TokenType, CoreType, coreVars
  <2> QED
    BY <2>1, <1>a
<1> QED
  BY <1>1, <1>2, <1>3, <1>4 DEF TransferStep

(* Storage keeps its shape in every house: no balance of either token goes *)
(* negative, and the payments known are those handed out an id             *)
(* (HouseTreasury.sol:185-227, HouseToken.sol:26-32).                      *)
THEOREM TypeCorrect == Spec => []TypeOK
<1>1. TypeOK /\ [Next]_vars => TypeOK'
  BY OwnerType, RailType, PoolType, OtherType DEF Next
<1> QED
  BY InitType, <1>1, PTL DEF Spec

-----------------------------------------------------------------------------
(* Seen from the payment queue a step proposes, approves, executes, or     *)
(* leaves the queue alone.                                                 *)
QueueVars == <<nextPaymentId, payments, approvedBy>>

Proposes ==
    \E w, v \in Wallet, a \in Amount : House!ProposePayment(w, v, a) /\ cleared' = cleared

Approves == \E o \in Owner, id \in House!PaymentId : House!ApprovePayment(o, id)

Executes == \E id \in House!PaymentId : House!ExecutePayment(id)

LEMMA QueueSteps == [Next]_vars => Proposes \/ Approves \/ Executes \/ UNCHANGED QueueVars
<1> SUFFICES ASSUME [Next]_vars
             PROVE  Proposes \/ Approves \/ Executes \/ UNCHANGED QueueVars
  OBVIOUS
<1> USE DEF QueueVars, treasuryVars
<1>1. CASE OwnerStep
  BY <1>1 DEF OwnerStep, GrantMandate, House!GrantMandate, RevokeMandate,
              House!RevokeMandate, FundConcierge, ReclaimBudget, ApprovePayment, Approves
<1>2. CASE RailStep
  BY <1>2 DEF RailStep, Deposit, ProposePayment, ExecutePayment, Proposes, Executes, coreVars
<1>3. CASE PoolStep
  BY <1>3 DEF PoolStep, SellCasa, BuyCasa, AddLiquidity, RemoveLiquidity
<1>4. CASE TransferStep
  BY <1>4 DEF TransferStep, TransferSpend, TransferCasa
<1>5. CASE Environment
  BY <1>5 DEF Environment
<1>6. CASE UNCHANGED vars
  BY <1>6 DEF vars
<1> QED
  BY <1>1, <1>2, <1>3, <1>4, <1>5, <1>6 DEF Next

(* Approving adds one owner, not counted before, to a finite set.          *)
LEMMA OneMoreApproval ==
    ASSUME NEW S \in SUBSET Owner, NEW o \in Owner, o \notin S
    PROVE  /\ IsFiniteSet(S)
           /\ Cardinality(S) \in Nat
           /\ Cardinality(S \cup {o}) = Cardinality(S) + 1
<1>1. IsFiniteSet(S)
  BY HouseAssumption, FS_Subset DEF HouseAssumption
<1> QED
  BY <1>1, FS_AddElement, FS_CardinalityType

LEMMA ThresholdNat == ApprovalThreshold \in Nat \ {0}
<1>1. Cardinality(Owner) \in Nat
  BY HouseAssumption, FS_CardinalityType DEF HouseAssumption
<1> QED
  BY <1>1, HouseAssumption DEF HouseAssumption

LEMMA QuorumStep == TypeOK /\ QuorumIsDistinctOwners /\ [Next]_vars => QuorumIsDistinctOwners'
<1> SUFFICES ASSUME TypeOK, QuorumIsDistinctOwners, [Next]_vars
             PROVE  QuorumIsDistinctOwners'
  OBVIOUS
<1>0. /\ payments \in [House!PaymentId -> Payment \cup {NoPayment}]
      /\ approvedBy \in [House!PaymentId -> SUBSET Owner]
      /\ NoPayment \notin Payment
  BY NameAssumption DEF TypeOK, NameAssumption, Payment
<1>1. CASE Proposes
  <2> PICK w \in Wallet, v \in Wallet, a \in Amount : House!ProposePayment(w, v, a)
    BY <1>1 DEF Proposes
  <2> DEFINE new == [vendor |-> v, amount |-> a, approvals |-> 0, executed |-> FALSE]
  <2>1. /\ payments' = [payments EXCEPT ![nextPaymentId] = new]
        /\ approvedBy' = approvedBy
        /\ nextPaymentId \in House!PaymentId
    BY DEF House!ProposePayment
  <2>2. ~House!Known(nextPaymentId)
    <3>1. nextPaymentId \in Nat
      BY HouseAssumption DEF HouseAssumption, TypeOK
    <3> QED
      BY <2>1, <3>1 DEF TypeOK
  <2>3. approvedBy[nextPaymentId] = {}
    BY <2>1, <2>2 DEF QuorumIsDistinctOwners
  <2>4. new.approvals = 0 /\ new.executed = FALSE
    OBVIOUS
  <2> HIDE DEF new
  <2> QED
    BY <1>0, <2>1, <2>3, <2>4, FS_EmptySet DEF QuorumIsDistinctOwners, House!Known, House!PaymentId
<1>2. CASE Approves
  <2> PICK o \in Owner, id \in House!PaymentId : House!ApprovePayment(o, id)
    BY <1>2 DEF Approves
  <2> DEFINE p == [payments[id] EXCEPT !.approvals = @ + 1]
  <2>1. /\ payments[id] \in Payment
        /\ ~payments[id].executed
        /\ o \notin approvedBy[id]
        /\ approvedBy' = [approvedBy EXCEPT ![id] = @ \cup {o}]
        /\ payments' = [payments EXCEPT ![id] = p]
    BY <1>0 DEF House!ApprovePayment, House!Known
  <2>2. p.approvals = payments[id].approvals + 1 /\ p.executed = payments[id].executed
    BY <2>1 DEF Payment
  <2>3. payments[id].approvals = Cardinality(approvedBy[id])
    BY <1>0, <2>1 DEF QuorumIsDistinctOwners, House!Known
  <2>4. Cardinality(approvedBy[id] \cup {o}) = Cardinality(approvedBy[id]) + 1
    BY <1>0, <2>1, OneMoreApproval
  <2> HIDE DEF p
  <2>5. p # NoPayment => /\ p.approvals = Cardinality(approvedBy'[id])
                         /\ ~p.executed
    BY <1>0, <2>1, <2>2, <2>3, <2>4
  <2>6. payments'[id] = p /\ payments[id] # NoPayment
    BY <1>0, <2>1
  <2>7. p \in Payment
    <3>1. payments[id].approvals \in Nat
      BY <2>1 DEF Payment
    <3> QED
      BY <2>1, <3>1 DEF Payment, p
  <2>8. \A j \in House!PaymentId : j # id => payments'[j] = payments[j] /\ approvedBy'[j] = approvedBy[j]
    BY <1>0, <2>1
  <2> QED
    BY <1>0, <2>5, <2>6, <2>7, <2>8 DEF QuorumIsDistinctOwners, House!Known, House!PaymentId
<1>3. CASE Executes
  <2> PICK id \in House!PaymentId : House!ExecutePayment(id)
    BY <1>3 DEF Executes
  <2> DEFINE p == [payments[id] EXCEPT !.executed = TRUE]
  <2>1. /\ payments[id] \in Payment
        /\ payments[id].approvals >= ApprovalThreshold
        /\ approvedBy' = approvedBy
        /\ payments' = [payments EXCEPT ![id] = p]
    BY <1>0 DEF House!ExecutePayment, House!Known
  <2>2. p.approvals = payments[id].approvals
    BY <2>1 DEF Payment
  <2>3. payments[id].approvals = Cardinality(approvedBy[id])
    BY <1>0, <2>1 DEF QuorumIsDistinctOwners, House!Known
  <2> HIDE DEF p
  <2>4. payments'[id] = p /\ payments[id] # NoPayment
    BY <1>0, <2>1
  <2>5. p \in Payment
    BY <2>1 DEF Payment, p
  <2>6. \A j \in House!PaymentId : j # id => payments'[j] = payments[j]
    BY <1>0, <2>1
  <2> QED
    BY <1>0, <2>1, <2>2, <2>3, <2>4, <2>5, <2>6
       DEF QuorumIsDistinctOwners, House!Known, House!PaymentId
<1>4. CASE UNCHANGED QueueVars
  BY <1>4 DEF QueueVars, QuorumIsDistinctOwners, House!Known, House!PaymentId
<1> QED
  BY <1>1, <1>2, <1>3, <1>4, QueueSteps

LEMMA QuorumInit == Init => QuorumIsDistinctOwners
BY DEF Init, House!Init, QuorumIsDistinctOwners, House!Known, House!PaymentId

LEMMA TypeStep == TypeOK /\ [Next]_vars => TypeOK'
BY OwnerType, RailType, PoolType, OtherType DEF Next

(* What the threshold is compared with is a number of distinct owners, and *)
(* every payment made had enough of them (HouseTreasury.sol:208-227).      *)
THEOREM QuorumCorrect == Spec => []QuorumIsDistinctOwners
BY InitType, TypeStep, QuorumInit, QuorumStep, PTL DEF Spec

-----------------------------------------------------------------------------
(* A filed payment and its approvals never change behind the owners' backs *)
(* and no owner the gate refuses adds an approval                          *)
(* (HouseTreasury.sol:206-217).                                            *)
THEOREM ApprovalsFinal == Spec => ApprovalsAreFinal
<1> DEFINE Final(id) ==
      /\ payments'[id] # NoPayment
      /\ payments'[id].vendor = payments[id].vendor
      /\ payments'[id].amount = payments[id].amount
      /\ payments[id].executed => payments'[id] = payments[id]
      /\ approvedBy[id] \subseteq approvedBy'[id]
      /\ approvedBy'[id] \ approvedBy[id] \subseteq Owner \cap cleared
<1>1. ASSUME TypeOK, [Next]_vars, NEW id \in House!PaymentId, House!Known(id)
      PROVE  Final(id)
  <2>0. /\ payments \in [House!PaymentId -> Payment \cup {NoPayment}]
        /\ approvedBy \in [House!PaymentId -> SUBSET Owner]
        /\ NoPayment \notin Payment
        /\ payments[id] \in Payment
    BY <1>1, NameAssumption DEF TypeOK, NameAssumption, Payment, House!Known
  <2>1. CASE Proposes
    <3>1. nextPaymentId # id
      <4>1. id < nextPaymentId /\ id \in Int
        BY <1>1 DEF TypeOK, House!PaymentId
      <4> QED
        BY <4>1
    <3>2. payments'[id] = payments[id] /\ approvedBy' = approvedBy
      BY <2>0, <2>1, <3>1 DEF Proposes, House!ProposePayment
    <3> QED
      BY <2>0, <3>2
  <2>2. CASE Approves
    <3> PICK o \in Owner, j \in House!PaymentId : House!ApprovePayment(o, j)
      BY <2>2 DEF Approves
    <3>1. CASE j # id
      <4>1. payments'[id] = payments[id] /\ approvedBy'[id] = approvedBy[id]
        BY <2>0, <3>1 DEF House!ApprovePayment
      <4> QED
        BY <2>0, <4>1
    <3>2. CASE j = id
      <4>1. approvedBy'[id] = approvedBy[id] \cup {o} /\ o \in Owner \cap cleared
        BY <2>0, <3>2 DEF House!ApprovePayment, House!IsCompliantOwner
      <4>2. payments'[id] = [payments[id] EXCEPT !.approvals = @ + 1]
        BY <2>0, <3>2 DEF House!ApprovePayment
      <4>3. ~payments[id].executed
        BY <3>2 DEF House!ApprovePayment
      <4>4. /\ payments'[id] \in Payment
            /\ payments'[id].vendor = payments[id].vendor
            /\ payments'[id].amount = payments[id].amount
        BY <2>0, <4>2 DEF Payment
      <4> QED
        BY <2>0, <4>1, <4>3, <4>4
    <3> QED
      BY <3>1, <3>2
  <2>3. CASE Executes
    <3> PICK j \in House!PaymentId : House!ExecutePayment(j)
      BY <2>3 DEF Executes
    <3>1. approvedBy' = approvedBy
      BY DEF House!ExecutePayment
    <3>2. CASE j # id
      <4>1. payments'[id] = payments[id]
        BY <2>0, <3>2 DEF House!ExecutePayment
      <4> QED
        BY <2>0, <3>1, <4>1
    <3>3. CASE j = id
      <4>1. payments'[id] = [payments[id] EXCEPT !.executed = TRUE]
        BY <2>0, <3>3 DEF House!ExecutePayment
      <4>2. ~payments[id].executed
        BY <3>3 DEF House!ExecutePayment
      <4>3. /\ payments'[id] \in Payment
            /\ payments'[id].vendor = payments[id].vendor
            /\ payments'[id].amount = payments[id].amount
        BY <2>0, <4>1 DEF Payment
      <4> QED
        BY <2>0, <3>1, <4>2, <4>3
    <3> QED
      BY <3>2, <3>3
  <2>4. CASE UNCHANGED QueueVars
    <3>1. payments'[id] = payments[id] /\ approvedBy' = approvedBy
      BY <2>4 DEF QueueVars
    <3> QED
      BY <2>0, <3>1
  <2> QED
    BY <1>1, <2>1, <2>2, <2>3, <2>4, QueueSteps
<1> HIDE DEF Final
<1>2. TypeOK /\ [Next]_vars =>
        [\A id \in House!PaymentId : House!Known(id) => Final(id)]_vars
  BY <1>1
<1>3. TypeOK /\ [Next]_vars =>
        [\A id \in House!PaymentId :
          House!Known(id) =>
              /\ payments'[id] # NoPayment
              /\ payments'[id].vendor = payments[id].vendor
              /\ payments'[id].amount = payments[id].amount
              /\ payments[id].executed => payments'[id] = payments[id]
              /\ approvedBy[id] \subseteq approvedBy'[id]
              /\ approvedBy'[id] \ approvedBy[id] \subseteq Owner \cap cleared]_vars
  BY <1>2 DEF Final
<1> QED
  BY <1>3, TypeCorrect, PTL DEF Spec, ApprovalsAreFinal

-----------------------------------------------------------------------------
(* Only the receiver of a transfer gains and only the sender loses.        *)
LEMMA TransferMoves ==
    ASSUME NEW f \in [Holder -> Nat], NEW g,
           NEW from \in Holder, NEW to \in Holder, NEW a \in Nat, f[from] >= a,
           g = [f EXCEPT ![from] = @ - a, ![to] = @ + a],
           NEW h \in Holder
    PROVE  /\ g[h] > f[h] => h = to
           /\ g[h] < f[h] => h = from
           /\ h = to /\ h # from => g[h] = f[h] + a
           /\ h = from /\ h # to => g[h] = f[h] - a
<1>1. [f EXCEPT ![from] = f[from] - a] \in [Holder -> Int]
  OBVIOUS
<1>2. CASE h # from /\ h # to
  BY <1>2
<1>3. CASE h = from /\ h # to
  BY <1>3
<1>4. CASE h = to /\ h # from
  BY <1>4
<1>5. CASE h = to /\ h = from
  BY <1>5
<1> QED
  BY <1>2, <1>3, <1>4, <1>5

LEMMA SpendMoves ==
    ASSUME TokenType, NEW from \in Holder, NEW to \in Holder, NEW a \in Nat,
           Spend!Transfer(from, to, a), NEW h \in Holder
    PROVE  /\ spend'[h] > spend[h] => h = to
           /\ spend'[h] < spend[h] => h = from
           /\ h = to /\ h # from => spend'[h] = spend[h] + a
           /\ h = from /\ h # to => spend'[h] = spend[h] - a
BY TransferMoves DEF TokenType, Spend!Transfer

LEMMA CasaMoves ==
    ASSUME TokenType, NEW from \in Holder, NEW to \in Holder, NEW a \in Nat,
           Casa!Transfer(from, to, a), NEW h \in Holder
    PROVE  /\ casa'[h] > casa[h] => h = to
           /\ casa'[h] < casa[h] => h = from
           /\ h = to /\ h # from => casa'[h] = casa[h] + a
           /\ h = from /\ h # to => casa'[h] = casa[h] - a
BY TransferMoves DEF TokenType, Casa!Transfer

LEMMA NotWallets == Pool \notin Wallet /\ Treasury \notin Wallet /\ Pool # Treasury
BY NameAssumption DEF NameAssumption

LEMMA Irreflexive == \A n \in Nat : ~(n < n) /\ ~(n > n)
OBVIOUS

(* The steps that move mUSD out of the treasury are executions.            *)
LEMMA TreasurySpends ==
    ASSUME TypeOK, [Next]_vars, spend'[Treasury] < spend[Treasury]
    PROVE  \E id \in House!PaymentId : ExecutePayment(id)
<1>0. TokenType /\ spend[Treasury] \in Nat
  BY TypeParts, HolderFacts DEF TokenType
<1>a. spend' # spend
  BY <1>0, Irreflexive
<1>1. CASE OwnerStep
  BY <1>1, <1>a DEF OwnerStep, GrantMandate, RevokeMandate, FundConcierge, ReclaimBudget,
                    ApprovePayment
<1>2. CASE RailStep
  <2>1. ASSUME NEW w \in Wallet, NEW a \in Amount, Deposit(w, a) PROVE FALSE
    BY <2>1, <1>0, HolderFacts, SpendMoves, NotWallets DEF Deposit
  <2>2. ASSUME NEW w \in Wallet, NEW v \in Wallet, NEW a \in Amount, ProposePayment(w, v, a)
        PROVE  FALSE
    BY <2>2, <1>a DEF ProposePayment
  <2> QED
    BY <1>2, <2>1, <2>2 DEF RailStep
<1>3. CASE PoolStep
  <2>1. ASSUME NEW w \in Wallet, NEW x \in Amount \cup {0}, Spend!Transfer(Pool, w, x)
        PROVE  FALSE
    BY <2>1, <1>0, HolderFacts, SpendMoves, NotWallets
  <2>2. ASSUME NEW w \in Wallet, NEW x \in Amount \cup {0}, Spend!Transfer(w, Pool, x)
        PROVE  FALSE
    BY <2>2, <1>0, HolderFacts, SpendMoves, NotWallets
  <2> QED
    BY <1>3, <2>1, <2>2 DEF PoolStep, SellCasa, BuyCasa, AddLiquidity, RemoveLiquidity
<1>4. CASE TransferStep
  <2>1. ASSUME NEW w \in Wallet, NEW to \in Holder, NEW a \in Amount, TransferSpend(w, to, a)
        PROVE  FALSE
    BY <2>1, <1>0, HolderFacts, SpendMoves, NotWallets DEF TransferSpend
  <2> QED
    BY <1>4, <2>1, <1>a DEF TransferStep, TransferCasa
<1>5. CASE Environment \/ UNCHANGED vars
  BY <1>5, <1>a DEF Environment, vars
<1> QED
  BY <1>1, <1>2, <1>3, <1>4, <1>5 DEF Next

LEMMA PaysApproved ==
    ASSUME TypeOK, QuorumIsDistinctOwners, NEW id \in House!PaymentId, ExecutePayment(id)
    PROVE  /\ House!Known(id)
           /\ ~payments[id].executed
           /\ payments'[id].executed
           /\ Cardinality(approvedBy[id]) >= ApprovalThreshold
           /\ spend'[Treasury] = spend[Treasury] - payments[id].amount
           /\ spend'[payments[id].vendor] =
                 spend[payments[id].vendor] + payments[id].amount
<1>1. /\ House!Known(id)
      /\ ~payments[id].executed
      /\ payments[id].approvals >= ApprovalThreshold
      /\ payments' = [payments EXCEPT ![id].executed = TRUE]
      /\ Spend!Transfer(Treasury, payments[id].vendor, payments[id].amount)
  BY DEF ExecutePayment, House!ExecutePayment
<1>2. payments[id] \in Payment
  BY <1>1 DEF TypeOK, House!Known
<1>3. payments'[id].executed
  BY <1>1, <1>2 DEF TypeOK, Payment
<1>4. Cardinality(approvedBy[id]) >= ApprovalThreshold
  BY <1>1 DEF QuorumIsDistinctOwners
<1>5. payments[id].vendor \in Wallet /\ payments[id].amount \in Nat
  BY <1>2, HolderFacts DEF Payment
<1>6. /\ spend'[Treasury] = spend[Treasury] - payments[id].amount
      /\ spend'[payments[id].vendor] = spend[payments[id].vendor] + payments[id].amount
  BY <1>1, <1>5, TypeParts, HolderFacts, NotWallets, SpendMoves
<1> QED
  BY <1>1, <1>3, <1>4, <1>6

(* The treasury's money leaves only for an approved payment, once          *)
(* (HouseTreasury.sol:219-227).                                            *)
THEOREM TreasuryPaysApproved == Spec => TreasuryPaysWhatWasApproved
<1>1. TypeOK /\ QuorumIsDistinctOwners /\ [Next]_vars =>
        [spend'[Treasury] < spend[Treasury] =>
          \E id \in House!PaymentId :
              /\ House!Known(id)
              /\ ~payments[id].executed
              /\ payments'[id].executed
              /\ Cardinality(approvedBy[id]) >= ApprovalThreshold
              /\ spend'[Treasury] = spend[Treasury] - payments[id].amount
              /\ spend'[payments[id].vendor] =
                    spend[payments[id].vendor] + payments[id].amount]_vars
  BY TreasurySpends, PaysApproved
<1> QED
  BY <1>1, TypeCorrect, QuorumCorrect, PTL DEF Spec, TreasuryPaysWhatWasApproved

-----------------------------------------------------------------------------
(* One of the pool's two legs in this step is the amount specified, in or  *)
(* out.                                                                    *)
IsLeg(specified) ==
    \E leg \in {casa'[Pool] - casa[Pool], spend'[Pool] - spend[Pool]} :
        leg = specified \/ leg = -specified

(* A wallet that takes something out of the pool swapped with it, and what *)
(* it named to the hook is a leg of the swap, or it left the pool.         *)
LEMMA PoolDraws ==
    ASSUME TypeOK, [Next]_vars, NEW w \in Wallet, DrawsFromPool(w)
    PROVE  \/ \E specified \in Amount : MaySwap(w, specified) /\ IsLeg(specified)
           \/ w \in position
<1>0. /\ TokenType
      /\ spend[Pool] \in Nat /\ casa[Pool] \in Nat
      /\ TreasuryType
  BY TypeParts, HolderFacts DEF TokenType
<1>a. \/ casa'[Pool] < casa[Pool] /\ casa'[w] > casa[w]
      \/ spend'[Pool] < spend[Pool] /\ spend'[w] > spend[w]
  BY DEF DrawsFromPool
<1>b. ASSUME casa' = casa, spend' = spend PROVE FALSE
  BY <1>a, <1>b, <1>0, Irreflexive
<1>c. ASSUME NEW from \in Wallet, NEW to \in Holder, NEW x \in Nat,
             Casa!Transfer(from, to, x)
      PROVE  ~(casa'[Pool] < casa[Pool])
  BY <1>c, <1>0, HolderFacts, CasaMoves, NotWallets
<1>d. ASSUME NEW from \in Holder \ {Pool}, NEW to \in Holder, NEW x \in Nat,
             Spend!Transfer(from, to, x)
      PROVE  ~(spend'[Pool] < spend[Pool])
  BY <1>d, <1>0, HolderFacts, SpendMoves
<1>e. ASSUME NEW to \in Wallet, NEW x \in Nat, Casa!Transfer(Pool, to, x), casa'[w] > casa[w]
      PROVE  w = to
  BY <1>e, <1>0, HolderFacts, CasaMoves
<1>f. ASSUME NEW to \in Wallet, NEW x \in Nat, Spend!Transfer(Pool, to, x),
             spend'[w] > spend[w]
      PROVE  w = to
  BY <1>f, <1>0, HolderFacts, SpendMoves
<1>g. /\ Wallet \subseteq Holder \ {Pool}
      /\ Treasury \in Holder \ {Pool}
      /\ Pool \in Holder
  BY HolderFacts, NotWallets
<1>1. CASE OwnerStep
  <2>1. ASSUME NEW o \in Owner, NEW a \in Amount, FundConcierge(o, a) PROVE FALSE
    <3>1. mandate.agent \in Wallet
      BY <2>1, <1>0 DEF FundConcierge, TreasuryType, House!HasMandate
    <3>2. casa'[Pool] = casa[Pool] /\ spend' = spend
      BY <2>1, <3>1, <1>0, <1>g DEF FundConcierge, Casa!Mint, TokenType
    <3> QED
      BY <3>2, <1>a, <1>0, Irreflexive
  <2>2. ASSUME NEW o \in Owner, NEW a \in Amount, ReclaimBudget(o, a) PROVE FALSE
    <3>1. mandate.agent \in Wallet
      BY <2>2, <1>0 DEF ReclaimBudget, TreasuryType, House!HasMandate
    <3>2. casa'[Pool] = casa[Pool] /\ spend' = spend
      BY <2>2, <3>1, <1>0, <1>g DEF ReclaimBudget, Casa!Reclaim, TokenType
    <3> QED
      BY <3>2, <1>a, <1>0, Irreflexive
  <2> QED
    BY <1>1, <2>1, <2>2, <1>b DEF OwnerStep, GrantMandate, RevokeMandate, ApprovePayment
<1>2. CASE RailStep
  <2>1. ASSUME NEW v \in Wallet, NEW a \in Amount, Deposit(v, a) PROVE FALSE
    <3>1. casa' = casa /\ ~(spend'[Pool] < spend[Pool])
      BY <2>1, <1>d, <1>g, HolderFacts DEF Deposit
    <3> QED
      BY <3>1, <1>a, <1>0, Irreflexive
  <2>2. ASSUME NEW x \in Wallet, NEW v \in Wallet, NEW a \in Amount, ProposePayment(x, v, a)
        PROVE  FALSE
    BY <2>2, <1>b DEF ProposePayment
  <2>3. ASSUME NEW id \in House!PaymentId, ExecutePayment(id) PROVE FALSE
    <3>1. payments[id].vendor \in Holder /\ payments[id].amount \in Nat
      <4>1. payments[id] \in Payment
        BY <2>3, <1>0 DEF TreasuryType, ExecutePayment, House!ExecutePayment, House!Known
      <4> QED
        BY <4>1, HolderFacts DEF Payment
    <3>2. casa' = casa /\ ~(spend'[Pool] < spend[Pool])
      BY <2>3, <3>1, <1>d, <1>g DEF ExecutePayment
    <3> QED
      BY <3>2, <1>a, <1>0, Irreflexive
  <2> QED
    BY <1>2, <2>1, <2>2, <2>3 DEF RailStep
<1>3. CASE PoolStep
  <2> PICK v \in Wallet :
        \/ \E x, y \in Amount : \E s \in {x, y} : SellCasa(v, x, y, s)
        \/ \E x, y \in Amount : \E s \in {x, y} : BuyCasa(v, x, y, s)
        \/ \E x, y \in Amount \cup {0} : AddLiquidity(v, x, y)
        \/ \E x, y \in Amount \cup {0} : RemoveLiquidity(v, x, y)
    BY <1>3 DEF PoolStep
  <2>1. ASSUME NEW x \in Amount, NEW y \in Amount, NEW s \in {x, y}, SellCasa(v, x, y, s)
        PROVE  \E specified \in Amount : MaySwap(w, specified) /\ IsLeg(specified)
    <3>1. w = v
      BY <2>1, <1>a, <1>c, <1>f, <1>g, HolderFacts DEF SellCasa
    <3>2. casa'[Pool] = casa[Pool] + x /\ spend'[Pool] = spend[Pool] - y
      BY <2>1, <1>0, <1>g, CasaMoves, SpendMoves, NotWallets, HolderFacts DEF SellCasa
    <3>3. IsLeg(s)
      BY <3>2, <1>0, HolderFacts DEF IsLeg
    <3> QED
      BY <2>1, <3>1, <3>3 DEF SellCasa
  <2>2. ASSUME NEW x \in Amount, NEW y \in Amount, NEW s \in {x, y}, BuyCasa(v, x, y, s)
        PROVE  \E specified \in Amount : MaySwap(w, specified) /\ IsLeg(specified)
    <3>1. w = v
      BY <2>2, <1>a, <1>d, <1>e, <1>g, HolderFacts DEF BuyCasa
    <3>2. spend'[Pool] = spend[Pool] + x /\ casa'[Pool] = casa[Pool] - y
      BY <2>2, <1>0, <1>g, CasaMoves, SpendMoves, NotWallets, HolderFacts DEF BuyCasa
    <3>3. IsLeg(s)
      BY <3>2, <1>0, HolderFacts DEF IsLeg
    <3> QED
      BY <2>2, <3>1, <3>3 DEF BuyCasa
  <2>3. ASSUME NEW x \in Amount \cup {0}, NEW y \in Amount \cup {0}, AddLiquidity(v, x, y)
        PROVE  FALSE
    BY <2>3, <1>a, <1>c, <1>d, <1>g, HolderFacts DEF AddLiquidity
  <2>4. ASSUME NEW x \in Amount \cup {0}, NEW y \in Amount \cup {0}, RemoveLiquidity(v, x, y)
        PROVE  w \in position
    <3>1. w = v
      BY <2>4, <1>a, <1>e, <1>f, HolderFacts DEF RemoveLiquidity
    <3> QED
      BY <2>4, <3>1 DEF RemoveLiquidity
  <2> QED
    BY <2>1, <2>2, <2>3, <2>4
<1>4. CASE TransferStep
  <2>1. ASSUME NEW v \in Wallet, NEW to \in Holder, NEW a \in Amount, TransferSpend(v, to, a)
        PROVE  FALSE
    <3>1. casa' = casa /\ ~(spend'[Pool] < spend[Pool])
      BY <2>1, <1>d, <1>g, HolderFacts DEF TransferSpend
    <3> QED
      BY <3>1, <1>a, <1>0, Irreflexive
  <2>2. ASSUME NEW v \in Wallet, NEW to \in Holder, NEW a \in Amount, TransferCasa(v, to, a)
        PROVE  FALSE
    <3>1. spend' = spend /\ ~(casa'[Pool] < casa[Pool])
      BY <2>2, <1>c, HolderFacts DEF TransferCasa
    <3> QED
      BY <3>1, <1>a, <1>0, Irreflexive
  <2> QED
    BY <1>4, <2>1, <2>2 DEF TransferStep
<1>5. CASE Environment \/ UNCHANGED vars
  BY <1>5, <1>b DEF Environment, vars
<1> QED
  BY <1>1, <1>2, <1>3, <1>4, <1>5 DEF Next

LEMMA HaltedMeansNoStanding == \A w : Halted => ~House!InGoodStanding(w)
BY DEF Halted, House!InGoodStanding

(* Once the mandate or one owner's clearance is gone, neither rail is open *)
(* to anyone but a compliant owner (HouseTreasury.sol:140-148, 191,        *)
(* MandateHook.sol:52-68).                                                 *)
THEOREM KillSwitchHolds == Spec => KillSwitch
<1>1. ASSUME TypeOK, [Next]_vars, Halted PROVE nextPaymentId' = nextPaymentId
  <2>1. ~Proposes
    BY <1>1, HaltedMeansNoStanding DEF Proposes, House!ProposePayment
  <2> QED
    BY <1>1, <2>1, QueueSteps
       DEF Approves, Executes, House!ApprovePayment, House!ExecutePayment, QueueVars
<1>2. ASSUME TypeOK, [Next]_vars, Halted, NEW w \in Wallet \ position, DrawsFromPool(w)
      PROVE  House!IsCompliantOwner(w)
  <2>1. PICK specified \in Amount : MaySwap(w, specified)
    BY <1>2, PoolDraws
  <2> QED
    BY <1>2, <2>1, HaltedMeansNoStanding DEF MaySwap, Hook!BeforeSwap
<1>3. TypeOK /\ [Next]_vars =>
        [Halted =>
          /\ nextPaymentId' = nextPaymentId
          /\ \A w \in Wallet \ position :
                DrawsFromPool(w) => House!IsCompliantOwner(w)]_vars
  BY <1>1, <1>2
<1> QED
  BY <1>3, TypeCorrect, PTL DEF Spec, KillSwitch

(* The cap of the mandate is enforced at the market on the leg the agent   *)
(* names: whatever a wallet that is no compliant owner swaps, one of the   *)
(* two legs is within the cap (MandateHook.sol:59-66).                     *)
THEOREM CapBinds == Spec => CapBindsOneLeg
<1>1. ASSUME TypeOK, [Next]_vars, NEW w \in Wallet \ position, DrawsFromPool(w),
             ~House!IsCompliantOwner(w)
      PROVE  \/ casa'[Pool] - casa[Pool] \in -mandate.perTxCap .. mandate.perTxCap
             \/ spend'[Pool] - spend[Pool] \in -mandate.perTxCap .. mandate.perTxCap
  <2>1. PICK specified \in Amount : MaySwap(w, specified) /\ IsLeg(specified)
    BY <1>1, PoolDraws
  <2>2. specified <= mandate.perTxCap
    BY <1>1, <2>1 DEF MaySwap, Hook!BeforeSwap
  <2>3. mandate.perTxCap \in Nat
    <3>1. mandate.perTxCap \in PerTxCap \cup {0}
      BY <1>1 DEF TypeOK
    <3>2. PerTxCap \cup {0} \subseteq Nat
      BY HouseAssumption DEF HouseAssumption
    <3> QED
      BY <3>1, <3>2, Zenon
  <2>4. specified \in Nat
    BY HolderFacts
  <2>5. /\ specified \in -mandate.perTxCap .. mandate.perTxCap
        /\ -specified \in -mandate.perTxCap .. mandate.perTxCap
    BY <2>2, <2>3, <2>4
  <2> QED
    BY <2>1, <2>5 DEF IsLeg
<1>2. TypeOK /\ [Next]_vars =>
        [\A w \in Wallet \ position :
          DrawsFromPool(w) /\ ~House!IsCompliantOwner(w) =>
              \/ casa'[Pool] - casa[Pool] \in -mandate.perTxCap .. mandate.perTxCap
              \/ spend'[Pool] - spend[Pool] \in -mandate.perTxCap .. mandate.perTxCap]_vars
  BY <1>1
<1> QED
  BY <1>2, TypeCorrect, PTL DEF Spec, CapBindsOneLeg
=============================================================================
