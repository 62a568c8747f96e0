-------------------------- MODULE WalletPolicyProofs --------------------------
(***************************************************************************)
(* What WalletPolicy keeps for any number of requests in flight, any       *)
(* amounts and any limits: rows and slots keep their shape, a block that   *)
(* nobody can disturb stays, and what is allowed in a day is bounded.      *)
(***************************************************************************)
EXTENDS WalletPolicy, SumTheorems

-----------------------------------------------------------------------------
(* The shapes of the slots, step by step.                                  *)
AnyLimit == Limit \cup {0, NoKycCap}

Slot ==
    {Idle}
    \cup [step : {"readPolicy"}, amount : Amount]
    \cup [step : {"readSpent", "allow"}, amount : Amount, limit : AnyLimit]
    \cup [step : {"setLimit"}, limit : Limit]
    \cup [step : {"getPolicy", "readKyc", "upgrade"}]

LEMMA SlotType == TypeOK <=>
    /\ policy \in Row!Row \cup {NoPolicy}
    /\ spent \in Nat
    /\ kycVerified \in BOOLEAN
    /\ request \in [Request -> Slot]
    /\ \A r \in Request : ~At(r, "idle") => policy # NoPolicy
BY DEF TypeOK, Slot, AnyLimit

LEMMA SlotShape ==
    ASSUME NEW x \in Slot
    PROVE  /\ x.step \in {"idle", "readPolicy", "readSpent", "allow", "setLimit",
                          "getPolicy", "readKyc", "upgrade"}
           /\ x.step \in {"readPolicy", "readSpent", "allow"} => x.amount \in Amount
           /\ x.step \in {"readSpent", "allow"} => x.limit \in AnyLimit
           /\ x.step = "setLimit" => x.limit \in Limit
BY DEF Slot, Idle

LEMMA SlotMakes ==
    /\ Idle \in Slot
    /\ \A a \in Amount : [step |-> "readPolicy", amount |-> a] \in Slot
    /\ \A a \in Amount, l \in AnyLimit :
          /\ [step |-> "readSpent", amount |-> a, limit |-> l] \in Slot
          /\ [step |-> "allow", amount |-> a, limit |-> l] \in Slot
    /\ \A l \in Limit : [step |-> "setLimit", limit |-> l] \in Slot
    /\ [step |-> "getPolicy"] \in Slot
    /\ [step |-> "readKyc"] \in Slot
    /\ [step |-> "upgrade"] \in Slot
BY DEF Slot

LEMMA RowIsNotNoPolicy == \A row \in Row!Row : row # NoPolicy
<1>1. Row!Row \subseteq [status : {"NO_KYC_DAILY_50", "KYC_USER_CONFIGURABLE", "BLOCKED"},
                         limit : Nat]
  <2> SUFFICES ASSUME NEW row \in Row!Row
               PROVE  row \in [status : {"NO_KYC_DAILY_50", "KYC_USER_CONFIGURABLE", "BLOCKED"},
                                limit : Nat]
    BY Zenon
  <2>1. Limit \cup {0, NoKycCap} \subseteq Nat
    BY PolicyAssumption
  <2> QED
    BY <2>1 DEF Row!Row, Row!PolicyStatus
<1>2. NoPolicy \notin [status : {"NO_KYC_DAILY_50", "KYC_USER_CONFIGURABLE", "BLOCKED"},
                      limit : Nat]
  BY PolicyAssumption
<1> QED
  BY Zenon, <1>1, <1>2

(* A step that moves one slot and leaves a row where there was one.        *)
LEMMA DoType ==
    ASSUME TypeOK, NEW r \in Request, NEW x \in Slot, Do(r, x),
           policy' \in Row!Row \/ (policy' = policy /\ (x = Idle \/ policy # NoPolicy)),
           spent' \in Nat, kycVerified' \in BOOLEAN
    PROVE  TypeOK'
<1>1. request \in [Request -> Slot] /\ request' = [request EXCEPT ![r] = x]
  BY SlotType DEF Do
<1>2. request' \in [Request -> Slot]
  BY <1>1
<1>3. request'[r] = x /\ \A q \in Request \ {r} : request'[q] = request[q]
  BY <1>1
<1>4. policy' \in Row!Row \cup {NoPolicy}
  BY DEF TypeOK
<1>5. ASSUME NEW q \in Request, request'[q].step # "idle" PROVE policy' # NoPolicy
  <2>1. CASE policy' \in Row!Row
    BY <2>1, RowIsNotNoPolicy
  <2>2. CASE policy' = policy /\ policy # NoPolicy
    BY <2>2
  <2>3. CASE policy' = policy /\ x = Idle
    <3>1. q # r
      BY <1>3, <1>5, <2>3 DEF Idle
    <3>2. request[q].step # "idle"
      BY <1>3, <1>5, <3>1
    <3> QED
      BY <2>3, <3>2 DEF TypeOK, At
  <2> QED
    BY <2>1, <2>2, <2>3
<1> QED
  BY <1>2, <1>4, <1>5 DEF TypeOK, Slot, AnyLimit, At

LEMMA RowWrites ==
    ASSUME TypeOK
    PROVE  /\ Row!EnsurePolicy => policy' \in Row!Row
           /\ Row!BlockWallet => policy' \in Row!Row
           /\ policy # NoPolicy /\ Row!WriteUpgrade => policy' \in Row!Row
           /\ \A l \in Limit : policy # NoPolicy /\ Row!WriteLimit(l) => policy' \in Row!Row
BY DEF TypeOK, Row!EnsurePolicy, Row!BlockWallet, Row!WriteUpgrade, Row!WriteLimit,
       Row!Row, Row!PolicyStatus

-----------------------------------------------------------------------------
LEMMA InitType == Init => TypeOK
<1> SUFFICES ASSUME Init PROVE TypeOK
  OBVIOUS
<1>1. request \in [Request -> Slot] /\ \A r \in Request : At(r, "idle")
  BY SlotMakes DEF Init, At, Idle
<1> QED
  BY <1>1, SlotType DEF Init

LEMMA IntentType ==
    ASSUME TypeOK, NEW r \in Request, IntentStep(r)
    PROVE  TypeOK'
<1>1. request[r] \in Slot /\ spent \in Nat /\ kycVerified \in BOOLEAN
  BY SlotType
<1>2. PICK x \in Slot : x = request[r]
  BY <1>1
<1>3. ~At(r, "idle") => policy \in Row!Row /\ policy # NoPolicy
  BY DEF TypeOK
<1>4. CASE \E a \in Amount : BeginIntent(r, a)
  <2>1. PICK a \in Amount : BeginIntent(r, a)
    BY <1>4
  <2> QED
    BY <1>1, <2>1, DoType, RowWrites, SlotMakes DEF BeginIntent
<1>5. CASE ReadPolicy(r)
  <2>1. x.step = "readPolicy" /\ x.amount \in Amount
    BY <1>2, <1>5, SlotShape DEF ReadPolicy, At
  <2>2. policy \in Row!Row /\ policy # NoPolicy
    BY <1>3, <1>5 DEF ReadPolicy, At
  <2>3. Row!EffectiveLimit(policy) \in AnyLimit
    BY <2>2 DEF Row!EffectiveLimit, Row!Row, AnyLimit
  <2> DEFINE y == [step |-> "readSpent", amount |-> x.amount, limit |-> Row!EffectiveLimit(policy)]
  <2>4. y \in Slot
    BY <2>1, <2>3, SlotMakes
  <2>5. Do(r, Idle) \/ Do(r, y)
    BY <1>2, <1>5 DEF ReadPolicy
  <2> HIDE DEF y
  <2> QED
    BY <1>1, <1>5, <2>2, <2>4, <2>5, DoType, SlotMakes DEF ReadPolicy
<1>6. CASE ReadSpent(r)
  <2>1. x.step = "readSpent" /\ x.amount \in Amount /\ x.limit \in AnyLimit
    BY <1>2, <1>6, SlotShape DEF ReadSpent, At
  <2>2. policy \in Row!Row /\ policy # NoPolicy
    BY <1>3, <1>6 DEF ReadSpent, At
  <2> DEFINE y == [step |-> "allow", amount |-> x.amount, limit |-> x.limit]
  <2>3. y \in Slot
    BY <2>1, SlotMakes
  <2>4. Do(r, Idle) \/ Do(r, y)
    BY <1>2, <1>6 DEF ReadSpent
  <2> HIDE DEF y
  <2> QED
    BY <1>1, <1>6, <2>2, <2>3, <2>4, DoType, SlotMakes DEF ReadSpent
<1>7. CASE Allow(r)
  <2>1. x.step = "allow" /\ x.amount \in Nat
    BY <1>2, <1>7, SlotShape, PolicyAssumption DEF Allow, At
  <2>2. spent' \in Nat
    BY <1>1, <1>2, <1>7, <2>1 DEF Allow
  <2> QED
    BY <1>1, <1>7, <2>2, DoType, SlotMakes DEF Allow
<1> QED
  BY <1>4, <1>5, <1>6, <1>7 DEF IntentStep

LEMMA PolicyType ==
    ASSUME TypeOK, NEW r \in Request, PolicyStep(r)
    PROVE  TypeOK'
<1>1. request[r] \in Slot /\ spent \in Nat /\ kycVerified \in BOOLEAN
  BY SlotType
<1>2. PICK x \in Slot : x = request[r]
  BY <1>1
<1>3. ~At(r, "idle") => policy \in Row!Row /\ policy # NoPolicy
  BY DEF TypeOK
<1>4. CASE \E l \in Limit : BeginLimit(r, l)
  <2>1. PICK l \in Limit : BeginLimit(r, l)
    BY <1>4
  <2> QED
    BY <1>1, <2>1, DoType, SlotMakes DEF BeginLimit, Row!HasStatus
<1>5. CASE SetLimit(r)
  <2>1. x.step = "setLimit" /\ x.limit \in Limit
    BY <1>2, <1>5, SlotShape DEF SetLimit, At
  <2>2. policy' \in Row!Row
    BY <1>2, <1>3, <1>5, <2>1, RowWrites DEF SetLimit, At
  <2> QED
    BY <1>1, <1>5, <2>2, DoType, SlotMakes DEF SetLimit
<1>6. CASE BeginGet(r)
  BY <1>1, <1>6, DoType, RowWrites, SlotMakes DEF BeginGet
<1>7. CASE GetPolicy(r)
  <2>1. policy # NoPolicy
    BY <1>3, <1>7 DEF GetPolicy, At
  <2>2. Do(r, Idle) \/ Do(r, [step |-> "readKyc"])
    BY <1>7 DEF GetPolicy
  <2> QED
    BY <1>1, <1>7, <2>1, <2>2, DoType, SlotMakes DEF GetPolicy
<1>8. CASE ReadKyc(r)
  <2>1. policy # NoPolicy
    BY <1>3, <1>8 DEF ReadKyc, At
  <2>2. Do(r, Idle) \/ Do(r, [step |-> "upgrade"])
    BY <1>8 DEF ReadKyc
  <2> QED
    BY <1>1, <1>8, <2>1, <2>2, DoType, SlotMakes DEF ReadKyc
<1>9. CASE BeginUpgrade(r)
  BY <1>1, <1>9, DoType, SlotMakes DEF BeginUpgrade, Row!HasStatus
<1>10. CASE Upgrade(r)
  <2>1. policy' \in Row!Row
    BY <1>3, <1>10, RowWrites DEF Upgrade, At
  <2> QED
    BY <1>1, <1>10, <2>1, DoType, SlotMakes DEF Upgrade
<1> QED
  BY <1>4, <1>5, <1>6, <1>7, <1>8, <1>9, <1>10 DEF PolicyStep

LEMMA NextType == TypeOK /\ [Next]_vars => TypeOK'
<1> SUFFICES ASSUME TypeOK, [Next]_vars PROVE TypeOK'
  OBVIOUS
<1>1. CASE \E r \in Request : IntentStep(r) \/ PolicyStep(r)
  BY <1>1, IntentType, PolicyType
<1>2. ASSUME NEW r \in Request, Abort(r) PROVE TypeOK'
  BY <1>2, SlotType, SlotMakes, DoType DEF Abort
<1>3. CASE Block
  <2>1. policy' \in Row!Row
    BY <1>3, RowWrites DEF Block
  <2> QED
    BY <1>3, <2>1, RowIsNotNoPolicy DEF Block, TypeOK, At
<1>4. ASSUME NEW b \in BOOLEAN, SetKycVerified(b) PROVE TypeOK'
  BY <1>4 DEF SetKycVerified, TypeOK, At
<1>5. CASE NewDay
  BY <1>5 DEF NewDay, TypeOK, At
<1>6. CASE UNCHANGED vars
  BY <1>6 DEF vars, TypeOK, At
<1> QED
  BY <1>1, <1>2, <1>3, <1>4, <1>5, <1>6 DEF Next

(* Rows and slots keep their shape, and every write of a request finds the *)
(* row it read (wallet-policy.service.ts).                                 *)
THEOREM TypeCorrect == Spec => []TypeOK
BY InitType, NextType, PTL DEF Spec

-----------------------------------------------------------------------------
LEMMA QuietMove ==
    ASSUME TypeOK, BlockedAndQuiet, NEW r \in Request, NEW x, Do(r, x),
           x.step \in {"idle", "readPolicy", "getPolicy", "setLimit"},
           policy' # NoPolicy, policy'.status = "BLOCKED"
    PROVE  BlockedAndQuiet'
<1>1. request \in [Request -> Slot] /\ request' = [request EXCEPT ![r] = x]
  BY SlotType DEF Do
<1>2. request'[r] = x /\ \A q \in Request \ {r} : request'[q] = request[q]
  BY <1>1
<1>3. \A q \in Request : request'[q].step \in {"idle", "readPolicy", "getPolicy", "setLimit"}
  BY <1>2 DEF BlockedAndQuiet
<1> QED
  BY <1>3 DEF BlockedAndQuiet, Row!Blocked, Row!HasStatus

LEMMA QuietStep ==
    TypeOK /\ [Next]_vars => [BlockedAndQuiet => BlockedAndQuiet' /\ spent' <= spent]_vars
<1> SUFFICES ASSUME TypeOK, [Next]_vars, ~UNCHANGED vars, BlockedAndQuiet
             PROVE  BlockedAndQuiet' /\ spent' <= spent
  BY Zenon
<1>1. policy # NoPolicy /\ policy.status = "BLOCKED" /\ policy \in Row!Row /\ spent \in Nat
  BY DEF BlockedAndQuiet, Row!Blocked, Row!HasStatus, TypeOK
<1>2. \A r \in Request : request[r].step \in {"idle", "readPolicy", "getPolicy", "setLimit"}
  BY DEF BlockedAndQuiet
<1>3. spent <= spent /\ 0 <= spent
  BY <1>1
<1>4. ASSUME NEW r \in Request, IntentStep(r) PROVE BlockedAndQuiet' /\ spent' <= spent
  <2>1. CASE \E a \in Amount : BeginIntent(r, a)
    BY <2>1, <1>1, <1>3, QuietMove DEF BeginIntent, Row!EnsurePolicy
  <2>2. CASE ReadPolicy(r)
    <3>1. Do(r, Idle) /\ policy' = policy /\ spent' = spent
      BY <2>2 DEF ReadPolicy, BlockedAndQuiet
    <3> QED
      BY <3>1, <1>1, <1>3, QuietMove DEF Idle
  <2>3. ~ReadSpent(r) /\ ~Allow(r)
    BY <1>2 DEF ReadSpent, Allow, At
  <2> QED
    BY <2>1, <2>2, <2>3, <1>4 DEF IntentStep
<1>5. ASSUME NEW r \in Request, PolicyStep(r) PROVE BlockedAndQuiet' /\ spent' <= spent
  <2>1. ~(\E l \in Limit : BeginLimit(r, l)) /\ ~BeginUpgrade(r)
    BY <1>1 DEF BeginLimit, BeginUpgrade, Row!HasStatus
  <2>2. CASE SetLimit(r)
    <3>1. policy' = [policy EXCEPT !.limit = request[r].limit]
      BY <2>2 DEF SetLimit, Row!WriteLimit
    <3>2. policy'.status = "BLOCKED"
      BY <1>1, <3>1 DEF Row!Row
    <3>3. At(r, "setLimit") /\ request \in [Request -> Slot]
      BY <2>2, SlotType DEF SetLimit
    <3>4. request[r].limit \in Limit
      BY <3>3, SlotShape DEF At
    <3>5. policy' \in Row!Row
      BY <1>1, <3>1, <3>4 DEF Row!Row
    <3> QED
      BY <2>2, <3>2, <3>5, <1>3, QuietMove, RowIsNotNoPolicy DEF SetLimit, Idle
  <2>3. CASE BeginGet(r)
    BY <2>3, <1>1, <1>3, QuietMove DEF BeginGet, Row!EnsurePolicy
  <2>4. CASE GetPolicy(r)
    <3>1. Do(r, Idle) /\ policy' = policy /\ spent' = spent
      BY <2>4, <1>1 DEF GetPolicy, Row!HasStatus
    <3> QED
      BY <3>1, <1>1, <1>3, QuietMove DEF Idle
  <2>5. ~ReadKyc(r) /\ ~Upgrade(r)
    BY <1>2 DEF ReadKyc, Upgrade, At
  <2> QED
    BY <2>1, <2>2, <2>3, <2>4, <2>5, <1>5 DEF PolicyStep
<1>6. ASSUME NEW r \in Request, Abort(r) PROVE BlockedAndQuiet' /\ spent' <= spent
  BY <1>6, <1>1, <1>3, QuietMove DEF Abort, Idle
<1>7. CASE Block
  <2>1. policy' \in Row!Row /\ policy'.status = "BLOCKED"
    BY <1>7 DEF Block, Row!BlockWallet, Row!Row, Row!PolicyStatus
  <2> QED
    BY <1>7, <2>1, <1>2, <1>3, RowIsNotNoPolicy
    DEF Block, BlockedAndQuiet, Row!Blocked, Row!HasStatus
<1>8. CASE \E b \in BOOLEAN : SetKycVerified(b)
  BY <1>8, <1>1, <1>2, <1>3
  DEF SetKycVerified, BlockedAndQuiet, Row!Blocked, Row!HasStatus
<1>9. CASE NewDay
  BY <1>9, <1>1, <1>2, <1>3 DEF NewDay, BlockedAndQuiet, Row!Blocked, Row!HasStatus
<1> QED
  BY <1>4, <1>5, <1>6, <1>7, <1>8, <1>9 DEF Next

(* A block that no request in flight can disturb is final: nothing that    *)
(* arrives afterwards lifts it or spends anything                          *)
(* (wallet-policy.service.ts:40-49, 76-80, 99-107).                        *)
THEOREM BlockHolds == Spec => BlockHoldsOnceQuiet
BY TypeCorrect, QuietStep, PTL DEF Spec, BlockHoldsOnceQuiet

-----------------------------------------------------------------------------
(* There is a highest limit: the limits are finitely many.                 *)
LEMMA HasHighest ==
    ASSUME NEW S, IsFiniteSet(S), S \subseteq Nat, S # {}
    PROVE  \E m \in S : \A l \in S : l <= m
<1> DEFINE G == {T \in SUBSET S : T = {} \/ \E m \in T : \A l \in T : l <= m}
<1>1. ASSUME NEW T \in SUBSET S, \A U \in SUBSET T : U # T => U \in G PROVE T \in G
  <2>1. CASE T # {}
    <3>1. PICK x \in T : TRUE
      BY <2>1
    <3>2. T \ {x} \in G
      BY <1>1
    <3>3. T \subseteq Nat
      OBVIOUS
    <3>4. CASE T \ {x} = {}
      <4>1. \A l \in T : l <= x
        BY <3>3, <3>4
      <4> QED
        BY <4>1
    <3>5. CASE \E m \in T \ {x} : \A l \in T \ {x} : l <= m
      <4>1. PICK m \in T \ {x} : \A l \in T \ {x} : l <= m
        BY <3>5
      <4>2. CASE x <= m
        <5>1. \A l \in T : l <= m
          BY <4>1, <4>2
        <5> QED
          BY <5>1
      <4>3. CASE ~(x <= m)
        <5>1. \A l \in T : l <= x
          BY <3>3, <4>1, <4>3
        <5> QED
          BY <5>1
      <4> QED
        BY <4>2, <4>3
    <3> QED
      BY <3>2, <3>4, <3>5
  <2> QED
    BY <2>1
<1>2. \A T \in SUBSET S : T \in G
  <2> HIDE DEF G
  <2> QED
    BY <1>1, AllSubsets
<1>3. S \in G
  BY <1>2
<1> QED
  BY <1>3

LEMMA HighestLimitFacts ==
    /\ HighestLimit \in Nat
    /\ \A l \in AnyLimit : l \in Nat /\ l <= HighestLimit
<1> DEFINE S == Limit \cup {NoKycCap}
<1>1. IsFiniteSet(S) /\ S \subseteq Nat /\ S # {}
  BY PolicyAssumption, FS_AddElement
<1> HIDE DEF S
<1>2. \E m \in S : \A l \in S : l <= m
  BY <1>1, HasHighest
<1>3. HighestLimit \in S /\ \A l \in S : l <= HighestLimit
  BY <1>2 DEF HighestLimit, S
<1> QED
  BY <1>1, <1>3 DEF S, AnyLimit

(* The invariant behind the bound: every amount about to be logged is      *)
(* within a limit on its own, and so is it together with what was spent    *)
(* when it was compared.                                                   *)
PendingOf == [r \in Request |-> Pending(r)]

PendingBounded == \A r \in Request : Pending(r) <= HighestLimit

Bounded ==
    /\ TypeOK
    /\ PendingBounded
    /\ OvershootIsBounded

LEMMA PendingType ==
    ASSUME TypeOK
    PROVE  PendingOf \in [Request -> Nat] /\ \A r \in Request : Pending(r) \in Nat
<1>1. ASSUME NEW r \in Request PROVE Pending(r) \in Nat
  <2>1. request[r] \in Slot
    BY SlotType
  <2>2. At(r, "allow") => request[r].amount \in Nat
    BY <2>1, SlotShape, PolicyAssumption DEF At
  <2> QED
    BY <2>2 DEF Pending
<1> QED
  BY <1>1 DEF PendingOf

LEMMA BoundIsSum == OvershootIsBounded <=>
    spent + Sum(PendingOf) <= Cardinality(Request) * HighestLimit
BY DEF OvershootIsBounded, PendingOf, Sum

LEMMA BoundIsSumNext == OvershootIsBounded' <=>
    spent' + Sum(PendingOf') <= Cardinality(Request) * HighestLimit
<1>1. OvershootIsBounded' <=>
        spent' + FoldFunction(+, 0, [r \in Request |-> Pending(r)'])
            <= Cardinality(Request) * HighestLimit
  BY DEF OvershootIsBounded, FoldFunction, FoldFunctionOnSet, MapThenFoldSet
<1>2. PendingOf' = [r \in Request |-> Pending(r)']
  BY DEF PendingOf
<1>3. Sum(PendingOf') = FoldFunction(+, 0, [r \in Request |-> Pending(r)'])
  BY Zenon, <1>2 DEF Sum
<1> QED
  BY Zenon, <1>1, <1>3

LEMMA InitBounded == Init => Bounded
<1> SUFFICES ASSUME Init PROVE Bounded
  OBVIOUS
<1>1. TypeOK
  BY InitType
<1>2. \A r \in Request : Pending(r) = 0
  BY DEF Init, Pending, At, Idle
<1>3. PendingBounded
  BY <1>2, HighestLimitFacts DEF PendingBounded
<1>4. PendingOf \in [Request -> Nat] /\ \A r \in Request : PendingOf[r] <= HighestLimit
  BY <1>2, <1>3 DEF PendingOf, PendingBounded
<1>5. Sum(PendingOf) \in Nat /\ Sum(PendingOf) <= Cardinality(Request) * HighestLimit
  BY <1>4, SumBound, HighestLimitFacts, PolicyAssumption
<1>6. spent = 0
  BY DEF Init
<1>7. Cardinality(Request) * HighestLimit \in Nat
  BY HighestLimitFacts, FS_CardinalityType, PolicyAssumption
<1>8. spent + Sum(PendingOf) <= Cardinality(Request) * HighestLimit
  BY <1>5, <1>6, <1>7
<1> QED
  BY <1>1, <1>3, <1>8, BoundIsSum DEF Bounded

(* The sum after a step that moves one slot.                               *)
LEMMA DoPending ==
    ASSUME TypeOK, NEW r \in Request, NEW x \in Slot, Do(r, x),
           NEW p \in Nat, p = IF x.step = "allow" THEN x.amount ELSE 0
    PROVE  /\ Pending(r)' = p
           /\ \A q \in Request \ {r} : Pending(q)' = Pending(q)
           /\ PendingOf' \in [Request -> Nat]
           /\ \A q \in Request : PendingOf'[q] = IF q = r THEN p ELSE Pending(q)
           /\ Sum(PendingOf') = Sum(PendingOf) - Pending(r) + p
<1>1. request \in [Request -> Slot] /\ request' = [request EXCEPT ![r] = x]
  BY SlotType DEF Do
<1>2. request'[r] = x /\ \A q \in Request \ {r} : request'[q] = request[q]
  BY <1>1
<1>3. Pending(r)' = p
  BY <1>2 DEF Pending, At
<1>4. \A q \in Request \ {r} : Pending(q)' = Pending(q)
  BY <1>2 DEF Pending, At
<1>5. PendingOf \in [Request -> Nat] /\ \A q \in Request : Pending(q) \in Nat
  BY PendingType
<1>6. PendingOf' = [q \in Request |-> IF q = r THEN p ELSE Pending(q)]
  BY <1>3, <1>4 DEF PendingOf
<1>7. /\ PendingOf' \in [Request -> Nat]
      /\ \A q \in Request : PendingOf'[q] = IF q = r THEN p ELSE Pending(q)
  BY <1>5, <1>6
<1>8. Sum(PendingOf') = Sum(PendingOf) - Pending(r) + p
  <2>1. PICK f \in [Request -> Nat] : f = PendingOf
    BY <1>5
  <2>2. PICK g \in [Request -> Nat] : g = PendingOf'
    BY <1>7
  <2>3. f[r] = Pending(r) /\ g[r] = p /\ \A q \in Request \ {r} : g[q] = f[q]
    BY <1>7, <2>1, <2>2 DEF PendingOf
  <2>4. f \in [Request -> Int] /\ g \in [Request -> Int]
    OBVIOUS
  <2>5. Sum(g) = Sum(f) - f[r] + g[r]
    BY <2>3, <2>4, PolicyAssumption, SumUpdate
  <2> QED
    BY <2>1, <2>2, <2>3, <2>5
<1> QED
  BY <1>3, <1>4, <1>7, <1>8

LEMMA SumNow ==
    ASSUME TypeOK
    PROVE  Sum(PendingOf) \in Nat /\ Cardinality(Request) * HighestLimit \in Nat
<1>1. PendingOf \in [Request -> Nat]
  BY PendingType
<1>2. Cardinality(Request) * HighestLimit \in Nat
  BY HighestLimitFacts, FS_CardinalityType, PolicyAssumption
<1> QED
  BY <1>1, <1>2, SumNatural, PolicyAssumption

(* A slot that comes to nothing, or is logged, takes its amount with it.   *)
LEMMA DoneBounded ==
    ASSUME Bounded, TypeOK', NEW r \in Request, NEW x \in Slot, Do(r, x),
           x.step # "allow", spent' = spent \/ spent' = spent + Pending(r)
    PROVE  Bounded'
<1>1. TypeOK /\ \A q \in Request : Pending(q) \in Nat /\ Pending(q) <= HighestLimit
  BY PendingType DEF Bounded, PendingBounded
<1>2. Pending(r)' = 0 /\ \A q \in Request \ {r} : Pending(q)' = Pending(q)
  BY <1>1, DoPending, 0 \in Nat
<1>3. PendingBounded'
  BY <1>1, <1>2, HighestLimitFacts DEF PendingBounded
<1>4. Sum(PendingOf') = Sum(PendingOf) - Pending(r) + 0
  BY <1>1, DoPending, 0 \in Nat
<1>5. spent \in Nat /\ Sum(PendingOf) \in Nat /\ Cardinality(Request) * HighestLimit \in Nat
  BY <1>1, SumNow DEF TypeOK
<1>6. spent + Sum(PendingOf) <= Cardinality(Request) * HighestLimit
  BY BoundIsSum DEF Bounded
<1>7. spent' + Sum(PendingOf') <= Cardinality(Request) * HighestLimit
  BY <1>1, <1>4, <1>5, <1>6
<1> QED
  BY <1>3, <1>7, BoundIsSumNext DEF Bounded

(* An intent is let through when it fits under its limit by what had been  *)
(* logged: whatever the others are about to log is within their limits.    *)
LEMMA LetThroughBounded ==
    ASSUME Bounded, TypeOK', NEW r \in Request, NEW x \in Slot, Do(r, x),
           x.step = "allow", spent' = spent, spent + x.amount <= x.limit
    PROVE  Bounded'
<1>1. TypeOK /\ \A q \in Request : Pending(q) \in Nat /\ Pending(q) <= HighestLimit
  BY PendingType DEF Bounded, PendingBounded
<1>2. PICK a \in Nat : a = x.amount
  BY SlotShape, PolicyAssumption
<1>3. x.limit \in Nat /\ x.limit <= HighestLimit /\ HighestLimit \in Nat /\ spent \in Nat
  BY <1>1, SlotShape, HighestLimitFacts DEF TypeOK
<1>4. spent + a <= HighestLimit /\ a <= HighestLimit
  BY <1>2, <1>3
<1>5. /\ Pending(r)' = a
      /\ \A q \in Request \ {r} : Pending(q)' = Pending(q)
      /\ PendingOf' \in [Request -> Nat]
      /\ \A q \in Request : PendingOf'[q] = IF q = r THEN a ELSE Pending(q)
  BY <1>1, <1>2, DoPending
<1>6. PendingBounded'
  BY <1>1, <1>4, <1>5 DEF PendingBounded
<1>7. PICK g \in [Request -> Nat] : g = PendingOf'
  BY <1>5
<1>8. g[r] = a /\ \A q \in Request : g[q] <= HighestLimit
  BY <1>1, <1>4, <1>5, <1>7
<1> DEFINE rest == Restrict(g, Request \ {r})
           n == Cardinality(Request)
<1>9. rest \in [Request \ {r} -> Nat] /\ \A q \in Request \ {r} : rest[q] <= HighestLimit
  BY <1>8 DEF Restrict
<1>10. /\ IsFiniteSet(Request \ {r}) /\ Cardinality(Request \ {r}) = n - 1
       /\ n \in Nat
  BY PolicyAssumption, FS_RemoveElement, FS_CardinalityType
<1> HIDE DEF rest, n
<1>11. Sum(rest) \in Nat /\ Sum(rest) <= (n - 1) * HighestLimit
  BY <1>3, <1>9, <1>10, SumBound
<1>12. Sum(g) = a + Sum(rest)
  <2>1. g \in [Request -> Int]
    OBVIOUS
  <2> QED
    BY <1>8, <2>1, PolicyAssumption, SumRemove DEF rest
<1>13. (n - 1) * HighestLimit = n * HighestLimit - HighestLimit /\ n * HighestLimit \in Nat
  BY <1>3, <1>10
<1>14. spent' + Sum(g) <= n * HighestLimit
  BY <1>3, <1>4, <1>11, <1>12, <1>13
<1> QED
  BY <1>6, <1>7, <1>14, BoundIsSumNext DEF Bounded, n

LEMMA StillBounded ==
    ASSUME Bounded, TypeOK', request' = request, spent' = spent \/ spent' = 0
    PROVE  Bounded'
<1>1. TypeOK /\ spent \in Nat
  BY DEF Bounded, TypeOK
<1>2. \A q \in Request : Pending(q)' = Pending(q)
  BY DEF Pending, At
<1>3. PendingBounded'
  BY <1>2 DEF Bounded, PendingBounded
<1>4. PendingOf' = PendingOf
  BY <1>2 DEF PendingOf
<1>5. Sum(PendingOf) \in Nat /\ Cardinality(Request) * HighestLimit \in Nat
  BY <1>1, SumNow
<1>6. spent + Sum(PendingOf) <= Cardinality(Request) * HighestLimit
  BY BoundIsSum DEF Bounded
<1>7. spent' + Sum(PendingOf') <= Cardinality(Request) * HighestLimit
  BY <1>1, <1>4, <1>5, <1>6
<1> QED
  BY <1>3, <1>7, BoundIsSumNext DEF Bounded

LEMMA NextBounded == Bounded /\ [Next]_vars => Bounded'
<1> SUFFICES ASSUME Bounded, [Next]_vars PROVE Bounded'
  OBVIOUS
<1>1. TypeOK /\ TypeOK'
  BY NextType DEF Bounded
<1>2. \A r \in Request : request[r] \in Slot
  BY <1>1, SlotType
<1>3. ASSUME NEW r \in Request, IntentStep(r) PROVE Bounded'
  <2>1. CASE \E a \in Amount : BeginIntent(r, a)
    <3>1. PICK a \in Amount : BeginIntent(r, a)
      BY <2>1
    <3> QED
      BY <1>1, <3>1, DoneBounded, SlotMakes DEF BeginIntent
  <2>2. PICK x \in Slot : x = request[r]
    BY <1>2
  <2>3. CASE ReadPolicy(r)
    <3>1. x.step = "readPolicy" /\ x.amount \in Amount
      BY <2>2, <2>3, SlotShape DEF ReadPolicy, At
    <3>2. policy \in Row!Row
      BY <1>1, <2>3 DEF ReadPolicy, At, TypeOK
    <3>3. Row!EffectiveLimit(policy) \in AnyLimit
      BY <3>2 DEF Row!EffectiveLimit, Row!Row, AnyLimit
    <3> DEFINE y == [step |-> "readSpent", amount |-> x.amount,
                     limit |-> Row!EffectiveLimit(policy)]
    <3>4. y \in Slot /\ y.step # "allow"
      BY <3>1, <3>3, SlotMakes
    <3>5. Do(r, Idle) \/ Do(r, y)
      BY <2>2, <2>3 DEF ReadPolicy
    <3> HIDE DEF y
    <3> QED
      BY <1>1, <2>3, <3>4, <3>5, DoneBounded, SlotMakes DEF ReadPolicy, Idle
  <2>4. CASE ReadSpent(r)
    <3>1. x.step = "readSpent" /\ x.amount \in Amount /\ x.limit \in AnyLimit
      BY <2>2, <2>4, SlotShape DEF ReadSpent, At
    <3>2. x.amount \in Nat /\ x.limit \in Nat /\ spent \in Nat
      BY <1>1, <3>1, PolicyAssumption, HighestLimitFacts DEF TypeOK
    <3> DEFINE y == [step |-> "allow", amount |-> x.amount, limit |-> x.limit]
    <3>3. CASE spent + x.amount > x.limit
      BY <1>1, <2>2, <2>4, <3>3, DoneBounded, SlotMakes DEF ReadSpent, Idle
    <3>4. CASE ~(spent + x.amount > x.limit)
      <4>1. y \in Slot /\ y.step = "allow" /\ y.amount = x.amount /\ y.limit = x.limit
        BY <3>1, SlotMakes
      <4>2. Do(r, y) /\ spent' = spent
        BY <2>2, <2>4, <3>4 DEF ReadSpent
      <4>3. spent + y.amount <= y.limit
        BY <3>2, <3>4, <4>1
      <4> HIDE DEF y
      <4> QED
        BY <1>1, <4>1, <4>2, <4>3, LetThroughBounded
    <3> QED
      BY <3>3, <3>4
  <2>5. CASE Allow(r)
    <3>1. spent' = spent + Pending(r)
      BY <2>5 DEF Allow, Pending
    <3> QED
      BY <1>1, <2>5, <3>1, DoneBounded, SlotMakes DEF Allow, Idle
  <2> QED
    BY <2>1, <2>3, <2>4, <2>5, <1>3 DEF IntentStep
<1>4. ASSUME NEW r \in Request, PolicyStep(r) PROVE Bounded'
  <2>1. spent' = spent
    BY <1>4 DEF PolicyStep, BeginLimit, SetLimit, BeginGet, GetPolicy, ReadKyc, BeginUpgrade,
                Upgrade
  <2>2. \E x \in Slot : Do(r, x) /\ x.step # "allow"
    BY <1>4, SlotMakes
    DEF PolicyStep, BeginLimit, SetLimit, BeginGet, GetPolicy, ReadKyc, BeginUpgrade, Upgrade,
        Idle
  <2> QED
    BY <1>1, <2>1, <2>2, DoneBounded
<1>5. ASSUME NEW r \in Request, Abort(r) PROVE Bounded'
  BY <1>1, <1>5, DoneBounded, SlotMakes DEF Abort, Idle
<1>6. CASE Block \/ (\E b \in BOOLEAN : SetKycVerified(b)) \/ NewDay \/ UNCHANGED vars
  BY <1>1, <1>6, StillBounded DEF Block, SetKycVerified, NewDay, vars
<1> QED
  BY <1>3, <1>4, <1>5, <1>6 DEF Next

LEMMA BoundedAlways == Spec => []Bounded
BY InitBounded, NextBounded, PTL DEF Spec

(* Without a lock the daily limit is not exact, but for any number of      *)
(* requests in flight what was allowed today and what is about to be       *)
(* logged stay within the highest limit times that number                  *)
(* (wallet-policy.service.ts:82-96).                                       *)
THEOREM OvershootBounded == Spec => []OvershootIsBounded
<1>1. Bounded => OvershootIsBounded
  BY DEF Bounded
<1> QED
  BY BoundedAlways, <1>1, PTL
===============================================================================
