--------------------------- MODULE PassportProofs ---------------------------
(***************************************************************************)
(* The safety invariants of Passport, for any issuers, identities, topics, *)
(* keys, wallets, policies, cap and clock bound.                           *)
(***************************************************************************)
EXTENDS Passport, SequenceTheorems, FiniteSetTheorems, TLAPS

-----------------------------------------------------------------------------
(* The registry by itself: for any issuers and any topics the three copies *)
(* of the trust relation agree after every call of its own specification,  *)
(* and the list read behaves as a TrustSet.                                *)

(* An issuer's flag is set exactly while the index map records a position  *)
(* for it.  ListMatchesFlag alone is not inductive: a removal consults the *)
(* index, so the invariant must tie the flag to the index and the index to *)
(* the list.                                                               *)
FlagMatchesIndex ==
    \A i \in Issuer, t \in Topic : Registry!IsTrusted(i, t) <=> idx1[t][i] # 0

RegistryInv ==
    /\ Registry!TypeOK
    /\ Registry!IndexMatchesList
    /\ FlagMatchesIndex

-----------------------------------------------------------------------------
(* What swap-and-pop leaves behind: one element fewer, the last element at *)
(* the freed position, every other element where it was.                   *)
LEMMA SwapAndPopFacts ==
    ASSUME NEW S, NEW arr \in Seq(S), NEW pos \in 1..Len(arr)
    PROVE  /\ Registry!SwapAndPop(arr, pos) \in Seq(S)
           /\ Len(Registry!SwapAndPop(arr, pos)) = Len(arr) - 1
           /\ \A n \in 1..(Len(arr) - 1) :
                 Registry!SwapAndPop(arr,
                 pos)[n] = IF n = pos THEN arr[Len(arr)] ELSE arr[n]
<1> DEFINE last == Len(arr)
           new == [arr EXCEPT ![pos] = arr[last]]
<1>1. last \in Nat /\ last \in 1..last /\ arr[last] \in S
  BY LenProperties, ElementOfSeq
<1>2. new \in Seq(S) /\ Len(new) = last
  BY <1>1, ExceptSeq
<1>3. \A n \in 1..last : new[n] = IF n = pos THEN arr[last] ELSE arr[n]
  BY <1>1, LenProperties
<1>4. /\ SubSeq(new, 1, last - 1) \in Seq(S)
      /\ Len(SubSeq(new, 1, last - 1)) = last - 1
      /\ \A n \in 1..(last - 1) : SubSeq(new, 1, last - 1)[n] = new[n]
  <2>1. 1 \in 1..(Len(new) + 1) /\ last - 1 \in 0..Len(new)
    BY <1>1, <1>2
  <2>. HIDE DEF new
  <2>2. SubSeq(new, 1, last - 1) \in Seq(S)
    BY <1>2, <2>1, SubSeqProperties
  <2>. QED
    BY <1>1, <1>2, <2>1, <2>2, SubSeqProperties
<1>. QED
  BY <1>1, <1>3, <1>4 DEF Registry!SwapAndPop

LEMMA RegistryInitInv == Registry!Init => RegistryInv
BY DEF Registry!Init, RegistryInv, Registry!TypeOK, Registry!IndexMatchesList,
       FlagMatchesIndex, Registry!IsTrusted

LEMMA RegistryPushInv ==
    ASSUME RegistryInv, NEW i \in Issuer, NEW t \in Topic, Registry!SetTrusted(i, t, TRUE)
    PROVE  RegistryInv'
<1> USE DEF RegistryInv
<1>1. /\ <<i, t>> \notin trusted
      /\ trusted' = trusted \cup {<<i, t>>}
      /\ issuers' = [issuers EXCEPT ![t] = Append(issuers[t], i)]
      /\ idx1' = [idx1 EXCEPT ![t] = [idx1[t] EXCEPT ![i] = Len(issuers[t]) + 1]]
  BY DEF Registry!SetTrusted, Registry!Push, Registry!IsTrusted
<1>2. issuers[t] \in Seq(Issuer) /\ Len(issuers[t]) \in Nat
  BY DEF Registry!TypeOK
<1>3. Registry!TypeOK'
  BY <1>1, <1>2 DEF Registry!TypeOK
<1>4. idx1[t][i] = 0 /\ \A n \in 1..Len(issuers[t]) : issuers[t][n] # i
  BY <1>1, <1>2 DEF Registry!TypeOK, FlagMatchesIndex, Registry!IndexMatchesList,
         Registry!IsTrusted
<1>5. Registry!IndexMatchesList'
  <2>. SUFFICES ASSUME NEW u \in Topic
                PROVE  /\ \A n \in 1..Len(issuers'[u]) : idx1'[u][issuers'[u][n]] = n
                       /\ \A j \in Issuer :
                             idx1'[u][j] # 0 => /\ idx1'[u][j] \in 1..Len(issuers'[u])
                                                /\ issuers'[u][idx1'[u][j]] = j
    BY DEF Registry!IndexMatchesList
  <2>1. CASE u # t
    BY <2>1, <1>1 DEF Registry!TypeOK, Registry!IndexMatchesList
  <2>2. CASE u = t
    <3>1. /\ Len(issuers'[t]) = Len(issuers[t]) + 1
          /\ \A n \in 1..(Len(issuers[t]) + 1) :
                issuers'[t][n] = IF n = Len(issuers[t]) + 1 THEN i ELSE issuers[t][n]
      BY <1>1, <1>2, AppendProperties DEF Registry!TypeOK
    <3>2. \A j \in Issuer :
             idx1'[t][j] = IF j = i THEN Len(issuers[t]) + 1 ELSE idx1[t][j]
      BY <1>1 DEF Registry!TypeOK
    <3>3. \A n \in 1..Len(issuers[t]) : issuers[t][n] \in Issuer
      BY <1>2, ElementOfSeq
    <3>4. ASSUME NEW n \in 1..Len(issuers'[t])
          PROVE  idx1'[t][issuers'[t][n]] = n
      <4>1. CASE n = Len(issuers[t]) + 1
        BY <4>1, <3>1, <3>2, <1>2
      <4>2. CASE n # Len(issuers[t]) + 1
        <5>1. n \in 1..Len(issuers[t]) /\ issuers'[t][n] = issuers[t][n]
          BY <4>2, <3>1, <1>2
        <5>. QED
          BY <5>1, <3>2, <3>3, <1>4 DEF Registry!IndexMatchesList
      <4>. QED
        BY <4>1, <4>2
    <3>5. ASSUME NEW j \in Issuer, idx1'[t][j] # 0
          PROVE  /\ idx1'[t][j] \in 1..Len(issuers'[t])
                 /\ issuers'[t][idx1'[t][j]] = j
      <4>1. CASE j = i
        BY <4>1, <3>1, <3>2, <1>2
      <4>2. CASE j # i
        BY <4>2, <3>1, <3>2, <3>5, <1>2 DEF Registry!IndexMatchesList
      <4>. QED
        BY <4>1, <4>2
    <3>. QED
      BY <2>2, <3>4, <3>5
  <2>. QED
    BY <2>1, <2>2
<1>6. FlagMatchesIndex'
  <2>1. \A u \in Topic, j \in Issuer :
           idx1'[u][j] = IF u = t /\ j = i THEN Len(issuers[t]) + 1 ELSE idx1[u][j]
    BY <1>1 DEF Registry!TypeOK
  <2>2. Len(issuers[t]) + 1 # 0
    BY <1>2
  <2>3. \A u \in Topic, j \in Issuer :
           <<j, u>> \in trusted' <=> (<<j, u>> \in trusted \/ (u = t /\ j = i))
    BY <1>1
  <2>. QED
    BY <2>1, <2>2, <2>3 DEF FlagMatchesIndex, Registry!IsTrusted
<1>. QED
  BY <1>3, <1>5, <1>6

LEMMA RegistryRemoveInv ==
    ASSUME RegistryInv, NEW i \in Issuer, NEW t \in Topic, Registry!SetTrusted(i, t, FALSE)
    PROVE  RegistryInv'
<1> USE DEF RegistryInv
<1> DEFINE arr == issuers[t]
           pos == idx1[t][i]
           moved == arr[Len(arr)]
<1>1. /\ <<i, t>> \in trusted
      /\ trusted' = trusted \ {<<i, t>>}
      /\ Registry!RemoveFromTopic(t, i)
  BY DEF Registry!SetTrusted, Registry!IsTrusted
<1>2. arr \in Seq(Issuer) /\ Len(arr) \in Nat
  BY DEF Registry!TypeOK
<1>3. pos # 0 /\ pos \in 1..Len(arr) /\ arr[pos] = i
  BY <1>1 DEF FlagMatchesIndex, Registry!IndexMatchesList, Registry!IsTrusted
<1>4. /\ issuers' = [issuers EXCEPT ![t] = Registry!SwapAndPop(arr, pos)]
      /\ idx1' = [idx1 EXCEPT ![t] = [idx1[t] EXCEPT ![moved] = pos, ![i] = 0]]
  BY <1>1, <1>3 DEF Registry!RemoveFromTopic
<1>5. Len(arr) \in 1..Len(arr) /\ moved \in Issuer
  BY <1>2, <1>3, ElementOfSeq
<1>6. /\ Registry!SwapAndPop(arr, pos) \in Seq(Issuer)
      /\ Len(Registry!SwapAndPop(arr, pos)) = Len(arr) - 1
      /\ \A n \in 1..(Len(arr) - 1) :
            Registry!SwapAndPop(arr, pos)[n] = IF n = pos THEN moved ELSE arr[n]
  BY <1>2, <1>3, SwapAndPopFacts
<1>7. \A u \in Topic, j \in Issuer :
         idx1'[u][j] = IF u # t THEN idx1[u][j]
                       ELSE IF j = i THEN 0
                       ELSE IF j = moved THEN pos ELSE idx1[t][j]
  BY <1>4, <1>5 DEF Registry!TypeOK
<1>8. Registry!TypeOK'
  BY <1>1, <1>3, <1>4, <1>5, <1>6 DEF Registry!TypeOK
<1>9. Registry!IndexMatchesList'
  <2>. SUFFICES ASSUME NEW u \in Topic
                PROVE  /\ \A n \in 1..Len(issuers'[u]) : idx1'[u][issuers'[u][n]] = n
                       /\ \A j \in Issuer :
                             idx1'[u][j] # 0 => /\ idx1'[u][j] \in 1..Len(issuers'[u])
                                                /\ issuers'[u][idx1'[u][j]] = j
    BY DEF Registry!IndexMatchesList
  <2>1. CASE u # t
    BY <2>1, <1>4 DEF Registry!TypeOK, Registry!IndexMatchesList
  <2>2. CASE u = t
    <3>1. issuers'[t] = Registry!SwapAndPop(arr, pos)
      BY <1>4 DEF Registry!TypeOK
    <3>2. \A n \in 1..Len(arr) : arr[n] \in Issuer /\ idx1[t][arr[n]] = n
      BY <1>2, ElementOfSeq DEF Registry!IndexMatchesList
    <3>3. \A n \in 1..(Len(arr) - 1) : idx1'[t][issuers'[t][n]] = n
      <4>. SUFFICES ASSUME NEW n \in 1..(Len(arr) - 1)
                    PROVE  idx1'[t][issuers'[t][n]] = n
        OBVIOUS
      <4>1. CASE n = pos
        <5>1. moved # i
          BY <4>1, <1>2, <1>3, <3>2
        <5>. QED
          BY <4>1, <5>1, <1>5, <1>6, <1>7, <3>1
      <4>2. CASE n # pos
        <5>1. arr[n] # i /\ arr[n] # moved
          BY <4>2, <1>2, <1>3, <1>5, <3>2
        <5>. QED
          BY <4>2, <5>1, <1>2, <1>6, <1>7, <3>1, <3>2
      <4>. QED
        BY <4>1, <4>2
    <3>4. ASSUME NEW j \in Issuer, idx1'[t][j] # 0
          PROVE  /\ idx1'[t][j] \in 1..(Len(arr) - 1)
                 /\ issuers'[t][idx1'[t][j]] = j
      <4>1. j # i
        BY <3>4, <1>7
      <4>2. CASE j = moved
        <5>1. idx1'[t][j] = pos /\ pos # Len(arr)
          BY <4>1, <4>2, <1>3, <1>7
        <5>. QED
          BY <4>2, <5>1, <1>2, <1>3, <1>6, <3>1
      <4>3. CASE j # moved
        <5>1. idx1'[t][j] = idx1[t][j] /\ idx1[t][j] \in 1..Len(arr)
              /\ arr[idx1[t][j]] = j
          BY <3>4, <4>1, <4>3, <1>7 DEF Registry!IndexMatchesList
        <5>2. idx1[t][j] # Len(arr) /\ idx1[t][j] # pos
          BY <4>1, <4>3, <5>1, <1>3
        <5>. QED
          BY <5>1, <5>2, <1>2, <1>6, <3>1
      <4>. QED
        BY <4>2, <4>3
    <3>. QED
      BY <2>2, <3>1, <3>3, <3>4, <1>6
  <2>. QED
    BY <2>1, <2>2
<1>10. FlagMatchesIndex'
  <2>1. \A u \in Topic, j \in Issuer :
           <<j, u>> \in trusted' <=> (<<j, u>> \in trusted /\ ~(u = t /\ j = i))
    BY <1>1
  <2>2. idx1[t][moved] # 0
    BY <1>2, <1>5 DEF Registry!IndexMatchesList
  <2>. QED
    BY <2>1, <2>2, <1>3, <1>5, <1>7 DEF FlagMatchesIndex, Registry!IsTrusted
<1>. QED
  BY <1>8, <1>9, <1>10

LEMMA RegistryNextInv == RegistryInv /\ [Registry!Next]_Registry!vars => RegistryInv'
<1>. SUFFICES ASSUME RegistryInv, [Registry!Next]_Registry!vars PROVE RegistryInv'
  OBVIOUS
<1>1. ASSUME NEW i \in Issuer, NEW t \in Topic, NEW ok \in BOOLEAN, Registry!SetTrusted(i, t, ok)
      PROVE  RegistryInv'
  BY <1>1, RegistryPushInv, RegistryRemoveInv
<1>2. CASE UNCHANGED Registry!vars
  BY <1>2 DEF Registry!vars, RegistryInv, Registry!TypeOK,
         Registry!IndexMatchesList, FlagMatchesIndex, Registry!IsTrusted
<1>. QED
  BY <1>1, <1>2 DEF Registry!Next

LEMMA RegistryInvAlways == Registry!Spec => []RegistryInv
BY RegistryInitInv, RegistryNextInv, PTL DEF Registry!Spec

-----------------------------------------------------------------------------
(* The storage keeps its shape whatever the admin calls.                   *)
THEOREM RegistryTypes == Registry!Spec => []Registry!TypeOK
<1>1. RegistryInv => Registry!TypeOK
  BY DEF RegistryInv
<1>. QED
  BY RegistryInvAlways, <1>1, PTL

(* Index map and list point at each other after any sequence of swap-and-  *)
(* pop removals (IssuerRegistry.sol:52-64).                                *)
THEOREM RegistryIndex == Registry!Spec => []Registry!IndexMatchesList
<1>1. RegistryInv => Registry!IndexMatchesList
  BY DEF RegistryInv
<1>. QED
  BY RegistryInvAlways, <1>1, PTL

LEMMA RegistryInvListed == RegistryInv => Registry!ListMatchesFlag
<1>. SUFFICES ASSUME RegistryInv, NEW i \in Issuer, NEW t \in Topic
              PROVE  Registry!IsTrusted(i, t) <=> \E n \in 1..Len(issuers[t]) : issuers[t][n] = i
  BY DEF Registry!ListMatchesFlag
<1>1. Len(issuers[t]) \in Nat
  BY DEF RegistryInv, Registry!TypeOK
<1>. QED
  BY <1>1 DEF RegistryInv, Registry!IndexMatchesList, FlagMatchesIndex

(* The flag read at write time and the list read at verification time name *)
(* the same issuers, for every set of issuers and topics.                  *)
THEOREM RegistryLists == Registry!Spec => []Registry!ListMatchesFlag
BY RegistryInvAlways, RegistryInvListed, PTL

-----------------------------------------------------------------------------
LEMMA ListedIffTrusted ==
    RegistryInv => \A j \in Issuer,
    u \in Topic : j \in Registry!Listed(u) <=> <<j, u>> \in trusted
BY RegistryInvListed DEF Registry!ListMatchesFlag, Registry!IsTrusted, Registry!Listed

-----------------------------------------------------------------------------
(* The refinement: the pairs the lists hold are the pairs whose flag is    *)
(* set, and a call changes that set by the one pair it names.              *)
LEMMA ListedIsTrusted == RegistryInv => Registry!ListedPairs = trusted
<1>. SUFFICES ASSUME RegistryInv PROVE Registry!ListedPairs = trusted
  OBVIOUS
<1>1. \A i \in Issuer, t \in Topic : <<i, t>> \in trusted <=> i \in Registry!Listed(t)
  BY ListedIffTrusted
<1>2. trusted \subseteq Issuer \X Topic
  BY DEF RegistryInv, Registry!TypeOK
<1>. QED
  BY <1>1, <1>2 DEF Registry!ListedPairs

LEMMA RegistryInitRefines == Registry!Init => Registry!Trust!Init
<1>. SUFFICES ASSUME Registry!Init PROVE trusted = {} /\ Registry!ListedPairs = {}
  BY DEF Registry!Trust!Init
<1>. QED
  BY RegistryInitInv, ListedIsTrusted DEF Registry!Init

LEMMA RegistryNextRefines ==
  RegistryInv /\ RegistryInv' /\ [Registry!Next]_Registry!vars
         => [Registry!Trust!Next]_<<trusted, Registry!ListedPairs>>
<1>. SUFFICES ASSUME RegistryInv, RegistryInv', [Registry!Next]_Registry!vars
              PROVE  [Registry!Trust!Next]_<<trusted, Registry!ListedPairs>>
  OBVIOUS
<1>1. Registry!ListedPairs = trusted
  BY ListedIsTrusted
<1>2. Registry!ListedPairs' = trusted'
  <2>1. (RegistryInv => Registry!ListedPairs = trusted)'
    BY ListedIsTrusted, PTL
  <2>. QED
    BY <2>1
<1>3. ASSUME NEW i \in Issuer, NEW t \in Topic, NEW ok \in BOOLEAN, Registry!SetTrusted(i, t, ok)
      PROVE  Registry!Trust!Next
  <2>1. CASE ok
    BY <2>1, <1>1, <1>2, <1>3 DEF Registry!SetTrusted, Registry!IsTrusted,
           Registry!Trust!Next, Registry!Trust!Grant
  <2>2. CASE ~ok
    BY <2>2, <1>1, <1>2, <1>3 DEF Registry!SetTrusted, Registry!IsTrusted,
           Registry!Trust!Next, Registry!Trust!Withdraw
  <2>. QED
    BY <2>1, <2>2
<1>4. CASE UNCHANGED Registry!vars
  BY <1>4, <1>1, <1>2 DEF Registry!vars
<1>. QED
  BY <1>3, <1>4 DEF Registry!Next

(* The registry implements TrustSet: a grant adds its pair and nothing     *)
(* else, a removal takes its pair and nothing else, whichever of the flag  *)
(* and the list is asked.                                                  *)
THEOREM RegistryImplementsTrustSet == Registry!Spec => Registry!ImplementsTrustSet
<1>1. Registry!Init => Registry!Trust!Init
  BY RegistryInitRefines
<1>2. RegistryInv /\ RegistryInv' /\ [Registry!Next]_Registry!vars
         => [Registry!Trust!Next]_<<trusted, Registry!ListedPairs>>
  BY RegistryNextRefines
<1>. QED
  BY <1>1, <1>2, RegistryInvAlways, PTL DEF Registry!Spec,
         Registry!ImplementsTrustSet, Registry!Trust!Spec

-----------------------------------------------------------------------------
(* The registry within Passport: every other contract leaves it alone, so  *)
(* Passport implements the registry's own specification, and what is       *)
(* proved of that carries over.                                            *)
THEOREM PassportImplementsRegistry == Spec => Registry!Spec
<1>1. Init => Registry!Init
  BY DEF Init
<1>2. [Next]_vars => [Registry!Next]_Registry!vars
  <2>. SUFFICES ASSUME [Next]_vars
                PROVE  Registry!Next \/ UNCHANGED <<trusted, issuers, idx1>>
    BY DEF Registry!vars
  <2>1. ASSUME NEW i \in Issuer, NEW t \in Topic, NEW ok \in BOOLEAN, SetTrusted(i, t, ok)
        PROVE  Registry!Next
    BY <2>1 DEF SetTrusted, Registry!Next
  <2>2. CASE \E p \in Policy, topics \in SUBSET Topic : SetPolicy(p, topics)
    BY <2>2 DEF SetPolicy, registryVars
  <2>3. CASE IssuerStep
    BY <2>3 DEF IssuerStep, SetSigner, SetRevoked, registryVars
  <2>4. CASE BackendStep
    BY <2>4 DEF BackendStep, CreateIdentity, LinkAgent, UnlinkAgent, registryVars
  <2>5. CASE HolderStep
    BY <2>5 DEF HolderStep, SubmitClaim, RevokeClaim, registryVars
  <2>6. CASE Tick
    BY <2>6 DEF Tick, registryVars
  <2>7. CASE UNCHANGED vars
    BY <2>7 DEF vars, registryVars
  <2>. QED
    BY <2>1, <2>2, <2>3, <2>4, <2>5, <2>6, <2>7 DEF Next, AdminStep
<1>. QED
  BY <1>1, <1>2, PTL DEF Spec, Registry!Spec

LEMMA RegistryInvariants ==
    Spec => [](Registry!TypeOK /\ Registry!ListMatchesFlag)
BY PassportImplementsRegistry, RegistryTypes, RegistryLists, PTL

(* The index map and the list of a topic point at each other in the system *)
(* of the five contracts too, so a removal always pops the issuer it was   *)
(* asked to remove.                                                        *)
THEOREM IndexCorrect == Spec => []IndexMatchesList
<1>1. Registry!IndexMatchesList => IndexMatchesList
  BY DEF IndexMatchesList
<1>. QED
  BY PassportImplementsRegistry, RegistryIndex, <1>1, PTL

(* Whatever the other contracts do in between, the writer of a claim and   *)
(* the gate that reads it see one set of trusted pairs.                    *)
THEOREM PassportImplementsTrustSet == Spec => ImplementsTrustSet
BY PassportImplementsRegistry, RegistryImplementsTrustSet, PTL DEF ImplementsTrustSet

-----------------------------------------------------------------------------
(* The other four contracts.  The counter's type cannot be kept without    *)
(* knowing that it counts (a removal subtracts one), and a stored claim's  *)
(* meaning cannot be kept without the types, so the invariant is the       *)
(* conjunction.                                                            *)
StorageOK ==
    /\ isAuthorizedSigner \in [Issuer -> SUBSET Signer]
    /\ revoked \in [Issuer -> SUBSET (Identity \X Topic)]
    /\ now \in 1..MaxTime
    /\ keyHolder \in [Identity -> Wallet \cup {NoWallet}]
    /\ claim \in [Identity -> [Topic -> [Issuer -> StoredClaim \cup {NoClaim}]]]
    /\ countByTopic \in [Identity -> [Topic -> 0..MaxClaimsPerTopic]]
    /\ identityOfWallet \in [Wallet -> Identity \cup {NoIdentity}]
    /\ isIdentity \in SUBSET Identity
    /\ isAgent \in SUBSET Wallet
    /\ policyTopics \in [Policy -> SUBSET Topic]

IInv ==
    /\ StorageOK
    /\ CountMatchesClaims
    /\ ClaimsAreBound
    /\ ResolutionConsistent

LEMMA InitInv == Init => IInv
<1>. SUFFICES ASSUME Init PROVE IInv
  OBVIOUS
<1>. USE DEF Init
<1>1. /\ keyHolder = [id \in Identity |-> NoWallet]
      /\ claim = [id \in Identity |-> [t \in Topic |-> [i \in Issuer |-> NoClaim]]]
      /\ countByTopic = [id \in Identity |-> [t \in Topic |-> 0]]
  BY DEF Ident!Init
<1>2. StorageOK
  BY <1>1, NumberAssumption DEF StorageOK, Claims!Init, Factory!Init, Gate!Init
<1>3. CountMatchesClaims
  <2>. SUFFICES ASSUME NEW id \in Identity, NEW t \in Topic
                PROVE  countByTopic[id][t] = Cardinality(StoredIssuers(id, t))
    BY DEF CountMatchesClaims
  <2>1. StoredIssuers(id, t) = {}
    BY <1>1 DEF StoredIssuers, Ident!Exists
  <2>. QED
    BY <1>1, <2>1, FS_EmptySet
<1>4. ClaimsAreBound
  BY <1>1 DEF ClaimsAreBound, Ident!Exists
<1>5. ResolutionConsistent
  BY <1>1 DEF ResolutionConsistent, Factory!Init, Ident!Deployed
<1>. QED
  BY <1>2, <1>3, <1>4, <1>5 DEF IInv

LEMMA StoredIssuersFinite ==
    ASSUME NEW id, NEW t
    PROVE  /\ IsFiniteSet(StoredIssuers(id, t))
           /\ Cardinality(StoredIssuers(id, t)) \in Nat
<1>1. StoredIssuers(id, t) \in SUBSET Issuer
  BY DEF StoredIssuers
<1>. QED
  BY <1>1, NumberAssumption, FS_Subset, FS_CardinalityType

(* What the holder writes is never mistaken for the absence of a claim.    *)
LEMMA WrittenClaimExists ==
    ASSUME NEW sig \in Claims!Signature, NEW data \in Claims!Data
    PROVE  /\ [sig |-> sig, data |-> data] \in StoredClaim
           /\ [sig |-> sig, data |-> data] # NoClaim
BY NullAssumption DEF StoredClaim, Claims!Signature, Claims!Data

LEMMA SubmitInv ==
    ASSUME IInv, NEW w \in Wallet, NEW id \in Identity, NEW t \in Topic, NEW i \in Issuer,
           NEW sig \in Claims!Signature, NEW data \in Claims!Data,
           SubmitClaim(w, id, t, i, sig, data)
    PROVE  IInv'
<1> DEFINE c == [sig |-> sig, data |-> data]
<1> USE DEF IInv
<1>1. /\ keyHolder[id] = w
      /\ Claims!IsClaimValid(i, id, t, sig, data)
      /\ claim' = [claim EXCEPT ![id][t][i] = c]
      /\ UNCHANGED <<keyHolder, isAuthorizedSigner, revoked, now, identityOfWallet,
                     isIdentity, isAgent, policyTopics>>
  BY DEF SubmitClaim, Ident!SubmitClaim, Ident!HasClaimKey, issuerVars, factoryVars
<1>2. c \in StoredClaim /\ c # NoClaim
  BY WrittenClaimExists
<1>. HIDE DEF c
<1>3. \A id2 \in Identity, t2 \in Topic, i2 \in Issuer :
         claim'[id2][t2][i2] = IF id2 = id /\ t2 = t /\ i2 = i THEN c ELSE claim[id2][t2][i2]
  BY <1>1 DEF StorageOK
<1>4. claim' \in [Identity -> [Topic -> [Issuer -> StoredClaim \cup {NoClaim}]]]
  BY <1>1, <1>2 DEF StorageOK
<1>5. /\ countByTopic' \in [Identity -> [Topic -> 0..MaxClaimsPerTopic]]
      /\ \A id2 \in Identity, t2 \in Topic :
            countByTopic'[id2][t2] = IF id2 = id /\ t2 = t /\ ~Ident!Exists(id, t, i)
                                     THEN countByTopic[id][t] + 1
                                     ELSE countByTopic[id2][t2]
  <2>1. CASE Ident!Exists(id, t, i) /\ UNCHANGED countByTopic
    BY <2>1 DEF StorageOK
  <2>2. CASE /\ ~Ident!Exists(id, t, i)
             /\ countByTopic[id][t] < MaxClaimsPerTopic
             /\ countByTopic' = [countByTopic EXCEPT ![id][t] = countByTopic[id][t] + 1]
    <3>1. countByTopic[id][t] + 1 \in 0..MaxClaimsPerTopic
      BY <2>2, NumberAssumption DEF StorageOK
    <3>. QED
      BY <2>2, <3>1 DEF StorageOK
  <2>. QED
    BY <2>1, <2>2 DEF SubmitClaim, Ident!SubmitClaim
<1>6. StorageOK'
  BY <1>1, <1>4, <1>5 DEF StorageOK
<1>7. CountMatchesClaims'
  <2>. SUFFICES ASSUME NEW id2 \in Identity, NEW t2 \in Topic
                PROVE  countByTopic'[id2][t2] = Cardinality(StoredIssuers(id2, t2)')
    BY DEF CountMatchesClaims
  <2>1. CASE id2 = id /\ t2 = t
    <3>1. StoredIssuers(id2, t2)' = StoredIssuers(id, t) \cup {i}
      BY <1>2, <1>3, <2>1 DEF StoredIssuers, Ident!Exists
    <3>2. i \in StoredIssuers(id, t) <=> Ident!Exists(id, t, i)
      BY DEF StoredIssuers
    <3>3. Cardinality(StoredIssuers(id, t) \cup {i}) =
             IF i \in StoredIssuers(id, t) THEN Cardinality(StoredIssuers(id, t))
             ELSE Cardinality(StoredIssuers(id, t)) + 1
      BY StoredIssuersFinite, FS_AddElement
    <3>4. countByTopic[id][t] = Cardinality(StoredIssuers(id, t))
      BY DEF CountMatchesClaims
    <3>. QED
      BY <1>5, <2>1, <3>1, <3>2, <3>3, <3>4
  <2>2. CASE ~(id2 = id /\ t2 = t)
    <3>1. StoredIssuers(id2, t2)' = StoredIssuers(id2, t2)
      BY <1>3, <2>2 DEF StoredIssuers, Ident!Exists
    <3>. QED
      BY <1>5, <2>2, <3>1 DEF CountMatchesClaims
  <2>. QED
    BY <2>1, <2>2
<1>8. ClaimsAreBound'
  <2>1. /\ c.sig.issuer = i /\ c.sig.identity = id /\ c.sig.topic = t
        /\ c.sig.data = c.data /\ c.data.wellFormed
    BY <1>1 DEF c, Claims!IsClaimValid, Claims!DigestMatches
  <2>2. keyHolder[id] # NoWallet
    BY <1>1, NullAssumption
  <2>. QED
    BY <1>1, <1>3, <2>1, <2>2 DEF ClaimsAreBound, Ident!Exists, Ident!Deployed
<1>9. ResolutionConsistent'
  BY <1>1 DEF ResolutionConsistent, Ident!Deployed
<1>. QED
  BY <1>6, <1>7, <1>8, <1>9

LEMMA RevokeInv ==
    ASSUME IInv, NEW w \in Wallet, NEW id \in Identity, NEW t \in Topic, NEW i \in Issuer,
           RevokeClaim(w, id, t, i)
    PROVE  IInv'
<1> USE DEF IInv
<1>1. /\ Ident!Exists(id, t, i)
      /\ claim' = [claim EXCEPT ![id][t][i] = NoClaim]
      /\ countByTopic' = [countByTopic EXCEPT ![id][t] = countByTopic[id][t] - 1]
      /\ UNCHANGED <<keyHolder, isAuthorizedSigner, revoked, now, identityOfWallet,
                     isIdentity, isAgent, policyTopics>>
  BY DEF RevokeClaim, Ident!RevokeClaim, issuerVars, factoryVars
<1>2. \A id2 \in Identity, t2 \in Topic, i2 \in Issuer :
         claim'[id2][t2][i2] = IF id2 = id /\ t2 = t /\ i2 = i THEN NoClaim
                               ELSE claim[id2][t2][i2]
  BY <1>1 DEF StorageOK
<1>3. i \in StoredIssuers(id, t) /\ countByTopic[id][t] = Cardinality(StoredIssuers(id, t))
  BY <1>1 DEF StoredIssuers, CountMatchesClaims
<1>4. Cardinality(StoredIssuers(id, t)) # 0
  BY <1>3, StoredIssuersFinite, FS_EmptySet
<1>5. countByTopic[id][t] - 1 \in 0..MaxClaimsPerTopic
  <2>1. countByTopic[id][t] \in 0..MaxClaimsPerTopic
    BY DEF StorageOK
  <2>2. countByTopic[id][t] # 0
    BY <1>3, <1>4
  <2>. QED
    BY <2>1, <2>2, NumberAssumption
<1>6. StorageOK'
  BY <1>1, <1>5 DEF StorageOK
<1>7. CountMatchesClaims'
  <2>. SUFFICES ASSUME NEW id2 \in Identity, NEW t2 \in Topic
                PROVE  countByTopic'[id2][t2] = Cardinality(StoredIssuers(id2, t2)')
    BY DEF CountMatchesClaims
  <2>1. CASE id2 = id /\ t2 = t
    <3>1. StoredIssuers(id2, t2)' = StoredIssuers(id, t) \ {i}
      BY <1>2, <2>1 DEF StoredIssuers, Ident!Exists
    <3>2. Cardinality(StoredIssuers(id, t) \ {i}) = Cardinality(StoredIssuers(id, t)) - 1
      BY <1>3, StoredIssuersFinite, FS_RemoveElement
    <3>3. countByTopic'[id][t] = countByTopic[id][t] - 1
      BY <1>1 DEF StorageOK
    <3>. QED
      BY <2>1, <3>1, <3>2, <3>3, <1>3
  <2>2. CASE ~(id2 = id /\ t2 = t)
    <3>1. StoredIssuers(id2, t2)' = StoredIssuers(id2, t2)
      BY <1>2, <2>2 DEF StoredIssuers, Ident!Exists
    <3>2. countByTopic'[id2][t2] = countByTopic[id2][t2]
      BY <1>1, <2>2 DEF StorageOK
    <3>. QED
      BY <3>1, <3>2 DEF CountMatchesClaims
  <2>. QED
    BY <2>1, <2>2
<1>8. ClaimsAreBound'
  BY <1>1, <1>2 DEF ClaimsAreBound, Ident!Exists, Ident!Deployed
<1>9. ResolutionConsistent'
  BY <1>1 DEF ResolutionConsistent, Ident!Deployed
<1>. QED
  BY <1>6, <1>7, <1>8, <1>9

(* The factory's three calls leave every claim alone.                      *)
LEMMA CreateInv ==
    ASSUME IInv, NEW w \in Wallet, NEW id \in Identity, CreateIdentity(w, id)
    PROVE  IInv'
<1> USE DEF IInv
<1>1. /\ identityOfWallet[w] = NoIdentity
      /\ keyHolder[id] = NoWallet
      /\ identityOfWallet' = [identityOfWallet EXCEPT ![w] = id]
      /\ isIdentity' = isIdentity \cup {id}
      /\ keyHolder' = [keyHolder EXCEPT ![id] = w]
      /\ UNCHANGED <<isAgent, claim, countByTopic, isAuthorizedSigner, revoked, now,
                     policyTopics>>
  BY DEF CreateIdentity, Factory!CreateIdentity, Ident!Deploy, Ident!Deployed,
         issuerVars
<1>2. StorageOK'
  BY <1>1 DEF StorageOK
<1>3. CountMatchesClaims'
  BY <1>1 DEF CountMatchesClaims, StoredIssuers, Ident!Exists
<1>4. \A id2 \in Identity : keyHolder'[id2] = IF id2 = id THEN w ELSE keyHolder[id2]
  BY <1>1 DEF StorageOK
<1>5. ClaimsAreBound'
  BY <1>1, <1>4, NullAssumption DEF ClaimsAreBound, Ident!Exists, Ident!Deployed
<1>6. ResolutionConsistent'
  <2>1. \A w2 \in Wallet :
           identityOfWallet'[w2] = IF w2 = w THEN id ELSE identityOfWallet[w2]
    BY <1>1 DEF StorageOK
  <2>2. w # NoWallet /\ id # NoIdentity /\ w \notin isAgent /\ id \notin isIdentity
    BY <1>1, NullAssumption DEF ResolutionConsistent, Ident!Deployed
  <2>3. \A id2 \in isIdentity : keyHolder[id2] \in Wallet /\ keyHolder[id2] # w
    <3>. SUFFICES ASSUME NEW id2 \in isIdentity
                  PROVE  keyHolder[id2] \in Wallet /\ keyHolder[id2] # w
      OBVIOUS
    <3>1. id2 \in Identity /\ keyHolder[id2] # NoWallet /\ identityOfWallet[keyHolder[id2]] = id2
      BY DEF ResolutionConsistent, StorageOK, Ident!Deployed
    <3>2. keyHolder[id2] \in Wallet
      BY <3>1 DEF StorageOK
    <3>. QED
      BY <3>1, <3>2, <1>1, NullAssumption
  <2>4. \A id2 \in Identity : id2 \in isIdentity' <=> keyHolder'[id2] # NoWallet
    BY <1>1, <1>4, <2>2 DEF ResolutionConsistent, Ident!Deployed
  <2>5. \A id2 \in isIdentity' : identityOfWallet'[keyHolder'[id2]] = id2
    BY <1>1, <1>4, <2>1, <2>3 DEF ResolutionConsistent, StorageOK
  <2>6. ASSUME NEW w2 \in Wallet, identityOfWallet'[w2] # NoIdentity
        PROVE  /\ identityOfWallet'[w2] \in isIdentity'
               /\ w2 \in isAgent' <=> keyHolder'[identityOfWallet'[w2]] # w2
    <3>1. CASE w2 = w
      BY <3>1, <1>1, <1>4, <2>1, <2>2
    <3>2. CASE w2 # w
      <4>1. identityOfWallet[w2] \in isIdentity /\ identityOfWallet[w2] # id
        BY <2>1, <2>2, <2>6, <3>2 DEF ResolutionConsistent
      <4>2. identityOfWallet[w2] \in Identity
        BY <4>1 DEF StorageOK
      <4>. QED
        BY <1>1, <1>4, <2>1, <2>6, <3>2, <4>1, <4>2 DEF ResolutionConsistent
    <3>. QED
      BY <3>1, <3>2
  <2>7. \A w2 \in isAgent' : identityOfWallet'[w2] # NoIdentity
    BY <1>1, <2>1, <2>2 DEF ResolutionConsistent, StorageOK
  <2>. QED
    BY <2>4, <2>5, <2>6, <2>7 DEF ResolutionConsistent, Ident!Deployed
<1>. QED
  BY <1>2, <1>3, <1>5, <1>6

LEMMA LinkInv ==
    ASSUME IInv, NEW w \in Wallet, NEW id, LinkAgent(w, id) \/ UnlinkAgent(w)
    PROVE  IInv'
<1> USE DEF IInv
<1> DEFINE target == IF LinkAgent(w, id) THEN id ELSE NoIdentity
<1>1. /\ identityOfWallet' = [identityOfWallet EXCEPT ![w] = target]
      /\ isAgent' = IF LinkAgent(w, id) THEN isAgent \cup {w} ELSE isAgent \ {w}
      /\ UNCHANGED <<isIdentity, keyHolder, claim, countByTopic, isAuthorizedSigner,
                     revoked, now, policyTopics>>
  BY DEF LinkAgent, UnlinkAgent, Factory!LinkAgent, Factory!UnlinkAgent, issuerVars,
         identityVars
<1>2. \A id2 \in isIdentity : keyHolder[id2] # w
  <2>. SUFFICES ASSUME NEW id2 \in isIdentity, keyHolder[id2] = w
                PROVE  FALSE
    OBVIOUS
  <2>1. id2 \in Identity /\ identityOfWallet[w] = id2
    BY DEF ResolutionConsistent, StorageOK
  <2>2. CASE LinkAgent(w, id)
    BY <2>1, <2>2, NullAssumption DEF LinkAgent, Factory!LinkAgent
  <2>3. CASE UnlinkAgent(w)
    BY <2>1, <2>3, NullAssumption DEF UnlinkAgent, Factory!UnlinkAgent,
           ResolutionConsistent
  <2>. QED
    BY <2>2, <2>3
<1>3. LinkAgent(w, id) => id \in isIdentity
  BY DEF LinkAgent, Factory!LinkAgent
<1>4. target \in Identity \cup {NoIdentity}
  BY <1>3 DEF StorageOK
<1>5. StorageOK'
  BY <1>1, <1>4 DEF StorageOK
<1>6. CountMatchesClaims' /\ ClaimsAreBound'
  BY <1>1 DEF CountMatchesClaims, ClaimsAreBound, StoredIssuers, Ident!Exists,
         Ident!Deployed
<1>7. ResolutionConsistent'
  <2>1. \A w2 \in Wallet :
           identityOfWallet'[w2] = IF w2 = w THEN target ELSE identityOfWallet[w2]
    BY <1>1 DEF StorageOK
  <2>2. \A id2 \in isIdentity' : identityOfWallet'[keyHolder'[id2]] = id2
    <3>. SUFFICES ASSUME NEW id2 \in isIdentity
                  PROVE  identityOfWallet'[keyHolder[id2]] = id2
      BY <1>1
    <3>1. id2 \in Identity /\ keyHolder[id2] # NoWallet /\ identityOfWallet[keyHolder[id2]] = id2
      BY DEF ResolutionConsistent, StorageOK, Ident!Deployed
    <3>2. keyHolder[id2] \in Wallet
      BY <3>1 DEF StorageOK
    <3>. QED
      BY <1>2, <2>1, <3>1, <3>2
  <2>3. ASSUME NEW w2 \in Wallet, identityOfWallet'[w2] # NoIdentity
        PROVE  /\ identityOfWallet'[w2] \in isIdentity'
               /\ w2 \in isAgent' <=> keyHolder'[identityOfWallet'[w2]] # w2
    BY <1>1, <1>2, <1>3, <2>1, <2>3 DEF ResolutionConsistent
  <2>4. \A w2 \in isAgent' : identityOfWallet'[w2] # NoIdentity
    <3>1. CASE LinkAgent(w, id)
      <4>1. target # NoIdentity
        BY <1>3, <3>1, NullAssumption DEF StorageOK
      <4>. QED
        BY <1>1, <2>1, <3>1, <4>1 DEF ResolutionConsistent, StorageOK
    <3>2. CASE ~LinkAgent(w, id)
      BY <1>1, <2>1, <3>2 DEF ResolutionConsistent, StorageOK
    <3>. QED
      BY <3>1, <3>2
  <2>. QED
    BY <1>1, <2>2, <2>3, <2>4 DEF ResolutionConsistent, Ident!Deployed
<1>. QED
  BY <1>5, <1>6, <1>7

(* Every other step touches none of the variables the invariant relates,   *)
(* beyond their types.                                                     *)
LEMMA AuthorityInv ==
    ASSUME IInv, AdminStep \/ IssuerStep \/ Tick \/ UNCHANGED vars
    PROVE  IInv'
<1> USE DEF IInv
<1>1. UNCHANGED <<identityVars, factoryVars>>
  BY DEF AdminStep, IssuerStep, SetTrusted, SetPolicy, SetSigner, SetRevoked,
         Tick, vars
<1>2. /\ isAuthorizedSigner' \in [Issuer -> SUBSET Signer]
      /\ revoked' \in [Issuer -> SUBSET (Identity \X Topic)]
      /\ now' \in 1..MaxTime
      /\ policyTopics' \in [Policy -> SUBSET Topic]
  <2>1. CASE AdminStep
    BY <2>1 DEF AdminStep, SetTrusted, SetPolicy, Gate!SetPolicy, StorageOK,
           issuerVars
  <2>2. CASE \E i \in Issuer, s \in Signer, ok \in BOOLEAN : SetSigner(i, s, ok)
    BY <2>2 DEF SetSigner, Claims!SetSigner, StorageOK
  <2>3. CASE \E i \in Issuer, id \in Identity, t \in Topic, value \in BOOLEAN :
                SetRevoked(i, id, t, value)
    BY <2>3 DEF SetRevoked, Claims!SetRevoked, StorageOK
  <2>4. CASE Tick
    BY <2>4, NumberAssumption DEF Tick, StorageOK
  <2>5. CASE UNCHANGED vars
    BY <2>5 DEF vars, issuerVars, StorageOK
  <2>. QED
    BY <2>1, <2>2, <2>3, <2>4, <2>5 DEF IssuerStep
<1>3. StorageOK'
  BY <1>1, <1>2 DEF StorageOK, identityVars, factoryVars
<1>4. CountMatchesClaims' /\ ClaimsAreBound' /\ ResolutionConsistent'
  BY <1>1 DEF identityVars, factoryVars, CountMatchesClaims, ClaimsAreBound,
              ResolutionConsistent, StoredIssuers, Ident!Exists, Ident!Deployed
<1>. QED
  BY <1>3, <1>4

LEMMA NextInv == IInv /\ [Next]_vars => IInv'
<1>. SUFFICES ASSUME IInv, [Next]_vars PROVE IInv'
  OBVIOUS
<1>1. CASE AdminStep \/ IssuerStep \/ Tick \/ UNCHANGED vars
  BY <1>1, AuthorityInv
<1>2. CASE BackendStep
  <2>1. ASSUME NEW w \in Wallet, NEW id \in Identity, CreateIdentity(w, id)
        PROVE  IInv'
    BY <2>1, CreateInv
  <2>2. ASSUME NEW w \in Wallet, NEW id, LinkAgent(w, id) \/ UnlinkAgent(w)
        PROVE  IInv'
    BY <2>2, LinkInv
  <2>. QED
    BY <1>2, <2>1, <2>2 DEF BackendStep
<1>3. CASE HolderStep
  BY <1>3, SubmitInv, RevokeInv DEF HolderStep
<1>. QED
  BY <1>1, <1>2, <1>3 DEF Next

LEMMA InvAlways == Spec => []IInv
BY InitInv, NextInv, PTL DEF Spec

-----------------------------------------------------------------------------
(* Every contract's storage keeps its shape, and no counter underflows or  *)
(* passes its cap, whatever the calls.                                     *)
THEOREM TypeCorrect == Spec => []TypeOK
<1>1. IInv /\ Registry!TypeOK => TypeOK
  BY DEF IInv, StorageOK, TypeOK
<1>. QED
  BY InvAlways, RegistryInvariants, <1>1, PTL

(* The cap is tested against the true number of stored claims.             *)
THEOREM CountCorrect == Spec => []CountMatchesClaims
<1>1. IInv => CountMatchesClaims
  BY DEF IInv
<1>. QED
  BY InvAlways, <1>1, PTL

(* No identity ever holds a claim signed about another.                    *)
THEOREM ClaimsBound == Spec => []ClaimsAreBound
<1>1. IInv => ClaimsAreBound
  BY DEF IInv
<1>. QED
  BY InvAlways, <1>1, PTL

(* A person's wallet always resolves to the identity it owns, and an       *)
(* agent's to one it does not own.                                         *)
THEOREM ResolutionCorrect == Spec => []ResolutionConsistent
<1>1. IInv => ResolutionConsistent
  BY DEF IInv
<1>. QED
  BY InvAlways, <1>1, PTL

(* The loop over the registry's list and the issuers' answers decide       *)
(* exactly what the flags and latches say.                                 *)
LEMMA EligibilityDefined ==
    IInv /\ Registry!TypeOK /\ Registry!ListMatchesFlag => EligibleIffVouched
<1>. SUFFICES ASSUME IInv, Registry!TypeOK, Registry!ListMatchesFlag,
                     NEW id \in Identity, NEW p \in Policy
              PROVE  Eligible(id, p) <=> /\ policyTopics[p] # {}
                                         /\ \A t \in policyTopics[p] : Vouched(id, t)
  BY DEF EligibleIffVouched
<1> USE DEF IInv
<1>1. ASSUME NEW t \in Topic, NEW i \in Issuer
      PROVE  <<i, t>> \in trusted <=> \E j \in 1..Len(issuers[t]) : issuers[t][j] = i
  BY DEF Registry!ListMatchesFlag, Registry!IsTrusted
<1>2. ASSUME NEW t \in Topic, NEW i \in Issuer
      PROVE  Counts(id, t, i) <=>
                /\ <<id, t>> \notin revoked[i]
                /\ claim[id][t][i] # NoClaim
                /\ LET c == claim[id][t][i]
                   IN  /\ c.sig.identity = id /\ c.sig.topic = t /\ c.sig.issuer = i
                       /\ c.sig.signer \in isAuthorizedSigner[i]
                       /\ c.sig.data.expiresAt = 0 \/ now <= c.sig.data.expiresAt
  <2>1. CASE claim[id][t][i] = NoClaim
    BY <2>1 DEF Counts, Ident!Exists
  <2>2. CASE claim[id][t][i] # NoClaim
    <3>1. claim[id][t][i] \in StoredClaim
      BY <2>2 DEF StorageOK
    <3>2. claim[id][t][i].data.expiresAt \in Nat
      <4>1. claim[id][t][i].data \in Claims!Data
        BY <3>1 DEF StoredClaim
      <4>. QED
        BY <4>1, NumberAssumption DEF Claims!Data
    <3>3. now \in Nat
      BY NumberAssumption DEF StorageOK
    <3>. QED
      BY <2>2, <3>2, <3>3 DEF Counts, Ident!Exists, Claims!IsClaimValid,
             Claims!Expired,
                              Claims!DigestMatches, ClaimsAreBound
  <2>. QED
    BY <2>1, <2>2
<1>3. ASSUME NEW t \in Topic
      PROVE  Vouched(id, t) <=> \E j \in 1..Len(issuers[t]) : Counts(id, t, issuers[t][j])
  <2>1. \A j \in 1..Len(issuers[t]) : issuers[t][j] \in Issuer
    BY DEF Registry!TypeOK
  <2>2. Vouched(id, t) <=> \E i \in Issuer : <<i, t>> \in trusted /\ Counts(id, t, i)
    BY <1>2 DEF Vouched
  <2>. QED
    BY <1>1, <2>1, <2>2
<1>4. policyTopics[p] \subseteq Topic
  BY DEF StorageOK
<1>5. ASSUME NEW t \in Topic, Vouched(id, t)
      PROVE  Ident!Deployed(id)
  BY <1>5 DEF Vouched, ClaimsAreBound, Ident!Exists
<1>6. Eligible(id, p) <=>
         /\ Ident!Deployed(id)
         /\ policyTopics[p] # {}
         /\ \A t \in policyTopics[p] :
               \E j \in 1..Len(issuers[t]) : Counts(id, t, issuers[t][j])
  <2>1. \A t \in Topic : \A j \in 1..Len(issuers[t]) : issuers[t][j] \in Issuer
    BY DEF Registry!TypeOK
  <2>. DEFINE listOf == [t \in Topic |-> Registry!IssuersForTopic(t)]
              counting == {ti \in Topic \X Issuer : Counts(id, ti[1], ti[2])}
  <2>2. ASSUME NEW t \in Topic
        PROVE  Gate!HasValidClaim(t, listOf[t], counting)
                 <=> \E j \in 1..Len(issuers[t]) : Counts(id, t, issuers[t][j])
    <3>1. listOf[t] = issuers[t]
      BY DEF Registry!IssuersForTopic
    <3>2. \A i \in Issuer : <<t, i>> \in counting <=> Counts(id, t, i)
      OBVIOUS
    <3>. HIDE DEF listOf, counting
    <3>. QED
      BY <2>1, <3>1, <3>2 DEF Gate!HasValidClaim
  <2>3. Eligible(id, p) <=> Gate!IsEligible(Ident!Deployed(id), p, listOf, counting)
    BY DEF Eligible
  <2>. HIDE DEF listOf, counting
  <2>. QED
    BY <1>4, <2>2, <2>3 DEF Gate!IsEligible
<1>. QED
  BY <1>3, <1>4, <1>5, <1>6

(* Eligibility is what the documents say it is, at every moment of every   *)
(* history: no identity is cleared on a claim that lapsed, was latched,    *)
(* or came from an issuer or a key no longer trusted, and none is refused  *)
(* while properly vouched for.                                             *)
THEOREM EligibilityCorrect == Spec => []EligibleIffVouched
BY InvAlways, RegistryInvariants, EligibilityDefined, PTL

-----------------------------------------------------------------------------
(* What a step may do.  Only the holder's submission writes a claim, and   *)
(* it asks the registry and the issuer first.                              *)
LEMMA ClaimsLandAsked ==
    ASSUME IInv, [Next]_vars, NEW id \in Identity, NEW t \in Topic, NEW i \in Issuer,
           claim'[id][t][i] \notin {NoClaim, claim[id][t][i]}
    PROVE  <<id, t>> \notin revoked[i] /\ <<i, t>> \in trusted
<1>1. PICK w \in Wallet, id2 \in Identity, t2 \in Topic, i2 \in Issuer :
         \/ \E sig \in Claims!Signature, data \in Claims!Data :
               SubmitClaim(w, id2, t2, i2, sig, data)
         \/ RevokeClaim(w, id2, t2, i2)
  <2>1. CASE AdminStep \/ IssuerStep \/ Tick \/ UNCHANGED vars
    BY <2>1 DEF AdminStep, IssuerStep, SetTrusted, SetPolicy, SetSigner,
           SetRevoked, Tick,
                vars, identityVars
  <2>2. CASE BackendStep
    BY <2>2 DEF BackendStep, CreateIdentity, Ident!Deploy, LinkAgent,
           UnlinkAgent, identityVars
  <2>3. CASE HolderStep
    BY <2>3 DEF HolderStep
  <2>. QED
    BY <2>1, <2>2, <2>3 DEF Next
<1>2. \A v : claim' = [claim EXCEPT ![id2][t2][i2] = v] =>
         claim'[id][t][i] = IF id = id2 /\ t = t2 /\ i = i2 THEN v ELSE claim[id][t][i]
  BY DEF IInv, StorageOK
<1>3. ~RevokeClaim(w, id2, t2, i2)
  BY <1>2 DEF RevokeClaim, Ident!RevokeClaim
<1>4. PICK sig \in Claims!Signature, data \in Claims!Data :
         SubmitClaim(w, id2, t2, i2, sig, data)
  BY <1>1, <1>3
<1>5. id = id2 /\ t = t2 /\ i = i2
  BY <1>2, <1>4 DEF SubmitClaim, Ident!SubmitClaim
<1>. QED
  BY <1>4, <1>5 DEF SubmitClaim, Ident!SubmitClaim, Claims!IsClaimValid,
         Registry!IsTrusted

(* A closed latch, or a registry that dropped the issuer, keeps every      *)
(* claim of that issuer out: the holder cannot cure a revocation by        *)
(* submitting again.                                                       *)
THEOREM LatchHolds == Spec => LatchKeepsClaimsOut
<1>1. IInv /\ [Next]_vars =>
         \A id \in Identity, t \in Topic, i \in Issuer :
            claim'[id][t][i] \notin {NoClaim, claim[id][t][i]} =>
                <<id, t>> \notin revoked[i] /\ <<i, t>> \in trusted
  BY ClaimsLandAsked
<1>. QED
  BY <1>1, InvAlways, PTL DEF Spec, LatchKeepsClaimsOut

(* No call moves a wallet from one identity to another or takes a person's *)
(* identity away: a link that exists is kept or, for an agent, dropped.    *)
THEOREM ResolutionStays == Spec => ResolutionNeverMoves
<1>1. ASSUME IInv, [Next]_vars, NEW w \in Wallet, identityOfWallet[w] # NoIdentity
      PROVE  \/ identityOfWallet'[w] = identityOfWallet[w]
             \/ w \in isAgent /\ identityOfWallet'[w] = NoIdentity
  <2>1. CASE AdminStep \/ IssuerStep \/ HolderStep \/ Tick \/ UNCHANGED vars
    BY <2>1 DEF AdminStep, IssuerStep, HolderStep, SetTrusted, SetPolicy, SetSigner,
                SetRevoked, SubmitClaim, RevokeClaim, Tick, vars, factoryVars
  <2>2. \A w2 \in Wallet : \A v : identityOfWallet' = [identityOfWallet EXCEPT ![w2] = v] =>
           identityOfWallet'[w] = IF w = w2 THEN v ELSE identityOfWallet[w]
    BY <1>1 DEF IInv, StorageOK
  <2>3. CASE BackendStep
    BY <1>1, <2>2, <2>3 DEF BackendStep, CreateIdentity, Factory!CreateIdentity,
           LinkAgent,
                            Factory!LinkAgent, UnlinkAgent, Factory!UnlinkAgent
  <2>. QED
    BY <1>1, <2>1, <2>3 DEF Next
<1>2. IInv /\ [Next]_vars =>
         \A w \in Wallet :
            identityOfWallet[w] # NoIdentity =>
                \/ identityOfWallet'[w] = identityOfWallet[w]
                \/ w \in isAgent /\ identityOfWallet'[w] = NoIdentity
  BY <1>1
<1>. QED
  BY <1>2, InvAlways, PTL DEF Spec, ResolutionNeverMoves

LEMMA TimeOnlyPasses ==
    ASSUME IInv, [Next]_vars
    PROVE  now \in Nat /\ now' \in Nat /\ now <= now'
<1>1. now \in Nat
  BY NumberAssumption DEF IInv, StorageOK
<1>2. now' \in {now, now + 1}
  BY DEF Next, vars, issuerVars, AdminStep, SetTrusted, SetPolicy, IssuerStep,
         SetSigner,
         Claims!SetSigner, SetRevoked, Claims!SetRevoked, BackendStep, CreateIdentity,
         LinkAgent, UnlinkAgent, HolderStep, SubmitClaim, RevokeClaim, Tick
<1>. QED
  BY <1>1, <1>2

(* A step that grants nothing leaves nothing newly vouched for.            *)
LEMMA VouchingIsGranted ==
    ASSUME IInv, IInv', [Next]_vars, NEW id \in Identity, NEW t \in Topic,
           ~GrantMade(id), Vouched(id, t)'
    PROVE  Vouched(id, t)
<1>1. PICK i \in Issuer :
         /\ <<i, t>> \in trusted'
         /\ <<id, t>> \notin revoked'[i]
         /\ claim'[id][t][i] # NoClaim
         /\ claim'[id][t][i].sig.identity = id
         /\ claim'[id][t][i].sig.topic = t
         /\ claim'[id][t][i].sig.issuer = i
         /\ claim'[id][t][i].sig.signer \in isAuthorizedSigner'[i]
         /\ \/ claim'[id][t][i].sig.data.expiresAt = 0
            \/ now' <= claim'[id][t][i].sig.data.expiresAt
  BY DEF Vouched
<1>2. claim'[id][t][i] = claim[id][t][i]
  BY <1>1 DEF GrantMade
<1>3. /\ <<i, t>> \in trusted
      /\ <<id, t>> \notin revoked[i]
      /\ claim[id][t][i].sig.signer \in isAuthorizedSigner[i]
  BY <1>1, <1>2 DEF GrantMade
<1>4. claim[id][t][i].sig.data.expiresAt \in Nat
  <2>1. claim[id][t][i] \in StoredClaim
    BY <1>1, <1>2 DEF IInv, StorageOK
  <2>. QED
    BY <2>1, NumberAssumption DEF StoredClaim, Claims!Signature, Claims!Data
<1>5. \/ claim[id][t][i].sig.data.expiresAt = 0
      \/ now <= claim[id][t][i].sig.data.expiresAt
  BY <1>1, <1>2, <1>4, TimeOnlyPasses
<1>. QED
  BY <1>1, <1>2, <1>3, <1>5 DEF Vouched

(* Time, removals, de-listings, closing latches and agent wallets make     *)
(* nobody eligible: a step that does so granted something.                 *)
THEOREM EligibilityIsGranted == Spec => OnlyGrantsMakeEligible
<1>1. ASSUME IInv, IInv', EligibleIffVouched, EligibleIffVouched', [Next]_vars,
             NEW id \in Identity, NEW p \in Policy,
             Eligible(id, p)', ~Eligible(id, p)
      PROVE  GrantMade(id)
  <2>. SUFFICES ASSUME ~GrantMade(id) PROVE FALSE
    OBVIOUS
  <2>1. policyTopics' = policyTopics
    BY DEF GrantMade
  <2>2. policyTopics[p] # {} /\ \A t \in policyTopics[p] : Vouched(id, t)'
    BY <1>1, <2>1 DEF EligibleIffVouched
  <2>3. policyTopics[p] \subseteq Topic
    BY <1>1 DEF IInv, StorageOK
  <2>4. \A t \in policyTopics[p] : Vouched(id, t)
    BY <1>1, <2>2, <2>3, VouchingIsGranted
  <2>. QED
    BY <1>1, <2>2, <2>4 DEF EligibleIffVouched
<1>2. IInv /\ IInv' /\ EligibleIffVouched /\ EligibleIffVouched' /\ [Next]_vars =>
         \A id \in Identity, p \in Policy :
            Eligible(id, p)' /\ ~Eligible(id, p) => GrantMade(id)
  BY <1>1
<1>. QED
  BY <1>2, InvAlways, EligibilityCorrect, PTL DEF Spec, OnlyGrantsMakeEligible
=============================================================================
