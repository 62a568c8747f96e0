---------------------------- MODULE WalletPolicy ----------------------------
(***************************************************************************)
(* apps/api/src/wallets/wallet-policy.service.ts for one wallet: what it   *)
(* may transfer in a day.  Every request reads and writes the database in  *)
(* separate awaited calls, with no transaction and no lock, so requests    *)
(* interleave between any two of them.  A request is a slot of the server; *)
(* its record says which call comes next and what the request has read.    *)
(* An intent that is refused is logged and changes nothing that is read    *)
(* later.                                                                  *)
(***************************************************************************)
EXTENDS Integers, FiniteSets, Functions

CONSTANTS
    Request,              \* requests in flight at one time
    Amount,               \* amounts an intent can ask for
    Limit,                \* daily limits a user can ask for: doubles, so finitely many
    NoKycCap, NoPolicy

ASSUME PolicyAssumption ==
    /\ IsFiniteSet(Request)
    /\ Amount \subseteq Nat
    /\ Limit \subseteq Nat /\ IsFiniteSet(Limit)
    /\ NoKycCap \in Nat
    /\ NoPolicy \notin [status : {"NO_KYC_DAILY_50", "KYC_USER_CONFIGURABLE", "BLOCKED"},
                        limit : Nat]

VARIABLES
    policy,        \* the wallet's row, or NoPolicy
    spent,         \* sum of the intents allowed since midnight UTC
    kycVerified,   \* the wallet's KYC_AML_VERIFIED claim row says VERIFIED
    request        \* slot -> what it does next

vars == <<policy, spent, kycVerified, request>>

Row == INSTANCE PolicyRow

Idle == [step |-> "idle"]

Do(r, what) == request' = [request EXCEPT ![r] = what]

At(r, step) == request[r].step = step

Init ==
    /\ policy = NoPolicy
    /\ spent = 0
    /\ kycVerified = FALSE
    /\ request = [r \in Request |-> Idle]

-----------------------------------------------------------------------------
(* checkTransferIntent: ensure the row, read it, read what was spent, log. *)
BeginIntent(r, a) ==
    /\ At(r, "idle")
    /\ Row!EnsurePolicy
    /\ Do(r, [step |-> "readPolicy", amount |-> a])
    /\ UNCHANGED <<spent, kycVerified>>

ReadPolicy(r) ==
    /\ At(r, "readPolicy")
    /\ Do(r, IF Row!Blocked
             THEN Idle
             ELSE [step |-> "readSpent", amount |-> request[r].amount,
                   limit |-> Row!EffectiveLimit(policy)])
    /\ UNCHANGED <<policy, spent, kycVerified>>

(* Fault: the amount asked for is left out of the comparison.              *)
ReadSpentWithoutAmount(r) ==
    /\ At(r, "readSpent")
    /\ Do(r, IF spent > request[r].limit
             THEN Idle
             ELSE [step |-> "allow", amount |-> request[r].amount,
                   limit |-> request[r].limit])
    /\ UNCHANGED <<policy, spent, kycVerified>>

ReadSpent(r) ==
    /\ At(r, "readSpent")
    /\ Do(r, IF spent + request[r].amount > request[r].limit
             THEN Idle
             ELSE [step |-> "allow", amount |-> request[r].amount,
                   limit |-> request[r].limit])
    /\ UNCHANGED <<policy, spent, kycVerified>>

(* logDecision of an allowed intent: from now on it counts as spent.       *)
Allow(r) ==
    /\ At(r, "allow")
    /\ spent' = spent + request[r].amount
    /\ Do(r, Idle)
    /\ UNCHANGED <<policy, kycVerified>>

-----------------------------------------------------------------------------
(* Fault: the limit is set on whatever is there.                           *)
BeginLimitUnasked(r, l) ==
    /\ At(r, "idle")
    /\ Do(r, [step |-> "setLimit", limit |-> l])
    /\ UNCHANGED <<policy, spent, kycVerified>>

(* updateTransferLimit: read the row, then write the limit.                *)
BeginLimit(r, l) ==
    /\ At(r, "idle")
    /\ Row!HasStatus(policy, "KYC_USER_CONFIGURABLE")
    /\ Do(r, [step |-> "setLimit", limit |-> l])
    /\ UNCHANGED <<policy, spent, kycVerified>>

SetLimit(r) ==
    /\ At(r, "setLimit")
    /\ Row!WriteLimit(request[r].limit)
    /\ Do(r, Idle)
    /\ UNCHANGED <<spent, kycVerified>>

(* getPolicy: ensure the row, read it, look for a verified claim, upgrade. *)
BeginGet(r) ==
    /\ At(r, "idle")
    /\ Row!EnsurePolicy
    /\ Do(r, [step |-> "getPolicy"])
    /\ UNCHANGED <<spent, kycVerified>>

GetPolicy(r) ==
    /\ At(r, "getPolicy")
    /\ Do(r, IF Row!HasStatus(policy, "NO_KYC_DAILY_50") THEN [step |-> "readKyc"] ELSE Idle)
    /\ UNCHANGED <<policy, spent, kycVerified>>

ReadKyc(r) ==
    /\ At(r, "readKyc")
    /\ Do(r, IF kycVerified THEN [step |-> "upgrade"] ELSE Idle)
    /\ UNCHANGED <<policy, spent, kycVerified>>

(* Fault: the upgrade does not ask what the row says.                      *)
BeginUpgradeUnasked(r) ==
    /\ At(r, "idle")
    /\ policy # NoPolicy
    /\ Do(r, [step |-> "upgrade"])
    /\ UNCHANGED <<policy, spent, kycVerified>>

(* upgradeAfterKyc, called by the intake of an approved KYC result.        *)
BeginUpgrade(r) ==
    /\ At(r, "idle")
    /\ Row!HasStatus(policy, "NO_KYC_DAILY_50")
    /\ Do(r, [step |-> "upgrade"])
    /\ UNCHANGED <<policy, spent, kycVerified>>

Upgrade(r) ==
    /\ At(r, "upgrade")
    /\ Row!WriteUpgrade
    /\ Do(r, Idle)
    /\ UNCHANGED <<spent, kycVerified>>

-----------------------------------------------------------------------------
(* blockWallet, called by the intake of a result that leaves the passport  *)
(* RED or REVOKED: one write.                                              *)
Block ==
    /\ Row!BlockWallet
    /\ UNCHANGED <<spent, kycVerified, request>>

(* Claim rows come and go with verification sessions.                      *)
SetKycVerified(b) ==
    /\ kycVerified' = b
    /\ UNCHANGED <<policy, spent, request>>

(* Midnight UTC: decisions of the day before count no more.                *)
NewDay ==
    /\ spent' = 0
    /\ UNCHANGED <<policy, kycVerified, request>>

(* A database call fails or the server goes down: the request is lost.     *)
Abort(r) ==
    /\ ~At(r, "idle")
    /\ Do(r, Idle)
    /\ UNCHANGED <<policy, spent, kycVerified>>

IntentStep(r) ==
    \/ \E a \in Amount : BeginIntent(r, a)
    \/ ReadPolicy(r)
    \/ ReadSpent(r)
    \/ Allow(r)

PolicyStep(r) ==
    \/ \E l \in Limit : BeginLimit(r, l)
    \/ SetLimit(r)
    \/ BeginGet(r)
    \/ GetPolicy(r)
    \/ ReadKyc(r)
    \/ BeginUpgrade(r)
    \/ Upgrade(r)

Next ==
    \/ \E r \in Request : IntentStep(r) \/ PolicyStep(r) \/ Abort(r)
    \/ Block
    \/ \E b \in BOOLEAN : SetKycVerified(b)
    \/ NewDay

Spec == Init /\ [][Next]_vars

-----------------------------------------------------------------------------
(* Rows and slots keep their shape, and every write of a request finds the *)
(* row it read: rows are never deleted.                                    *)
TypeOK ==
    /\ policy \in Row!Row \cup {NoPolicy}
    /\ spent \in Nat
    /\ kycVerified \in BOOLEAN
    /\ request \in [Request ->
          {Idle}
          \cup [step : {"readPolicy"}, amount : Amount]
          \cup [step : {"readSpent", "allow"}, amount : Amount, limit : Limit \cup {0, NoKycCap}]
          \cup [step : {"setLimit"}, limit : Limit]
          \cup [step : {"getPolicy", "readKyc", "upgrade"}]]
    /\ \A r \in Request : ~At(r, "idle") => policy # NoPolicy

(* Without a lock the daily limit is not exact, but it is not worthless:   *)
(* what was allowed today, together with what is about to be logged, never *)
(* exceeds the highest limit times the number of requests in flight.  With *)
(* one request at a time that is the limit (wallet-policy.service.ts:82-96). *)
Pending(r) == IF At(r, "allow") THEN request[r].amount ELSE 0

HighestLimit == CHOOSE m \in Limit \cup {NoKycCap} : \A l \in Limit \cup {NoKycCap} : l <= m

OvershootIsBounded ==
    spent + FoldFunction(+, 0, [r \in Request |-> Pending(r)])
        <= Cardinality(Request) * HighestLimit

(* A block that no request in flight can disturb is final: as long as no   *)
(* upgrade read the row before the block and no intent was past reading it, *)
(* the wallet stays blocked and nothing more is allowed, whatever requests *)
(* arrive (wallet-policy.service.ts:40-49, 76-80, 99-107).                 *)
BlockedAndQuiet ==
    /\ Row!Blocked
    /\ \A r \in Request : request[r].step \in {"idle", "readPolicy", "getPolicy", "setLimit"}

BlockHoldsOnceQuiet == [][BlockedAndQuiet => BlockedAndQuiet' /\ spent' <= spent]_vars
=============================================================================
