------------------------ MODULE VerificationPipeline ------------------------
(***************************************************************************)
(* How a verification of one wallet travels through the backend            *)
(* (apps/api/src: verification, webhooks, cre) and the workflow service    *)
(* (cre/src) to the chain and back.  A handler is a sequence of separately *)
(* awaited writes with no transaction around them, and handlers and        *)
(* workflows interleave at every await: one action below is what happens   *)
(* between two awaits.  The record job[j] says what j does next and what   *)
(* it has read so far.                                                     *)
(*                                                                         *)
(* A verification result is reduced to the verdict it carries.  Every      *)
(* result is stored with its attestation hash.  Audit rows, transaction    *)
(* rows and creStatus are written by these handlers and read by none.      *)
(* ClaimRegistry and CompliancePassport are not part of the repository:    *)
(* the first keeps what is submitted, the second answers some status.      *)
(* Whoever sends a transaction waits for its receipt and never looks at    *)
(* the receipt's status: a transaction that was mined and reverted is      *)
(* taken for a success.  In DEMO_MODE nothing is sent and a hash is made   *)
(* up, which is the behaviour in which no transaction lands.               *)
(***************************************************************************)
EXTENDS FiniteSets, Integers

CONSTANTS
    KycSession, AccreditedSession,   \* verifications that can be started
    Handler,          \* requests the backend serves at one time
    Workflow,         \* workflows that run at one time
    Failures,         \* a handler or workflow may die, a transaction may not land
    Fallback,         \* the frontend may call syncOnchain
    OnchainStatus,    \* what the passport contract can answer syncPassport
    NoSession, NoVerdict, NoPolicy

Session == KycSession \cup AccreditedSession

Job == Handler \cup Workflow

ASSUME PipelineAssumption ==
    /\ KycSession \cap AccreditedSession = {}
    /\ Handler \cap Workflow = {}
    /\ NoSession \notin [status : {"PENDING", "PROCESSING", "COMPLETED"},
                         verdict : BOOLEAN \cup {NoVerdict}]
    /\ NoVerdict \notin BOOLEAN
    /\ NoPolicy \notin [status : {"NO_KYC_DAILY_50", "KYC_USER_CONFIGURABLE", "BLOCKED"},
                        limit : {0, 50}]
    /\ {Failures, Fallback} \subseteq BOOLEAN

VARIABLES
    profile,   \* walletProfile.passportStatus
    session,   \* verificationSession rows
    claim,     \* complianceClaim rows, one per claim type
    policy,    \* walletTransferPolicy row
    chain,     \* ClaimRegistry: the <<session, verdict>> submitted
    synced,    \* those the passport was last synced with
    reverted,  \* those a transaction was sent for that left the chain as it was
    job,       \* handler or workflow -> what it does next
    lost,      \* ghost: something was lost, or handled off the usual path
    overtaken  \* ghost: since a claim row last changed, a block was undone

rows == <<profile, session, claim, policy>>

onchain == <<chain, synced, reverted>>

vars == <<rows, onchain, job>>

Row == INSTANCE PolicyRow WITH NoKycCap <- 50, Limit <- {50}

ClaimType == {"KYC_AML_VERIFIED", "ACCREDITED_INVESTOR"}

TypeOf(s) == IF s \in KycSession THEN "KYC_AML_VERIFIED" ELSE "ACCREDITED_INVESTOR"

Final(v) == IF v THEN "VERIFIED" ELSE "FAILED"

-----------------------------------------------------------------------------
(* calculatePassportStatus, over the claim rows of the wallet.             *)
PassportStatus ==
    LET kyc        == claim["KYC_AML_VERIFIED"].status
        accredited == claim["ACCREDITED_INVESTOR"].status
    IN  IF {kyc, accredited} \cap {"PENDING", "PROCESSING"} # {}
        THEN "IN_PROGRESS"
        ELSE CASE kyc = "FAILED" -> "RED"
               [] kyc = "VERIFIED" /\ accredited = "VERIFIED" -> "GREEN"
               [] kyc = "VERIFIED" /\ accredited # "VERIFIED" -> "LIMITED"
               [] OTHER -> "NONE"

Status == {"NONE", "IN_PROGRESS", "LIMITED", "GREEN", "RED"} \cup OnchainStatus

-----------------------------------------------------------------------------
Idle == [step |-> "idle"]

At(j, step) == job[j].step = step

Do(j, what) == job' = [job EXCEPT ![j] = what]

Go(j, step) == job' = [job EXCEPT ![j].step = step]

(* Fault: the session's id is out before its claim is written.             *)
NeverStarting(s) == FALSE

(* Until the claim is written nobody outside knows the session's id.       *)
Starting(s) == \E h \in Handler : At(h, "createClaim") /\ job[h].session = s

Unused(s) ==
    /\ session[s] = NoSession
    /\ \A h \in Handler : At(h, "createSession") => job[h].session # s

Init ==
    /\ profile = "NONE"
    /\ session = [s \in Session |-> NoSession]
    /\ claim = [t \in ClaimType |-> [status |-> "NONE", session |-> NoSession]]
    /\ policy = NoPolicy
    /\ chain = {}
    /\ synced = {}
    /\ reverted = {}
    /\ job = [j \in Job |-> Idle]
    /\ lost = FALSE
    /\ overtaken = FALSE

(* getPolicy: the row is created if there is none and then read; the row   *)
(* of a wallet whose KYC claim is verified is upgraded on the way.  The    *)
(* wallet's set-up ends with it too, its own ensurePolicy coming before.   *)
GetPolicy(h) ==
    /\ At(h, "idle")
    /\ Row!EnsurePolicy
    /\ Do(h, [step |-> "policyRow"])
    /\ UNCHANGED <<profile, session, claim, onchain>>

SetupWallet(h) == GetPolicy(h)

ReadPolicyRow(h) ==
    /\ At(h, "policyRow")
    /\ IF Row!HasStatus(policy, "NO_KYC_DAILY_50") THEN Go(h, "policyClaim") ELSE Do(h, Idle)
    /\ UNCHANGED <<rows, onchain>>

ReadKycClaim(h) ==
    /\ At(h, "policyClaim")
    /\ IF claim["KYC_AML_VERIFIED"].status = "VERIFIED"
       THEN Go(h, "policyUpgrade") ELSE Do(h, Idle)
    /\ UNCHANGED <<rows, onchain>>

UpgradeStaleRow(h) ==
    /\ At(h, "policyUpgrade")
    /\ Row!WriteUpgrade
    /\ Do(h, Idle)
    /\ UNCHANGED <<profile, session, claim, onchain>>

(* startVerification and startWithDocument: profile, session, claim; then  *)
(* the document goes to the attester, with the session's id.               *)
Begin(h, s, document) ==
    /\ At(h, "idle")
    /\ Unused(s)
    /\ profile' = "IN_PROGRESS"
    /\ Do(h, [step |-> "createSession", session |-> s, document |-> document])
    /\ UNCHANGED <<session, claim, policy, onchain>>

StartVerification(h, s) == Begin(h, s, FALSE)

StartWithDocument(h, s) == Begin(h, s, TRUE)

CreateSession(h) ==
    /\ At(h, "createSession")
    /\ session' = [session EXCEPT ![job[h].session] =
                     [status |-> "PENDING", verdict |-> NoVerdict]]
    /\ Go(h, "createClaim")
    /\ UNCHANGED <<profile, claim, policy, onchain>>

CreateClaim(h) ==
    /\ At(h, "createClaim")
    /\ LET s == job[h].session
       IN  claim' = [claim EXCEPT ![TypeOf(s)] = [status |-> "PENDING", session |-> s]]
    /\ IF job[h].document THEN Go(h, "submitInference") ELSE Do(h, Idle)
    /\ UNCHANGED <<profile, session, policy, onchain>>

(* The inference's id, written when the attester has answered, is read by  *)
(* nobody.                                                                 *)
SubmitInference(h) ==
    /\ At(h, "submitInference")
    /\ Do(h, Idle)
    /\ UNCHANGED <<rows, onchain>>

(* A verdict comes in: the session, the claim, the trigger.  Nothing asks  *)
(* whether the session was finished, or with what verdict.                 *)
AcceptVerdict(h, s, v) ==
    /\ At(h, "idle")
    /\ session[s] # NoSession
    /\ session' = [session EXCEPT ![s] = [status |-> "PROCESSING", verdict |-> v]]
    /\ Do(h, [step |-> "markClaim", session |-> s])
    /\ UNCHANGED <<profile, claim, policy, onchain>>

(* From the attester, or from the passport page's Simulate.                *)
ReceiveVerdict(h, s, v) == ~Starting(s) /\ AcceptVerdict(h, s, v)

InjectMockAiResult(h, s, v) == ~Starting(s) /\ AcceptVerdict(h, s, v)

(* A webhook that names no session is given one of the wallet's that was   *)
(* still open when it was looked up, the one being started included.       *)
ReceiveUnaddressed(h, s, v) == AcceptVerdict(h, s, v)

MarkClaim(h) ==
    /\ At(h, "markClaim")
    /\ LET s == job[h].session
       IN  claim' = [claim EXCEPT ![TypeOf(s)] = [status |-> "PROCESSING", session |-> s]]
    /\ Go(h, "trigger")
    /\ UNCHANGED <<profile, session, policy, onchain>>

(* The workflow service answers 202 and runs on its own from here.         *)
Trigger(h, w) ==
    /\ At(h, "trigger")
    /\ At(w, "idle")
    /\ job' = [job EXCEPT ![h] = Idle,
                          ![w] = [step |-> "fetch", session |-> job[h].session]]
    /\ UNCHANGED <<rows, onchain>>

-----------------------------------------------------------------------------
(* getVerificationResult: the verdict of a session as it is now.           *)
Result(s, step) == [step |-> step, session |-> s, verdict |-> session[s].verdict]

(* The transactions a job sends: each lands, or is mined and reverts, or   *)
(* in DEMO_MODE is never sent; the job goes on the same way.               *)
Claimed(j) == <<job[j].session, job[j].verdict>>

Reverts(j) ==
    /\ Failures
    /\ reverted' = reverted \cup {Claimed(j)}
    /\ UNCHANGED <<chain, synced>>

SendClaim(j) ==
    \/ chain' = chain \cup {Claimed(j)} /\ UNCHANGED <<synced, reverted>>
    \/ Reverts(j)

SendSync(j) ==
    \/ synced' = chain /\ UNCHANGED <<chain, reverted>>
    \/ Reverts(j)

(* Fault: the backend is answered before anything is submitted.            *)
FetchResultOnly(w) ==
    /\ At(w, "fetch")
    /\ Do(w, Result(job[w].session, "recordClaim"))
    /\ UNCHANGED <<rows, onchain>>

(* The workflow: fetch the session's result, submit the claim, sync the    *)
(* passport, post the result back.                                         *)
FetchResult(w) ==
    /\ At(w, "fetch")
    /\ Do(w, Result(job[w].session, "submit"))
    /\ UNCHANGED <<rows, onchain>>

SubmitClaim(w) ==
    /\ At(w, "submit")
    /\ SendClaim(w)
    /\ Go(w, "syncPassport")
    /\ UNCHANGED rows

SyncPassport(w) ==
    /\ At(w, "syncPassport")
    /\ SendSync(w)
    /\ Go(w, "recordClaim")
    /\ UNCHANGED rows

(* receiveWorkflowResult: the claim row of the type, whichever session it  *)
(* now belongs to; the recalculated status; the policy; the session.       *)
RecordClaim(w) ==
    /\ At(w, "recordClaim")
    /\ claim' = [claim EXCEPT ![TypeOf(job[w].session)].status = Final(job[w].verdict)]
    /\ Go(w, "recalculate")
    /\ UNCHANGED <<profile, session, policy, onchain>>

Recalculate(w) ==
    /\ At(w, "recalculate")
    /\ Do(w, [step |-> "saveProfile", session |-> job[w].session,
              verdict |-> job[w].verdict, status |-> PassportStatus])
    /\ UNCHANGED <<rows, onchain>>

(* Fault: a wallet is blocked only where it could have been upgraded.      *)
SaveProfileOfApproved(w) ==
    /\ At(w, "saveProfile")
    /\ profile' = job[w].status
    /\ Go(w, CASE job[w].session \notin KycSession -> "complete"
               [] job[w].session \in KycSession /\ job[w].status = "RED" -> "block"
               [] OTHER -> "readPolicy")
    /\ UNCHANGED <<session, claim, policy, onchain>>

SaveProfile(w) ==
    /\ At(w, "saveProfile")
    /\ profile' = job[w].status
    /\ Go(w, CASE job[w].status = "RED" -> "block"
               [] job[w].status # "RED" /\ job[w].verdict
                    /\ job[w].session \in KycSession -> "readPolicy"
               [] OTHER -> "complete")
    /\ UNCHANGED <<session, claim, policy, onchain>>

(* Fault: the upgrade does not ask for a row.                              *)
ReadPolicyUnasked(w) ==
    /\ At(w, "readPolicy")
    /\ Go(w, "upgrade")
    /\ UNCHANGED <<rows, onchain>>

ReadPolicy(w) ==
    /\ At(w, "readPolicy")
    /\ Go(w, IF Row!HasStatus(policy, "NO_KYC_DAILY_50") THEN "upgrade" ELSE "complete")
    /\ UNCHANGED <<rows, onchain>>

UpgradePolicy(w) ==
    /\ At(w, "upgrade")
    /\ Row!WriteUpgrade
    /\ Go(w, "complete")
    /\ UNCHANGED <<profile, session, claim, onchain>>

BlockWallet(w) ==
    /\ At(w, "block")
    /\ Row!BlockWallet
    /\ Go(w, "complete")
    /\ UNCHANGED <<profile, session, claim, onchain>>

(* Fault: a session is only moved on from PENDING.                         *)
CompletePending(w) ==
    /\ At(w, "complete")
    /\ session' = [session EXCEPT ![job[w].session].status =
                      IF @ = "PENDING" THEN "COMPLETED" ELSE @]
    /\ Do(w, Idle)
    /\ UNCHANGED <<profile, claim, policy, onchain>>

Complete(w) ==
    /\ At(w, "complete")
    /\ session' = [session EXCEPT ![job[w].session].status = "COMPLETED"]
    /\ Do(w, Idle)
    /\ UNCHANGED <<profile, claim, policy, onchain>>

-----------------------------------------------------------------------------
(* syncOnchain: the backend writes to the chain itself.                    *)
BeginSync(h, s) ==
    /\ Fallback
    /\ At(h, "idle")
    /\ session[s] # NoSession
    /\ session[s].status # "PENDING"
    /\ Do(h, Result(s, "syncSubmit"))
    /\ UNCHANGED <<rows, onchain>>

SyncSubmit(h) ==
    /\ At(h, "syncSubmit")
    /\ SendClaim(h)
    /\ Go(h, "syncClaim")
    /\ UNCHANGED rows

SyncClaim(h) ==
    /\ At(h, "syncClaim")
    /\ LET t == TypeOf(job[h].session)
       IN  claim' = [claim EXCEPT
             ![t] = [status  |-> Final(job[h].verdict),
                     session |-> IF @.status = "NONE" THEN job[h].session ELSE @.session]]
    /\ Go(h, "adapterSync")
    /\ UNCHANGED <<profile, session, policy, onchain>>

AdapterSync(h) ==
    /\ At(h, "adapterSync")
    /\ SendSync(h)
    /\ Go(h, "syncProfile")
    /\ UNCHANGED rows

(* The passport's status is read after its sync, whatever it now answers.  *)
SyncProfile(h) ==
    /\ At(h, "syncProfile")
    /\ profile' \in OnchainStatus
    /\ Go(h, "complete")
    /\ UNCHANGED <<session, claim, policy, onchain>>

(* A call throws or a process goes down: nothing is undone or tried again. *)
Lose(j) ==
    /\ Failures
    /\ ~At(j, "idle")
    /\ Do(j, Idle)
    /\ UNCHANGED <<rows, onchain>>

-----------------------------------------------------------------------------
(* What a job that has begun does next.                                    *)
HandlerStep(h) ==
    \/ ReadPolicyRow(h)
    \/ ReadKycClaim(h)
    \/ UpgradeStaleRow(h)
    \/ CreateSession(h)
    \/ CreateClaim(h)
    \/ SubmitInference(h)
    \/ MarkClaim(h)
    \/ SyncSubmit(h)
    \/ SyncClaim(h)
    \/ AdapterSync(h)
    \/ SyncProfile(h)
    \/ Complete(h)

TriggerStep(h) == \E w \in Workflow : Trigger(h, w)

WorkflowStep(w) ==
    \/ FetchResult(w)
    \/ SubmitClaim(w)
    \/ SyncPassport(w)
    \/ RecordClaim(w)
    \/ Recalculate(w)
    \/ SaveProfile(w)
    \/ ReadPolicy(w)
    \/ UpgradePolicy(w)
    \/ BlockWallet(w)
    \/ Complete(w)

NewRequest(h) ==
    \/ SetupWallet(h)
    \/ GetPolicy(h)
    \/ \E s \in Session :
        \/ StartVerification(h, s)
        \/ StartWithDocument(h, s)
        \/ \E v \in BOOLEAN : ReceiveVerdict(h, s, v) \/ InjectMockAiResult(h, s, v)

UsualStep ==
    \/ \E h \in Handler : NewRequest(h) \/ HandlerStep(h) \/ TriggerStep(h)
    \/ \E w \in Workflow : WorkflowStep(w)

UnusualStep ==
    \/ \E h \in Handler, s \in Session, v \in BOOLEAN : ReceiveUnaddressed(h, s, v)
    \/ \E h \in Handler, s \in Session : BeginSync(h, s)
    \/ \E j \in Job : Lose(j)

Next ==
    /\ \/ UsualStep /\ UNCHANGED lost
       \/ UnusualStep /\ lost' = TRUE
    /\ overtaken' = (claim' = claim /\ (overtaken \/ (Row!Blocked /\ ~Row!Blocked')))

Spec == Init /\ [][Next]_<<vars, lost, overtaken>>

(* Both servers run what they have begun; nobody has to send a request.    *)
(* The workflow service accepts every trigger: that slots are few here     *)
(* must not keep one waiting for ever.                                     *)
FairSpec ==
    /\ Spec
    /\ \A h \in Handler : WF_vars(HandlerStep(h)) /\ SF_vars(TriggerStep(h))
    /\ \A w \in Workflow : WF_vars(WorkflowStep(w))

-----------------------------------------------------------------------------
(* Rows and jobs keep their shape; a job past the webhook has a verdict,   *)
(* and an upgrade only ever finds a row.                                   *)
TypeOK ==
    /\ profile \in Status
    /\ session \in [Session -> {NoSession} \cup
          [status : {"PENDING", "PROCESSING", "COMPLETED"},
           verdict : BOOLEAN \cup {NoVerdict}]]
    /\ claim \in [ClaimType ->
          [status : {"NONE", "PENDING", "PROCESSING", "VERIFIED", "FAILED"},
           session : Session \cup {NoSession}]]
    /\ policy \in Row!Row \cup {NoPolicy}
    /\ chain \subseteq Session \X BOOLEAN
    /\ synced \subseteq chain
    /\ reverted \subseteq Session \X BOOLEAN
    /\ \A h \in Handler : job[h] \in
          {Idle}
          \cup [step : {"policyRow", "policyClaim", "policyUpgrade"}]
          \cup [step : {"createSession", "createClaim"},
                session : Session, document : BOOLEAN]
          \cup [step : {"submitInference"}, session : Session, document : {TRUE}]
          \cup [step : {"markClaim", "trigger"}, session : Session]
          \cup [step : {"syncSubmit", "syncClaim", "adapterSync", "syncProfile", "complete"},
                session : Session, verdict : BOOLEAN]
    /\ \A w \in Workflow : job[w] \in
          {Idle}
          \cup [step : {"fetch"}, session : Session]
          \cup [step : {"submit", "syncPassport", "recordClaim", "recalculate"},
                session : Session, verdict : BOOLEAN]
          \cup [step : {"saveProfile", "readPolicy", "upgrade", "block", "complete"},
                session : Session, verdict : BOOLEAN, status : Status]
    /\ \A j \in Job :
          job[j].step \in {"policyClaim", "policyUpgrade", "upgrade"} => policy # NoPolicy

(* The rows never run ahead of what was sent to the chain, whatever is     *)
(* repeated, lost or reordered, and ahead of the chain itself by nothing   *)
(* but transactions that reverted unnoticed: the passport was synced with  *)
(* a verdict of every completed session, and a final claim row says what   *)
(* was submitted for some session of its type, unless a transaction for    *)
(* that very verdict reverted (main.ts:39-78, cre.controller.ts:53-63,     *)
(* 133-143, verification.service.ts:271-345, contracts-client.ts:134,171). *)
RowsFollowTheChain ==
    /\ \A s \in Session :
          session[s] # NoSession /\ session[s].status = "COMPLETED" =>
              \E v \in BOOLEAN : <<s, v>> \in synced \cup reverted
    /\ \A t \in ClaimType, v \in BOOLEAN :
          claim[t].status = Final(v) =>
              \E s \in Session : TypeOf(s) = t /\ <<s, v>> \in chain \cup reverted

Quiet ==
    /\ \A j \in Job : At(j, "idle")
    /\ \A s \in Session : session[s] # NoSession => session[s].status = "COMPLETED"

(* When everything has come to rest and nothing was lost, no claim is left *)
(* PENDING or PROCESSING, in whatever order and however often verdicts     *)
(* came in, the same session's included: each says what was submitted for  *)
(* one of its sessions (verification.service.ts:130-149, 161-236,          *)
(* webhooks.service.ts:135-185).                                           *)
SettledRowsAreFinal ==
    Quiet /\ ~lost =>
        \A t \in ClaimType :
            (\E s \in Session : TypeOf(s) = t /\ session[s] # NoSession) =>
                \E s \in Session, v \in BOOLEAN :
                    /\ TypeOf(s) = t
                    /\ claim[t].status = Final(v)
                    /\ <<s, v>> \in chain \cup reverted

(* A rejected KYC ends with the wallet blocked, in whatever order the      *)
(* result of the other claim comes in (cre.controller.ts:106-131).  It is  *)
(* what TransferPolicyBanner.tsx:29 tells the user of a RED passport, and  *)
(* it fails: an upgrade that read the row before the block is written      *)
(* after it.  The fallback never looks at the policy, so a wallet it       *)
(* settled is left out.                                                    *)
RejectedWalletIsBlocked ==
    Quiet /\ ~lost /\ claim["KYC_AML_VERIFIED"].status = "FAILED" => Row!Blocked

(* That is the only way it fails: whatever verifications, repeated         *)
(* verdicts, workflows and readers of the policy do to one another, the    *)
(* wallet of a KYC row that ends FAILED was blocked after the last change  *)
(* of a row, and nothing but such a late upgrade has undone the block      *)
(* (cre.controller.ts:89-131, wallet-policy.service.ts:36-47, 99-117).     *)
RejectionBlocks ==
    Quiet /\ ~lost /\ claim["KYC_AML_VERIFIED"].status = "FAILED" =>
        Row!Blocked \/ overtaken

(* A session whose result arrived is completed, if nothing fails           *)
(* (webhooks.service.ts:135-185, server.ts:22-26).                         *)
VerdictIsSettled ==
    \A s \in Session :
        (session[s] # NoSession /\ session[s].status = "PROCESSING")
            ~> (session[s] # NoSession /\ session[s].status = "COMPLETED")
================================================================================
