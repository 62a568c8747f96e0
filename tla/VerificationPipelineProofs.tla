---------------------- MODULE VerificationPipelineProofs ----------------------
(***************************************************************************)
(* What VerificationPipeline keeps for any number of sessions, handlers    *)
(* and workflows, whatever fails and however often a result is sent.       *)
(*                                                                         *)
(* Every property speaks of the rows; what makes it true is what the jobs  *)
(* under way have already done.  The inductive invariant therefore says of *)
(* each job what holds at the step it has come to (JobFits), and of each   *)
(* claim row that is not final who is about to make it so.                 *)
(***************************************************************************)
EXTENDS VerificationPipeline, TLAPS

-----------------------------------------------------------------------------
(* The steps a job has ahead of it, by what it has done before them.       *)
Judged ==     \* its session has a verdict
    {"markClaim", "trigger", "fetch", "submit", "syncPassport", "recordClaim",
     "recalculate", "saveProfile", "readPolicy", "upgrade", "block", "complete",
     "syncSubmit", "syncClaim", "adapterSync", "syncProfile"}

Carrying == Judged \ {"markClaim", "trigger", "fetch"}    \* it has read it

Submitted == Carrying \ {"submit", "syncSubmit"}

Synced == Submitted \ {"syncPassport", "syncClaim", "adapterSync"}

Unfinished ==    \* on the way to the claim row
    {"markClaim", "trigger", "fetch", "submit", "syncPassport", "recordClaim"}

Opening == {"createClaim", "submitInference"}

HasSession(s) == session[s] # NoSession

JobFits(x) ==
    /\ x.step \in Opening \cup Judged => HasSession(x.session)
    /\ x.step \in Judged => session[x.session].status # "PENDING"
    /\ x.step \in Submitted => <<x.session, x.verdict>> \in chain \cup reverted
    /\ x.step \in Synced => <<x.session, x.verdict>> \in synced \cup reverted

JobsFit == \A j \in Job : JobFits(job[j])

(* A session about to be created is nobody else's.                         *)
CreatorIsAlone ==
    \A h \in Handler : At(h, "createSession") =>
        /\ ~HasSession(job[h].session)
        /\ \A g \in Handler :
              At(g, "createSession") /\ job[g].session = job[h].session => g = h

SessionsFit ==
    \A s \in Session : HasSession(s) =>
        (session[s].status = "PENDING" <=> session[s].verdict = NoVerdict)

Core ==
    /\ TypeOK
    /\ DOMAIN job = Job
    /\ JobsFit
    /\ CreatorIsAlone
    /\ SessionsFit

(* A session without a claim row has its handler about to write one.       *)
NoneIsBegun ==
    ~lost => \A s \in Session :
        HasSession(s) /\ claim[TypeOf(s)].status = "NONE" =>
            \E h \in Handler : At(h, "createClaim") /\ job[h].session = s

(* Nothing is decided of a session whose claim is about to be written.     *)
OpenedIsPending ==
    ~lost => \A h \in Handler :
        At(h, "createClaim") => session[job[h].session].status = "PENDING"

OnTheWay(s) == \E j \in Job : job[j].step \in Unfinished /\ job[j].session = s

Open(t) == claim[t].status \in {"PENDING", "PROCESSING"}

(* A claim row that is not final waits for the attester or for a job.      *)
OpenIsMoving ==
    ~lost => \A t \in ClaimType :
        Open(t) => \E s \in Session :
            /\ TypeOf(s) = t
            /\ HasSession(s)
            /\ session[s].status = "PENDING" \/ OnTheWay(s)

Blocking(x) ==
    \/ x.step \in {"recalculate", "block"}
    \/ x.step = "saveProfile" /\ x.status = "RED"

(* While the wallet of a rejected KYC is not blocked, and no late upgrade  *)
(* has undone its block, a job is about to block it, or the other claim's  *)
(* result is still to come.                                                *)
RejectionArrives ==
    ~lost /\ ~overtaken
    /\ claim["KYC_AML_VERIFIED"].status = "FAILED" /\ ~Row!Blocked =>
        \/ \E w \in Workflow : Blocking(job[w])
        \/ Open("ACCREDITED_INVESTOR")

-----------------------------------------------------------------------------
(* TypeOK in parts.                                                        *)
HandlerJob ==
    {Idle}
    \cup [step : {"policyRow", "policyClaim", "policyUpgrade"}]
    \cup [step : {"createSession", "createClaim"}, session : Session, document : BOOLEAN]
    \cup [step : {"submitInference"}, session : Session, document : {TRUE}]
    \cup [step : {"markClaim", "trigger"}, session : Session]
    \cup [step : {"syncSubmit", "syncClaim", "adapterSync", "syncProfile", "complete"},
          session : Session, verdict : BOOLEAN]

WorkflowJob ==
    {Idle}
    \cup [step : {"fetch"}, session : Session]
    \cup [step : {"submit", "syncPassport", "recordClaim", "recalculate"},
          session : Session, verdict : BOOLEAN]
    \cup [step : {"saveProfile", "readPolicy", "upgrade", "block", "complete"},
          session : Session, verdict : BOOLEAN, status : Status]

JobTypes ==
    /\ \A h \in Handler : job[h] \in HandlerJob
    /\ \A w \in Workflow : job[w] \in WorkflowJob

SessionRow == [status : {"PENDING", "PROCESSING", "COMPLETED"},
               verdict : BOOLEAN \cup {NoVerdict}]

ClaimRow == [status : {"NONE", "PENDING", "PROCESSING", "VERIFIED", "FAILED"},
             session : Session \cup {NoSession}]

SessionType == session \in [Session -> {NoSession} \cup SessionRow]

ClaimsType == claim \in [ClaimType -> ClaimRow]

PolicyType == policy \in Row!Row \cup {NoPolicy}

ChainType ==
    /\ chain \subseteq Session \X BOOLEAN
    /\ synced \subseteq chain
    /\ reverted \subseteq Session \X BOOLEAN

UpgradeHasRow ==
  \A j \in Job :
    job[j].step \in {"policyClaim", "policyUpgrade", "upgrade"} => policy # NoPolicy

LEMMA TypeParts ==
    TypeOK <=> /\ profile \in Status
               /\ SessionType
               /\ ClaimsType
               /\ PolicyType
               /\ ChainType
               /\ JobTypes
               /\ UpgradeHasRow
BY DEF TypeOK, SessionType, SessionRow, ClaimsType, ClaimRow, PolicyType,
       ChainType, JobTypes, HandlerJob, WorkflowJob, UpgradeHasRow

LEMMA Apart == Handler \cap Workflow = {} /\ Handler \subseteq Job /\ Workflow \subseteq Job
BY PipelineAssumption DEF PipelineAssumption, Job

(* A job changes alone.                                                    *)
LEMMA OneMoves ==
    ASSUME DOMAIN job = Job, NEW j \in Job, NEW x, Do(j, x)
    PROVE  /\ DOMAIN job' = Job
           /\ job'[j] = x
           /\ \A k \in Job : k # j => job'[k] = job[k]
BY DEF Do

(* Going on keeps all of a job but its step.                               *)
LEMMA GoingOn ==
    ASSUME NEW j, NEW step, Go(j, step), DOMAIN job = Job, j \in Job
    PROVE  Do(j, [job[j] EXCEPT !.step = step])
BY DEF Go, Do

LEMMA JobTypesKept ==
    ASSUME JobTypes, DOMAIN job = Job, NEW j \in Job, NEW x, Do(j, x),
           j \in Handler => x \in HandlerJob,
           j \in Workflow => x \in WorkflowJob
    PROVE  JobTypes'
<1>1. \A h \in Handler : job'[h] \in HandlerJob
  BY OneMoves, Apart DEF JobTypes
<1>2. \A w \in Workflow : job'[w] \in WorkflowJob
  BY OneMoves, Apart DEF JobTypes
<1> QED
  BY <1>1, <1>2 DEF JobTypes

(* The shape of a job at a step.                                           *)
LEMMA HandlerShape ==
    ASSUME JobTypes, NEW h \in Handler
    PROVE  /\ job[h].step \in
                {"idle", "policyRow", "policyClaim", "policyUpgrade", "createSession",
                 "createClaim", "submitInference", "markClaim", "trigger", "syncSubmit",
                 "syncClaim", "adapterSync", "syncProfile", "complete"}
           /\ job[h].step \in {"policyRow", "policyClaim", "policyUpgrade"} =>
                job[h] = [step |-> job[h].step]
           /\ job[h].step \in {"createSession"} \cup Opening =>
                /\ job[h] = [step |-> job[h].step, session |-> job[h].session,
                             document |-> job[h].document]
                /\ job[h].session \in Session
                /\ job[h].document \in BOOLEAN
           /\ job[h].step \in {"markClaim", "trigger"} =>
                /\ job[h] = [step |-> job[h].step, session |-> job[h].session]
                /\ job[h].session \in Session
           /\ job[h].step \in
                {"syncSubmit", "syncClaim", "adapterSync", "syncProfile", "complete"} =>
                /\ job[h] = [step |-> job[h].step, session |-> job[h].session,
                             verdict |-> job[h].verdict]
                /\ job[h].session \in Session
                /\ job[h].verdict \in BOOLEAN
<1> DEFINE A == [step : {"createSession", "createClaim"}, session : Session,
                 document : BOOLEAN]
           B == [step : {"submitInference"}, session : Session, document : {TRUE}]
           C == [step : {"markClaim", "trigger"}, session : Session]
           D == [step : {"syncSubmit", "syncClaim", "adapterSync", "syncProfile", "complete"},
                 session : Session, verdict : BOOLEAN]
           P == [step : {"policyRow", "policyClaim", "policyUpgrade"}]
<1>1. \/ job[h] = Idle
      \/ job[h] \in P
      \/ job[h] \in A
      \/ job[h] \in B
      \/ job[h] \in C
      \/ job[h] \in D
  BY DEF JobTypes, HandlerJob
<1>2. CASE job[h] = Idle
  BY <1>2 DEF Idle, Opening
<1>3. CASE job[h] \in A
  BY <1>3 DEF Opening
<1>4. CASE job[h] \in B
  BY <1>4 DEF Opening
<1>5. CASE job[h] \in C
  BY <1>5 DEF Opening
<1>6. CASE job[h] \in D
  BY <1>6 DEF Opening
<1>7. CASE job[h] \in P
  BY <1>7 DEF Opening
<1> QED
  BY <1>1, <1>2, <1>3, <1>4, <1>5, <1>6, <1>7

LEMMA WorkflowShape ==
    ASSUME JobTypes, NEW w \in Workflow
    PROVE  /\ job[w].step \in
                {"idle", "fetch", "submit", "syncPassport", "recordClaim", "recalculate",
                 "saveProfile", "readPolicy", "upgrade", "block", "complete"}
           /\ job[w].step = "fetch" =>
                /\ job[w] = [step |-> job[w].step, session |-> job[w].session]
                /\ job[w].session \in Session
           /\ job[w].step \in {"submit", "syncPassport", "recordClaim", "recalculate"} =>
                /\ job[w] = [step |-> job[w].step, session |-> job[w].session,
                             verdict |-> job[w].verdict]
                /\ job[w].session \in Session
                /\ job[w].verdict \in BOOLEAN
           /\ job[w].step \in {"saveProfile", "readPolicy", "upgrade", "block", "complete"} =>
                /\ job[w] = [step |-> job[w].step, session |-> job[w].session,
                             verdict |-> job[w].verdict, status |-> job[w].status]
                /\ job[w].session \in Session
                /\ job[w].verdict \in BOOLEAN
                /\ job[w].status \in Status
BY DEF JobTypes, WorkflowJob, Idle

LEMMA MoveIsTyped ==
    ASSUME JobTypes, UpgradeHasRow, DOMAIN job = Job, NEW j \in Job, NEW x, Do(j, x),
           j \in Handler => x \in HandlerJob,
           j \in Workflow => x \in WorkflowJob,
           x.step \in {"policyClaim", "policyUpgrade", "upgrade"} => policy # NoPolicy,
           policy # NoPolicy => policy' # NoPolicy
    PROVE  JobTypes' /\ UpgradeHasRow' /\ DOMAIN job' = Job
<1>1. JobTypes' /\ DOMAIN job' = Job
  BY JobTypesKept, OneMoves
<1>2. UpgradeHasRow'
  BY OneMoves DEF UpgradeHasRow
<1> QED
  BY <1>1, <1>2

LEMMA RowTypes ==
    /\ \A v \in BOOLEAN : Final(v) \in {"VERIFIED", "FAILED"}
    /\ \A s \in Session : TypeOf(s) \in ClaimType
    /\ PassportStatus \in Status
    /\ \A row \in Row!Row : row # NoPolicy
BY PipelineAssumption DEF Final, TypeOf, ClaimType, PassportStatus, Status, Row!Row,
   Row!PolicyStatus, PipelineAssumption

(* The writes to the policy row keep it one, and never delete it.          *)
LEMMA PolicyWrites ==
    ASSUME PolicyType
    PROVE  /\ Row!EnsurePolicy => PolicyType' /\ policy' # NoPolicy
           /\ Row!WriteUpgrade /\ policy # NoPolicy => PolicyType' /\ policy' # NoPolicy
           /\ Row!BlockWallet => PolicyType' /\ policy' # NoPolicy
<1>1. Row!Row = [status : {"NO_KYC_DAILY_50", "KYC_USER_CONFIGURABLE", "BLOCKED"},
                 limit : {0, 50}]
  BY DEF Row!Row, Row!PolicyStatus
<1>2. ASSUME Row!EnsurePolicy
      PROVE  PolicyType' /\ policy' # NoPolicy
  BY <1>1, <1>2, RowTypes DEF PolicyType, Row!EnsurePolicy
<1>3. ASSUME Row!WriteUpgrade, policy # NoPolicy
      PROVE  PolicyType' /\ policy' # NoPolicy
  <2>1. policy' \in Row!Row
    BY <1>1, <1>3 DEF PolicyType, Row!WriteUpgrade
  <2> QED
    BY <2>1, RowTypes DEF PolicyType
<1>4. ASSUME Row!BlockWallet
      PROVE  PolicyType' /\ policy' # NoPolicy
  <2>1. policy' \in Row!Row
    BY <1>1, <1>4 DEF Row!BlockWallet
  <2> QED
    BY <2>1, RowTypes DEF PolicyType
<1> QED
  BY <1>2, <1>3, <1>4

LEMMA PrimedParts ==
    TypeOK' <=> /\ profile' \in Status
                /\ SessionType'
                /\ ClaimsType'
                /\ PolicyType'
                /\ ChainType'
                /\ JobTypes'
                /\ UpgradeHasRow'
BY DEF TypeOK, SessionType, SessionRow, ClaimsType, ClaimRow, PolicyType,
       ChainType, JobTypes, HandlerJob, WorkflowJob, UpgradeHasRow

(* A job that moves and leaves the rows and the chain alone.               *)
LEMMA MoveKeepsType ==
    ASSUME TypeOK, DOMAIN job = Job, NEW j \in Job, NEW x, Do(j, x),
           j \in Handler => x \in HandlerJob,
           j \in Workflow => x \in WorkflowJob,
           x.step \in {"policyClaim", "policyUpgrade", "upgrade"} => policy # NoPolicy,
           profile' \in Status, SessionType', ClaimsType', ChainType', PolicyType',
           policy # NoPolicy => policy' # NoPolicy
    PROVE  TypeOK' /\ DOMAIN job' = Job
<1>1. JobTypes' /\ UpgradeHasRow' /\ DOMAIN job' = Job
  BY MoveIsTyped, TypeParts
<1> QED
  BY <1>1, PrimedParts

LEMMA RowsStay ==
    /\ UNCHANGED session => SessionType' = SessionType
    /\ UNCHANGED claim => ClaimsType' = ClaimsType
    /\ UNCHANGED policy => PolicyType' = PolicyType
    /\ UNCHANGED onchain => ChainType' = ChainType
BY DEF SessionType, ClaimsType, PolicyType, ChainType, onchain

LEMMA CompletionIsTyped ==
    ASSUME Core, NEW j \in Job, At(j, "complete"), job[j].session \in Session,
           session' = [session EXCEPT ![job[j].session].status = "COMPLETED"]
    PROVE  SessionType'
<1>1. session[job[j].session] \in SessionRow
  BY TypeParts DEF Core, JobsFit, JobFits, At, Judged, HasSession, SessionType
<1> QED
  BY <1>1, TypeParts DEF Core, SessionType, SessionRow

LEMMA SendsAreTyped ==
    ASSUME ChainType, NEW j \in Job, job[j].session \in Session, job[j].verdict \in BOOLEAN
    PROVE  (SendClaim(j) => ChainType') /\ (SendSync(j) => ChainType')
BY DEF ChainType, SendClaim, SendSync, Reverts, Claimed

LEMMA HandlerKeepsType ==
    ASSUME Core, NEW h \in Handler, HandlerStep(h)
    PROVE  TypeOK' /\ DOMAIN job' = Job
<1> USE DEF rows, onchain
<1>t. /\ TypeOK
      /\ DOMAIN job = Job
      /\ profile \in Status
      /\ SessionType /\ ClaimsType /\ PolicyType /\ ChainType /\ JobTypes
  BY TypeParts DEF Core
<1>h. h \in Job
  BY Apart
<1>i. Idle \in HandlerJob /\ Idle \in WorkflowJob /\ Idle.step = "idle"
  BY DEF HandlerJob, WorkflowJob, Idle
<1>w. h \notin Workflow
  BY Apart
<1>1. CASE CreateSession(h)
  <2>1. job[h] = [step |-> "createSession", session |-> job[h].session,
                  document |-> job[h].document]
        /\ job[h].session \in Session /\ job[h].document \in BOOLEAN
    BY <1>1, <1>t, HandlerShape DEF CreateSession, At
  <2>2. Do(h, [job[h] EXCEPT !.step = "createClaim"])
    BY <1>1, <1>h, <1>t, GoingOn DEF CreateSession
  <2>3. [job[h] EXCEPT !.step = "createClaim"] \in HandlerJob
        /\ [job[h] EXCEPT !.step = "createClaim"].step = "createClaim"
    BY <2>1 DEF HandlerJob
  <2>4. SessionType'
    BY <1>1, <1>t, <2>1 DEF CreateSession, SessionType, SessionRow
  <2> QED
    BY <1>1, <1>t, <1>h, <1>w, <2>2, <2>3, <2>4, MoveKeepsType, RowsStay DEF CreateSession
<1>2. CASE CreateClaim(h)
  <2>1. job[h] = [step |-> "createClaim", session |-> job[h].session,
                  document |-> job[h].document]
        /\ job[h].session \in Session /\ job[h].document \in BOOLEAN
    BY <1>2, <1>t, HandlerShape DEF CreateClaim, At, Opening
  <2>2. CASE job[h].document
    <3>1. Do(h, [job[h] EXCEPT !.step = "submitInference"])
      BY <1>2, <1>h, <1>t, <2>2, GoingOn DEF CreateClaim
    <3>2. [job[h] EXCEPT !.step = "submitInference"] \in HandlerJob
          /\ [job[h] EXCEPT !.step = "submitInference"].step = "submitInference"
      BY <2>1, <2>2 DEF HandlerJob
    <3>3. ClaimsType'
      BY <1>2, <1>t, <2>1, RowTypes DEF CreateClaim, ClaimsType, ClaimRow
    <3> QED
      BY <1>2, <1>t, <1>h, <1>w, <3>1, <3>2, <3>3, MoveKeepsType, RowsStay DEF CreateClaim
  <2>3. CASE ~job[h].document
    <3>3. ClaimsType'
      BY <1>2, <1>t, <2>1, RowTypes DEF CreateClaim, ClaimsType, ClaimRow
    <3> QED
      BY <1>2, <1>t, <1>h, <1>w, <1>i, <2>3, <3>3, MoveKeepsType, RowsStay DEF CreateClaim
  <2> QED
    BY <2>2, <2>3
<1>3. CASE SubmitInference(h)
  BY <1>3, <1>t, <1>h, <1>w, <1>i, MoveKeepsType, RowsStay DEF SubmitInference
<1>4. CASE MarkClaim(h)
  <2>1. job[h] = [step |-> "markClaim", session |-> job[h].session]
        /\ job[h].session \in Session
    BY <1>4, <1>t, HandlerShape DEF MarkClaim, At
  <2>2. Do(h, [job[h] EXCEPT !.step = "trigger"])
    BY <1>4, <1>h, <1>t, GoingOn DEF MarkClaim
  <2>3. [job[h] EXCEPT !.step = "trigger"] \in HandlerJob
        /\ [job[h] EXCEPT !.step = "trigger"].step = "trigger"
    BY <2>1 DEF HandlerJob
  <2>4. ClaimsType'
    BY <1>4, <1>t, <2>1, RowTypes DEF MarkClaim, ClaimsType, ClaimRow
  <2> QED
    BY <1>4, <1>t, <1>h, <1>w, <2>2, <2>3, <2>4, MoveKeepsType, RowsStay DEF MarkClaim
<1>5. CASE SyncSubmit(h)
  <2>1. job[h] = [step |-> "syncSubmit", session |-> job[h].session,
                  verdict |-> job[h].verdict]
        /\ job[h].session \in Session /\ job[h].verdict \in BOOLEAN
    BY <1>5, <1>t, HandlerShape DEF SyncSubmit, At
  <2>2. Do(h, [job[h] EXCEPT !.step = "syncClaim"])
    BY <1>5, <1>h, <1>t, GoingOn DEF SyncSubmit
  <2>3. [job[h] EXCEPT !.step = "syncClaim"] \in HandlerJob
        /\ [job[h] EXCEPT !.step = "syncClaim"].step = "syncClaim"
    BY <2>1 DEF HandlerJob
  <2>4. ChainType'
    BY <1>5, <1>h, <1>t, <2>1, SendsAreTyped DEF SyncSubmit
  <2> QED
    BY <1>5, <1>t, <1>h, <1>w, <2>2, <2>3, <2>4, MoveKeepsType, RowsStay DEF SyncSubmit
<1>6. CASE SyncClaim(h)
  <2>1. job[h] = [step |-> "syncClaim", session |-> job[h].session,
                  verdict |-> job[h].verdict]
        /\ job[h].session \in Session /\ job[h].verdict \in BOOLEAN
    BY <1>6, <1>t, HandlerShape DEF SyncClaim, At
  <2>2. Do(h, [job[h] EXCEPT !.step = "adapterSync"])
    BY <1>6, <1>h, <1>t, GoingOn DEF SyncClaim
  <2>3. [job[h] EXCEPT !.step = "adapterSync"] \in HandlerJob
        /\ [job[h] EXCEPT !.step = "adapterSync"].step = "adapterSync"
    BY <2>1 DEF HandlerJob
  <2> DEFINE c == TypeOf(job[h].session)
  <2>4. ClaimsType'
    <3>1. /\ c \in ClaimType
          /\ claim[c] \in ClaimRow
          /\ Final(job[h].verdict) \in {"VERIFIED", "FAILED"}
      BY <1>t, <2>1, RowTypes DEF ClaimsType
    <3>2. PICK s \in Session \cup {NoSession} :
            claim' = [claim EXCEPT ![c] =
                        [status |-> Final(job[h].verdict), session |-> s]]
      BY <1>6, <2>1, <3>1 DEF SyncClaim, ClaimRow
    <3> HIDE DEF c
    <3> QED
      BY <1>t, <3>1, <3>2 DEF ClaimsType, ClaimRow
  <2> QED
    BY <1>6, <1>t, <1>h, <1>w, <2>2, <2>3, <2>4, MoveKeepsType, RowsStay DEF SyncClaim
<1>7. CASE AdapterSync(h)
  <2>1. job[h] = [step |-> "adapterSync", session |-> job[h].session,
                  verdict |-> job[h].verdict]
        /\ job[h].session \in Session /\ job[h].verdict \in BOOLEAN
    BY <1>7, <1>t, HandlerShape DEF AdapterSync, At
  <2>2. Do(h, [job[h] EXCEPT !.step = "syncProfile"])
    BY <1>7, <1>h, <1>t, GoingOn DEF AdapterSync
  <2>3. [job[h] EXCEPT !.step = "syncProfile"] \in HandlerJob
        /\ [job[h] EXCEPT !.step = "syncProfile"].step = "syncProfile"
    BY <2>1 DEF HandlerJob
  <2>4. ChainType'
    BY <1>7, <1>h, <1>t, <2>1, SendsAreTyped DEF AdapterSync
  <2> QED
    BY <1>7, <1>t, <1>h, <1>w, <2>2, <2>3, <2>4, MoveKeepsType, RowsStay DEF AdapterSync
<1>8. CASE SyncProfile(h)
  <2>1. job[h] = [step |-> "syncProfile", session |-> job[h].session,
                  verdict |-> job[h].verdict]
        /\ job[h].session \in Session /\ job[h].verdict \in BOOLEAN
    BY <1>8, <1>t, HandlerShape DEF SyncProfile, At
  <2>2. Do(h, [job[h] EXCEPT !.step = "complete"])
    BY <1>8, <1>h, <1>t, GoingOn DEF SyncProfile
  <2>3. [job[h] EXCEPT !.step = "complete"] \in HandlerJob
        /\ [job[h] EXCEPT !.step = "complete"].step = "complete"
    BY <2>1 DEF HandlerJob
  <2>4. profile' \in Status
    BY <1>8 DEF SyncProfile, Status
  <2> QED
    BY <1>8, <1>t, <1>h, <1>w, <2>2, <2>3, <2>4, MoveKeepsType, RowsStay DEF SyncProfile
<1>9. CASE Complete(h)
  <2>1. job[h].session \in Session
    BY <1>9, <1>t, HandlerShape DEF Complete, At
  <2>2. SessionType'
    BY <1>t, <1>h, <2>1, <1>9, CompletionIsTyped DEF Complete
  <2> QED
    BY <1>9, <1>t, <1>h, <1>w, <1>i, <2>2, MoveKeepsType, RowsStay DEF Complete
<1>10. ASSUME UNCHANGED rows, UNCHANGED onchain, Do(h, Idle)
       PROVE  TypeOK' /\ DOMAIN job' = Job
  BY <1>10, <1>t, <1>h, <1>w, <1>i, MoveKeepsType, RowsStay
<1>11. ASSUME UNCHANGED rows, UNCHANGED onchain, NEW step \in {"policyClaim", "policyUpgrade"},
              Go(h, step), job[h].step \in {"policyRow", "policyClaim"},
              policy # NoPolicy
       PROVE  TypeOK' /\ DOMAIN job' = Job
  <2>1. Do(h, [job[h] EXCEPT !.step = step])
    BY <1>11, <1>h, <1>t, GoingOn
  <2>2. [job[h] EXCEPT !.step = step] = [step |-> step]
    <3>1. job[h] = [step |-> job[h].step]
      BY <1>11, <1>t, HandlerShape
    <3> QED
      BY <3>1
  <2>3. [step |-> step] \in HandlerJob
    BY <1>11 DEF HandlerJob
  <2> QED
    BY <1>11, <1>t, <1>h, <1>w, <2>1, <2>2, <2>3, MoveKeepsType, RowsStay
<1>12. CASE ReadPolicyRow(h)
  BY <1>10, <1>11, <1>12 DEF ReadPolicyRow, At, Row!HasStatus
<1>13. CASE ReadKycClaim(h)
  <2>1. policy # NoPolicy
    BY <1>13, <1>h, <1>t, TypeParts DEF ReadKycClaim, UpgradeHasRow, At
  <2> QED
    BY <1>10, <1>11, <1>13, <2>1 DEF ReadKycClaim, At
<1>14. CASE UpgradeStaleRow(h)
  <2>1. policy # NoPolicy
    BY <1>14, <1>h, <1>t, TypeParts DEF UpgradeStaleRow, UpgradeHasRow, At
  <2>2. PolicyType' /\ policy' # NoPolicy
    BY <1>14, <1>t, <2>1, PolicyWrites DEF UpgradeStaleRow
  <2> QED
    BY <1>14, <1>t, <1>h, <1>w, <1>i, <2>2, MoveKeepsType, RowsStay DEF UpgradeStaleRow
<1> QED
  BY <1>1, <1>2, <1>3, <1>4, <1>5, <1>6, <1>7, <1>8, <1>9, <1>12, <1>13, <1>14
     DEF HandlerStep

LEMMA ResultIsTyped ==
    ASSUME Core, NEW s \in Session, HasSession(s), session[s].status # "PENDING"
    PROVE  session[s].verdict \in BOOLEAN
BY TypeParts DEF Core, SessionsFit, SessionType, SessionRow, HasSession

LEMMA WorkflowKeepsType ==
    ASSUME Core, NEW w \in Workflow, WorkflowStep(w)
    PROVE  TypeOK' /\ DOMAIN job' = Job
<1> USE DEF rows, onchain
<1>t. /\ TypeOK
      /\ DOMAIN job = Job
      /\ profile \in Status
      /\ SessionType /\ ClaimsType /\ PolicyType /\ ChainType /\ JobTypes
  BY TypeParts DEF Core
<1>h. w \in Job
  BY Apart
<1>i. Idle \in HandlerJob /\ Idle \in WorkflowJob /\ Idle.step = "idle"
  BY DEF HandlerJob, WorkflowJob, Idle
<1>w. w \notin Handler
  BY Apart
<1>1. CASE FetchResult(w)
  <2>1. job[w].session \in Session
    BY <1>1, <1>t, WorkflowShape DEF FetchResult, At
  <2>2. HasSession(job[w].session) /\ session[job[w].session].status # "PENDING"
    BY <1>1, <1>h DEF FetchResult, At, Core, JobsFit, JobFits, Judged
  <2>3. Result(job[w].session, "submit") \in WorkflowJob
        /\ Result(job[w].session, "submit").step = "submit"
    BY <2>1, <2>2, ResultIsTyped DEF Result, WorkflowJob
  <2> QED
    BY <1>1, <1>t, <1>h, <1>w, <2>3, MoveKeepsType, RowsStay DEF FetchResult
<1>2. CASE SubmitClaim(w)
  <2>1. job[w] = [step |-> "submit", session |-> job[w].session, verdict |-> job[w].verdict]
        /\ job[w].session \in Session /\ job[w].verdict \in BOOLEAN
    BY <1>2, <1>t, WorkflowShape DEF SubmitClaim, At
  <2>2. Do(w, [job[w] EXCEPT !.step = "syncPassport"])
    BY <1>2, <1>h, <1>t, GoingOn DEF SubmitClaim
  <2>3. [job[w] EXCEPT !.step = "syncPassport"] \in WorkflowJob
        /\ [job[w] EXCEPT !.step = "syncPassport"].step = "syncPassport"
    BY <2>1 DEF WorkflowJob
  <2>4. ChainType'
    BY <1>2, <1>h, <1>t, <2>1, SendsAreTyped DEF SubmitClaim
  <2> QED
    BY <1>2, <1>t, <1>h, <1>w, <2>2, <2>3, <2>4, MoveKeepsType, RowsStay DEF SubmitClaim
<1>3. CASE SyncPassport(w)
  <2>1. job[w] = [step |-> "syncPassport", session |-> job[w].session, verdict |-> job[w].verdict]
        /\ job[w].session \in Session /\ job[w].verdict \in BOOLEAN
    BY <1>3, <1>t, WorkflowShape DEF SyncPassport, At
  <2>2. Do(w, [job[w] EXCEPT !.step = "recordClaim"])
    BY <1>3, <1>h, <1>t, GoingOn DEF SyncPassport
  <2>3. [job[w] EXCEPT !.step = "recordClaim"] \in WorkflowJob
        /\ [job[w] EXCEPT !.step = "recordClaim"].step = "recordClaim"
    BY <2>1 DEF WorkflowJob
  <2>4. ChainType'
    BY <1>3, <1>h, <1>t, <2>1, SendsAreTyped DEF SyncPassport
  <2> QED
    BY <1>3, <1>t, <1>h, <1>w, <2>2, <2>3, <2>4, MoveKeepsType, RowsStay DEF SyncPassport
<1>4. CASE RecordClaim(w)
  <2>1. job[w] = [step |-> "recordClaim", session |-> job[w].session, verdict |-> job[w].verdict]
        /\ job[w].session \in Session /\ job[w].verdict \in BOOLEAN
    BY <1>4, <1>t, WorkflowShape DEF RecordClaim, At
  <2>2. Do(w, [job[w] EXCEPT !.step = "recalculate"])
    BY <1>4, <1>h, <1>t, GoingOn DEF RecordClaim
  <2>3. [job[w] EXCEPT !.step = "recalculate"] \in WorkflowJob
        /\ [job[w] EXCEPT !.step = "recalculate"].step = "recalculate"
    BY <2>1 DEF WorkflowJob
  <2>4. ClaimsType'
    BY <1>4, <1>t, <2>1, RowTypes DEF RecordClaim, ClaimsType, ClaimRow
  <2> QED
    BY <1>4, <1>t, <1>h, <1>w, <2>2, <2>3, <2>4, MoveKeepsType, RowsStay DEF RecordClaim
<1>5. CASE Recalculate(w)
  <2> DEFINE x == [step |-> "saveProfile", session |-> job[w].session,
                   verdict |-> job[w].verdict, status |-> PassportStatus]
  <2>1. job[w].session \in Session /\ job[w].verdict \in BOOLEAN
    BY <1>5, <1>t, WorkflowShape DEF Recalculate, At
  <2>2. x \in WorkflowJob /\ x.step = "saveProfile"
    BY <2>1, RowTypes DEF WorkflowJob
  <2>3. Do(w, x)
    BY <1>5 DEF Recalculate
  <2> HIDE DEF x
  <2> QED
    BY <1>5, <1>t, <1>h, <1>w, <2>2, <2>3, MoveKeepsType, RowsStay DEF Recalculate
<1>6. CASE SaveProfile(w)
  <2>1. job[w] = [step |-> "saveProfile", session |-> job[w].session,
                  verdict |-> job[w].verdict, status |-> job[w].status]
        /\ job[w].session \in Session /\ job[w].verdict \in BOOLEAN
        /\ job[w].status \in Status
    BY <1>6, <1>t, WorkflowShape DEF SaveProfile, At
  <2>2. PICK step \in {"block", "readPolicy", "complete"} : Go(w, step)
    <3>1. CASE job[w].status = "RED"
      BY <1>6, <3>1 DEF SaveProfile
    <3>2. CASE job[w].status # "RED" /\ job[w].verdict /\ job[w].session \in KycSession
      BY <1>6, <3>2 DEF SaveProfile
    <3>3. CASE job[w].status # "RED" /\ ~(job[w].verdict /\ job[w].session \in KycSession)
      BY <1>6, <3>3 DEF SaveProfile
    <3> QED
      BY <3>1, <3>2, <3>3
  <2>3. Do(w, [job[w] EXCEPT !.step = step])
    BY <1>h, <1>t, <2>2, GoingOn
  <2>4. [job[w] EXCEPT !.step = step] \in WorkflowJob
        /\ [job[w] EXCEPT !.step = step].step = step
    BY <2>1 DEF WorkflowJob
  <2>5. profile' \in Status
    BY <1>6, <2>1 DEF SaveProfile
  <2> QED
    BY <1>6, <1>t, <1>h, <1>w, <2>3, <2>4, <2>5, MoveKeepsType, RowsStay DEF SaveProfile
<1>7. CASE ReadPolicy(w)
  <2>1. job[w] = [step |-> "readPolicy", session |-> job[w].session,
                  verdict |-> job[w].verdict, status |-> job[w].status]
        /\ job[w].session \in Session /\ job[w].verdict \in BOOLEAN
        /\ job[w].status \in Status
    BY <1>7, <1>t, WorkflowShape DEF ReadPolicy, At
  <2>2. PICK step \in {"upgrade", "complete"} :
          Go(w, step) /\ (step = "upgrade" => policy # NoPolicy)
    BY <1>7 DEF ReadPolicy, Row!HasStatus
  <2>3. Do(w, [job[w] EXCEPT !.step = step])
    BY <1>h, <1>t, <2>2, GoingOn
  <2>4. [job[w] EXCEPT !.step = step] \in WorkflowJob
        /\ [job[w] EXCEPT !.step = step].step = step
    BY <2>1 DEF WorkflowJob
  <2> QED
    BY <1>7, <1>t, <1>h, <1>w, <2>2, <2>3, <2>4, MoveKeepsType, RowsStay DEF ReadPolicy
<1>8. CASE UpgradePolicy(w)
  <2>1. job[w] = [step |-> "upgrade", session |-> job[w].session,
                  verdict |-> job[w].verdict, status |-> job[w].status]
        /\ job[w].session \in Session /\ job[w].verdict \in BOOLEAN
        /\ job[w].status \in Status
    BY <1>8, <1>t, WorkflowShape DEF UpgradePolicy, At
  <2>2. Do(w, [job[w] EXCEPT !.step = "complete"])
    BY <1>8, <1>h, <1>t, GoingOn DEF UpgradePolicy
  <2>3. [job[w] EXCEPT !.step = "complete"] \in WorkflowJob
        /\ [job[w] EXCEPT !.step = "complete"].step = "complete"
    BY <2>1 DEF WorkflowJob
  <2>4. PolicyType' /\ policy' # NoPolicy
    BY <1>8, <1>h, <1>t, TypeParts, PolicyWrites
       DEF UpgradePolicy, UpgradeHasRow, At
  <2> QED
    BY <1>8, <1>t, <1>h, <1>w, <2>2, <2>3, <2>4, MoveKeepsType, RowsStay DEF UpgradePolicy
<1>9. CASE BlockWallet(w)
  <2>1. job[w] = [step |-> "block", session |-> job[w].session,
                  verdict |-> job[w].verdict, status |-> job[w].status]
        /\ job[w].session \in Session /\ job[w].verdict \in BOOLEAN
        /\ job[w].status \in Status
    BY <1>9, <1>t, WorkflowShape DEF BlockWallet, At
  <2>2. Do(w, [job[w] EXCEPT !.step = "complete"])
    BY <1>9, <1>h, <1>t, GoingOn DEF BlockWallet
  <2>3. [job[w] EXCEPT !.step = "complete"] \in WorkflowJob
        /\ [job[w] EXCEPT !.step = "complete"].step = "complete"
    BY <2>1 DEF WorkflowJob
  <2>4. PolicyType' /\ policy' # NoPolicy
    BY <1>9, <1>t, TypeParts, PolicyWrites DEF BlockWallet, UpgradeHasRow
  <2> QED
    BY <1>9, <1>t, <1>h, <1>w, <2>2, <2>3, <2>4, MoveKeepsType, RowsStay DEF BlockWallet
<1>10. CASE Complete(w)
  <2>1. job[w].session \in Session
    BY <1>10, <1>t, WorkflowShape DEF Complete, At
  <2>2. SessionType'
    BY <1>t, <1>h, <2>1, <1>10, CompletionIsTyped DEF Complete
  <2> QED
    BY <1>10, <1>t, <1>h, <1>w, <1>i, <2>2, MoveKeepsType, RowsStay DEF Complete
<1> QED
  BY <1>1, <1>2, <1>3, <1>4, <1>5, <1>6, <1>7, <1>8, <1>9, <1>10 DEF WorkflowStep

LEMMA AcceptKeepsType ==
    ASSUME Core, NEW h \in Handler, NEW s \in Session, NEW v \in BOOLEAN,
           AcceptVerdict(h, s, v)
    PROVE  TypeOK' /\ DOMAIN job' = Job
<1> USE DEF rows, onchain
<1>t. /\ TypeOK
      /\ DOMAIN job = Job
      /\ profile \in Status
      /\ SessionType /\ ClaimsType /\ PolicyType /\ ChainType /\ JobTypes
  BY TypeParts DEF Core
<1>h. h \in Job /\ h \notin Workflow
  BY Apart
<1> DEFINE x == [step |-> "markClaim", session |-> s]
<1>1. x \in HandlerJob /\ x.step = "markClaim"
  BY DEF HandlerJob
<1>2. Do(h, x)
  BY DEF AcceptVerdict
<1>3. SessionType'
  BY <1>t DEF AcceptVerdict, SessionType, SessionRow
<1> HIDE DEF x
<1> QED
  BY <1>t, <1>h, <1>1, <1>2, <1>3, MoveKeepsType, RowsStay DEF AcceptVerdict

LEMMA RequestKeepsType ==
    ASSUME Core, NEW h \in Handler, NewRequest(h)
    PROVE  TypeOK' /\ DOMAIN job' = Job
<1> USE DEF rows, onchain
<1>t. /\ TypeOK
      /\ DOMAIN job = Job
      /\ profile \in Status
      /\ SessionType /\ ClaimsType /\ PolicyType /\ ChainType /\ JobTypes
  BY TypeParts DEF Core
<1>h. h \in Job /\ h \notin Workflow
  BY Apart
<1>1. ASSUME NEW s \in Session, NEW document \in BOOLEAN, Begin(h, s, document)
      PROVE  TypeOK' /\ DOMAIN job' = Job
  <2> DEFINE x == [step |-> "createSession", session |-> s, document |-> document]
  <2>1. x \in HandlerJob /\ x.step = "createSession"
    BY DEF HandlerJob
  <2>2. Do(h, x)
    BY <1>1 DEF Begin
  <2>3. profile' \in Status
    BY <1>1 DEF Begin, Status
  <2> HIDE DEF x
  <2> QED
    BY <1>1, <1>t, <1>h, <2>1, <2>2, <2>3, MoveKeepsType, RowsStay DEF Begin
<1>2. ASSUME NEW s \in Session, NEW v \in BOOLEAN, AcceptVerdict(h, s, v)
      PROVE  TypeOK' /\ DOMAIN job' = Job
  BY <1>2, AcceptKeepsType
<1>3. ASSUME GetPolicy(h)
      PROVE  TypeOK' /\ DOMAIN job' = Job
  <2> DEFINE x == [step |-> "policyRow"]
  <2>1. x \in HandlerJob /\ x.step = "policyRow"
    BY DEF HandlerJob
  <2>2. Do(h, x)
    BY <1>3 DEF GetPolicy
  <2>3. PolicyType' /\ policy' # NoPolicy
    BY <1>3, <1>t, PolicyWrites DEF GetPolicy
  <2> HIDE DEF x
  <2> QED
    BY <1>3, <1>t, <1>h, <2>1, <2>2, <2>3, MoveKeepsType, RowsStay DEF GetPolicy
<1> QED
  BY <1>1, <1>2, <1>3 DEF NewRequest, StartVerification, StartWithDocument, ReceiveVerdict,
     InjectMockAiResult, SetupWallet

LEMMA TriggerMoves ==
    ASSUME Core, NEW h \in Handler, NEW w \in Workflow, Trigger(h, w)
    PROVE  /\ DOMAIN job' = Job
           /\ job'[h] = Idle
           /\ job'[w] = [step |-> "fetch", session |-> job[h].session]
           /\ \A k \in Job : k # h /\ k # w => job'[k] = job[k]
           /\ h \in Job /\ w \in Job /\ h # w
           /\ job[h].session \in Session
<1>1. h \in Job /\ w \in Job /\ h # w
  BY Apart
<1>2. job[h].session \in Session
  BY TypeParts, HandlerShape DEF Trigger, At, Core
<1> QED
  BY <1>1, <1>2 DEF Trigger, Core

LEMMA TriggerKeepsType ==
    ASSUME Core, NEW h \in Handler, NEW w \in Workflow, Trigger(h, w)
    PROVE  TypeOK' /\ DOMAIN job' = Job
<1>1. JobTypes'
  <2>1. Idle \in HandlerJob
    BY DEF HandlerJob
  <2>2. [step |-> "fetch", session |-> job[h].session] \in WorkflowJob
    BY TriggerMoves DEF WorkflowJob
  <2> QED
    BY <2>1, <2>2, TriggerMoves, TypeParts, Apart DEF JobTypes, Core
<1>2. UpgradeHasRow'
  <2>1. UNCHANGED policy
    BY DEF Trigger, rows
  <2>2. UpgradeHasRow
    BY TypeParts DEF Core
  <2>3. ASSUME NEW u \in Job,
               job'[u].step \in {"policyClaim", "policyUpgrade", "upgrade"}
        PROVE  job[u].step = job'[u].step
    <3>1. u # h
      <4>1. job'[h] = [step |-> "idle"]
        BY TriggerMoves DEF Idle
      <4> QED
        BY <2>3, <4>1
    <3>2. job'[w].step = "fetch"
      <4>1. job'[w] = [step |-> "fetch", session |-> job[h].session]
        BY TriggerMoves
      <4> QED
        BY <4>1
    <3>3. u # w
      BY <2>3, <3>2
    <3> QED
      BY <2>3, <3>1, <3>3, TriggerMoves
  <2> QED
    BY <2>1, <2>2, <2>3 DEF UpgradeHasRow
<1>3. UNCHANGED <<profile, session, claim, policy, chain, synced, reverted>>
  BY DEF Trigger, rows, onchain
<1> QED
  BY <1>1, <1>2, <1>3, TriggerMoves, RowsStay, TypeParts, PrimedParts DEF Core, onchain

LEMMA OthersKeepType ==
    ASSUME Core,
           \/ \E h \in Handler, s \in Session, v \in BOOLEAN : ReceiveUnaddressed(h, s, v)
           \/ \E h \in Handler, s \in Session : BeginSync(h, s)
           \/ \E j \in Job : Lose(j)
    PROVE  TypeOK' /\ DOMAIN job' = Job
<1> USE DEF rows, onchain
<1>t. /\ TypeOK
      /\ DOMAIN job = Job
      /\ profile \in Status
      /\ SessionType /\ ClaimsType /\ PolicyType /\ ChainType /\ JobTypes
  BY TypeParts DEF Core
<1>1. ASSUME NEW h \in Handler, NEW s \in Session, NEW v \in BOOLEAN,
             ReceiveUnaddressed(h, s, v)
      PROVE  TypeOK' /\ DOMAIN job' = Job
  BY <1>1, AcceptKeepsType DEF ReceiveUnaddressed
<1>2. ASSUME NEW h \in Handler, NEW s \in Session, BeginSync(h, s)
      PROVE  TypeOK' /\ DOMAIN job' = Job
  <2>1. Result(s, "syncSubmit") \in HandlerJob
        /\ Result(s, "syncSubmit").step = "syncSubmit"
    BY <1>2, ResultIsTyped DEF BeginSync, Result, HandlerJob, HasSession
  <2> QED
    BY <1>2, <1>t, <2>1, Apart, MoveKeepsType, RowsStay DEF BeginSync
<1>3. ASSUME NEW j \in Job, Lose(j)
      PROVE  TypeOK' /\ DOMAIN job' = Job
  <2>1. Idle \in HandlerJob /\ Idle \in WorkflowJob /\ Idle.step = "idle"
    BY DEF HandlerJob, WorkflowJob, Idle
  <2> QED
    BY <1>3, <1>t, <2>1, MoveKeepsType, RowsStay DEF Lose
<1> QED
  BY <1>1, <1>2, <1>3

LEMMA StepKeepsType ==
    ASSUME Core, [Next]_<<vars, lost, overtaken>>
    PROVE  TypeOK' /\ DOMAIN job' = Job
<1>1. CASE Next
  BY <1>1, HandlerKeepsType, WorkflowKeepsType, RequestKeepsType, TriggerKeepsType,
     OthersKeepType DEF Next, UsualStep, UnusualStep, TriggerStep
<1>2. CASE UNCHANGED <<vars, lost, overtaken>>
  BY <1>2 DEF Core, vars, rows, onchain, TypeOK, At
<1> QED
  BY <1>1, <1>2

-----------------------------------------------------------------------------
(* Who writes what.                                                        *)
LEMMA SessionWrites ==
    ASSUME Next
    PROVE  \/ UNCHANGED session
           \/ \E h \in Handler : CreateSession(h)
           \/ \E h \in Handler, s \in Session, v \in BOOLEAN :
                AcceptVerdict(h, s, v) /\ (lost' \/ ~Starting(s))
           \/ \E j \in Job : Complete(j)
<1> USE DEF rows, onchain
<1>1. ASSUME NEW h \in Handler, NewRequest(h)
      PROVE  \/ UNCHANGED session
             \/ \E s \in Session, v \in BOOLEAN : AcceptVerdict(h, s, v) /\ ~Starting(s)
  BY <1>1 DEF NewRequest, StartVerification, StartWithDocument, Begin, ReceiveVerdict,
     InjectMockAiResult, SetupWallet, GetPolicy
<1>2. ASSUME NEW h \in Handler, HandlerStep(h)
      PROVE  UNCHANGED session \/ CreateSession(h) \/ Complete(h)
  BY <1>2 DEF HandlerStep, CreateClaim, SubmitInference, MarkClaim, SyncSubmit, SyncClaim,
     AdapterSync, SyncProfile, ReadPolicyRow, ReadKycClaim, UpgradeStaleRow
<1>3. ASSUME NEW w \in Workflow, WorkflowStep(w)
      PROVE  UNCHANGED session \/ Complete(w)
  BY <1>3 DEF WorkflowStep, FetchResult, SubmitClaim, SyncPassport, RecordClaim,
     Recalculate, SaveProfile, ReadPolicy, UpgradePolicy, BlockWallet
<1>4. ASSUME NEW h \in Handler, TriggerStep(h)
      PROVE  UNCHANGED session
  BY <1>4 DEF TriggerStep, Trigger
<1>5. ASSUME \/ \E h \in Handler, s \in Session : BeginSync(h, s)
             \/ \E j \in Job : Lose(j)
      PROVE  UNCHANGED session
  BY <1>5 DEF BeginSync, Lose
<1>6. CASE UsualStep
  BY <1>1, <1>2, <1>3, <1>4, <1>6, Apart DEF UsualStep
<1>7. CASE UnusualStep /\ lost'
  BY <1>5, <1>7 DEF UnusualStep, ReceiveUnaddressed
<1> QED
  BY <1>6, <1>7 DEF Next

LEMMA ChainWrites ==
    ASSUME Next
    PROVE  UNCHANGED onchain \/ \E j \in Job : SendClaim(j) \/ SendSync(j)
<1> USE DEF rows
<1>1. ASSUME NEW h \in Handler, NewRequest(h)
      PROVE  UNCHANGED onchain
  BY <1>1 DEF NewRequest, StartVerification, StartWithDocument, Begin, ReceiveVerdict,
     InjectMockAiResult, AcceptVerdict, SetupWallet, GetPolicy
<1>2. ASSUME NEW h \in Handler, HandlerStep(h)
      PROVE  UNCHANGED onchain \/ SendClaim(h) \/ SendSync(h)
  BY <1>2 DEF HandlerStep, CreateSession, CreateClaim, SubmitInference, MarkClaim,
     SyncSubmit, SyncClaim, AdapterSync, SyncProfile, Complete, ReadPolicyRow,
     ReadKycClaim, UpgradeStaleRow
<1>3. ASSUME NEW w \in Workflow, WorkflowStep(w)
      PROVE  UNCHANGED onchain \/ SendClaim(w) \/ SendSync(w)
  BY <1>3 DEF WorkflowStep, FetchResult, SubmitClaim, SyncPassport, RecordClaim,
     Recalculate, SaveProfile, ReadPolicy, UpgradePolicy, BlockWallet, Complete
<1>4. ASSUME NEW h \in Handler, TriggerStep(h)
      PROVE  UNCHANGED onchain
  BY <1>4 DEF TriggerStep, Trigger
<1>5. CASE UnusualStep
  BY <1>5 DEF UnusualStep, ReceiveUnaddressed, AcceptVerdict, BeginSync, Lose
<1>6. CASE UsualStep
  BY <1>1, <1>2, <1>3, <1>4, <1>6, Apart DEF UsualStep
<1> QED
  BY <1>5, <1>6 DEF Next

LEMMA JobFields ==
    ASSUME TypeOK, NEW j \in Job
    PROVE  /\ job[j].step \in {"createSession"} \cup Opening \cup Judged
                => job[j].session \in Session
           /\ job[j].step \in Carrying => job[j].verdict \in BOOLEAN
<1>1. CASE j \in Handler
  <2>1. JobTypes
    BY TypeParts
  <2> QED
    BY <1>1, <2>1, HandlerShape DEF Opening, Judged, Carrying
<1>2. CASE j \in Workflow
  <2>1. JobTypes
    BY TypeParts
  <2> QED
    BY <1>2, <2>1, WorkflowShape DEF Opening, Judged, Carrying
<1> QED
  BY <1>1, <1>2 DEF Job

(* What a session never loses: its row and its having been judged; and it  *)
(* waits while it is being opened.                                         *)
SessionGrows ==
    \A s \in Session : HasSession(s) =>
        /\ HasSession(s)'
        /\ session[s].status # "PENDING" => session'[s].status # "PENDING"
        /\ ~lost' /\ Starting(s) /\ session[s].status = "PENDING" =>
              session'[s].status = "PENDING"

LEMMA SessionStep ==
    ASSUME Core, Next
    PROVE  /\ SessionGrows
           /\ SessionsFit'
           /\ \A s \in Session : ~HasSession(s) /\ HasSession(s)' =>
                \E h \in Handler : CreateSession(h) /\ job[h].session = s
<1>t. /\ session \in [Session -> {NoSession} \cup SessionRow]
      /\ SessionsFit /\ JobsFit /\ CreatorIsAlone
      /\ TypeOK
  BY TypeParts DEF Core, SessionType
<1>r. /\ \A r \in SessionRow : r # NoSession
      /\ NoVerdict \notin BOOLEAN
  BY PipelineAssumption DEF PipelineAssumption, SessionRow
<1>1. CASE UNCHANGED session
  BY <1>1, <1>t DEF SessionGrows, SessionsFit, HasSession
<1>2. ASSUME NEW h \in Handler, CreateSession(h)
      PROVE  /\ SessionGrows
             /\ SessionsFit'
             /\ \A s \in Session : ~HasSession(s) /\ HasSession(s)' => job[h].session = s
  <2>1. /\ job[h].session \in Session
        /\ ~HasSession(job[h].session)
    BY <1>2, <1>t, JobFields, Apart DEF CreateSession, CreatorIsAlone, At
  <2>2. session' = [session EXCEPT ![job[h].session] =
                      [status |-> "PENDING", verdict |-> NoVerdict]]
    BY <1>2 DEF CreateSession
  <2> QED
    BY <2>1, <2>2, <1>t DEF SessionGrows, SessionsFit, HasSession
<1>3. ASSUME NEW h \in Handler, NEW s \in Session, NEW v \in BOOLEAN,
             AcceptVerdict(h, s, v), lost' \/ ~Starting(s)
      PROVE  /\ SessionGrows
             /\ SessionsFit'
             /\ \A r \in Session : HasSession(r)' => HasSession(r)
  <2>1. /\ HasSession(s)
        /\ session' = [session EXCEPT ![s] = [status |-> "PROCESSING", verdict |-> v]]
    BY <1>3 DEF AcceptVerdict, HasSession
  <2>2. [status |-> "PROCESSING", verdict |-> v] \in SessionRow
    BY DEF SessionRow
  <2>3. \A r \in Session : r # s => session'[r] = session[r]
    BY <2>1, <1>t
  <2>4. session'[s] = [status |-> "PROCESSING", verdict |-> v]
    BY <2>1, <1>t
  <2>5. v # NoVerdict
    BY <1>r
  <2> QED
    <3>1. ~(~lost' /\ Starting(s))
      BY <1>3
    <3> QED
      BY <2>1, <2>2, <2>3, <2>4, <2>5, <3>1, <1>t, <1>r DEF SessionGrows, SessionsFit, HasSession
<1>4. ASSUME NEW j \in Job, Complete(j)
      PROVE  /\ SessionGrows
             /\ SessionsFit'
             /\ \A r \in Session : HasSession(r)' => HasSession(r)
  <2> DEFINE s == job[j].session
  <2>1. s \in Session
    BY <1>4, <1>t, JobFields DEF Complete, At, Judged
  <2>2. HasSession(s) /\ session[s].status # "PENDING"
    BY <1>4, <1>t DEF Complete, At, Judged, JobsFit, JobFits
  <2>3. session[s] \in SessionRow
    BY <2>1, <2>2, <1>t DEF HasSession
  <2>4. session' = [session EXCEPT ![s].status = "COMPLETED"]
    BY <1>4 DEF Complete
  <2> HIDE DEF s
  <2>5. /\ session'[s] = [status |-> "COMPLETED", verdict |-> session[s].verdict]
        /\ session'[s] \in SessionRow
    BY <2>1, <2>3, <2>4, <1>t DEF SessionRow
  <2>6. \A r \in Session : r # s => session'[r] = session[r]
    BY <2>4, <1>t
  <2> QED
    BY <2>1, <2>2, <2>3, <2>5, <2>6, <1>t, <1>r DEF SessionGrows, SessionsFit, HasSession
<1> QED
  BY <1>1, <1>2, <1>3, <1>4, SessionWrites DEF HasSession

Sent == chain \cup reverted

LEMMA ChainStep ==
    ASSUME Core, Next
    PROVE  Sent \subseteq Sent' /\ (synced \cup reverted) \subseteq (synced \cup reverted)'
BY ChainWrites, TypeParts
   DEF Core, ChainType, Sent, SendClaim, SendSync, Reverts, onchain

(* What is true of a job at its step stays true while it waits.            *)
LEMMA WaitingFits ==
    ASSUME Core, Next, NEW j \in Job, job'[j] = job[j]
    PROVE  JobFits(job[j])'
<1> DEFINE s == job[j].session
           v == job[j].verdict
<1>1. JobFits(job[j]) /\ TypeOK
  BY DEF Core, JobsFit
<1>2. job[j].step \in Opening \cup Judged => s \in Session /\ HasSession(s)
  BY <1>1, JobFields DEF JobFits
<1>3. SessionGrows /\ Sent \subseteq Sent'
      /\ (synced \cup reverted) \subseteq (synced \cup reverted)'
  BY SessionStep, ChainStep
<1>4. /\ job[j].step \in Opening \cup Judged => session'[s] # NoSession
      /\ job[j].step \in Judged => session'[s].status # "PENDING"
  BY <1>1, <1>2, <1>3 DEF SessionGrows, HasSession, JobFits
<1>5. /\ job[j].step \in Submitted => <<s, v>> \in Sent'
      /\ job[j].step \in Synced => <<s, v>> \in (synced \cup reverted)'
  BY <1>1, <1>3 DEF JobFits, Sent
<1> QED
  BY <1>4, <1>5 DEF JobFits, HasSession, Sent

LEMMA IdleFits == Idle.step = "idle" /\ JobFits(Idle) /\ JobFits(Idle)'
BY DEF Idle, JobFits, Opening, Judged, Carrying, Submitted, Synced

LEMMA MoverDecides ==
    ASSUME Core, Next, NEW j \in Job, NEW x, Do(j, x), JobFits(x)'
    PROVE  JobsFit'
<1>1. /\ job'[j] = x
      /\ \A k \in Job : k # j => job'[k] = job[k]
  BY OneMoves DEF Core
<1>2. ASSUME NEW k \in Job
      PROVE  JobFits(job[k])'
  <2>1. CASE k = j
    BY <1>1, <2>1 DEF JobFits, HasSession
  <2>2. CASE k # j
    BY <1>1, <2>2, WaitingFits
  <2> QED
    BY <2>1, <2>2
<1> QED
  BY <1>2 DEF JobsFit

(* A job that goes on with its session while the session's row stays.      *)
LEMMA GoerFits ==
    ASSUME Core, Next, NEW j \in Job, UNCHANGED session,
           NEW x, x.session = job[j].session,
           x.step \in Opening => job[j].step \in Opening,
           x.step \in Judged => job[j].step \in Judged,
           x.step \in Carrying => job[j].step \in Carrying /\ x.verdict = job[j].verdict,
           x.step \in Submitted =>
              job[j].step \in Submitted \/ <<x.session, x.verdict>> \in Sent',
           x.step \in Synced =>
              job[j].step \in Synced \/ <<x.session, x.verdict>> \in (synced \cup reverted)'
    PROVE  JobFits(x)'
<1>1. JobFits(job[j])
  BY DEF Core, JobsFit
<1>2. Sent \subseteq Sent' /\ (synced \cup reverted) \subseteq (synced \cup reverted)'
  BY ChainStep
<1>3. x.step \in Synced \cup Submitted => x.step \in Carrying
  BY DEF Synced, Submitted
<1>4. /\ x.step \in Opening \cup Judged => HasSession(x.session)
      /\ x.step \in Judged => session[x.session].status # "PENDING"
  BY <1>1 DEF JobFits
<1>5. /\ x.step \in Submitted => <<x.session, x.verdict>> \in Sent'
      /\ x.step \in Synced => <<x.session, x.verdict>> \in (synced \cup reverted)'
  BY <1>1, <1>2, <1>3 DEF JobFits, Sent
<1> QED
  BY <1>4, <1>5 DEF JobFits, HasSession, Sent

(* A sent transaction leaves its trace, whether it lands or reverts.       *)
LEMMA SendsAreKept ==
    ASSUME NEW j \in Job
    PROVE  /\ SendClaim(j) => Claimed(j) \in Sent'
           /\ SendSync(j) /\ Claimed(j) \in Sent => Claimed(j) \in (synced \cup reverted)'
BY DEF SendClaim, SendSync, Reverts, Sent

LEMMA HandlerJobsFit ==
    ASSUME Core, Next, NEW h \in Handler, HandlerStep(h)
    PROVE  JobsFit'
<1> USE DEF rows, onchain
<1>t. /\ Core /\ Next
      /\ DOMAIN job = Job
      /\ JobTypes
      /\ SessionType
  BY TypeParts DEF Core
<1>h. h \in Job
  BY Apart
<1>1. CASE CreateSession(h)
  <2>1. PICK x : x = [job[h] EXCEPT !.step = "createClaim"]
    OBVIOUS
  <2>2. /\ x.step = "createClaim"
        /\ x.session = job[h].session
        /\ x.session \in Session
        /\ Do(h, x)
    <3>1. /\ job[h] = [step |-> "createSession", session |-> job[h].session,
                       document |-> job[h].document]
          /\ job[h].session \in Session
      BY <1>1, <1>t, HandlerShape DEF CreateSession, At
    <3>2. Do(h, [job[h] EXCEPT !.step = "createClaim"])
      BY <1>1, <1>t, <1>h, GoingOn DEF CreateSession
    <3> QED
      BY <2>1, <3>1, <3>2
  <2>3. session'[x.session] = [status |-> "PENDING", verdict |-> NoVerdict]
    BY <1>1, <1>t, <2>2 DEF CreateSession, SessionType
  <2>4. session'[x.session] # NoSession
    BY <2>3, PipelineAssumption DEF PipelineAssumption
  <2>5. JobFits(x)'
    BY <2>2, <2>3, <2>4 DEF JobFits, HasSession, Opening, Judged, Carrying, Submitted, Synced
  <2> QED
    BY <1>t, <1>h, <2>2, <2>5, MoverDecides
<1>2. CASE CreateClaim(h) /\ job[h].document
  <2>1. PICK x : x = [job[h] EXCEPT !.step = "submitInference"]
    OBVIOUS
  <2>2. /\ job[h].step = "createClaim"
        /\ x.step = "submitInference" /\ x.session = job[h].session
        /\ Do(h, x)
    BY <1>2, <1>t, <1>h, <2>1, HandlerShape, GoingOn DEF CreateClaim, At, Opening
  <2>4. JobFits(x)'
    BY <1>2, <1>t, <1>h, <2>2, GoerFits DEF CreateClaim, Opening, Judged, Carrying,
       Submitted, Synced
  <2> QED
    BY <1>t, <1>h, <2>2, <2>4, MoverDecides
<1>3. CASE Do(h, Idle)
  BY <1>3, <1>t, <1>h, IdleFits, MoverDecides
<1>4. CASE MarkClaim(h)
  <2>1. PICK x : x = [job[h] EXCEPT !.step = "trigger"]
    OBVIOUS
  <2>2. /\ job[h].step = "markClaim"
        /\ x.step = "trigger" /\ x.session = job[h].session
        /\ Do(h, x)
    BY <1>4, <1>t, <1>h, <2>1, HandlerShape, GoingOn DEF MarkClaim, At, Opening
  <2>4. JobFits(x)'
    BY <1>4, <1>t, <1>h, <2>2, GoerFits DEF MarkClaim, Opening, Judged, Carrying, Submitted, Synced
  <2> QED
    BY <1>t, <1>h, <2>2, <2>4, MoverDecides
<1>5. CASE SyncSubmit(h)
  <2>1. PICK x : x = [job[h] EXCEPT !.step = "syncClaim"]
    OBVIOUS
  <2>2. /\ job[h].step = "syncSubmit"
        /\ x.step = "syncClaim" /\ x.session = job[h].session /\ x.verdict = job[h].verdict
        /\ Do(h, x)
    BY <1>5, <1>t, <1>h, <2>1, HandlerShape, GoingOn DEF SyncSubmit, At, Opening
  <2>3. <<x.session, x.verdict>> \in Sent'
    BY <1>5, <1>h, <2>2, SendsAreKept DEF SyncSubmit, Claimed
  <2>4. JobFits(x)'
    BY <1>5, <1>t, <1>h, <2>2, <2>3, GoerFits DEF SyncSubmit, Opening, Judged, Carrying, Submitted, Synced
  <2> QED
    BY <1>t, <1>h, <2>2, <2>4, MoverDecides
<1>6. CASE SyncClaim(h)
  <2>1. PICK x : x = [job[h] EXCEPT !.step = "adapterSync"]
    OBVIOUS
  <2>2. /\ job[h].step = "syncClaim"
        /\ x.step = "adapterSync" /\ x.session = job[h].session /\ x.verdict = job[h].verdict
        /\ Do(h, x)
    BY <1>6, <1>t, <1>h, <2>1, HandlerShape, GoingOn DEF SyncClaim, At, Opening
  <2>4. JobFits(x)'
    BY <1>6, <1>t, <1>h, <2>2, GoerFits DEF SyncClaim, Opening, Judged, Carrying, Submitted, Synced
  <2> QED
    BY <1>t, <1>h, <2>2, <2>4, MoverDecides
<1>7. CASE AdapterSync(h)
  <2>1. PICK x : x = [job[h] EXCEPT !.step = "syncProfile"]
    OBVIOUS
  <2>2. /\ job[h].step = "adapterSync"
        /\ x.step = "syncProfile" /\ x.session = job[h].session /\ x.verdict = job[h].verdict
        /\ Do(h, x)
    BY <1>7, <1>t, <1>h, <2>1, HandlerShape, GoingOn DEF AdapterSync, At, Opening
  <2>3. <<x.session, x.verdict>> \in (synced \cup reverted)'
    <3>1. Claimed(h) \in Sent
      BY <1>t, <1>h, <2>2 DEF Core, JobsFit, JobFits, Submitted, Carrying, Judged, Sent, Claimed
    <3> QED
      BY <1>7, <1>h, <2>2, <3>1, SendsAreKept DEF AdapterSync, Claimed
  <2>4. JobFits(x)'
    BY <1>7, <1>t, <1>h, <2>2, <2>3, GoerFits DEF AdapterSync, Opening, Judged, Carrying, Submitted, Synced
  <2> QED
    BY <1>t, <1>h, <2>2, <2>4, MoverDecides
<1>8. CASE SyncProfile(h)
  <2>1. PICK x : x = [job[h] EXCEPT !.step = "complete"]
    OBVIOUS
  <2>2. /\ job[h].step = "syncProfile"
        /\ x.step = "complete" /\ x.session = job[h].session /\ x.verdict = job[h].verdict
        /\ Do(h, x)
    BY <1>8, <1>t, <1>h, <2>1, HandlerShape, GoingOn DEF SyncProfile, At, Opening
  <2>4. JobFits(x)'
    BY <1>8, <1>t, <1>h, <2>2, GoerFits DEF SyncProfile, Opening, Judged, Carrying, Submitted, Synced
  <2> QED
    BY <1>t, <1>h, <2>2, <2>4, MoverDecides
<1>9. ASSUME NEW step \in {"policyClaim", "policyUpgrade"}, Go(h, step),
             job[h].step \in {"policyRow", "policyClaim"}
      PROVE  JobsFit'
  <2>1. PICK x : x = [job[h] EXCEPT !.step = step]
    OBVIOUS
  <2>2. Do(h, x)
    BY <1>9, <1>t, <1>h, <2>1, GoingOn
  <2>3. x.step = step
    <3>1. job[h] = [step |-> job[h].step]
      BY <1>9, <1>t, HandlerShape
    <3> QED
      BY <2>1, <3>1
  <2>4. JobFits(x)'
    BY <2>3 DEF JobFits, Opening, Judged, Carrying, Submitted, Synced
  <2> QED
    BY <1>t, <1>h, <2>2, <2>4, MoverDecides
<1>10. ASSUME ReadPolicyRow(h) \/ ReadKycClaim(h) \/ UpgradeStaleRow(h)
       PROVE  JobsFit'
  BY <1>3, <1>9, <1>10 DEF ReadPolicyRow, ReadKycClaim, UpgradeStaleRow, At
<1> QED
  BY <1>1, <1>2, <1>3, <1>4, <1>5, <1>6, <1>7, <1>8, <1>10
     DEF HandlerStep, CreateClaim, SubmitInference, Complete

LEMMA WorkflowJobsFit ==
    ASSUME Core, Next, NEW w \in Workflow, WorkflowStep(w)
    PROVE  JobsFit'
<1> USE DEF rows, onchain
<1>t. /\ Core /\ Next
      /\ DOMAIN job = Job
      /\ JobTypes
  BY TypeParts DEF Core
<1>h. w \in Job
  BY Apart
<1>1. CASE FetchResult(w)
  <2>1. PICK x : x = Result(job[w].session, "submit")
    OBVIOUS
  <2>2. /\ x.step = "submit" /\ x.session = job[w].session
        /\ x.verdict = session[x.session].verdict
        /\ job[w].step = "fetch"
        /\ Do(w, x)
        /\ UNCHANGED session
    BY <1>1, <2>1 DEF FetchResult, Result, At
  <2>3. HasSession(x.session) /\ session[x.session].status # "PENDING"
    BY <1>t, <1>h, <2>2 DEF Core, JobsFit, JobFits, Judged
  <2>4. JobFits(x)'
    BY <2>2, <2>3 DEF JobFits, HasSession, Opening, Judged, Carrying, Submitted, Synced
  <2> QED
    BY <1>t, <1>h, <2>2, <2>4, MoverDecides
<1>2. CASE SubmitClaim(w)
  <2>1. PICK x : x = [job[w] EXCEPT !.step = "syncPassport"]
    OBVIOUS
  <2>2. /\ job[w].step = "submit"
        /\ x.step = "syncPassport" /\ x.session = job[w].session /\ x.verdict = job[w].verdict
        /\ Do(w, x)
    BY <1>2, <1>t, <1>h, <2>1, WorkflowShape, GoingOn DEF SubmitClaim, At, Opening
  <2>3. <<x.session, x.verdict>> \in Sent'
    BY <1>2, <1>h, <2>2, SendsAreKept DEF SubmitClaim, Claimed
  <2>4. JobFits(x)'
    BY <1>2, <1>t, <1>h, <2>2, <2>3, GoerFits DEF SubmitClaim, Opening, Judged, Carrying, Submitted, Synced
  <2> QED
    BY <1>t, <1>h, <2>2, <2>4, MoverDecides
<1>3. CASE SyncPassport(w)
  <2>1. PICK x : x = [job[w] EXCEPT !.step = "recordClaim"]
    OBVIOUS
  <2>2. /\ job[w].step = "syncPassport"
        /\ x.step = "recordClaim" /\ x.session = job[w].session /\ x.verdict = job[w].verdict
        /\ Do(w, x)
    BY <1>3, <1>t, <1>h, <2>1, WorkflowShape, GoingOn DEF SyncPassport, At, Opening
  <2>3. <<x.session, x.verdict>> \in (synced \cup reverted)'
    <3>1. Claimed(w) \in Sent
      BY <1>t, <1>h, <2>2 DEF Core, JobsFit, JobFits, Submitted, Carrying, Judged, Sent, Claimed
    <3> QED
      BY <1>3, <1>h, <2>2, <3>1, SendsAreKept DEF SyncPassport, Claimed
  <2>4. JobFits(x)'
    BY <1>3, <1>t, <1>h, <2>2, <2>3, GoerFits DEF SyncPassport, Opening, Judged, Carrying, Submitted, Synced
  <2> QED
    BY <1>t, <1>h, <2>2, <2>4, MoverDecides
<1>4. CASE RecordClaim(w)
  <2>1. PICK x : x = [job[w] EXCEPT !.step = "recalculate"]
    OBVIOUS
  <2>2. /\ job[w].step = "recordClaim"
        /\ x.step = "recalculate" /\ x.session = job[w].session /\ x.verdict = job[w].verdict
        /\ Do(w, x)
    BY <1>4, <1>t, <1>h, <2>1, WorkflowShape, GoingOn DEF RecordClaim, At, Opening
  <2>4. JobFits(x)'
    BY <1>4, <1>t, <1>h, <2>2, GoerFits DEF RecordClaim, Opening, Judged, Carrying, Submitted, Synced
  <2> QED
    BY <1>t, <1>h, <2>2, <2>4, MoverDecides
<1>5. CASE Recalculate(w)
  <2>1. PICK x : x = [step |-> "saveProfile", session |-> job[w].session,
                      verdict |-> job[w].verdict, status |-> PassportStatus]
    OBVIOUS
  <2>2. /\ job[w].step = "recalculate"
        /\ x.step = "saveProfile" /\ x.session = job[w].session
        /\ x.verdict = job[w].verdict
        /\ Do(w, x)
    BY <1>5, <2>1 DEF Recalculate, At
  <2>4. JobFits(x)'
    BY <1>5, <1>t, <1>h, <2>2, GoerFits DEF Recalculate, Opening, Judged, Carrying,
       Submitted, Synced
  <2> QED
    BY <1>t, <1>h, <2>2, <2>4, MoverDecides
<1>6. CASE SaveProfile(w)
  <2>1. PICK step \in {"block", "readPolicy", "complete"} : Go(w, step)
    <3>1. CASE job[w].status = "RED"
      BY <1>6, <3>1 DEF SaveProfile
    <3>2. CASE job[w].status # "RED" /\ job[w].verdict /\ job[w].session \in KycSession
      BY <1>6, <3>2 DEF SaveProfile
    <3>3. CASE job[w].status # "RED" /\ ~(job[w].verdict /\ job[w].session \in KycSession)
      BY <1>6, <3>3 DEF SaveProfile
    <3> QED
      BY <3>1, <3>2, <3>3
  <2>2. PICK x : x = [job[w] EXCEPT !.step = step]
    OBVIOUS
  <2>3. /\ job[w].step = "saveProfile"
        /\ x.step = step /\ x.session = job[w].session /\ x.verdict = job[w].verdict
        /\ Do(w, x)
    BY <1>6, <1>t, <1>h, <2>1, <2>2, WorkflowShape, GoingOn DEF SaveProfile, At
  <2>4. JobFits(x)'
    BY <1>6, <1>t, <1>h, <2>1, <2>3, GoerFits DEF SaveProfile, Opening, Judged, Carrying,
       Submitted, Synced
  <2> QED
    BY <1>t, <1>h, <2>3, <2>4, MoverDecides
<1>7. CASE ReadPolicy(w)
  <2>1. PICK step \in {"upgrade", "complete"} : Go(w, step)
    BY <1>7 DEF ReadPolicy
  <2>2. PICK x : x = [job[w] EXCEPT !.step = step]
    OBVIOUS
  <2>3. /\ job[w].step = "readPolicy"
        /\ x.step = step /\ x.session = job[w].session /\ x.verdict = job[w].verdict
        /\ Do(w, x)
    BY <1>7, <1>t, <1>h, <2>1, <2>2, WorkflowShape, GoingOn DEF ReadPolicy, At
  <2>4. JobFits(x)'
    BY <1>7, <1>t, <1>h, <2>1, <2>3, GoerFits DEF ReadPolicy, Opening, Judged,
       Carrying, Submitted, Synced
  <2> QED
    BY <1>t, <1>h, <2>3, <2>4, MoverDecides
<1>8. CASE UpgradePolicy(w)
  <2>1. PICK x : x = [job[w] EXCEPT !.step = "complete"]
    OBVIOUS
  <2>2. /\ job[w].step = "upgrade"
        /\ x.step = "complete" /\ x.session = job[w].session /\ x.verdict = job[w].verdict
        /\ Do(w, x)
    BY <1>8, <1>t, <1>h, <2>1, WorkflowShape, GoingOn DEF UpgradePolicy, At, Opening
  <2>4. JobFits(x)'
    BY <1>8, <1>t, <1>h, <2>2, GoerFits DEF UpgradePolicy, Opening, Judged, Carrying, Submitted, Synced
  <2> QED
    BY <1>t, <1>h, <2>2, <2>4, MoverDecides
<1>9. CASE BlockWallet(w)
  <2>1. PICK x : x = [job[w] EXCEPT !.step = "complete"]
    OBVIOUS
  <2>2. /\ job[w].step = "block"
        /\ x.step = "complete" /\ x.session = job[w].session /\ x.verdict = job[w].verdict
        /\ Do(w, x)
    BY <1>9, <1>t, <1>h, <2>1, WorkflowShape, GoingOn DEF BlockWallet, At, Opening
  <2>4. JobFits(x)'
    BY <1>9, <1>t, <1>h, <2>2, GoerFits DEF BlockWallet, Opening, Judged, Carrying, Submitted, Synced
  <2> QED
    BY <1>t, <1>h, <2>2, <2>4, MoverDecides
<1>10. CASE Complete(w)
  BY <1>10, <1>t, <1>h, IdleFits, MoverDecides DEF Complete
<1> QED
  BY <1>1, <1>2, <1>3, <1>4, <1>5, <1>6, <1>7, <1>8, <1>9, <1>10 DEF WorkflowStep

LEMMA AcceptedJobsFit ==
    ASSUME Core, Next, NEW h \in Handler, NEW s \in Session, NEW v \in BOOLEAN,
           AcceptVerdict(h, s, v)
    PROVE  JobsFit'
<1>1. PICK x : x = [step |-> "markClaim", session |-> s]
  OBVIOUS
<1>2. x.step = "markClaim" /\ x.session = s /\ Do(h, x)
  BY <1>1 DEF AcceptVerdict
<1>3. session'[s] = [status |-> "PROCESSING", verdict |-> v]
  BY TypeParts DEF Core, SessionType, AcceptVerdict
<1>4. session'[s] # NoSession
  BY <1>3, PipelineAssumption DEF PipelineAssumption
<1>5. JobFits(x)'
  BY <1>2, <1>3, <1>4 DEF JobFits, HasSession, Opening, Judged, Carrying, Submitted, Synced
<1> QED
  BY <1>2, <1>5, Apart, MoverDecides

LEMMA RequestJobsFit ==
    ASSUME Core, Next, NEW h \in Handler, NewRequest(h)
    PROVE  JobsFit'
<1>t. /\ Core /\ Next
      /\ DOMAIN job = Job
      /\ session \in [Session -> {NoSession} \cup SessionRow]
  BY TypeParts DEF Core, SessionType
<1>h. h \in Job
  BY Apart
<1>1. ASSUME NEW s \in Session, NEW document \in BOOLEAN, Begin(h, s, document)
      PROVE  JobsFit'
  <2>1. PICK x : x = [step |-> "createSession", session |-> s, document |-> document]
    OBVIOUS
  <2>2. x.step = "createSession" /\ Do(h, x)
    BY <1>1, <2>1 DEF Begin
  <2>3. JobFits(x)'
    BY <2>2 DEF JobFits, Opening, Judged, Carrying, Submitted, Synced
  <2> QED
    BY <1>t, <1>h, <2>2, <2>3, MoverDecides
<1>2. ASSUME NEW s \in Session, NEW v \in BOOLEAN, AcceptVerdict(h, s, v)
      PROVE  JobsFit'
  BY <1>2, AcceptedJobsFit
<1>3. ASSUME GetPolicy(h)
      PROVE  JobsFit'
  <2>1. PICK x : x = [step |-> "policyRow"]
    OBVIOUS
  <2>2. x.step = "policyRow" /\ Do(h, x)
    BY <1>3, <2>1 DEF GetPolicy
  <2>3. JobFits(x)'
    BY <2>2 DEF JobFits, Opening, Judged, Carrying, Submitted, Synced
  <2> QED
    BY <1>t, <1>h, <2>2, <2>3, MoverDecides
<1> QED
  BY <1>1, <1>2, <1>3 DEF NewRequest, StartVerification, StartWithDocument, ReceiveVerdict,
     InjectMockAiResult, SetupWallet

LEMMA TriggerJobsFit ==
    ASSUME Core, Next, NEW h \in Handler, NEW w \in Workflow, Trigger(h, w)
    PROVE  JobsFit'
<1>1. PICK x : x = [step |-> "fetch", session |-> job[h].session]
  OBVIOUS
<1>2. /\ h \in Job /\ w \in Job /\ h # w
      /\ job'[h] = Idle
      /\ job'[w] = x
      /\ \A k \in Job : k # h /\ k # w => job'[k] = job[k]
      /\ x.step = "fetch" /\ x.session = job[h].session
  BY <1>1, TriggerMoves
<1>3. UNCHANGED session /\ job[h].step = "trigger"
  BY DEF Trigger, rows, At
<1>4. JobFits(x)'
  BY <1>2, <1>3, GoerFits DEF Opening, Judged, Carrying, Submitted, Synced
<1>5. ASSUME NEW k \in Job
      PROVE  JobFits(job[k])'
  <2>1. CASE k = h
    BY <1>2, <2>1, IdleFits DEF JobFits, HasSession
  <2>2. CASE k = w
    BY <1>2, <1>4, <2>2 DEF JobFits, HasSession
  <2>3. CASE k # h /\ k # w
    BY <1>2, <2>3, WaitingFits
  <2> QED
    BY <2>1, <2>2, <2>3
<1> QED
  BY <1>5 DEF JobsFit

LEMMA OtherJobsFit ==
    ASSUME Core, Next,
           \/ \E h \in Handler, s \in Session, v \in BOOLEAN : ReceiveUnaddressed(h, s, v)
           \/ \E h \in Handler, s \in Session : BeginSync(h, s)
           \/ \E j \in Job : Lose(j)
    PROVE  JobsFit'
<1>1. ASSUME NEW h \in Handler, NEW s \in Session, NEW v \in BOOLEAN,
             ReceiveUnaddressed(h, s, v)
      PROVE  JobsFit'
  BY <1>1, AcceptedJobsFit DEF ReceiveUnaddressed
<1>2. ASSUME NEW h \in Handler, NEW s \in Session, BeginSync(h, s)
      PROVE  JobsFit'
  <2>1. PICK x : x = Result(s, "syncSubmit")
    OBVIOUS
  <2>2. /\ x.step = "syncSubmit" /\ x.session = s /\ x.verdict = session[s].verdict
        /\ Do(h, x)
        /\ UNCHANGED session
        /\ session[s] # NoSession /\ session[s].status # "PENDING"
    BY <1>2, <2>1 DEF BeginSync, Result, rows
  <2>3. JobFits(x)'
    BY <2>2 DEF JobFits, HasSession, Opening, Judged, Carrying, Submitted, Synced
  <2> QED
    BY <2>2, <2>3, Apart, MoverDecides
<1>3. ASSUME NEW j \in Job, Lose(j)
      PROVE  JobsFit'
  BY <1>3, IdleFits, MoverDecides DEF Lose
<1> QED
  BY <1>1, <1>2, <1>3

(* Only a new request makes a creator, for a session nobody creates.       *)
LEMMA Creators ==
    ASSUME Core, Next, NEW g \in Handler, At(g, "createSession")'
    PROVE  \/ At(g, "createSession") /\ job'[g].session = job[g].session
           \/ \E s \in Session, document \in BOOLEAN :
                Begin(g, s, document) /\ job'[g].session = s
<1> DEFINE Same == At(g, "createSession") /\ job'[g].session = job[g].session
<1>t. DOMAIN job = Job /\ g \in Job
  BY Apart DEF Core
<1>1. ASSUME NEW j \in Job, NEW x, Do(j, x), x.step # "createSession"
      PROVE  Same
  BY <1>1, <1>t, OneMoves DEF At
<1>2. ASSUME NEW j \in Job, NEW step, Go(j, step), step # "createSession"
      PROVE  Same
  BY <1>2, <1>t DEF At, Go
<1>i. Idle.step # "createSession"
  BY DEF Idle
<1>3. ASSUME NEW h \in Handler, NewRequest(h)
      PROVE  \/ Same
             \/ \E s \in Session, document \in BOOLEAN :
                  Begin(g, s, document) /\ job'[g].session = s
  <2>1. ASSUME NEW s \in Session, NEW document \in BOOLEAN, Begin(h, s, document)
        PROVE  Same \/ (Begin(g, s, document) /\ job'[g].session = s)
    BY <1>t, <2>1, Apart DEF Begin, Do, At
  <2>2. ASSUME NEW s \in Session, NEW v \in BOOLEAN, AcceptVerdict(h, s, v)
        PROVE  Same
    BY <1>t, <2>2, Apart DEF AcceptVerdict, Do, At
  <2>3. CASE GetPolicy(h)
    BY <1>1, <2>3, Apart DEF GetPolicy
  <2> QED
    BY <1>3, <2>1, <2>2, <2>3 DEF NewRequest, StartVerification, StartWithDocument,
       ReceiveVerdict, InjectMockAiResult, SetupWallet
<1>4. ASSUME NEW h \in Handler, HandlerStep(h)
      PROVE  Same
  BY <1>1, <1>2, <1>4, <1>i, Apart DEF HandlerStep, CreateSession, CreateClaim,
     SubmitInference, MarkClaim, SyncSubmit, SyncClaim, AdapterSync, SyncProfile, Complete,
     ReadPolicyRow, ReadKycClaim, UpgradeStaleRow
<1>5. ASSUME NEW w \in Workflow, WorkflowStep(w)
      PROVE  Same
  <2>1. w \in Job /\ w # g
    BY Apart
  <2>2. job'[g] = job[g]
    BY <1>5, <1>t, <2>1 DEF WorkflowStep, FetchResult, SubmitClaim, SyncPassport,
       RecordClaim, Recalculate, SaveProfile, ReadPolicy, UpgradePolicy, BlockWallet,
       Complete, Do, Go
  <2> QED
    BY <2>2 DEF At
<1>6. ASSUME NEW h \in Handler, TriggerStep(h)
      PROVE  Same
  <2>1. PICK w \in Workflow : Trigger(h, w)
    BY <1>6 DEF TriggerStep
  <2>2. job'[h] = Idle /\ g # w /\ (g # h => job'[g] = job[g])
    BY <1>t, <2>1, TriggerMoves, Apart
  <2> QED
    BY <1>i, <2>2 DEF At
<1>7. ASSUME NEW h \in Handler, NEW s \in Session, NEW v \in BOOLEAN,
             ReceiveUnaddressed(h, s, v)
      PROVE  Same
  BY <1>t, <1>7, Apart DEF ReceiveUnaddressed, AcceptVerdict, Do, At
<1>8. ASSUME NEW h \in Handler, NEW s \in Session, BeginSync(h, s)
      PROVE  Same
  BY <1>1, <1>8, Apart DEF BeginSync, Result
<1>9. ASSUME NEW j \in Job, Lose(j)
      PROVE  Same
  BY <1>1, <1>9, <1>i DEF Lose
<1>10. CASE UsualStep
  BY <1>3, <1>4, <1>5, <1>6, <1>10 DEF UsualStep
<1>11. CASE UnusualStep
  BY <1>7, <1>8, <1>9, <1>11 DEF UnusualStep
<1> QED
  BY <1>10, <1>11 DEF Next

LEMMA CreatorsStayAlone ==
    ASSUME Core, Next
    PROVE  CreatorIsAlone'
<1>t. CreatorIsAlone /\ DOMAIN job = Job /\ TypeOK
  BY DEF Core
<1>1. ASSUME NEW g \in Handler, At(g, "createSession")'
      PROVE  /\ job'[g].session \in Session
             /\ ~HasSession(job'[g].session)
  BY <1>1, <1>t, Creators, JobFields, Apart DEF CreatorIsAlone, Begin, Unused, At, HasSession
<1>2. ASSUME NEW g \in Handler, NEW f \in Handler, At(g, "createSession")',
             At(f, "createSession")', job'[f].session = job'[g].session
      PROVE  g = f
  <2>1. CASE At(g, "createSession") /\ job'[g].session = job[g].session
             /\ At(f, "createSession") /\ job'[f].session = job[f].session
    BY <1>2, <1>t, <2>1 DEF CreatorIsAlone
  <2>2. ASSUME NEW s \in Session, NEW document \in BOOLEAN, NEW h \in Handler,
               NEW k \in Handler, At(h, "createSession")', At(k, "createSession")',
               Begin(h, s, document), job'[h].session = s, job'[k].session = s
        PROVE  h = k
    <3>1. k # h => job'[k] = job[k]
      BY <1>t, <2>2, OneMoves, Apart DEF Begin
    <3> QED
      BY <2>2, <3>1 DEF Begin, Unused, At
  <2> QED
    BY <1>2, <2>1, <2>2, Creators
<1>3. ASSUME NEW g \in Handler, At(g, "createSession")', NEW s, s = job'[g].session
      PROVE  ~HasSession(s)'
  <2>1. s \in Session /\ ~HasSession(s)
    BY <1>1, <1>3
  <2>2. SUFFICES ASSUME HasSession(s)'
                 PROVE  FALSE
    OBVIOUS
  <2>3. PICK h \in Handler : CreateSession(h) /\ job[h].session = s
    BY <2>1, <2>2, SessionStep
  <2>4. /\ At(h, "createSession")
        /\ h \in Job
        /\ job'[h] = [job[h] EXCEPT !.step = "createClaim"]
        /\ \A k \in Job : k # h => job'[k] = job[k]
    BY <1>t, <2>3, Apart DEF CreateSession, Go
  <2>5. job'[h].step # "createSession"
    <3>1. job[h] = [step |-> "createSession", session |-> job[h].session,
                    document |-> job[h].document]
      BY <1>t, <2>4, TypeParts, HandlerShape DEF At
    <3> QED
      BY <2>4, <3>1
  <2>6. g # h /\ job'[g] = job[g]
    BY <1>3, <2>4, <2>5, Apart DEF At
  <2> QED
    BY <1>3, <1>t, <2>3, <2>4, <2>6 DEF CreatorIsAlone, At
<1> QED
  BY <1>2, <1>3 DEF CreatorIsAlone, At, HasSession

LEMMA CoreStep ==
    ASSUME Core, [Next]_<<vars, lost, overtaken>>
    PROVE  Core'
<1>1. CASE Next
  <2>1. JobsFit'
    BY <1>1, HandlerJobsFit, WorkflowJobsFit, RequestJobsFit, TriggerJobsFit, OtherJobsFit
       DEF Next, UsualStep, UnusualStep, TriggerStep
  <2> QED
    BY <1>1, <2>1, StepKeepsType, SessionStep, CreatorsStayAlone DEF Core
<1>2. CASE UNCHANGED <<vars, lost, overtaken>>
  BY <1>2, StepKeepsType DEF Core, JobsFit, JobFits, CreatorIsAlone, SessionsFit,
     HasSession, vars, rows, onchain, At
<1> QED
  BY <1>1, <1>2

LEMMA CoreAtStart == Init => Core
<1> SUFFICES ASSUME Init
             PROVE  Core
  OBVIOUS
<1>1. /\ DOMAIN job = Job
      /\ \A j \in Job : job[j] = Idle
      /\ Idle.step = "idle"
  BY DEF Init, Idle
<1>2. TypeOK
  <2>1. profile \in Status /\ SessionType /\ ClaimsType /\ PolicyType /\ ChainType
    BY DEF Init, Status, SessionType, ClaimsType, ClaimRow, PolicyType, ChainType
  <2>2. JobTypes /\ UpgradeHasRow
    BY <1>1, Apart DEF JobTypes, HandlerJob, WorkflowJob, UpgradeHasRow, At
  <2> QED
    BY <2>1, <2>2, TypeParts
<1>3. JobsFit
  BY <1>1, IdleFits DEF JobsFit
<1>4. CreatorIsAlone
  BY <1>1, Apart DEF CreatorIsAlone, At
<1>5. SessionsFit
  BY DEF Init, SessionsFit, HasSession
<1> QED
  BY <1>1, <1>2, <1>3, <1>4, <1>5 DEF Core

(* What each job and session says of the others and of the chain, at every *)
(* await of every handler and workflow (main.ts:39-78,                     *)
(* webhooks.service.ts:121-185, cre.controller.ts:40-143).                 *)
THEOREM CoreHolds == Spec => []Core
<1> QED
  BY CoreAtStart, CoreStep, PTL DEF Spec

(* Rows and jobs keep their shape, whatever interleaves and whatever is    *)
(* lost: a job past the webhook has a verdict, and an upgrade only ever    *)
(* finds a row (webhooks.service.ts:135-185, cre.controller.ts:100-143).   *)
THEOREM TypeCorrect == Spec => []TypeOK
BY CoreHolds, PTL DEF Core

-----------------------------------------------------------------------------
(* What happens to a claim row in a step.                                  *)
LEMMA ClaimWrites ==
    ASSUME Next
    PROVE  \/ UNCHANGED claim
           \/ \E h \in Handler : CreateClaim(h) \/ MarkClaim(h)
           \/ \E j \in Job : RecordClaim(j) \/ SyncClaim(j)
<1> USE DEF rows, onchain
<1>1. ASSUME NEW h \in Handler, NewRequest(h)
      PROVE  UNCHANGED claim
  BY <1>1 DEF NewRequest, StartVerification, StartWithDocument, Begin, ReceiveVerdict,
     InjectMockAiResult, AcceptVerdict, SetupWallet, GetPolicy
<1>2. ASSUME NEW h \in Handler, HandlerStep(h)
      PROVE  UNCHANGED claim \/ CreateClaim(h) \/ MarkClaim(h) \/ SyncClaim(h)
  BY <1>2 DEF HandlerStep, CreateSession, SubmitInference, SyncSubmit, AdapterSync,
     SyncProfile, Complete, ReadPolicyRow, ReadKycClaim, UpgradeStaleRow
<1>3. ASSUME NEW w \in Workflow, WorkflowStep(w)
      PROVE  UNCHANGED claim \/ RecordClaim(w)
  BY <1>3 DEF WorkflowStep, FetchResult, SubmitClaim, SyncPassport, Recalculate,
     SaveProfile, ReadPolicy, UpgradePolicy, BlockWallet, Complete
<1>4. ASSUME NEW h \in Handler, TriggerStep(h)
      PROVE  UNCHANGED claim
  BY <1>4 DEF TriggerStep, Trigger
<1>5. CASE UnusualStep
  BY <1>5 DEF UnusualStep, ReceiveUnaddressed, AcceptVerdict, BeginSync, Lose
<1>6. CASE UsualStep
  BY <1>1, <1>2, <1>3, <1>4, <1>6, Apart DEF UsualStep
<1> QED
  BY <1>5, <1>6 DEF Next

LEMMA ClaimStep ==
    ASSUME Core, Next, NEW t \in ClaimType
    PROVE  \/ claim'[t].status = claim[t].status
           \/ \E h \in Handler :
                /\ CreateClaim(h)
                /\ t = TypeOf(job[h].session) /\ job[h].session \in Session
                /\ claim'[t].status = "PENDING"
           \/ \E h \in Handler :
                /\ MarkClaim(h)
                /\ t = TypeOf(job[h].session) /\ job[h].session \in Session
                /\ claim'[t].status = "PROCESSING"
           \/ \E j \in Job :
                /\ RecordClaim(j) \/ SyncClaim(j)
                /\ t = TypeOf(job[j].session) /\ job[j].session \in Session
                /\ job[j].verdict \in BOOLEAN
                /\ <<job[j].session, job[j].verdict>> \in Sent
                /\ claim'[t].status = Final(job[j].verdict)
<1>t. claim \in [ClaimType -> ClaimRow] /\ TypeOK /\ JobsFit
  BY TypeParts DEF Core, ClaimsType
<1>1. ASSUME NEW h \in Handler, CreateClaim(h), claim'[t].status # claim[t].status
      PROVE  /\ t = TypeOf(job[h].session) /\ job[h].session \in Session
             /\ claim'[t].status = "PENDING"
  <2>1. job[h].session \in Session
    BY <1>1, <1>t, JobFields, Apart DEF CreateClaim, At, Opening
  <2> QED
    BY <1>1, <1>t, <2>1 DEF CreateClaim
<1>2. ASSUME NEW h \in Handler, MarkClaim(h), claim'[t].status # claim[t].status
      PROVE  /\ t = TypeOf(job[h].session) /\ job[h].session \in Session
             /\ claim'[t].status = "PROCESSING"
  <2>1. job[h].session \in Session
    BY <1>2, <1>t, JobFields, Apart DEF MarkClaim, At, Judged
  <2> QED
    BY <1>2, <1>t, <2>1 DEF MarkClaim
<1>3. ASSUME NEW j \in Job, RecordClaim(j) \/ SyncClaim(j),
             claim'[t].status # claim[t].status
      PROVE  /\ t = TypeOf(job[j].session) /\ job[j].session \in Session
             /\ job[j].verdict \in BOOLEAN
             /\ <<job[j].session, job[j].verdict>> \in Sent
             /\ claim'[t].status = Final(job[j].verdict)
  <2>1. job[j].step \in Judged /\ job[j].step \in Carrying /\ job[j].step \in Submitted
    BY <1>3 DEF RecordClaim, SyncClaim, At, Judged, Carrying, Submitted
  <2>2. job[j].session \in Session /\ job[j].verdict \in BOOLEAN
        /\ <<job[j].session, job[j].verdict>> \in Sent
    BY <2>1, <1>t, JobFields DEF JobsFit, JobFits, Sent
  <2> DEFINE c == TypeOf(job[j].session)
  <2>3. c \in ClaimType
    BY <2>2, RowTypes
  <2>4. /\ claim'[c].status = Final(job[j].verdict)
        /\ \A u \in ClaimType : u # c => claim'[u] = claim[u]
    <3>1. CASE RecordClaim(j)
      <4>1. claim' = [claim EXCEPT ![c].status = Final(job[j].verdict)]
        BY <3>1 DEF RecordClaim
      <4>2. claim[c] \in ClaimRow
        BY <1>t, <2>3
      <4> HIDE DEF c
      <4> QED
        BY <1>t, <2>3, <4>1, <4>2 DEF ClaimRow
    <3>2. CASE SyncClaim(j)
      <4>1. PICK s : claim' = [claim EXCEPT ![c] = [status |-> Final(job[j].verdict),
                                                    session |-> s]]
        BY <3>2 DEF SyncClaim
      <4> HIDE DEF c
      <4> QED
        BY <1>t, <2>3, <4>1
    <3> QED
      BY <1>3, <3>1, <3>2
  <2> HIDE DEF c
  <2>5. t = c
    BY <1>3, <2>4
  <2> QED
    BY <2>2, <2>4, <2>5 DEF c
<1> QED
  BY <1>1, <1>2, <1>3, ClaimWrites

LEMMA Verdicts ==
    \A v \in BOOLEAN, u \in BOOLEAN :
        /\ Final(v) = Final(u) => v = u
        /\ Final(v) \notin {"NONE", "PENDING", "PROCESSING"}
BY DEF Final

LEMMA RowsFollowStep ==
    ASSUME Core, RowsFollowTheChain, [Next]_<<vars, lost, overtaken>>
    PROVE  RowsFollowTheChain'
<1>1. CASE UNCHANGED <<vars, lost, overtaken>>
  BY <1>1 DEF RowsFollowTheChain, vars, rows, onchain
<1>2. CASE Next
  <2>0. /\ session \in [Session -> {NoSession} \cup SessionRow]
        /\ TypeOK /\ JobsFit
        /\ Sent \subseteq Sent'
        /\ (synced \cup reverted) \subseteq (synced \cup reverted)'
    BY <1>2, TypeParts, ChainStep DEF Core, SessionType
  <2>1. ASSUME NEW s \in Session, session'[s] # NoSession, session'[s].status = "COMPLETED"
        PROVE  \E v \in BOOLEAN : <<s, v>> \in (synced \cup reverted)'
    <3>1. CASE session'[s] = session[s]
      BY <2>0, <2>1, <3>1 DEF RowsFollowTheChain
    <3>2. ASSUME NEW h \in Handler, CreateSession(h)
          PROVE  session'[s] = session[s]
      BY <2>0, <2>1, <3>2 DEF CreateSession
    <3>3. ASSUME NEW h \in Handler, NEW r \in Session, NEW v \in BOOLEAN,
                 AcceptVerdict(h, r, v)
          PROVE  session'[s] = session[s]
      BY <2>0, <2>1, <3>3 DEF AcceptVerdict
    <3>4. ASSUME NEW j \in Job, Complete(j), session'[s] # session[s]
          PROVE  \E v \in BOOLEAN : <<s, v>> \in (synced \cup reverted)'
      <4>1. /\ job[j].step \in Judged /\ job[j].step \in Carrying
            /\ job[j].step \in Synced
        BY <3>4 DEF Complete, At, Judged, Carrying, Submitted, Synced
      <4>2. /\ session' = [session EXCEPT ![job[j].session].status = "COMPLETED"]
            /\ s = job[j].session
        BY <2>0, <3>4 DEF Complete
      <4>3. job[j].verdict \in BOOLEAN /\ <<s, job[j].verdict>> \in synced \cup reverted
        BY <2>0, <4>1, <4>2, JobFields DEF JobsFit, JobFits
      <4> QED
        BY <2>0, <4>3
    <3> QED
      BY <1>2, <3>1, <3>2, <3>3, <3>4, SessionWrites
  <2>2. ASSUME NEW t \in ClaimType, NEW v \in BOOLEAN, claim'[t].status = Final(v)
        PROVE  \E s \in Session : TypeOf(s) = t /\ <<s, v>> \in Sent'
    <3>1. CASE claim'[t].status = claim[t].status
      BY <2>0, <2>2, <3>1 DEF RowsFollowTheChain, Sent
    <3>2. claim'[t].status \notin {"PENDING", "PROCESSING"}
      BY <2>2, Verdicts
    <3>3. ASSUME NEW j \in Job, job[j].verdict \in BOOLEAN,
                 claim'[t].status = Final(job[j].verdict),
                 t = TypeOf(job[j].session), job[j].session \in Session,
                 <<job[j].session, job[j].verdict>> \in Sent
          PROVE  \E s \in Session : TypeOf(s) = t /\ <<s, v>> \in Sent'
      <4>1. v = job[j].verdict
        BY <2>2, <3>3, Verdicts
      <4> QED
        BY <2>0, <3>3, <4>1
    <3> QED
      BY <1>2, <3>1, <3>2, <3>3, ClaimStep
  <2> QED
    BY <2>1, <2>2 DEF RowsFollowTheChain, Sent
<1> QED
  BY <1>1, <1>2

(* The rows never run ahead of what was sent, for any number of sessions,  *)
(* handlers and workflows and whatever is repeated, lost or reordered, and *)
(* ahead of the chain only by transactions that reverted unnoticed: a row  *)
(* is written only by a job that sent the very verdict (main.ts:39-78,     *)
(* cre.controller.ts:53-63, 133-143, verification.service.ts:271-345,      *)
(* contracts-client.ts:134, 171).                                          *)
THEOREM RowsFollow == Spec => []RowsFollowTheChain
<1>1. Init => RowsFollowTheChain
  BY Verdicts DEF Init, RowsFollowTheChain
<1> QED
  BY <1>1, CoreHolds, RowsFollowStep, PTL DEF Spec

-----------------------------------------------------------------------------
(* While nothing is lost and nobody falls back, a job moves by its own     *)
(* next step only, and nobody syncs but the workflows.                     *)
NoFallback ==
    ~lost => \A h \in Handler :
        job[h].step \notin {"syncSubmit", "syncClaim", "adapterSync", "syncProfile"}

LEMMA MovesItself ==
    ASSUME Core, Next, ~lost', NEW j \in Job, job[j].step # "idle", job'[j] # job[j]
    PROVE  \/ j \in Handler /\ (HandlerStep(j) \/ \E w \in Workflow : Trigger(j, w))
           \/ j \in Workflow /\ WorkflowStep(j)
<1>t. DOMAIN job = Job
  BY DEF Core
<1>1. ASSUME NEW k \in Job, NEW x, Do(k, x), k # j
      PROVE  FALSE
  BY <1>1, OneMoves DEF Core
<1>2. ASSUME NEW k \in Job, NEW step, Go(k, step), k # j
      PROVE  FALSE
  BY <1>2, <1>t DEF Go
<1>3. ASSUME NEW h \in Handler, NewRequest(h)
      PROVE  FALSE
  <2>1. At(h, "idle") /\ \E x : Do(h, x)
    BY <1>3 DEF NewRequest, StartVerification, StartWithDocument, Begin, ReceiveVerdict,
       InjectMockAiResult, AcceptVerdict, SetupWallet, GetPolicy
  <2> QED
    BY <1>1, <2>1, Apart DEF At
<1>4. ASSUME NEW h \in Handler, HandlerStep(h), h # j
      PROVE  FALSE
  BY <1>1, <1>2, <1>4, Apart DEF HandlerStep, CreateSession, CreateClaim,
     SubmitInference, MarkClaim, SyncSubmit, SyncClaim, AdapterSync, SyncProfile, Complete,
     ReadPolicyRow, ReadKycClaim, UpgradeStaleRow
<1>5. ASSUME NEW w \in Workflow, WorkflowStep(w), w # j
      PROVE  FALSE
  BY <1>1, <1>2, <1>5, Apart DEF WorkflowStep, FetchResult, SubmitClaim, SyncPassport,
     RecordClaim, Recalculate, SaveProfile, ReadPolicy, UpgradePolicy, BlockWallet, Complete
<1>6. ASSUME NEW h \in Handler, NEW w \in Workflow, Trigger(h, w), h # j
      PROVE  FALSE
  <2>1. At(w, "idle")
    BY <1>6 DEF Trigger
  <2>2. w = j
    BY <1>6, TriggerMoves
  <2> QED
    BY <2>1, <2>2 DEF At
<1>7. UsualStep
  BY DEF Next
<1> QED
  BY <1>3, <1>4, <1>5, <1>6, <1>7 DEF UsualStep, TriggerStep

(* How a handler gets to a step it was not at.                             *)
LEMMA HandlerMoves ==
    ASSUME Core, NoFallback, Next, ~lost, ~lost', NEW h \in Handler, job'[h] # job[h]
    PROVE  /\ job'[h].step \notin {"syncSubmit", "syncClaim", "adapterSync", "syncProfile"}
           /\ job'[h].step = "createClaim" => CreateSession(h)
<1> DEFINE Fits == /\ job'[h].step \notin {"syncSubmit", "syncClaim", "adapterSync",
                                           "syncProfile"}
                   /\ job'[h].step = "createClaim" => CreateSession(h)
<1>t. /\ DOMAIN job = Job /\ h \in Job /\ JobTypes
      /\ job[h].step \notin {"syncSubmit", "syncClaim", "adapterSync", "syncProfile"}
  BY TypeParts, Apart DEF Core, NoFallback
<1>1. ASSUME NEW k \in Job, NEW x, Do(k, x), x.step \in {"idle", "createSession",
             "markClaim", "policyRow"}
      PROVE  Fits
  <2>1. job'[h] = x
    BY <1>1, <1>t, OneMoves
  <2> QED
    BY <1>1, <2>1
<1>2. Idle.step = "idle"
  BY DEF Idle
<1>3. ASSUME NEW g \in Handler, NewRequest(g)
      PROVE  Fits
  <2>1. ASSUME NEW s \in Session, NEW document \in BOOLEAN, Begin(g, s, document)
        PROVE  Fits
    BY <1>1, <2>1, Apart DEF Begin
  <2>2. ASSUME NEW s \in Session, NEW v \in BOOLEAN, AcceptVerdict(g, s, v)
        PROVE  Fits
    BY <1>1, <2>2, Apart DEF AcceptVerdict
  <2>3. CASE GetPolicy(g)
    BY <1>1, <2>3, Apart DEF GetPolicy
  <2> QED
    BY <1>3, <2>1, <2>2, <2>3 DEF NewRequest, StartVerification, StartWithDocument,
       ReceiveVerdict, InjectMockAiResult, SetupWallet
<1>4. ASSUME NEW g \in Handler, HandlerStep(g)
      PROVE  Fits
  <2>1. g = h /\ g \in Job
    <3>1. \/ \E x : Do(g, x)
          \/ \E step : Go(g, step)
      BY <1>4 DEF HandlerStep, CreateSession, CreateClaim, SubmitInference, MarkClaim,
         SyncSubmit, SyncClaim, AdapterSync, SyncProfile, Complete, ReadPolicyRow,
         ReadKycClaim, UpgradeStaleRow
    <3> QED
      BY <3>1, <1>t, OneMoves, Apart DEF Go
  <2>2. \/ Do(h, Idle)
        \/ Go(h, "createClaim") /\ CreateSession(h)
        \/ \E step \in {"submitInference", "trigger", "policyClaim", "policyUpgrade"} :
              Go(h, step) /\ job[h].step \in {"createClaim", "markClaim", "policyRow",
                                               "policyClaim"}
    BY <1>t, <1>4, <2>1 DEF HandlerStep, CreateSession, CreateClaim, SubmitInference,
       MarkClaim, SyncSubmit, SyncClaim, AdapterSync, SyncProfile, Complete, At,
       ReadPolicyRow, ReadKycClaim, UpgradeStaleRow
  <2>3. CASE Do(h, Idle)
    BY <1>1, <1>2, <1>t, <2>3
  <2>4. ASSUME NEW step, Go(h, step),
               job[h].step \in {"createSession", "createClaim", "markClaim", "policyRow",
                                "policyClaim"}
        PROVE  job'[h].step = step
    <3>1. Do(h, [job[h] EXCEPT !.step = step])
      BY <1>t, <2>4, GoingOn
    <3>2. [job[h] EXCEPT !.step = step].step = step
      BY <1>t, <2>4, HandlerShape DEF Opening
    <3> QED
      BY <1>t, <3>1, <3>2, OneMoves
  <2> QED
    BY <2>2, <2>3, <2>4 DEF CreateSession, At
<1>5. ASSUME NEW w \in Workflow, WorkflowStep(w)
      PROVE  FALSE
  <2>1. \/ \E x : Do(w, x)
        \/ \E step : Go(w, step)
    BY <1>5 DEF WorkflowStep, FetchResult, SubmitClaim, SyncPassport, RecordClaim,
       Recalculate, SaveProfile, ReadPolicy, UpgradePolicy, BlockWallet, Complete
  <2> QED
    BY <2>1, <1>t, OneMoves, Apart DEF Go
<1>6. ASSUME NEW g \in Handler, NEW w \in Workflow, Trigger(g, w)
      PROVE  Fits
  <2>1. g = h /\ job'[h] = Idle
    BY <1>6, <1>t, TriggerMoves, Apart
  <2> QED
    BY <1>2, <2>1
<1>7. UsualStep
  BY DEF Next
<1> QED
  BY <1>3, <1>4, <1>5, <1>6, <1>7 DEF UsualStep, TriggerStep

LEMMA NoFallbackStep ==
    ASSUME Core, NoFallback, Next
    PROVE  NoFallback'
<1>1. SUFFICES ASSUME ~lost', NEW h \in Handler
               PROVE  job'[h].step \notin {"syncSubmit", "syncClaim", "adapterSync",
                                           "syncProfile"}
  BY DEF NoFallback
<1>2. ~lost
  BY <1>1 DEF Next
<1> QED
  BY <1>1, <1>2, HandlerMoves DEF NoFallback

LEMMA OpenedIsPendingStep ==
    ASSUME Core, NoFallback, OpenedIsPending, Next
    PROVE  OpenedIsPending'
<1>1. SUFFICES ASSUME ~lost', NEW h \in Handler, job'[h].step = "createClaim"
               PROVE  session'[job'[h].session].status = "PENDING"
  BY DEF OpenedIsPending, At
<1>t. /\ ~lost /\ h \in Job /\ DOMAIN job = Job /\ JobTypes /\ JobsFit /\ TypeOK
      /\ session \in [Session -> {NoSession} \cup SessionRow]
  BY <1>1, TypeParts, Apart DEF Core, Next, SessionType
<1>2. CASE job'[h] = job[h]
  <2>1. /\ job[h].step = "createClaim"
        /\ session[job[h].session].status = "PENDING"
        /\ Starting(job[h].session)
    BY <1>1, <1>2, <1>t DEF OpenedIsPending, At, Starting
  <2>2. job[h].session \in Session /\ HasSession(job[h].session)
    BY <1>t, <2>1, JobFields DEF JobsFit, JobFits, Opening
  <2> QED
    BY <1>1, <1>2, <2>1, <2>2, SessionStep DEF SessionGrows
<1>3. CASE job'[h] # job[h]
  <2>1. CreateSession(h)
    BY <1>1, <1>3, <1>t, HandlerMoves
  <2>2. Do(h, [job[h] EXCEPT !.step = "createClaim"])
    BY <1>t, <2>1, GoingOn DEF CreateSession
  <2>3. /\ [job[h] EXCEPT !.step = "createClaim"].session = job[h].session
        /\ job[h].session \in Session
    <3>1. job[h] = [step |-> "createSession", session |-> job[h].session,
                    document |-> job[h].document]
          /\ job[h].session \in Session
      BY <1>t, <2>1, HandlerShape DEF CreateSession, At
    <3> QED
      BY <3>1
  <2>4. job'[h].session = job[h].session
    BY <1>t, <2>2, <2>3, OneMoves
  <2> QED
    BY <1>t, <2>1, <2>3, <2>4 DEF CreateSession
<1> QED
  BY <1>2, <1>3

(* A session on its way to the claim row stays on it until the row is      *)
(* written.                                                                *)
LEMMA OnTheWayStep ==
    ASSUME Core, Next, ~lost', NEW s, OnTheWay(s)
    PROVE  OnTheWay(s)' \/ \E w \in Workflow : RecordClaim(w) /\ job[w].session = s
<1>1. PICK j \in Job : job[j].step \in Unfinished /\ job[j].session = s
  BY DEF OnTheWay
<1>t. DOMAIN job = Job /\ JobTypes
  BY TypeParts DEF Core
<1>2. CASE job'[j] = job[j]
  BY <1>1, <1>2 DEF OnTheWay
<1>3. ASSUME NEW x, Do(j, x), x.step \in Unfinished, x.session = s
      PROVE  OnTheWay(s)'
  BY <1>3, <1>t, OneMoves DEF OnTheWay
<1>4. CASE job'[j] # job[j]
  <2>1. job[j].step # "idle"
    BY <1>1 DEF Unfinished
  <2>2. CASE j \in Handler /\ HandlerStep(j)
    <3>1. job[j].step \in {"markClaim", "trigger"}
      BY <1>1, <1>t, <2>2, HandlerShape DEF Unfinished
    <3>2. MarkClaim(j)
      BY <2>2, <3>1 DEF HandlerStep, CreateSession, CreateClaim, SubmitInference,
         SyncSubmit, SyncClaim, AdapterSync, SyncProfile, Complete, At, ReadPolicyRow,
         ReadKycClaim, UpgradeStaleRow
    <3>3. Do(j, [job[j] EXCEPT !.step = "trigger"])
      BY <1>t, <3>2, GoingOn DEF MarkClaim
    <3>4. /\ [job[j] EXCEPT !.step = "trigger"].step = "trigger"
          /\ [job[j] EXCEPT !.step = "trigger"].session = s
      BY <1>1, <1>t, <2>2, <3>1, HandlerShape
    <3> QED
      BY <1>3, <3>3, <3>4 DEF Unfinished
  <2>3. ASSUME NEW w \in Workflow, j \in Handler, Trigger(j, w)
        PROVE  OnTheWay(s)'
    <3>1. job'[w] = [step |-> "fetch", session |-> s] /\ w \in Job
      BY <1>1, <2>3, TriggerMoves
    <3>2. job'[w].step = "fetch" /\ job'[w].session = s
      BY <3>1
    <3> QED
      BY <3>1, <3>2 DEF OnTheWay, Unfinished
  <2>4. CASE j \in Workflow /\ WorkflowStep(j)
    <3>1. job[j].step \in {"fetch", "submit", "syncPassport", "recordClaim"}
      BY <1>1, <1>t, <2>4, WorkflowShape DEF Unfinished
    <3>2. FetchResult(j) \/ SubmitClaim(j) \/ SyncPassport(j) \/ RecordClaim(j)
      BY <2>4, <3>1 DEF WorkflowStep, Recalculate, SaveProfile, ReadPolicy, UpgradePolicy,
         BlockWallet, Complete, At
    <3>3. CASE FetchResult(j)
      <4>1. Do(j, Result(s, "submit"))
        BY <1>1, <3>3 DEF FetchResult
      <4>2. Result(s, "submit").step = "submit" /\ Result(s, "submit").session = s
        BY DEF Result
      <4> QED
        BY <1>3, <4>1, <4>2 DEF Unfinished
    <3>4. ASSUME NEW step \in {"syncPassport", "recordClaim"}, Go(j, step),
                 job[j].step \in {"submit", "syncPassport"}
          PROVE  OnTheWay(s)'
      <4>1. Do(j, [job[j] EXCEPT !.step = step])
        BY <1>t, <3>4, GoingOn
      <4>2. /\ [job[j] EXCEPT !.step = step].step = step
            /\ [job[j] EXCEPT !.step = step].session = s
        BY <1>1, <1>t, <2>4, <3>4, WorkflowShape
      <4> QED
        BY <1>3, <4>1, <4>2 DEF Unfinished
    <3> QED
      BY <1>1, <2>4, <3>2, <3>3, <3>4 DEF SubmitClaim, SyncPassport, At
  <2> QED
    BY <1>4, <2>1, <2>2, <2>3, <2>4, MovesItself
<1> QED
  BY <1>2, <1>4

LEMMA NoneIsBegunStep ==
    ASSUME Core, NoneIsBegun, Next
    PROVE  NoneIsBegun'
<1>1. SUFFICES ASSUME ~lost', NEW s \in Session, HasSession(s)',
                      claim'[TypeOf(s)].status = "NONE"
               PROVE  \E h \in Handler : job'[h].step = "createClaim" /\ job'[h].session = s
  BY DEF NoneIsBegun, At, HasSession
<1>t. /\ DOMAIN job = Job /\ JobTypes /\ TypeOf(s) \in ClaimType /\ ~lost
      /\ claim \in [ClaimType -> ClaimRow]
  BY <1>1, TypeParts, RowTypes DEF Core, Next, ClaimsType
<1>2. CASE ~HasSession(s)
  <2>1. PICK h \in Handler : CreateSession(h) /\ job[h].session = s
    BY <1>1, <1>2, SessionStep
  <2>2. Do(h, [job[h] EXCEPT !.step = "createClaim"])
    BY <1>t, <2>1, GoingOn, Apart DEF CreateSession
  <2>3. /\ [job[h] EXCEPT !.step = "createClaim"].step = "createClaim"
        /\ [job[h] EXCEPT !.step = "createClaim"].session = s
    BY <1>t, <2>1, HandlerShape DEF CreateSession, At
  <2> QED
    BY <1>t, <2>2, <2>3, OneMoves, Apart
<1>3. CASE HasSession(s)
  <2>1. claim[TypeOf(s)].status = "NONE"
    BY <1>1, <1>t, ClaimStep, Verdicts
  <2>2. PICK h \in Handler : At(h, "createClaim") /\ job[h].session = s
    BY <1>t, <1>3, <2>1 DEF NoneIsBegun
  <2>3. job'[h] = job[h]
    <3>1. SUFFICES ASSUME job'[h] # job[h]
                   PROVE  FALSE
      OBVIOUS
    <3>2. HandlerStep(h)
      <4>1. \A w \in Workflow : ~Trigger(h, w)
        BY <2>2 DEF Trigger, At
      <4> QED
        BY <1>1, <2>2, <3>1, <4>1, MovesItself, Apart DEF At
    <3>3. CreateClaim(h)
      BY <2>2, <3>2 DEF HandlerStep, CreateSession, SubmitInference, MarkClaim,
         SyncSubmit, SyncClaim, AdapterSync, SyncProfile, Complete, At, ReadPolicyRow,
         ReadKycClaim, UpgradeStaleRow
    <3>4. claim'[TypeOf(s)].status = "PENDING"
      BY <1>t, <2>2, <3>3 DEF CreateClaim
    <3> QED
      BY <1>1, <3>4
  <2> QED
    BY <2>2, <2>3 DEF At
<1> QED
  BY <1>2, <1>3

(* A session that waits for the attester waits on, or has its verdict      *)
(* taken up by the handler of the webhook.                                 *)
LEMMA WaitingStep ==
    ASSUME Core, Next, NEW s \in Session, HasSession(s), session[s].status = "PENDING"
    PROVE  session'[s].status = "PENDING" \/ OnTheWay(s)'
<1>t. /\ DOMAIN job = Job /\ TypeOK /\ JobsFit /\ CreatorIsAlone
      /\ session \in [Session -> {NoSession} \cup SessionRow]
  BY TypeParts DEF Core, SessionType
<1>1. ASSUME NEW h \in Handler, CreateSession(h)
      PROVE  session'[s] = session[s]
  BY <1>1, <1>t DEF CreateSession, CreatorIsAlone, At
<1>2. ASSUME NEW h \in Handler, NEW r \in Session, NEW v \in BOOLEAN, AcceptVerdict(h, r, v)
      PROVE  session'[s] = session[s] \/ OnTheWay(s)'
  <2>1. CASE r # s
    BY <1>2, <1>t, <2>1 DEF AcceptVerdict
  <2>2. CASE r = s
    <3>1. Do(h, [step |-> "markClaim", session |-> s]) /\ h \in Job
      BY <1>2, <2>2, Apart DEF AcceptVerdict
    <3>2. job'[h] = [step |-> "markClaim", session |-> s]
      BY <1>t, <3>1, OneMoves
    <3>3. job'[h].step = "markClaim" /\ job'[h].session = s
      BY <3>2
    <3> QED
      BY <3>1, <3>3 DEF OnTheWay, Unfinished
  <2> QED
    BY <2>1, <2>2
<1>3. ASSUME NEW j \in Job, Complete(j)
      PROVE  session'[s] = session[s]
  <2>1. session[job[j].session].status # "PENDING"
    BY <1>3, <1>t DEF Complete, At, JobsFit, JobFits, Judged
  <2> QED
    BY <1>3, <1>t, <2>1 DEF Complete
<1> QED
  BY <1>1, <1>2, <1>3, SessionWrites

LEMMA OpenIsMovingStep ==
    ASSUME Core, OpenedIsPending, OpenIsMoving, Next
    PROVE  OpenIsMoving'
<1>1. SUFFICES ASSUME ~lost', NEW t \in ClaimType, Open(t)'
               PROVE  \E s \in Session : /\ TypeOf(s) = t
                                         /\ HasSession(s)'
                                         /\ session'[s].status = "PENDING" \/ OnTheWay(s)'
  BY DEF OpenIsMoving
<1>t. /\ DOMAIN job = Job /\ JobTypes /\ JobsFit /\ ~lost
      /\ claim \in [ClaimType -> ClaimRow]
  BY <1>1, TypeParts DEF Core, Next, ClaimsType
<1>2. CASE claim'[t].status = claim[t].status
  <2>1. PICK s \in Session : /\ TypeOf(s) = t
                             /\ HasSession(s)
                             /\ session[s].status = "PENDING" \/ OnTheWay(s)
    BY <1>1, <1>t, <1>2 DEF OpenIsMoving, Open
  <2>2. HasSession(s)'
    BY <2>1, SessionStep DEF SessionGrows
  <2>3. ASSUME NEW w \in Workflow, RecordClaim(w), job[w].session = s
        PROVE  FALSE
    <3>1. job[w].verdict \in BOOLEAN
      BY <1>t, <2>3, WorkflowShape DEF RecordClaim, At
    <3>2. claim' = [claim EXCEPT ![t].status = Final(job[w].verdict)]
      BY <2>1, <2>3 DEF RecordClaim
    <3>3. claim'[t].status = Final(job[w].verdict)
      BY <1>t, <3>2 DEF ClaimRow
    <3> QED
      BY <1>1, <3>1, <3>3, Verdicts DEF Open
  <2> QED
    BY <1>1, <2>1, <2>2, <2>3, WaitingStep, OnTheWayStep
<1>3. ASSUME NEW h \in Handler, CreateClaim(h), NEW s \in Session, s = job[h].session,
             t = TypeOf(s)
      PROVE  HasSession(s)' /\ session'[s].status = "PENDING"
  BY <1>1, <1>t, <1>3, Apart DEF CreateClaim, At, JobsFit, JobFits, Opening, HasSession,
     OpenedIsPending
<1>4. ASSUME NEW h \in Handler, MarkClaim(h), NEW s \in Session, s = job[h].session,
             t = TypeOf(s)
      PROVE  HasSession(s)' /\ OnTheWay(s)'
  <2>1. HasSession(s)'
    BY <1>t, <1>4, Apart DEF MarkClaim, At, JobsFit, JobFits, Judged, HasSession
  <2>2. Do(h, [job[h] EXCEPT !.step = "trigger"]) /\ h \in Job
    BY <1>t, <1>4, GoingOn, Apart DEF MarkClaim
  <2>3. /\ [job[h] EXCEPT !.step = "trigger"].step = "trigger"
        /\ [job[h] EXCEPT !.step = "trigger"].session = s
    BY <1>t, <1>4, HandlerShape DEF MarkClaim, At
  <2>4. job'[h].step = "trigger" /\ job'[h].session = s
    BY <1>t, <2>2, <2>3, OneMoves
  <2> QED
    BY <2>1, <2>2, <2>4 DEF OnTheWay, Unfinished
<1>5. ASSUME NEW j \in Job, job[j].verdict \in BOOLEAN,
             claim'[t].status = Final(job[j].verdict)
      PROVE  FALSE
  BY <1>1, <1>5, Verdicts DEF Open
<1> QED
  BY <1>2, <1>3, <1>4, <1>5, ClaimStep

(* The inductive invariant of SettledRowsAreFinal.                         *)
Settling == Core /\ NoFallback /\ NoneIsBegun /\ OpenedIsPending /\ OpenIsMoving

(* Until something is lost, every row that is not final has someone about  *)
(* to move it (verification.service.ts:130-149,                            *)
(* webhooks.service.ts:152-185).                                           *)
THEOREM SettlingHolds == Spec => []Settling
<1>1. Init => Settling
  BY CoreAtStart, IdleFits, Apart DEF Init, Settling, NoFallback, NoneIsBegun, OpenedIsPending,
     OpenIsMoving, HasSession, Open, Idle, At
<1>2. Settling /\ [Next]_<<vars, lost, overtaken>> => Settling'
  <2>1. CASE Next
    BY <2>1, CoreStep, NoFallbackStep, NoneIsBegunStep, OpenedIsPendingStep,
       OpenIsMovingStep DEF Settling
  <2>2. CASE UNCHANGED <<vars, lost, overtaken>>
    BY <2>2, CoreStep DEF Settling, NoFallback, NoneIsBegun, OpenedIsPending,
       OpenIsMoving, HasSession, Open, OnTheWay, At, vars, rows, onchain
  <2> QED
    BY <2>1, <2>2
<1> QED
  BY <1>1, <1>2, PTL DEF Spec

(* When everything has come to rest and nothing was lost, every claim row  *)
(* says what was sent for one of its sessions, in whatever order and       *)
(* however often verdicts came in: nothing between the handlers of the     *)
(* start, the webhook and the result can leave a row behind                *)
(* (verification.service.ts:130-149, webhooks.service.ts:135-185).         *)
THEOREM SettledRows == Spec => []SettledRowsAreFinal
<1>1. ASSUME Settling, RowsFollowTheChain
      PROVE  SettledRowsAreFinal
  <2>1. SUFFICES ASSUME Quiet, ~lost, NEW t \in ClaimType, NEW r \in Session,
                        TypeOf(r) = t, HasSession(r)
                 PROVE  \E s \in Session, v \in BOOLEAN :
                            /\ TypeOf(s) = t
                            /\ claim[t].status = Final(v)
                            /\ <<s, v>> \in chain \cup reverted
    BY DEF SettledRowsAreFinal, HasSession
  <2>2. claim[t].status \in {"NONE", "PENDING", "PROCESSING", "VERIFIED", "FAILED"}
    BY <1>1, TypeParts DEF Settling, Core, ClaimsType, ClaimRow
  <2>3. claim[t].status # "NONE"
    BY <1>1, <2>1, Apart DEF Settling, NoneIsBegun, Quiet, At
  <2>4. ~Open(t)
    <3>1. SUFFICES ASSUME Open(t)
                   PROVE  FALSE
      OBVIOUS
    <3>2. PICK s \in Session : /\ HasSession(s)
                               /\ session[s].status = "PENDING" \/ OnTheWay(s)
      BY <1>1, <2>1, <3>1 DEF Settling, OpenIsMoving
    <3> QED
      BY <2>1, <3>2 DEF Quiet, At, HasSession, OnTheWay, Unfinished
  <2>5. PICK v \in BOOLEAN : claim[t].status = Final(v)
    BY <2>2, <2>3, <2>4 DEF Open, Final
  <2>6. PICK s \in Session : TypeOf(s) = t /\ <<s, v>> \in chain \cup reverted
    BY <1>1, <2>5 DEF RowsFollowTheChain
  <2> QED
    BY <2>5, <2>6
<1> QED
  BY <1>1, SettlingHolds, RowsFollow, PTL

-----------------------------------------------------------------------------
LEMMA PassportIsRed ==
    claim["KYC_AML_VERIFIED"].status = "FAILED" /\ ~Open("ACCREDITED_INVESTOR")
        => PassportStatus = "RED"
BY DEF PassportStatus, Open

(* A workflow about to block the wallet gets there, unless the other claim *)
(* is open again.                                                          *)
LEMMA BlockingStep ==
    ASSUME Core, Next, ~lost', NEW w \in Workflow, Blocking(job[w]),
           claim["KYC_AML_VERIFIED"].status = "FAILED", ~Row!Blocked'
    PROVE  Blocking(job'[w]) \/ Open("ACCREDITED_INVESTOR")
<1>t. /\ DOMAIN job = Job /\ JobTypes /\ w \in Job
      /\ job[w].step \in {"recalculate", "block", "saveProfile"}
  BY TypeParts, Apart DEF Core, Blocking
<1>1. CASE job'[w] = job[w]
  BY <1>1 DEF Blocking
<1>2. CASE job'[w] # job[w]
  <2>1. WorkflowStep(w)
    BY <1>2, <1>t, MovesItself, Apart
  <2>2. Recalculate(w) \/ BlockWallet(w) \/ SaveProfile(w)
    BY <1>t, <2>1 DEF WorkflowStep, FetchResult, SubmitClaim, SyncPassport, RecordClaim,
       ReadPolicy, UpgradePolicy, Complete, At
  <2>3. CASE Recalculate(w)
    <3>1. PICK x : x = [step |-> "saveProfile", session |-> job[w].session,
                        verdict |-> job[w].verdict, status |-> PassportStatus]
      OBVIOUS
    <3>2. Do(w, x) /\ x.step = "saveProfile" /\ x.status = PassportStatus
      BY <2>3, <3>1 DEF Recalculate
    <3>3. job'[w] = x
      BY <1>t, <3>2, OneMoves
    <3> QED
      BY <3>2, <3>3, PassportIsRed DEF Blocking
  <2>4. CASE BlockWallet(w)
    <3>1. policy' = [status |-> "BLOCKED", limit |-> 0]
      BY <2>4 DEF BlockWallet, Row!BlockWallet
    <3>2. policy' # NoPolicy
      BY <3>1, PipelineAssumption DEF PipelineAssumption
    <3> QED
      BY <3>1, <3>2 DEF Row!Blocked, Row!HasStatus
  <2>5. CASE SaveProfile(w)
    <3>1. job[w].step = "saveProfile" /\ job[w].status = "RED"
      BY <2>5 DEF SaveProfile, At, Blocking
    <3>2. Go(w, "block")
      BY <2>5, <3>1 DEF SaveProfile
    <3>3. Do(w, [job[w] EXCEPT !.step = "block"])
      BY <1>t, <3>2, GoingOn
    <3>4. [job[w] EXCEPT !.step = "block"].step = "block"
      BY <1>t, <3>1, WorkflowShape
    <3> QED
      BY <1>t, <3>3, <3>4, OneMoves DEF Blocking
  <2> QED
    BY <2>2, <2>3, <2>4, <2>5
<1> QED
  BY <1>1, <1>2

LEMMA RecordingBlocks ==
    ASSUME Core, NEW w \in Workflow, RecordClaim(w)
    PROVE  Blocking(job'[w])
<1>t. /\ DOMAIN job = Job /\ JobTypes /\ w \in Job /\ job[w].step = "recordClaim"
  BY TypeParts, Apart DEF Core, RecordClaim, At
<1>1. Do(w, [job[w] EXCEPT !.step = "recalculate"])
  BY <1>t, GoingOn DEF RecordClaim
<1>2. [job[w] EXCEPT !.step = "recalculate"].step = "recalculate"
  BY <1>t, WorkflowShape
<1> QED
  BY <1>t, <1>1, <1>2, OneMoves DEF Blocking

LEMMA RejectionStep ==
    ASSUME Core, NoFallback, RejectionArrives, Next
    PROVE  RejectionArrives'
<1> DEFINE kyc == "KYC_AML_VERIFIED"
           other == "ACCREDITED_INVESTOR"
<1>1. SUFFICES ASSUME ~lost', ~overtaken', claim'[kyc].status = "FAILED", ~Row!Blocked'
               PROVE  (\E w \in Workflow : Blocking(job'[w])) \/ Open(other)'
  BY DEF RejectionArrives, Blocking, Open
<1>2. ~lost /\ claim \in [ClaimType -> ClaimRow] /\ ClaimType = {kyc, other}
  BY <1>1, TypeParts DEF Next, Core, ClaimsType, ClaimType
<1>3. ASSUME claim' = claim
      PROVE  (\E w \in Workflow : Blocking(job'[w])) \/ Open(other)'
  <2>1. ~overtaken /\ ~Row!Blocked
    BY <1>1, <1>3 DEF Next
  <2>2. (\E w \in Workflow : Blocking(job[w])) \/ Open(other)
    BY <1>1, <1>2, <1>3, <2>1 DEF RejectionArrives
  <2> QED
    BY <1>1, <1>3, <2>2, BlockingStep DEF Open
<1>4. ASSUME NEW h \in Handler, NEW s \in Session, NEW status \in {"PENDING", "PROCESSING"},
             claim' = [claim EXCEPT ![TypeOf(s)] = [status |-> status, session |-> s]]
      PROVE  Open(other)'
  <2>1. claim'[TypeOf(s)].status = status /\ TypeOf(s) \in ClaimType
    BY <1>2, <1>4, RowTypes
  <2>2. TypeOf(s) = other
    BY <1>1, <1>2, <2>1
  <2> QED
    BY <2>1, <2>2 DEF Open
<1>5. ASSUME NEW h \in Handler, CreateClaim(h) \/ MarkClaim(h)
      PROVE  Open(other)'
  <2>1. job[h].session \in Session
    BY <1>5, JobFields, Apart DEF Core, CreateClaim, MarkClaim, At, Opening, Judged
  <2> QED
    BY <1>4, <1>5, <2>1 DEF CreateClaim, MarkClaim
<1>6. ASSUME NEW j \in Job, RecordClaim(j) \/ SyncClaim(j)
      PROVE  \E w \in Workflow : Blocking(job'[w])
  <2>1. \A h \in Handler : ~SyncClaim(h)
    BY <1>2 DEF NoFallback, SyncClaim, At
  <2>2. \A h \in Handler : ~RecordClaim(h)
    BY TypeParts, HandlerShape DEF Core, RecordClaim, At
  <2>3. \A w \in Workflow : ~SyncClaim(w)
    BY TypeParts, WorkflowShape DEF Core, SyncClaim, At
  <2> QED
    BY <1>6, <2>1, <2>2, <2>3, RecordingBlocks DEF Job
<1> QED
  BY <1>3, <1>5, <1>6, ClaimWrites

(* A rejected KYC ends with the wallet blocked, for any number of          *)
(* verifications, of workflows and of readers of the policy, whatever is   *)
(* decided and decided again, unless an upgrade that read the row before   *)
(* the block was written after it (cre.controller.ts:89-131,               *)
(* wallet-policy.service.ts:36-47, 99-117).                                *)
THEOREM RejectedIsBlocked == Spec => []RejectionBlocks
<1>1. Init => RejectionArrives
  BY DEF Init, RejectionArrives, ClaimType
<1>2. Settling /\ RejectionArrives /\ [Next]_<<vars, lost, overtaken>> => RejectionArrives'
  <2>1. CASE Next
    BY <2>1, RejectionStep DEF Settling
  <2>2. CASE UNCHANGED <<vars, lost, overtaken>>
    BY <2>2 DEF RejectionArrives, Open, Blocking, Row!Blocked, Row!HasStatus, vars, rows,
       onchain
  <2> QED
    BY <2>1, <2>2
<1>3. ASSUME Settling, RejectionArrives
      PROVE  RejectionBlocks
  <2>1. SUFFICES ASSUME Quiet, ~lost, claim["KYC_AML_VERIFIED"].status = "FAILED",
                        ~Row!Blocked, ~overtaken
                 PROVE  FALSE
    BY DEF RejectionBlocks
  <2>2. Open("ACCREDITED_INVESTOR")
    BY <1>3, <2>1, Apart DEF RejectionArrives, Blocking, Quiet, At
  <2>3. PICK s \in Session : HasSession(s) /\ (session[s].status = "PENDING" \/ OnTheWay(s))
    BY <1>3, <2>1, <2>2 DEF Settling, OpenIsMoving, ClaimType
  <2> QED
    BY <2>1, <2>3 DEF Quiet, At, HasSession, OnTheWay, Unfinished
<1> QED
  BY <1>1, <1>2, <1>3, SettlingHolds, PTL DEF Spec
===============================================================================
