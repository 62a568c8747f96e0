---------------------------- MODULE HeroPageProofs ----------------------------
(***************************************************************************)
(* What HeroPage and the backend under it keep, for any wallets, agents,   *)
(* identities, handlers, attempts and mishaps.                             *)
(*                                                                         *)
(* The chain only grows: a wallet keeps its identity, a name stays bound,  *)
(* claims and latches are never taken back.  So what a job has seen of it  *)
(* stays true (Past), and what a transaction was sent for is done once the *)
(* key's queue holds it no more (SentFits).                                *)
(***************************************************************************)
EXTENDS HeroPage, SequenceTheorems, FiniteSetTheorems, TLAPS

-----------------------------------------------------------------------------
(* Shapes of jobs and of transactions                                      *)
Account == Wallet \cup Agent

JobRec ==
    [call : {"none", "provision", "linkAgent", "revoke"}, step : Backend!Step,
     account : Account \cup {NoIdentity}, identity : Identity \cup {NoIdentity},
     label : Label \cup {NoIdentity}, sent : BOOLEAN, tries : 0..(MaxAttempts - 1),
     green : BOOLEAN]

(* What the steps of each request need to be there.                        *)
Shaped(j) ==
    /\ j \in JobRec
    /\ j.sent => j.step \in Backend!Sending
    /\ j.call = "none" => j.step = "done"
    /\ j.call = "provision" =>
          /\ j.account \in Wallet /\ j.label \in Label
          /\ j.step \in {"check", "createIdentity", "readBack", "gasDrip", "bind", "done",
                         "failed"}
          /\ j.step \in {"gasDrip", "bind", "done"} => j.identity \in Identity
    /\ j.call = "linkAgent" =>
          /\ j.account \in Agent /\ j.label \in Label /\ j.identity \in Identity
          /\ j.step \in {"readAgent", "linkAgent", "bind", "setScore", "gasDrip", "mint",
                         "done", "failed"}
    /\ j.call = "revoke" =>
          /\ j.identity \in Identity
          /\ j.step \in {"setRevoked", "done", "failed"}

TxRec ==
    [call : Backend!Sending, account : Account \cup {NoIdentity},
     identity : Identity \cup {NoIdentity},
     name : {"person", "bot"} \X (Label \cup {NoIdentity}), by : Handler \cup {NoHandler}]

TxFits(tx) ==
    /\ tx \in TxRec
    /\ tx.call = "createIdentity" => tx.account \in Wallet
    /\ tx.call \in {"linkAgent", "setScore", "mint"} => tx.account \in Agent
    /\ tx.call = "gasDrip" => tx.account \in Account
    /\ tx.call \in {"linkAgent", "bind", "setRevoked"} => tx.identity \in Identity
    /\ tx.call = "bind" => tx.name \in Backend!Name

Pool == {mempool[i] : i \in 1..Len(mempool)}

ChainTypes ==
    /\ identityOfWallet \in [Account -> Identity \cup {NoIdentity}]
    /\ isIdentity \subseteq Identity
    /\ isAgent \subseteq Account
    /\ held \subseteq Identity \X Backend!SignedTopic
    /\ latched \subseteq Identity \X Backend!Topic
    /\ identityOf \in [Backend!Name -> Identity \cup {NoIdentity}]
    /\ scoreOf \in [Agent -> {0, Score}]
    /\ balanceOf \in [Account -> Nat]
    /\ minted \in [Agent -> Nat]
    /\ funded \subseteq Account

Types ==
    /\ ChainTypes
    /\ mempool \in Seq(TxRec)
    /\ Len(mempool) <= MaxInFlight
    /\ job \in [Handler -> JobRec]
    /\ faults \in Nat
    /\ \A h \in Handler : Shaped(job[h])
    /\ \A tx \in Pool : TxFits(tx)

(* A job that moves keeps what it was asked.                               *)
With(j, step, identity, sent, tries) ==
    [call |-> j.call, step |-> step, account |-> j.account, identity |-> identity,
     label |-> j.label, sent |-> sent, tries |-> tries, green |-> j.green]

-----------------------------------------------------------------------------
(* The inductive invariant of the backend                                  *)
FactoryFits ==
    /\ \A a \in Account : identityOfWallet[a] \in isIdentity \cup {NoIdentity}
    /\ \A id \in isIdentity : \E w \in Wallet : identityOfWallet[w] = id
    /\ \A a \in isAgent : a \in Agent /\ identityOfWallet[a] # NoIdentity
    /\ \A a \in Agent : minted[a] > 0 => identityOfWallet[a] # NoIdentity

Linked(j) == identityOfWallet[j.account] = j.identity

NameOf(j) == <<IF j.call = "linkAgent" THEN "bot" ELSE "person", j.label>>

Named(j) == identityOf[NameOf(j)] # NoIdentity

Scored(j) == scoreOf[j.account] = Score

Funded(j) == j.account \in funded

Stopped(j) == <<j.identity, "KYC_VERIFIED">> \in latched

Paid(j) == j.green /\ j.identity \in Backend!Eligible => minted[j.account] > 0

(* What a job has seen to, by the step it is at.                           *)
Past(j) ==
    /\ j.call = "provision" =>
          /\ j.identity # NoIdentity => Linked(j)
          /\ j.step = "done" => Named(j)
    /\ j.call = "linkAgent" =>
          /\ j.identity \in isIdentity
          /\ j.green => <<j.identity, "KYC_VERIFIED">> \in held
          /\ j.step # "failed" => identityOfWallet[j.account] \in {NoIdentity, j.identity}
          /\ j.step \in {"bind", "setScore", "gasDrip", "mint", "done"} => Linked(j)
          /\ j.step \in {"setScore", "gasDrip", "mint", "done"} => Named(j)
          /\ j.step \in {"gasDrip", "mint", "done"} => Scored(j)
          /\ j.step \in {"mint", "done"} => Funded(j)
          /\ j.step = "done" => Paid(j)
    /\ j.call = "revoke" => (j.step = "done" => Stopped(j))

(* What the transaction of a job's step leaves behind when it was mined.   *)
Effect(j) ==
    /\ j.step = "linkAgent" => Linked(j)
    /\ j.step = "bind" => Named(j)
    /\ j.step = "setScore" => Scored(j)
    /\ j.step = "gasDrip" => Funded(j)
    /\ j.step = "mint" => Paid(j)
    /\ j.step = "setRevoked" => Stopped(j)

Linking(j) == j.call = "linkAgent" /\ j.step # "failed"

PoolFits ==
    \A tx \in Pool :
        /\ tx.by \in Handler => job[tx.by].sent /\ tx = Backend!Tx(tx.by, tx.by)
        /\ tx.call = "linkAgent" =>
              /\ tx.identity \in isIdentity
              /\ \A h \in Handler :
                    Linking(job[h]) /\ job[h].account = tx.account =>
                        job[h].identity = tx.identity

(* An agent's key pair is made for one request.                            *)
Alone ==
    \A g, h \in Handler :
        Linking(job[g]) /\ Linking(job[h]) /\ job[g].account = job[h].account => g = h

BackendInv ==
    /\ Types
    /\ FactoryFits
    /\ \A h \in Handler : Past(job[h])
    /\ \A h \in Handler : job[h].sent => Backend!Unmined(h) \/ Effect(job[h])
    /\ PoolFits
    /\ Alone

-----------------------------------------------------------------------------
(* The inductive invariant of the page                                     *)
AgentRec == [address : Agent, label : Label]

PageRec ==
    [wallet : Wallet \cup {NoWallet}, label : Label \cup {NoLabel},
     identity : Identity \cup {NoIdentity}, name : Label \cup {NoLabel},
     status : {"NONE", "LIMITED", "GREEN", "REVOKED"}, agent : AgentRec \cup {NoAgent},
     registered : BOOLEAN, casaOk : BOOLEAN, busy : Key \cup {"none"},
     looking : SUBSET Wallet]

ViewRec ==
    [wallet : Wallet \cup {NoWallet}, identity : Identity \cup {NoIdentity},
     name : Label \cup {NoLabel}, agent : AgentRec \cup {NoAgent}]

SavedRec ==
    [identity : Identity \cup {NoIdentity}, name : Label \cup {NoLabel},
     agent : AgentRec \cup {NoAgent}]

Claim == [identity : Identity, topic : Backend!SignedTopic]

OpRec ==
    [key : Key \cup {"none"}, step : {"idle", "await", "submit", "refresh", "send"},
     handler : Handler \cup {NoHandler}, claim : Claim \cup {Refused}, seen : ViewRec]

WorldRec ==
    [phase : {"idle", "widget", "submitting", "done"}, claim : Claim \cup {Refused},
     seen : ViewRec]

Field == {"ens", "kyc", "accredited"}

GotRec == [ens : {"NONE", "GREEN", "REVOKED"}, kyc : BOOLEAN, accredited : BOOLEAN]

ReadingRec ==
    [left : SUBSET Field, got : GotRec,
     identity : Identity \cup {NoIdentity}, name : Label \cup {NoLabel}]

Asked == {"provision", "agent", "revoke"}

CallOf(k) == IF k = "agent" THEN "linkAgent" ELSE k

PageTypes ==
    /\ page \in PageRec
    /\ storage \in [Wallet -> SavedRec]
    /\ op \in [Run -> OpRec]
    /\ world \in [Pressed -> WorldRec]
    /\ reading \in [Trigger -> ReadingRec]
    /\ mishaps \in Nat
    /\ faults + mishaps <= MaxMishaps

(* What an operation between two awaits still relies on.                   *)
OpFits(r) ==
    /\ op[r].step = "await" =>
          /\ op[r].key \in Asked
          /\ op[r].handler \in Handler
          /\ job[op[r].handler].call = CallOf(op[r].key)
    /\ op[r].step = "submit" => op[r].claim \in Claim
    /\ op[r].step = "send" => page.agent # NoAgent
    /\ op[r].key = "agent" => op[r].seen.identity # NoIdentity

(* The page has an identity before it shows or asks anything about it.     *)
Identified ==
    \/ page.status # "NONE"
    \/ page.agent # NoAgent
    \/ page.casaOk
    \/ \E r \in Run : op[r].seen.identity # NoIdentity
    \/ \E kind \in Pressed :
          world[kind].phase = "widget" \/ world[kind].seen.identity # NoIdentity
    \/ \E t \in Trigger : reading[t].left # {}

UnderWay(k) == \E r \in Run : op[r].key = k

PageInv ==
    /\ PageTypes
    /\ \A r \in Run : OpFits(r)
    /\ \A kind \in Pressed :
          world[kind].phase = "submitting" => world[kind].claim \in Claim
    /\ page.busy # "none" => UnderWay(page.busy)
    /\ Identified => page.identity # NoIdentity
    /\ page.identity \in isIdentity \cup {NoIdentity}
    /\ \A w \in Wallet :
          /\ storage[w].identity \in isIdentity \cup {NoIdentity}
          /\ storage[w].agent # NoAgent => storage[w].identity # NoIdentity

-----------------------------------------------------------------------------
(* What a mint is counted against                                          *)
Owes(j, a) ==
    /\ j.call = "linkAgent"
    /\ j.account = a
    /\ j.step \notin {"done", "failed"}
    /\ ~(j.step = "mint" /\ j.sent)

Owed(a) == IF \E h \in Handler : Owes(job[h], a) THEN 1 ELSE 0

MintsFit ==
    \A a \in Agent :
        minted[a] + MintAmount * (Backend!PendingMints(a) + Owed(a))
            <= MintAmount * (1 + faults)

-----------------------------------------------------------------------------
(* How a request moves                                                     *)
Kept(j, k) ==
    /\ Shaped(k)
    /\ Past(k)
    /\ k.call = j.call /\ k.account = j.account /\ k.label = j.label
    /\ k.call = "linkAgent" => k.identity = j.identity
    /\ Linking(k) => Linking(j)
    /\ \A a : Owes(k, a) => Owes(j, a)

Forgotten(tx, h) == [tx EXCEPT !.by = IF @ = h THEN NoHandler ELSE @]

Posted(tx) == mempool' = Append(mempool, tx)

(* The pool is left alone, is sent to, is sent to without an answer, or    *)
(* nobody waits for the transaction any more.                              *)
Traffic(h, k) ==
    \/ /\ job[h].sent => ~Backend!Unmined(h)
       /\ ~k.sent
       /\ UNCHANGED <<mempool, faults>>
    \/ /\ Backend!ReadyToSend(h)
       /\ Len(mempool) < MaxInFlight
       /\ k = With(job[h], job[h].step, job[h].identity, TRUE, job[h].tries)
       /\ Posted(Backend!Tx(h, h))
       /\ UNCHANGED faults
    \/ /\ Backend!ReadyToSend(h)
       /\ Len(mempool) < MaxInFlight
       /\ ~k.sent
       /\ Posted(Backend!Tx(h, NoHandler))
       /\ faults' = faults + 1
    \/ /\ k.step = "failed"
       /\ mempool' = [i \in 1..Len(mempool) |-> Forgotten(mempool[i], h)]
       /\ faults' = faults + 1

Moved(h, k) ==
    /\ job' = [job EXCEPT ![h] = k]
    /\ Kept(job[h], k)
    /\ Traffic(h, k)
    /\ UNCHANGED chainVars

-----------------------------------------------------------------------------
LEMMA Next1 ==
    /\ Backend!Following("provision", "createIdentity") = "readBack"
    /\ Backend!Following("provision", "gasDrip") = "bind"
    /\ Backend!Following("provision", "bind") = "done"
BY DEF Backend!Following, Backend!Program

LEMMA Next2 ==
    /\ Backend!Following("linkAgent", "linkAgent") = "bind"
    /\ Backend!Following("linkAgent", "bind") = "setScore"
    /\ Backend!Following("linkAgent", "setScore") = "gasDrip"
    /\ Backend!Following("linkAgent", "gasDrip") = "mint"
    /\ Backend!Following("linkAgent", "mint") = "done"
BY DEF Backend!Following, Backend!Program

LEMMA Next3 == Backend!Following("revoke", "setRevoked") = "done"
BY DEF Backend!Following, Backend!Program

LEMMA WithType ==
    ASSUME NEW j \in JobRec, NEW step \in Backend!Step,
           NEW id \in Identity \cup {NoIdentity}, NEW sent \in BOOLEAN,
           NEW n \in 0..(MaxAttempts - 1)
    PROVE  /\ With(j, step, id, sent, n) \in JobRec
           /\ With(j, step, id, sent, n).call = j.call
           /\ With(j, step, id, sent, n).step = step
           /\ With(j, step, id, sent, n).account = j.account
           /\ With(j, step, id, sent, n).identity = id
           /\ With(j, step, id, sent, n).label = j.label
           /\ With(j, step, id, sent, n).sent = sent
           /\ With(j, step, id, sent, n).tries = n
           /\ With(j, step, id, sent, n).green = j.green
BY DEF With, JobRec

LEMMA SameRecord ==
    ASSUME NEW j \in JobRec, NEW k \in JobRec,
           j.call = k.call, j.step = k.step, j.account = k.account,
           j.identity = k.identity, j.label = k.label, j.sent = k.sent,
           j.tries = k.tries, j.green = k.green
    PROVE  j = k
BY DEF JobRec

(* Goto names the step and forgets the attempts.                           *)
LEMMA GotoIs ==
    ASSUME Types, NEW h \in Handler, NEW step \in Backend!Step, Backend!Goto(h, step)
    PROVE  job' = [job EXCEPT ![h] = With(job[h], step, job[h].identity, FALSE, 0)]
<1> DEFINE k == [[[job[h] EXCEPT !.step = step] EXCEPT !.sent = FALSE] EXCEPT !.tries = 0]
<1>1. job[h] \in JobRec /\ 0 \in 0..(MaxAttempts - 1)
  BY PageAssumption DEF Types
<1>2. k \in JobRec
  BY <1>1 DEF JobRec
<1>3. /\ k.call = job[h].call /\ k.step = step /\ k.account = job[h].account
      /\ k.identity = job[h].identity /\ k.label = job[h].label /\ k.tries = 0
      /\ k.green = job[h].green
  BY <1>1 DEF JobRec
<1>4. k.sent = FALSE
  BY <1>1 DEF JobRec
<1>5. job[h].identity \in Identity \cup {NoIdentity}
  BY <1>1 DEF JobRec
<1> DEFINE w == With(job[h], step, job[h].identity, FALSE, 0)
<1>6. /\ w \in JobRec /\ w.call = k.call /\ w.step = k.step /\ w.account = k.account
      /\ w.identity = k.identity /\ w.label = k.label /\ w.sent = k.sent
      /\ w.tries = k.tries /\ w.green = k.green
  <2>1. w \in JobRec
    BY <1>1, <1>2, <1>3, <1>4, <1>5, WithType
  <2>2. /\ w.call = k.call /\ w.step = k.step /\ w.account = k.account
        /\ w.identity = k.identity /\ w.label = k.label
    <3> HIDE DEF k
    <3> QED
      BY <1>1, <1>2, <1>3, <1>4, <1>5 DEF With
  <2>3. w.tries = k.tries /\ w.green = k.green
    <3> HIDE DEF k
    <3> QED
      BY <1>1, <1>2, <1>3, <1>4, <1>5 DEF With
  <2>4. w.sent = k.sent
    <3> HIDE DEF k
    <3> QED
      BY <1>1, <1>2, <1>3, <1>4, <1>5 DEF With
  <2> QED
    BY <2>1, <2>2, <2>3, <2>4
<1>7. k = w
  <2> HIDE DEF k, w
  <2> QED
    BY <1>2, <1>6, SameRecord
<1> QED
  BY <1>7, <1>1 DEF Types, Backend!Goto

LEMMA FoundIs ==
    ASSUME Types, NEW h \in Handler, NEW step \in Backend!Step,
           NEW id \in Identity \cup {NoIdentity},
           job' = [job EXCEPT ![h].step = step, ![h].identity = id]
    PROVE  job' = [job EXCEPT ![h] = With(job[h], step, id, job[h].sent, job[h].tries)]
<1> DEFINE k == [[job[h] EXCEPT !.step = step] EXCEPT !.identity = id]
<1>1. job[h] \in JobRec
  BY DEF Types
<1>2. k \in JobRec
  BY <1>1 DEF JobRec
<1>3. /\ k.call = job[h].call /\ k.step = step /\ k.account = job[h].account
      /\ k.identity = id /\ k.label = job[h].label /\ k.tries = job[h].tries
      /\ k.green = job[h].green /\ k.sent = job[h].sent
  BY <1>1 DEF JobRec
<1>4. job[h].sent \in BOOLEAN /\ job[h].tries \in 0..(MaxAttempts - 1)
  BY <1>1 DEF JobRec
<1> DEFINE w == With(job[h], step, id, job[h].sent, job[h].tries)
<1>5. /\ w \in JobRec /\ w.call = k.call /\ w.step = k.step /\ w.account = k.account
      /\ w.identity = k.identity /\ w.label = k.label /\ w.sent = k.sent
      /\ w.tries = k.tries /\ w.green = k.green
  <2>1. w \in JobRec
    BY <1>1, <1>4 DEF With, JobRec
  <2>2. /\ w.call = k.call /\ w.step = k.step /\ w.account = k.account
        /\ w.identity = k.identity /\ w.label = k.label
    <3> HIDE DEF k
    <3> QED
      BY <1>1, <1>2, <1>3, <1>4 DEF With
  <2>3. w.tries = k.tries /\ w.green = k.green
    <3> HIDE DEF k
    <3> QED
      BY <1>1, <1>2, <1>3, <1>4 DEF With
  <2>4. w.sent = k.sent
    <3> HIDE DEF k
    <3> QED
      BY <1>1, <1>2, <1>3, <1>4 DEF With
  <2> QED
    BY <2>1, <2>2, <2>3, <2>4
<1>6. k = w
  <2> HIDE DEF k, w
  <2> QED
    BY <1>2, <1>5, SameRecord
<1> QED
  BY <1>6, <1>1 DEF Types

LEMMA SentIs ==
    ASSUME Types, NEW h \in Handler, job' = [job EXCEPT ![h].sent = TRUE]
    PROVE  job' = [job EXCEPT ![h] = With(job[h], job[h].step, job[h].identity, TRUE,
                                          job[h].tries)]
<1> DEFINE k == [job[h] EXCEPT !.sent = TRUE]
<1>1. job[h] \in JobRec
  BY DEF Types
<1>2. k \in JobRec
  BY <1>1 DEF JobRec
<1>3. /\ k.call = job[h].call /\ k.step = job[h].step /\ k.account = job[h].account
      /\ k.identity = job[h].identity /\ k.label = job[h].label
      /\ k.tries = job[h].tries /\ k.green = job[h].green
  BY <1>1 DEF JobRec
<1>4. k.sent = TRUE
  BY <1>1 DEF JobRec
<1>5. /\ job[h].step \in Backend!Step /\ job[h].identity \in Identity \cup {NoIdentity}
      /\ job[h].tries \in 0..(MaxAttempts - 1)
  BY <1>1 DEF JobRec
<1> DEFINE w == With(job[h], job[h].step, job[h].identity, TRUE, job[h].tries)
<1>6. /\ w \in JobRec /\ w.call = k.call /\ w.step = k.step /\ w.account = k.account
      /\ w.identity = k.identity /\ w.label = k.label /\ w.sent = k.sent
      /\ w.tries = k.tries /\ w.green = k.green
  <2>1. w \in JobRec
    BY <1>1, <1>5 DEF With, JobRec
  <2>2. /\ w.call = k.call /\ w.step = k.step /\ w.account = k.account
        /\ w.identity = k.identity /\ w.label = k.label
    <3> HIDE DEF k
    <3> QED
      BY <1>1, <1>2, <1>3, <1>4, <1>5 DEF With
  <2>3. w.tries = k.tries /\ w.green = k.green
    <3> HIDE DEF k
    <3> QED
      BY <1>1, <1>2, <1>3, <1>4, <1>5 DEF With
  <2>4. w.sent = k.sent
    <3> HIDE DEF k
    <3> QED
      BY <1>1, <1>2, <1>3, <1>4, <1>5 DEF With
  <2> QED
    BY <2>1, <2>2, <2>3, <2>4
<1>7. k = w
  <2> HIDE DEF k, w
  <2> QED
    BY <1>2, <1>6, SameRecord
<1> QED
  BY <1>7, <1>1 DEF Types

LEMMA TriedIs ==
    ASSUME Types, NEW h \in Handler, job' = [job EXCEPT ![h].tries = @ + 1]
    PROVE  job' = [job EXCEPT ![h] = With(job[h], job[h].step, job[h].identity, job[h].sent,
                                          job[h].tries + 1)]
<1>1. job[h] \in JobRec
  BY DEF Types
<1>2. [job[h] EXCEPT !.tries = @ + 1]
        = With(job[h], job[h].step, job[h].identity, job[h].sent, job[h].tries + 1)
  BY <1>1 DEF With, JobRec
<1> QED
  BY <1>2, <1>1 DEF Types

-----------------------------------------------------------------------------
(* Each step of a handler moves its own request, and keeps what the        *)
(* request has seen to.                                                    *)
LEMMA ChainIs == (UNCHANGED Backend!chainVars) <=> UNCHANGED chainVars
BY DEF Backend!chainVars, Backend!factoryVars, Backend!claimVars, Backend!nameVars,
       Backend!tokenVars, chainVars

LEMMA HandlerFacts ==
    ASSUME BackendInv, NEW h \in Handler
    PROVE  /\ job[h] \in JobRec /\ Shaped(job[h]) /\ Past(job[h])
           /\ job[h].sent => Backend!Unmined(h) \/ Effect(job[h])
           /\ identityOfWallet[job[h].account] \in Identity \cup {NoIdentity}
                \/ job[h].account = NoIdentity
BY DEF BackendInv, ChainTypes, Types, JobRec

LEMMA FailedKept ==
    ASSUME NEW j \in JobRec, Shaped(j), Past(j), j.call # "none"
    PROVE  LET k == With(j, "failed", j.identity, FALSE, 0)
           IN  k \in JobRec /\ Kept(j, k) /\ ~k.sent /\ k.step = "failed"
<1> DEFINE k == With(j, "failed", j.identity, FALSE, 0)
<1>1. /\ k \in JobRec /\ k.call = j.call /\ k.step = "failed"
      /\ k.account = j.account /\ k.identity = j.identity /\ k.label = j.label
      /\ k.sent = FALSE /\ k.green = j.green
  BY PageAssumption DEF With, JobRec, Backend!Step
<1> HIDE DEF k
<1>2. Shaped(k)
  BY <1>1 DEF Shaped
<1>3. Past(k)
  BY <1>1 DEF Past, Linked, Stopped
<1>4. Kept(j, k)
  BY <1>1, <1>2, <1>3 DEF Kept, Linking, Owes
<1> QED
  BY <1>1, <1>4 DEF k

(* A request goes on when its step has left its effect.                    *)
LEMMA AdvanceKept ==
    ASSUME NEW j \in JobRec, Shaped(j), Past(j), Effect(j), j.step \in Backend!Sending
    PROVE  LET next == Backend!Following(j.call, j.step)
               k    == With(j, next, j.identity, FALSE, 0)
           IN  next \in Backend!Step /\ k \in JobRec /\ Kept(j, k) /\ ~k.sent
<1> DEFINE next == Backend!Following(j.call, j.step)
           k    == With(j, next, j.identity, FALSE, 0)
<1>1. \/ j.call = "provision" /\ j.step \in {"createIdentity", "gasDrip", "bind"}
      \/ j.call = "linkAgent"
           /\ j.step \in {"linkAgent", "bind", "setScore", "gasDrip", "mint"}
      \/ j.call = "revoke" /\ j.step = "setRevoked"
  BY DEF Shaped, JobRec, Backend!Sending
<1>2. /\ j.call = "provision" /\ j.step = "createIdentity" => next = "readBack"
      /\ j.call = "provision" /\ j.step = "gasDrip" => next = "bind"
      /\ j.call = "provision" /\ j.step = "bind" => next = "done"
      /\ j.call = "linkAgent" /\ j.step = "linkAgent" => next = "bind"
      /\ j.call = "linkAgent" /\ j.step = "bind" => next = "setScore"
      /\ j.call = "linkAgent" /\ j.step = "setScore" => next = "gasDrip"
      /\ j.call = "linkAgent" /\ j.step = "gasDrip" => next = "mint"
      /\ j.call = "linkAgent" /\ j.step = "mint" => next = "done"
      /\ j.call = "revoke" /\ j.step = "setRevoked" => next = "done"
  BY Next1, Next2, Next3
<1> HIDE DEF next
<1>3. next \in Backend!Step
  BY <1>1, <1>2 DEF Backend!Step, Backend!Sending
<1>4. /\ k \in JobRec /\ k.call = j.call /\ k.step = next
      /\ k.account = j.account /\ k.identity = j.identity /\ k.label = j.label
      /\ k.sent = FALSE /\ k.green = j.green
  BY <1>3, PageAssumption DEF With, JobRec
<1> HIDE DEF k
<1>5. Shaped(k)
  <2>1. CASE j.call = "provision"
    BY <1>1, <1>2, <1>4, <2>1 DEF Shaped
  <2>2. CASE j.call = "linkAgent"
    BY <1>1, <1>2, <1>4, <2>2 DEF Shaped
  <2>3. CASE j.call = "revoke"
    BY <1>1, <1>2, <1>4, <2>3 DEF Shaped
  <2> QED
    BY <1>1, <2>1, <2>2, <2>3
<1>6. Past(k)
  <2>1. CASE j.call = "provision"
    BY <1>1, <1>2, <1>4, <2>1 DEF Past, Effect, Linked, Named, NameOf
  <2>2. CASE j.call = "linkAgent"
    BY <1>1, <1>2, <1>4, <2>2 DEF Past, Effect, Linked, Named, NameOf, Scored, Funded, Paid
  <2>3. CASE j.call = "revoke"
    BY <1>1, <1>4, <2>3 DEF Past, Effect, Stopped
  <2> QED
    BY <1>1, <2>1, <2>2, <2>3
<1>7. Kept(j, k)
  <2>1. Linking(k) => Linking(j)
    BY <1>1, <1>4 DEF Linking
  <2>2. \A a : Owes(k, a) => Owes(j, a)
    BY <1>1, <1>2, <1>4 DEF Owes
  <2> QED
    BY <1>4, <1>5, <1>6, <2>1, <2>2 DEF Kept
<1> QED
  BY <1>3, <1>4, <1>7 DEF k, next

LEMMA CheckMoves ==
    ASSUME BackendInv, NEW h \in Handler, Backend!CheckIdentity(h)
    PROVE  \E k \in JobRec : Moved(h, k)
<1> DEFINE j == job[h]
           found == identityOfWallet[j.account]
<1>1. /\ j \in JobRec /\ Shaped(j) /\ Past(j)
      /\ j.step = "check" /\ ~j.sent
      /\ UNCHANGED <<mempool, faults>> /\ UNCHANGED chainVars
  BY HandlerFacts, ChainIs DEF Backend!CheckIdentity, Backend!At
<1>2. j.call = "provision" /\ j.account \in Wallet /\ j.label \in Label
  BY <1>1 DEF Shaped, JobRec
<1>3. found \in Identity \cup {NoIdentity}
  BY <1>2 DEF BackendInv, ChainTypes, Types, Account
<1>4. CASE found = NoIdentity
  <2> DEFINE k == With(j, "createIdentity", j.identity, FALSE, 0)
  <2>1. job' = [job EXCEPT ![h] = k]
    BY <1>4, GotoIs DEF Backend!CheckIdentity, Backend!Step, Backend!Sending, BackendInv
  <2>2. /\ k \in JobRec /\ k.call = j.call /\ k.step = "createIdentity"
        /\ k.account = j.account /\ k.identity = j.identity /\ k.label = j.label
        /\ k.sent = FALSE
    BY <1>1, PageAssumption DEF With, JobRec, Backend!Step, Backend!Sending
  <2> HIDE DEF k
  <2>3. Kept(j, k)
    BY <1>1, <1>2, <2>2 DEF Kept, Shaped, Past, Linked, Linking, Owes
  <2> QED
    BY <1>1, <2>1, <2>2, <2>3 DEF Moved, Traffic
<1>5. CASE found # NoIdentity
  <2> DEFINE k == With(j, "gasDrip", found, j.sent, j.tries)
  <2>1. job' = [job EXCEPT ![h] = k]
    BY <1>3, <1>5, FoundIs DEF Backend!CheckIdentity, Backend!Step, Backend!Sending, BackendInv
  <2>2. /\ k \in JobRec /\ k.call = j.call /\ k.step = "gasDrip"
        /\ k.account = j.account /\ k.identity = found /\ k.label = j.label
        /\ k.sent = j.sent
    BY <1>1, <1>3 DEF With, JobRec, Backend!Step, Backend!Sending
  <2> HIDE DEF k
  <2>3. Kept(j, k)
    BY <1>1, <1>2, <1>3, <1>5, <2>2 DEF Kept, Shaped, Past, Linked, Linking, Owes
  <2> QED
    BY <1>1, <2>1, <2>2, <2>3 DEF Moved, Traffic
<1> QED
  BY <1>4, <1>5

LEMMA ReadBackMoves ==
    ASSUME BackendInv, NEW h \in Handler, Backend!ReadBack(h)
    PROVE  \E k \in JobRec : Moved(h, k)
<1> DEFINE j == job[h]
           found == identityOfWallet[j.account]
<1>1. /\ j \in JobRec /\ Shaped(j) /\ Past(j)
      /\ j.step = "readBack" /\ ~j.sent
      /\ UNCHANGED <<mempool, faults>> /\ UNCHANGED chainVars
  BY HandlerFacts, ChainIs DEF Backend!ReadBack, Backend!At
<1>2. j.call = "provision" /\ j.account \in Wallet /\ j.label \in Label
  BY <1>1 DEF Shaped, JobRec
<1>3. found \in Identity \cup {NoIdentity}
  BY <1>2 DEF BackendInv, ChainTypes, Types, Account
<1>4. CASE found = NoIdentity
  <2> DEFINE k == With(j, "failed", j.identity, FALSE, 0)
  <2>1. job' = [job EXCEPT ![h] = k]
    BY <1>4, GotoIs DEF Backend!ReadBack, Backend!Step, BackendInv
  <2>2. k \in JobRec /\ Kept(j, k) /\ ~k.sent
    BY <1>1, <1>2, FailedKept
  <2> HIDE DEF k
  <2> QED
    BY <1>1, <2>1, <2>2 DEF Moved, Traffic
<1>5. CASE found # NoIdentity
  <2> DEFINE k == With(j, "gasDrip", found, j.sent, j.tries)
  <2>1. job' = [job EXCEPT ![h] = k]
    BY <1>3, <1>5, FoundIs DEF Backend!ReadBack, Backend!Step, Backend!Sending, BackendInv
  <2>2. /\ k \in JobRec /\ k.call = j.call /\ k.step = "gasDrip"
        /\ k.account = j.account /\ k.identity = found /\ k.label = j.label
        /\ k.sent = j.sent
    BY <1>1, <1>3 DEF With, JobRec, Backend!Step, Backend!Sending
  <2> HIDE DEF k
  <2>3. Kept(j, k)
    BY <1>1, <1>2, <1>3, <1>5, <2>2 DEF Kept, Shaped, Past, Linked, Linking, Owes
  <2> QED
    BY <1>1, <2>1, <2>2, <2>3 DEF Moved, Traffic
<1> QED
  BY <1>4, <1>5

LEMMA ReadAgentMoves ==
    ASSUME BackendInv, NEW h \in Handler, Backend!ReadAgent(h)
    PROVE  \E k \in JobRec : Moved(h, k)
<1> DEFINE j == job[h]
           found == identityOfWallet[j.account]
           step == IF found = NoIdentity THEN "linkAgent" ELSE "bind"
           k == With(j, step, j.identity, FALSE, 0)
<1>1. /\ j \in JobRec /\ Shaped(j) /\ Past(j)
      /\ j.step = "readAgent" /\ ~j.sent
      /\ UNCHANGED <<mempool, faults>> /\ UNCHANGED chainVars
  BY HandlerFacts, ChainIs DEF Backend!ReadAgent, Backend!At
<1>2. j.call = "linkAgent" /\ j.account \in Agent /\ j.label \in Label
        /\ j.identity \in Identity
  BY <1>1 DEF Shaped, JobRec
<1>3. step \in Backend!Step
  BY DEF Backend!Step, Backend!Sending
<1>4. job' = [job EXCEPT ![h] = k]
  BY <1>3, GotoIs DEF Backend!ReadAgent, BackendInv
<1>5. /\ k \in JobRec /\ k.call = j.call /\ k.step = step
      /\ k.account = j.account /\ k.identity = j.identity /\ k.label = j.label
      /\ k.sent = FALSE /\ k.green = j.green
  BY <1>1, <1>3, PageAssumption DEF With, JobRec
<1>6. Kept(j, k)
  <2> HIDE DEF k
  <2>1. Shaped(k)
    BY <1>1, <1>2, <1>5 DEF Shaped
  <2>2. Past(k)
    BY <1>1, <1>2, <1>5 DEF Past, Linked
  <2> QED
    BY <1>1, <1>2, <1>5, <2>1, <2>2 DEF Kept, Linking, Owes
<1> HIDE DEF k
<1> QED
  BY <1>1, <1>4, <1>5, <1>6 DEF Moved, Traffic

LEMMA SkipDripMoves ==
    ASSUME BackendInv, NEW h \in Handler, Backend!SkipDrip(h)
    PROVE  \E k \in JobRec : Moved(h, k)
<1> DEFINE j == job[h]
           k == With(j, Backend!Following(j.call, j.step), j.identity, FALSE, 0)
<1>1. /\ j \in JobRec /\ Shaped(j) /\ Past(j)
      /\ j.step = "gasDrip" /\ ~j.sent /\ j.account \in funded
      /\ UNCHANGED <<mempool, faults>> /\ UNCHANGED chainVars
  BY HandlerFacts, ChainIs DEF Backend!SkipDrip, Backend!At
<1>2. j.step \in Backend!Sending /\ Effect(j)
  BY <1>1 DEF Backend!Sending, Effect, Funded
<1>3. Backend!Following(j.call, j.step) \in Backend!Step /\ k \in JobRec /\ Kept(j, k)
        /\ ~k.sent
  BY <1>1, <1>2, AdvanceKept
<1>4. job' = [job EXCEPT ![h] = k]
  BY <1>3, GotoIs DEF Backend!SkipDrip, Backend!Advance, BackendInv
<1> HIDE DEF k
<1> QED
  BY <1>1, <1>3, <1>4 DEF Moved, Traffic

LEMMA ReceiptMoves ==
    ASSUME BackendInv, NEW h \in Handler, Backend!Receipt(h)
    PROVE  \E k \in JobRec : Moved(h, k)
<1> DEFINE j == job[h]
           k == With(j, Backend!Following(j.call, j.step), j.identity, FALSE, 0)
<1>1. /\ j \in JobRec /\ Shaped(j) /\ Past(j) /\ Effect(j)
      /\ j.sent /\ ~Backend!Unmined(h)
      /\ UNCHANGED <<mempool, faults>> /\ UNCHANGED chainVars
  BY HandlerFacts, ChainIs DEF Backend!Receipt
<1>2. j.step \in Backend!Sending
  BY <1>1 DEF Shaped
<1>3. Backend!Following(j.call, j.step) \in Backend!Step /\ k \in JobRec /\ Kept(j, k)
        /\ ~k.sent
  BY <1>1, <1>2, AdvanceKept
<1>4. job' = [job EXCEPT ![h] = k]
  BY <1>3, GotoIs DEF Backend!Receipt, Backend!Advance, BackendInv
<1> HIDE DEF k
<1> QED
  BY <1>1, <1>3, <1>4 DEF Moved, Traffic

LEMMA RetryMoves ==
    ASSUME BackendInv, NEW h \in Handler, Backend!ReadyToSend(h), Backend!Retry(h)
    PROVE  \E k \in JobRec :
              job' = [job EXCEPT ![h] = k] /\ Kept(job[h], k) /\ ~k.sent
<1> DEFINE j == job[h]
<1>1. j \in JobRec /\ Shaped(j) /\ Past(j) /\ ~j.sent /\ j.call # "none"
  BY HandlerFacts DEF Backend!ReadyToSend, Backend!Sending, Shaped
<1>2. CASE j.step \in Backend!Retried /\ j.tries + 1 < MaxAttempts
  <2> DEFINE k == With(j, j.step, j.identity, j.sent, j.tries + 1)
  <2>1. job' = [job EXCEPT ![h] = k]
    BY <1>2, TriedIs DEF Backend!Retry, BackendInv
  <2>2. /\ k \in JobRec /\ k.call = j.call /\ k.step = j.step
        /\ k.account = j.account /\ k.identity = j.identity /\ k.label = j.label
        /\ k.sent = j.sent /\ k.green = j.green
    BY <1>1, <1>2, PageAssumption DEF With, JobRec
  <2> HIDE DEF k
  <2>3. Kept(j, k)
    <3>1. Shaped(k)
      BY <1>1, <2>2 DEF Shaped
    <3>2. Past(k)
      BY <1>1, <2>2 DEF Past, Linked, Named, NameOf, Scored, Funded, Paid, Stopped
    <3> QED
      BY <1>1, <2>2, <3>1, <3>2 DEF Kept, Linking, Owes
  <2> QED
    BY <1>1, <2>1, <2>2, <2>3
<1>3. CASE ~(j.step \in Backend!Retried /\ j.tries + 1 < MaxAttempts)
  <2> DEFINE k == With(j, "failed", j.identity, FALSE, 0)
  <2>1. job' = [job EXCEPT ![h] = k]
    BY <1>3, GotoIs DEF Backend!Retry, Backend!Step, BackendInv
  <2>2. k \in JobRec /\ Kept(j, k) /\ ~k.sent
    BY <1>1, FailedKept
  <2> HIDE DEF k
  <2> QED
    BY <2>1, <2>2
<1> QED
  BY <1>2, <1>3

LEMMA SendRefusedMoves ==
    ASSUME BackendInv, NEW h \in Handler, Backend!SendRefused(h)
    PROVE  \E k \in JobRec : Moved(h, k)
<1>1. /\ Backend!ReadyToSend(h) /\ Backend!Retry(h) /\ ~job[h].sent
      /\ UNCHANGED <<mempool, faults>> /\ UNCHANGED chainVars
  BY ChainIs DEF Backend!SendRefused, Backend!ReadyToSend
<1>2. PICK k \in JobRec : job' = [job EXCEPT ![h] = k] /\ Kept(job[h], k) /\ ~k.sent
  BY <1>1, RetryMoves
<1> QED
  BY <1>1, <1>2 DEF Moved, Traffic

LEMMA SendAnswerLostMoves ==
    ASSUME BackendInv, NEW h \in Handler, Backend!SendAnswerLost(h)
    PROVE  \E k \in JobRec : Moved(h, k)
<1>1. /\ Backend!ReadyToSend(h) /\ Backend!Retry(h) /\ Len(mempool) < MaxInFlight
      /\ Posted(Backend!Tx(h, NoHandler))
      /\ faults' = faults + 1 /\ UNCHANGED chainVars
  BY ChainIs DEF Backend!SendAnswerLost, Backend!Accepted, Posted
<1>2. PICK k \in JobRec : job' = [job EXCEPT ![h] = k] /\ Kept(job[h], k) /\ ~k.sent
  BY <1>1, RetryMoves
<1> QED
  BY <1>1, <1>2 DEF Moved, Traffic

LEMMA SendMoves ==
    ASSUME BackendInv, NEW h \in Handler, Backend!Send(h)
    PROVE  \E k \in JobRec : Moved(h, k)
<1> DEFINE j == job[h]
           k == With(j, j.step, j.identity, TRUE, j.tries)
<1>1. /\ j \in JobRec /\ Shaped(j) /\ Past(j)
      /\ Backend!ReadyToSend(h) /\ Len(mempool) < MaxInFlight
      /\ Posted(Backend!Tx(h, h))
      /\ UNCHANGED faults /\ UNCHANGED chainVars
  BY HandlerFacts, ChainIs DEF Backend!Send, Backend!Accepted, Posted
<1>2. j.step \in Backend!Sending
  BY <1>1 DEF Backend!ReadyToSend
<1>3. job' = [job EXCEPT ![h] = k]
  BY SentIs DEF Backend!Send, BackendInv
<1>4. /\ k \in JobRec /\ k.call = j.call /\ k.step = j.step
      /\ k.account = j.account /\ k.identity = j.identity /\ k.label = j.label
      /\ k.sent = TRUE /\ k.green = j.green
  BY <1>1 DEF With, JobRec
<1>5. Kept(j, k)
  <2> HIDE DEF k
  <2>1. Shaped(k)
    BY <1>1, <1>2, <1>4 DEF Shaped
  <2>2. Past(k)
    BY <1>1, <1>4 DEF Past, Linked, Named, NameOf, Scored, Funded, Paid, Stopped
  <2> QED
    BY <1>1, <1>4, <2>1, <2>2 DEF Kept, Linking, Owes
<1> QED
  BY <1>1, <1>3, <1>4, <1>5 DEF Moved, Traffic

LEMMA ReceiptTimeoutMoves ==
    ASSUME BackendInv, NEW h \in Handler, Backend!ReceiptTimeout(h)
    PROVE  \E k \in JobRec : Moved(h, k)
<1> DEFINE j == job[h]
           k == With(j, "failed", j.identity, FALSE, 0)
<1>1. /\ j \in JobRec /\ Shaped(j) /\ Past(j) /\ j.call # "none"
      /\ mempool' = [i \in 1..Len(mempool) |-> Forgotten(mempool[i], h)]
      /\ faults' = faults + 1 /\ UNCHANGED chainVars
  BY HandlerFacts, ChainIs DEF Backend!ReceiptTimeout, Backend!Sending, Shaped, Forgotten
<1>2. job' = [job EXCEPT ![h] = k]
  BY GotoIs DEF Backend!ReceiptTimeout, Backend!Step, BackendInv
<1>3. k \in JobRec /\ Kept(j, k) /\ k.step = "failed"
  BY <1>1, FailedKept
<1> HIDE DEF k
<1> QED
  BY <1>1, <1>2, <1>3 DEF Moved, Traffic

LEMMA HandlerMoves ==
    ASSUME BackendInv, NEW h \in Handler, Backend!HandlerStep(h) \/ Backend!HandlerFault(h)
    PROVE  \E k \in JobRec : Moved(h, k)
BY CheckMoves, ReadBackMoves, ReadAgentMoves, SkipDripMoves, SendMoves, SendRefusedMoves,
   ReceiptMoves, SendAnswerLostMoves, ReceiptTimeoutMoves
   DEF Backend!HandlerStep, Backend!HandlerFault

-----------------------------------------------------------------------------
(* The pool                                                                *)
LEMMA PoolType ==
    ASSUME mempool \in Seq(TxRec)
    PROVE  /\ \A tx \in Pool : tx \in TxRec
           /\ \A h : Backend!Unmined(h) <=> \E tx \in Pool : tx.by = h
BY DEF Pool, Backend!Unmined

LEMMA PoolGrows ==
    ASSUME mempool \in Seq(TxRec), NEW tx \in TxRec, Posted(tx)
    PROVE  /\ mempool' \in Seq(TxRec)
           /\ Len(mempool') = Len(mempool) + 1
           /\ Pool' = Pool \cup {tx}
<1>1. /\ mempool' \in Seq(TxRec) /\ Len(mempool') = Len(mempool) + 1
      /\ \A i \in 1..Len(mempool) : mempool'[i] = mempool[i]
      /\ mempool'[Len(mempool) + 1] = tx
  BY AppendProperties DEF Posted
<1>2. Len(mempool) \in Nat
  BY LenProperties
<1> QED
  BY <1>1, <1>2 DEF Pool

LEMMA PoolShrinks ==
    ASSUME mempool \in Seq(TxRec), mempool # <<>>, mempool' = Tail(mempool)
    PROVE  /\ mempool' \in Seq(TxRec)
           /\ Len(mempool') = Len(mempool) - 1
           /\ Head(mempool) \in Pool
           /\ Pool' \subseteq Pool
           /\ Pool = Pool' \cup {Head(mempool)}
<1>1. /\ mempool' \in Seq(TxRec) /\ Len(mempool') = Len(mempool) - 1
      /\ \A i \in 1..Len(mempool') : mempool'[i] = mempool[i + 1]
      /\ Head(mempool) = mempool[1]
  BY HeadTailProperties
<1>2. Len(mempool) \in Nat /\ Len(mempool) > 0
  BY LenProperties, EmptySeq
<1>3. Pool' \subseteq Pool
  BY <1>1, <1>2 DEF Pool
<1>4. ASSUME NEW tx \in Pool, tx # Head(mempool) PROVE tx \in Pool'
  <2>1. PICK i \in 1..Len(mempool) : tx = mempool[i]
    BY DEF Pool
  <2>2. i # 1 /\ i - 1 \in 1..Len(mempool') /\ mempool'[i - 1] = mempool[i]
    BY <1>1, <1>2, <1>4, <2>1
  <2> QED
    BY <2>1, <2>2 DEF Pool
<1>5. Head(mempool) \in Pool
  BY <1>1, <1>2 DEF Pool
<1> QED
  BY <1>1, <1>3, <1>4, <1>5

LEMMA PoolForgets ==
    ASSUME mempool \in Seq(TxRec), NEW h \in Handler,
           mempool' = [i \in 1..Len(mempool) |-> Forgotten(mempool[i], h)]
    PROVE  /\ mempool' \in Seq(TxRec)
           /\ Len(mempool') = Len(mempool)
           /\ Pool' = {Forgotten(tx, h) : tx \in Pool}
<1>1. Len(mempool) \in Nat /\ \A i \in 1..Len(mempool) : mempool[i] \in TxRec
  BY LenProperties, ElementOfSeq
<1>2. \A i \in 1..Len(mempool) : Forgotten(mempool[i], h) \in TxRec
  BY <1>1 DEF Forgotten, TxRec
<1>3. mempool' \in Seq(TxRec) /\ Len(mempool') = Len(mempool)
  <2>1. mempool' \in [1..Len(mempool) -> TxRec]
    BY <1>2
  <2> QED
    BY <1>1, <2>1, IsASeq, LenProperties
<1>4. Pool' = {Forgotten(tx, h) : tx \in Pool}
  BY <1>1, <1>3 DEF Pool
<1> QED
  BY <1>3, <1>4

LEMMA ForgottenIs ==
    ASSUME NEW tx \in TxRec, NEW h \in Handler
    PROVE  /\ Forgotten(tx, h) \in TxRec
           /\ Forgotten(tx, h).call = tx.call
           /\ Forgotten(tx, h).account = tx.account
           /\ Forgotten(tx, h).identity = tx.identity
           /\ Forgotten(tx, h).name = tx.name
           /\ Forgotten(tx, h).by = IF tx.by = h THEN NoHandler ELSE tx.by
           /\ tx.by # h => Forgotten(tx, h) = tx
           /\ TxFits(tx) => TxFits(Forgotten(tx, h))
<1>1. /\ Forgotten(tx, h) \in TxRec
      /\ Forgotten(tx, h).call = tx.call
      /\ Forgotten(tx, h).account = tx.account
      /\ Forgotten(tx, h).identity = tx.identity
      /\ Forgotten(tx, h).name = tx.name
      /\ Forgotten(tx, h).by = IF tx.by = h THEN NoHandler ELSE tx.by
  BY DEF Forgotten, TxRec
<1>2. tx.by # h => Forgotten(tx, h) = tx
  BY DEF Forgotten, TxRec
<1>3. TxFits(tx) => TxFits(Forgotten(tx, h))
  BY <1>1 DEF TxFits
<1> QED
  BY <1>1, <1>2, <1>3

(* What is sent for a request is what the request asks.                    *)
LEMMA TxType ==
    ASSUME NEW h \in Handler, NEW by \in Handler \cup {NoHandler},
           job[h] \in JobRec, Shaped(job[h]), job[h].step \in Backend!Sending
    PROVE  /\ TxFits(Backend!Tx(h, by))
           /\ Backend!Tx(h, by).call = job[h].step
           /\ Backend!Tx(h, by).account = job[h].account
           /\ Backend!Tx(h, by).identity = job[h].identity
           /\ Backend!Tx(h, by).name = NameOf(job[h])
           /\ Backend!Tx(h, by).by = by
<1> DEFINE j == job[h]
           tx == Backend!Tx(h, by)
<1>1. tx = [call |-> j.step, account |-> j.account, identity |-> j.identity,
            name |-> NameOf(j), by |-> by]
  BY DEF Backend!Tx, NameOf
<1> HIDE DEF tx
<1>2. NameOf(j) \in {"person", "bot"} \X (Label \cup {NoIdentity})
  BY DEF NameOf, JobRec
<1>3. /\ j.account \in Account \cup {NoIdentity} /\ j.identity \in Identity \cup {NoIdentity}
  BY DEF JobRec
<1>4. tx \in TxRec /\ tx.call = j.step /\ tx.account = j.account
        /\ tx.identity = j.identity /\ tx.name = NameOf(j) /\ tx.by = by
  BY <1>1, <1>2, <1>3 DEF TxRec
<1>5. /\ tx.call = "createIdentity" => tx.account \in Wallet
      /\ tx.call \in {"linkAgent", "setScore", "mint"} => tx.account \in Agent
      /\ tx.call = "gasDrip" => tx.account \in Account
      /\ tx.call \in {"linkAgent", "bind", "setRevoked"} => tx.identity \in Identity
  BY <1>4 DEF Shaped, JobRec, Account
<1>6. tx.call = "bind" => tx.name \in Backend!Name
  BY <1>4 DEF Shaped, JobRec, NameOf, Backend!Name
<1> QED
  BY <1>4, <1>5, <1>6 DEF TxFits, tx

-----------------------------------------------------------------------------
(* A handler's step keeps the invariant of the backend.                    *)
LEMMA MovedPool ==
    ASSUME BackendInv, NEW h \in Handler, NEW k \in JobRec, Moved(h, k)
    PROVE  /\ mempool' \in Seq(TxRec)
           /\ Len(mempool') <= MaxInFlight
           /\ faults' \in Nat
           /\ \A tx \in Pool' :
                 /\ TxFits(tx)
                 /\ tx.by \in Handler \ {h} => tx \in Pool
                 /\ tx.by = h => k.sent /\ tx = Backend!Tx(h, h)
                 /\ \/ \E old \in Pool : /\ tx.call = old.call /\ tx.account = old.account
                                         /\ tx.identity = old.identity
                    \/ /\ tx.call = job[h].step /\ tx.account = job[h].account
                       /\ tx.identity = job[h].identity /\ job[h].step \in Backend!Sending
           /\ \A tx \in Pool : tx.by # h => tx \in Pool'
           /\ k.sent => k.step = job[h].step /\ \E tx \in Pool' : tx.by = h
<1>1. /\ mempool \in Seq(TxRec) /\ Len(mempool) <= MaxInFlight /\ faults \in Nat
      /\ \A tx \in Pool : tx \in TxRec /\ TxFits(tx)
      /\ Len(mempool) \in Nat /\ MaxInFlight \in Nat /\ NoHandler \notin Handler
  BY PoolType, LenProperties, PageAssumption DEF BackendInv, Types
<1>2. \A tx \in Pool : tx.by = h => job[h].sent /\ tx = Backend!Tx(h, h)
  BY DEF BackendInv, PoolFits
<1>3. job[h] \in JobRec /\ Shaped(job[h])
  BY HandlerFacts
<1>4. CASE /\ job[h].sent => ~Backend!Unmined(h)
           /\ ~k.sent
           /\ UNCHANGED <<mempool, faults>>
  <2>1. Pool' = Pool
    BY <1>4 DEF Pool
  <2>2. \A tx \in Pool : tx.by # h
    BY <1>1, <1>2, <1>4, PoolType
  <2> QED
    BY <1>1, <1>4, <2>1, <2>2
<1>5. CASE /\ Backend!ReadyToSend(h)
           /\ Len(mempool) < MaxInFlight
           /\ k = With(job[h], job[h].step, job[h].identity, TRUE, job[h].tries)
           /\ Posted(Backend!Tx(h, h))
           /\ UNCHANGED faults
  <2>0. PICK t : t = Backend!Tx(h, h)
    OBVIOUS
  <2>1. job[h].step \in Backend!Sending /\ ~job[h].sent
    BY <1>5 DEF Backend!ReadyToSend
  <2>2. /\ TxFits(t) /\ t \in TxRec /\ t.call = job[h].step /\ t.account = job[h].account
        /\ t.identity = job[h].identity /\ t.by = h
    BY <1>3, <2>0, <2>1, TxType DEF TxFits
  <2>3. k.sent /\ k.step = job[h].step
    BY <1>5 DEF With
  <2>4. Posted(t)
    BY <1>5, <2>0
  <2>5. /\ mempool' \in Seq(TxRec) /\ Len(mempool') = Len(mempool) + 1
        /\ Pool' = Pool \cup {t}
    BY <1>1, <2>2, <2>4, PoolGrows
  <2>6. \A tx \in Pool : tx.by # h
    BY <1>2, <2>1
  <2>7. ASSUME NEW tx \in Pool'
        PROVE  /\ TxFits(tx)
               /\ tx.by \in Handler \ {h} => tx \in Pool
               /\ tx.by = h => k.sent /\ tx = Backend!Tx(h, h)
               /\ \/ \E old \in Pool : /\ tx.call = old.call /\ tx.account = old.account
                                       /\ tx.identity = old.identity
                  \/ /\ tx.call = job[h].step /\ tx.account = job[h].account
                     /\ tx.identity = job[h].identity /\ job[h].step \in Backend!Sending
    BY <1>1, <2>0, <2>1, <2>2, <2>3, <2>5, <2>6
  <2>8. \A tx \in Pool : tx \in Pool'
    BY <2>5
  <2>9. \E tx \in Pool' : tx.by = h
    BY <2>2, <2>5
  <2>10. Len(mempool) < MaxInFlight /\ faults' = faults
    BY <1>5
  <2>11. mempool' \in Seq(TxRec) /\ Len(mempool') <= MaxInFlight /\ faults' \in Nat
    BY <1>1, <2>5, <2>10
  <2> QED
    BY <2>3, <2>7, <2>8, <2>9, <2>11
<1>6. CASE /\ Backend!ReadyToSend(h)
           /\ Len(mempool) < MaxInFlight
           /\ ~k.sent
           /\ Posted(Backend!Tx(h, NoHandler))
           /\ faults' = faults + 1
  <2>0. PICK t : t = Backend!Tx(h, NoHandler)
    OBVIOUS
  <2>1. job[h].step \in Backend!Sending /\ ~job[h].sent
    BY <1>6 DEF Backend!ReadyToSend
  <2>2. /\ TxFits(t) /\ t \in TxRec /\ t.call = job[h].step /\ t.account = job[h].account
        /\ t.identity = job[h].identity /\ t.by = NoHandler
    BY <1>3, <2>0, <2>1, TxType DEF TxFits
  <2>4. Posted(t)
    BY <1>6, <2>0
  <2>5. /\ mempool' \in Seq(TxRec) /\ Len(mempool') = Len(mempool) + 1
        /\ Pool' = Pool \cup {t}
    BY <1>1, <2>2, <2>4, PoolGrows
  <2>6. \A tx \in Pool : tx.by # h
    BY <1>2, <2>1
  <2>7. ASSUME NEW tx \in Pool'
        PROVE  /\ TxFits(tx)
               /\ tx.by \in Handler \ {h} => tx \in Pool
               /\ tx.by # h
               /\ \/ \E old \in Pool : /\ tx.call = old.call /\ tx.account = old.account
                                       /\ tx.identity = old.identity
                  \/ /\ tx.call = job[h].step /\ tx.account = job[h].account
                     /\ tx.identity = job[h].identity /\ job[h].step \in Backend!Sending
    BY <1>1, <2>1, <2>2, <2>5, <2>6
  <2>8. \A tx \in Pool : tx \in Pool'
    BY <2>5
  <2> QED
    BY <1>1, <1>6, <2>5, <2>7, <2>8
<1>7. CASE /\ k.step = "failed"
           /\ mempool' = [i \in 1..Len(mempool) |-> Forgotten(mempool[i], h)]
           /\ faults' = faults + 1
  <2>1. /\ mempool' \in Seq(TxRec) /\ Len(mempool') = Len(mempool)
        /\ Pool' = {Forgotten(tx, h) : tx \in Pool}
    BY <1>1, <1>7, PoolForgets
  <2>2. ~k.sent
    BY <1>7 DEF Moved, Kept, Shaped, Backend!Sending
  <2>3. ASSUME NEW tx \in Pool'
        PROVE  /\ TxFits(tx)
               /\ tx.by \in Handler \ {h} => tx \in Pool
               /\ tx.by # h
               /\ \E old \in Pool : /\ tx.call = old.call /\ tx.account = old.account
                                   /\ tx.identity = old.identity
    <3>1. PICK old \in Pool : tx = Forgotten(old, h)
      BY <2>1
    <3> QED
      BY <1>1, <3>1, ForgottenIs
  <2>4. ASSUME NEW tx \in Pool, tx.by # h PROVE tx \in Pool'
    BY <1>1, <2>1, <2>4, ForgottenIs
  <2> QED
    BY <1>1, <1>7, <2>1, <2>2, <2>3, <2>4
<1> QED
  BY <1>4, <1>5, <1>6, <1>7 DEF Moved, Traffic

LEMMA MovedInv ==
    ASSUME BackendInv, NEW h \in Handler, NEW k \in JobRec, Moved(h, k)
    PROVE  BackendInv'
<1>1. /\ UNCHANGED chainVars /\ Kept(job[h], k)
      /\ job \in [Handler -> JobRec] /\ job' \in [Handler -> JobRec]
      /\ job'[h] = k
      /\ \A g \in Handler : g # h => job'[g] = job[g]
  BY DEF Moved, BackendInv, Types
<1>2. Types'
  <2>1. \A g \in Handler : Shaped(job'[g])
    BY <1>1, HandlerFacts DEF Kept
  <2>2. \A tx \in Pool' : TxFits(tx)
    BY MovedPool
  <2>3. mempool' \in Seq(TxRec) /\ Len(mempool') <= MaxInFlight /\ faults' \in Nat
    BY MovedPool
  <2> QED
    BY <1>1, <2>1, <2>2, <2>3 DEF BackendInv, ChainTypes, Types, chainVars, Shaped, TxFits
<1>3. FactoryFits'
  BY <1>1 DEF BackendInv, FactoryFits, chainVars
<1>4. ASSUME NEW g \in Handler PROVE Past(job[g])'
  <2>1. CASE g = h
    BY <1>1, <2>1 DEF Kept, Past, Linked, Named, Scored, Funded, Stopped, Paid, Backend!Eligible,
                      Backend!ClaimValid, chainVars
  <2>2. CASE g # h
    <3>1. Past(job[g])
      BY DEF BackendInv
    <3> QED
      BY <1>1, <2>2, <3>1 DEF Past, Linked, Named, Scored, Funded, Stopped, Paid, Backend!Eligible,
                              Backend!ClaimValid, chainVars
  <2> QED
    BY <2>1, <2>2
<1>5. ASSUME NEW g \in Handler, job'[g].sent
      PROVE  Backend!Unmined(g)' \/ Effect(job[g])'
  <2>0. mempool \in Seq(TxRec) /\ mempool' \in Seq(TxRec)
    BY MovedPool DEF BackendInv, Types
  <2>1. Backend!Unmined(g)' <=> \E tx \in Pool' : tx.by = g
    BY DEF Backend!Unmined, Pool
  <2>2. CASE g = h
    BY <1>1, <1>5, <2>1, <2>2, MovedPool
  <2>3. CASE g # h
    <3>1. Backend!Unmined(g) \/ Effect(job[g])
      BY <1>1, <1>5, <2>3 DEF BackendInv
    <3>2. CASE Backend!Unmined(g)
      <4>1. PICK tx \in Pool : tx.by = g
        BY <2>0, <3>2, PoolType
      <4>2. tx \in Pool'
        BY <2>3, <4>1, MovedPool
      <4> QED
        BY <2>1, <4>1, <4>2
    <3>3. CASE Effect(job[g])
      BY <1>1, <2>3, <3>3 DEF Effect, Linked, Named, Scored, Funded, Stopped, Paid, Backend!Eligible,
                              Backend!ClaimValid, chainVars
    <3> QED
      BY <3>1, <3>2, <3>3
  <2> QED
    BY <2>2, <2>3
<1>6. ASSUME NEW g \in Handler, Linking(job'[g])
      PROVE  /\ Linking(job[g]) /\ job'[g].account = job[g].account
             /\ job'[g].identity = job[g].identity
  BY <1>1, <1>6 DEF Kept, Linking
<1>7. PoolFits'
  <2> SUFFICES ASSUME NEW tx \in Pool'
               PROVE  /\ tx.by \in Handler =>
                           job'[tx.by].sent /\ tx = Backend!Tx(tx.by, tx.by)'
                      /\ tx.call = "linkAgent" =>
                            /\ tx.identity \in isIdentity'
                            /\ \A g \in Handler :
                                  Linking(job'[g]) /\ job'[g].account = tx.account =>
                                      job'[g].identity = tx.identity
    BY DEF PoolFits
  <2>1. ASSUME tx.by \in Handler
        PROVE  job'[tx.by].sent /\ tx = Backend!Tx(tx.by, tx.by)'
    <3>1. CASE tx.by = h
      <4>1. k.sent /\ tx = Backend!Tx(h, h)
        BY <3>1, MovedPool
      <4>2. k.step = job[h].step /\ k.call = job[h].call /\ k.account = job[h].account
              /\ k.label = job[h].label
        BY <1>1, <4>1, MovedPool DEF Kept
      <4>3. k.identity = job[h].identity
        <5>1. k.step # "failed"
          BY <1>1, <4>1 DEF Kept, Shaped, Backend!Sending
        <5>2. k = With(job[h], job[h].step, job[h].identity, TRUE, job[h].tries)
          BY <4>1, <5>1 DEF Moved, Traffic
        <5> QED
          BY <5>2 DEF With
      <4> QED
        BY <1>1, <3>1, <4>1, <4>2, <4>3 DEF Backend!Tx
    <3>2. CASE tx.by # h
      <4>1. tx \in Pool
        BY <2>1, <3>2, MovedPool
      <4>2. job[tx.by].sent /\ tx = Backend!Tx(tx.by, tx.by)
        BY <2>1, <4>1 DEF BackendInv, PoolFits
      <4> QED
        BY <1>1, <2>1, <3>2, <4>2 DEF Backend!Tx
    <3> QED
      BY <3>1, <3>2
  <2>2. ASSUME tx.call = "linkAgent"
        PROVE  /\ tx.identity \in isIdentity'
               /\ \A g \in Handler :
                     Linking(job'[g]) /\ job'[g].account = tx.account =>
                         job'[g].identity = tx.identity
    <3>0. isIdentity' = isIdentity
      BY <1>1 DEF chainVars
    <3>1. CASE \E old \in Pool : /\ tx.call = old.call /\ tx.account = old.account
                                /\ tx.identity = old.identity
      <4>1. /\ tx.identity \in isIdentity
            /\ \A g \in Handler :
                  Linking(job[g]) /\ job[g].account = tx.account =>
                      job[g].identity = tx.identity
        BY <2>2, <3>1 DEF BackendInv, PoolFits
      <4> QED
        BY <1>6, <3>0, <4>1
    <3>2. CASE /\ tx.call = job[h].step /\ tx.account = job[h].account
               /\ tx.identity = job[h].identity /\ job[h].step \in Backend!Sending
      <4>1. job[h].call = "linkAgent" /\ job[h].step = "linkAgent"
        BY <2>2, <3>2, HandlerFacts DEF Shaped, JobRec
      <4>2. job[h].identity \in isIdentity /\ Linking(job[h])
        BY <4>1, HandlerFacts DEF Past, Linking
      <4>3. \A g \in Handler :
               Linking(job[g]) /\ job[g].account = job[h].account => g = h
        BY <4>2 DEF BackendInv, Alone
      <4> QED
        BY <1>6, <3>0, <3>2, <4>2, <4>3
    <3> QED
      BY <3>1, <3>2, MovedPool
  <2> QED
    BY <2>1, <2>2
<1>8. Alone'
  BY <1>6 DEF BackendInv, Alone
<1> QED
  BY <1>2, <1>3, <1>4, <1>5, <1>7, <1>8 DEF BackendInv

-----------------------------------------------------------------------------
(* A request that begins has nothing behind it.                            *)
Begun(h, k) ==
    /\ job' = [job EXCEPT ![h] = k]
    /\ ~Backend!Busy(h)
    /\ Shaped(k)
    /\ ~k.sent
    /\ k.call # "none"
    /\ k.call = "provision" => k.identity = NoIdentity /\ k.step = "check"
    /\ k.call = "linkAgent" =>
          /\ k.step = "readAgent"
          /\ Backend!Fresh(k.account)
          /\ k.identity \in isIdentity
          /\ k.green => k.identity \in Backend!Eligible
    /\ k.call = "revoke" => k.step = "setRevoked"
    /\ UNCHANGED <<mempool, faults>>
    /\ UNCHANGED chainVars

LEMMA IdleType ==
    /\ Backend!Idle \in JobRec
    /\ Backend!Idle.call = "none" /\ Backend!Idle.step = "done"
    /\ Backend!Idle.identity = NoIdentity /\ ~Backend!Idle.sent
BY PageAssumption DEF Backend!Idle, JobRec, Backend!Step

LEMMA ProvisionBegins ==
    ASSUME BackendInv, NEW h \in Handler, NEW w \in Wallet, NEW l \in Label,
           Backend!StartProvision(h, w, l)
    PROVE  \E k \in JobRec : Begun(h, k) /\ k.call = "provision"
<1> DEFINE k == [Backend!Idle EXCEPT !.call = "provision", !.step = "check",
                                     !.account = w, !.label = l]
<1>1. /\ job' = [job EXCEPT ![h] = k] /\ ~Backend!Busy(h)
      /\ UNCHANGED <<mempool, faults>> /\ UNCHANGED chainVars
  BY ChainIs DEF Backend!StartProvision, Backend!Start
<1>2. /\ k \in JobRec /\ k.call = "provision" /\ k.step = "check" /\ k.account = w
      /\ k.label = l /\ k.identity = NoIdentity /\ ~k.sent
  BY IdleType DEF JobRec, Backend!Step, Backend!Sending, Account
<1> HIDE DEF k
<1>3. Shaped(k)
  BY <1>2 DEF Shaped
<1> QED
  BY <1>1, <1>2, <1>3 DEF Begun

LEMMA LinkAgentBegins ==
    ASSUME BackendInv, NEW h \in Handler, NEW a \in Agent, NEW id \in isIdentity,
           NEW l \in Label, Backend!StartLinkAgent(h, a, id, l)
    PROVE  \E k \in JobRec : /\ Begun(h, k) /\ k.call = "linkAgent"
                            /\ k.account = a /\ k.identity = id
<1> DEFINE k == [Backend!Idle EXCEPT !.call = "linkAgent", !.step = "readAgent",
                                     !.account = a, !.identity = id, !.label = l,
                                     !.green = id \in Backend!Eligible]
<1>0. id \in Identity
  BY DEF BackendInv, ChainTypes, Types
<1>1. /\ job' = [job EXCEPT ![h] = k] /\ ~Backend!Busy(h) /\ Backend!Fresh(a)
      /\ UNCHANGED <<mempool, faults>> /\ UNCHANGED chainVars
  BY ChainIs DEF Backend!StartLinkAgent, Backend!Start
<1>2. /\ k \in JobRec /\ k.call = "linkAgent" /\ k.step = "readAgent" /\ k.account = a
      /\ k.label = l /\ k.identity = id /\ ~k.sent
      /\ k.green = (id \in Backend!Eligible)
  <2> DEFINE r == [Backend!Idle EXCEPT !.call = "linkAgent", !.step = "readAgent",
                                       !.account = a, !.identity = id, !.label = l]
  <2>1. /\ r \in JobRec /\ r.call = "linkAgent" /\ r.step = "readAgent" /\ r.account = a
        /\ r.label = l /\ r.identity = id /\ ~r.sent
    BY <1>0, IdleType DEF JobRec, Backend!Step, Backend!Sending, Account
  <2>2. k = [r EXCEPT !.green = id \in Backend!Eligible]
    OBVIOUS
  <2> HIDE DEF k, r
  <2>3. k \in JobRec
    <3>1. CASE id \in Backend!Eligible
      <4>1. k = [r EXCEPT !.green = TRUE]
        BY <2>2, <3>1
      <4> QED
        BY <2>1, <4>1 DEF JobRec
    <3>2. CASE id \notin Backend!Eligible
      <4>0. (id \in Backend!Eligible) = FALSE
        BY <3>2
      <4>1. k = [r EXCEPT !.green = FALSE]
        BY <2>2, <4>0, Zenon
      <4> QED
        BY <2>1, <4>1 DEF JobRec
    <3> QED
      BY <3>1, <3>2
  <2>4. /\ k.call = "linkAgent" /\ k.step = "readAgent" /\ k.account = a
        /\ k.label = l /\ k.identity = id
    BY <2>1, <2>2 DEF JobRec
  <2>5. ~k.sent
    BY <2>1, <2>2 DEF JobRec
  <2>6. k.green = (id \in Backend!Eligible)
    BY <2>1, <2>2 DEF JobRec
  <2> QED
    BY <2>3, <2>4, <2>5, <2>6
<1> HIDE DEF k
<1>3. Shaped(k)
  BY <1>0, <1>2 DEF Shaped
<1> QED
  BY <1>1, <1>2, <1>3 DEF Begun

LEMMA RevokeBegins ==
    ASSUME BackendInv, NEW h \in Handler, NEW id \in Identity, Backend!StartRevoke(h, id)
    PROVE  \E k \in JobRec : Begun(h, k) /\ k.call = "revoke"
<1> DEFINE k == [Backend!Idle EXCEPT !.call = "revoke", !.step = "setRevoked",
                                     !.identity = id]
<1>1. /\ job' = [job EXCEPT ![h] = k] /\ ~Backend!Busy(h)
      /\ UNCHANGED <<mempool, faults>> /\ UNCHANGED chainVars
  BY ChainIs DEF Backend!StartRevoke, Backend!Start
<1>2. /\ k \in JobRec /\ k.call = "revoke" /\ k.step = "setRevoked"
      /\ k.identity = id /\ ~k.sent
  BY IdleType DEF JobRec, Backend!Step, Backend!Sending, Account
<1> HIDE DEF k
<1>3. Shaped(k)
  BY <1>2 DEF Shaped
<1> QED
  BY <1>1, <1>2, <1>3 DEF Begun

LEMMA BegunInv ==
    ASSUME BackendInv, NEW h \in Handler, NEW k \in JobRec, Begun(h, k)
    PROVE  BackendInv'
<1>1. /\ UNCHANGED chainVars /\ UNCHANGED <<mempool, faults>> /\ Pool' = Pool
      /\ job \in [Handler -> JobRec] /\ job' \in [Handler -> JobRec]
      /\ job'[h] = k /\ Shaped(k) /\ ~k.sent /\ job[h].step \in {"done", "failed"}
      /\ \A g \in Handler : g # h => job'[g] = job[g]
  BY DEF Begun, BackendInv, Types, Pool, Backend!Busy
<1>2. ~job[h].sent
  BY <1>1, HandlerFacts DEF Shaped, Backend!Sending
<1>3. Types'
  <2>1. \A g \in Handler : Shaped(job'[g])
    BY <1>1, HandlerFacts
  <2> QED
    BY <1>1, <2>1 DEF BackendInv, ChainTypes, Types, chainVars, Shaped, TxFits
<1>4. FactoryFits'
  BY <1>1 DEF BackendInv, FactoryFits, chainVars
<1>5. Past(k)
  BY <1>1 DEF Begun, Past, Backend!Fresh, Backend!Eligible, Backend!ClaimValid
<1>6. ASSUME NEW g \in Handler PROVE Past(job[g])'
  <2>1. Past(job'[g])
    BY <1>1, <1>5, HandlerFacts
  <2> QED
    BY <1>1, <2>1 DEF Past, Linked, Named, Scored, Funded, Stopped, Paid, Backend!Eligible,
                      Backend!ClaimValid, chainVars
<1>7. ASSUME NEW g \in Handler, job'[g].sent
      PROVE  Backend!Unmined(g)' \/ Effect(job[g])'
  <2>1. g # h /\ job'[g] = job[g]
    BY <1>1, <1>7
  <2>2. Backend!Unmined(g) \/ Effect(job[g])
    BY <1>7, <2>1 DEF BackendInv
  <2> QED
    BY <1>1, <2>1, <2>2 DEF Effect, Linked, Named, Scored, Funded, Stopped, Paid, Backend!Eligible,
                            Backend!ClaimValid, Backend!Unmined, chainVars
<1>8. PoolFits'
  <2> SUFFICES ASSUME NEW tx \in Pool
               PROVE  /\ tx.by \in Handler =>
                           job'[tx.by].sent /\ tx = Backend!Tx(tx.by, tx.by)'
                      /\ tx.call = "linkAgent" =>
                            /\ tx.identity \in isIdentity'
                            /\ \A g \in Handler :
                                  Linking(job'[g]) /\ job'[g].account = tx.account =>
                                      job'[g].identity = tx.identity
    BY <1>1 DEF PoolFits
  <2>1. ASSUME tx.by \in Handler
        PROVE  job'[tx.by].sent /\ tx = Backend!Tx(tx.by, tx.by)'
    <3>1. job[tx.by].sent /\ tx = Backend!Tx(tx.by, tx.by)
      BY <2>1 DEF BackendInv, PoolFits
    <3> QED
      BY <1>1, <1>2, <2>1, <3>1 DEF Backend!Tx
  <2>2. ASSUME tx.call = "linkAgent"
        PROVE  /\ tx.identity \in isIdentity'
               /\ \A g \in Handler :
                     Linking(job'[g]) /\ job'[g].account = tx.account =>
                         job'[g].identity = tx.identity
    <3>1. /\ tx.identity \in isIdentity /\ isIdentity' = isIdentity
          /\ \A g \in Handler :
                Linking(job[g]) /\ job[g].account = tx.account =>
                    job[g].identity = tx.identity
      BY <1>1, <2>2 DEF BackendInv, PoolFits, chainVars
    <3>2. Linking(k) => k.account # tx.account
      BY DEF Linking, Begun, Backend!Fresh, Pool
    <3> QED
      BY <1>1, <3>1, <3>2
  <2> QED
    BY <2>1, <2>2
<1>9. Alone'
  <2>1. ASSUME NEW g \in Handler, g # h, Linking(job[g]), Linking(k),
               job[g].account = k.account
        PROVE  FALSE
    <3>1. Backend!Fresh(k.account)
      BY <2>1 DEF Begun, Linking
    <3>2. job[g].step = "done"
      BY <2>1, <3>1 DEF Backend!Fresh, Backend!Busy, Linking
    <3>3. Linked(job[g]) /\ job[g].identity \in Identity
      BY <2>1, <3>2, HandlerFacts DEF Past, Shaped, Linking
    <3> QED
      BY <2>1, <3>1, <3>3, PageAssumption DEF Linked, Backend!Fresh
  <2> QED
    BY <1>1, <2>1 DEF BackendInv, Alone
<1> QED
  BY <1>3, <1>4, <1>6, <1>7, <1>8, <1>9 DEF BackendInv

-----------------------------------------------------------------------------
(* The chain only grows                                                    *)
Grows ==
    /\ \A a \in Account :
          identityOfWallet[a] # NoIdentity => identityOfWallet'[a] = identityOfWallet[a]
    /\ isIdentity \subseteq isIdentity'
    /\ held \subseteq held'
    /\ latched \subseteq latched'
    /\ funded \subseteq funded'
    /\ \A n \in Backend!Name : identityOf[n] # NoIdentity => identityOf'[n] # NoIdentity
    /\ \A a \in Agent : scoreOf[a] = Score => scoreOf'[a] = Score
    /\ \A a \in Agent : minted[a] > 0 => minted'[a] > 0

(* What one transaction of the key writes.                                 *)
Landed(tx) ==
    \/ /\ tx.call = "createIdentity"
       /\ identityOfWallet[tx.account] = NoIdentity
       /\ \E id \in Identity \ isIdentity :
             /\ identityOfWallet' = [identityOfWallet EXCEPT ![tx.account] = id]
             /\ isIdentity' = isIdentity \cup {id}
       /\ UNCHANGED <<isAgent, held, latched, identityOf, scoreOf, balanceOf, minted, funded>>
    \/ /\ tx.call = "linkAgent"
       /\ identityOfWallet[tx.account] = NoIdentity
       /\ tx.identity \in isIdentity
       /\ identityOfWallet' = [identityOfWallet EXCEPT ![tx.account] = tx.identity]
       /\ isAgent' = isAgent \cup {tx.account}
       /\ UNCHANGED <<isIdentity, held, latched, identityOf, scoreOf, balanceOf, minted,
                      funded>>
    \/ /\ tx.call = "bind"
       /\ identityOf' = [identityOf EXCEPT ![tx.name] = tx.identity]
       /\ UNCHANGED <<identityOfWallet, isIdentity, isAgent, held, latched, scoreOf, balanceOf,
                      minted, funded>>
    \/ /\ tx.call = "setScore"
       /\ scoreOf' = [scoreOf EXCEPT ![tx.account] = Score]
       /\ UNCHANGED <<identityOfWallet, isIdentity, isAgent, held, latched, identityOf,
                      balanceOf, minted, funded>>
    \/ /\ tx.call = "gasDrip"
       /\ funded' = funded \cup {tx.account}
       /\ UNCHANGED <<identityOfWallet, isIdentity, isAgent, held, latched, identityOf,
                      scoreOf, balanceOf, minted>>
    \/ /\ tx.call = "mint"
       /\ tx.account \in Backend!EligibleAccount
       /\ balanceOf' = [balanceOf EXCEPT ![tx.account] = @ + MintAmount]
       /\ minted' = [minted EXCEPT ![tx.account] = @ + MintAmount]
       /\ UNCHANGED <<identityOfWallet, isIdentity, isAgent, held, latched, identityOf,
                      scoreOf, funded>>
    \/ /\ tx.call = "setRevoked"
       /\ latched' = latched \cup {<<tx.identity, "KYC_VERIFIED">>}
       /\ UNCHANGED <<identityOfWallet, isIdentity, isAgent, held, identityOf, scoreOf,
                      balanceOf, minted, funded>>

Reverted(tx) == Backend!FactoryReverts(tx) \/ Backend!TokenReverts(tx)

(* A mined transaction reverts and leaves everything, or lands.            *)
LEMMA MineIs ==
    ASSUME Types, Backend!Mine
    PROVE  \E tx \in Pool :
              /\ tx = Head(mempool)
              /\ tx \in TxRec /\ TxFits(tx)
              /\ mempool # <<>> /\ mempool' = Tail(mempool)
              /\ mempool' \in Seq(TxRec) /\ Len(mempool') = Len(mempool) - 1
              /\ Pool' \subseteq Pool /\ Pool = Pool' \cup {tx}
              /\ UNCHANGED <<job, faults>>
              /\ \/ Reverted(tx) /\ UNCHANGED chainVars
                 \/ Landed(tx)
<1>1. /\ mempool # <<>> /\ mempool' = Tail(mempool) /\ UNCHANGED <<job, faults>>
      /\ mempool \in Seq(TxRec)
  BY DEF Types, Backend!Mine
<1>2. /\ mempool' \in Seq(TxRec) /\ Len(mempool') = Len(mempool) - 1
      /\ Head(mempool) \in Pool
      /\ Pool' \subseteq Pool /\ Pool = Pool' \cup {Head(mempool)}
  BY <1>1, PoolShrinks
<1>3. PICK tx \in Pool : tx = Head(mempool)
  BY <1>2
<1>4. tx \in TxRec /\ TxFits(tx)
  BY <1>1, PoolType DEF Types
<1>5. CASE Reverted(tx)
  BY <1>1, <1>2, <1>3, <1>4, <1>5, ChainIs DEF Backend!Mine, Reverted
<1>6. CASE ~Reverted(tx)
  <2>1. Backend!Execute(tx)
    BY <1>3, <1>6 DEF Backend!Mine, Reverted
  <2>2. Landed(tx)
    <3>1. CASE tx.call = "createIdentity"
      <4>1. /\ isIdentity # Identity
            /\ Backend!Factory!CreateIdentity(tx.account,
                    CHOOSE id \in Identity \ isIdentity : TRUE)
            /\ UNCHANGED <<Backend!claimVars, Backend!nameVars, Backend!tokenVars, funded>>
        BY <2>1, <3>1 DEF Backend!Execute
      <4>2. PICK id \in Identity \ isIdentity :
                id = CHOOSE x \in Identity \ isIdentity : TRUE
        BY <4>1 DEF ChainTypes, Types
      <4> QED
        BY <3>1, <4>1, <4>2
           DEF Landed, Backend!Factory!CreateIdentity, Backend!claimVars, Backend!nameVars,
               Backend!tokenVars
    <3>2. CASE tx.call = "linkAgent"
      BY <2>1, <3>2 DEF Landed, Backend!Execute, Backend!Factory!LinkAgent, Backend!claimVars,
                        Backend!nameVars, Backend!tokenVars
    <3>3. CASE tx.call = "bind"
      BY <2>1, <3>3 DEF Landed, Backend!Execute, Backend!Resolver!SetIdentity,
                        Backend!factoryVars, Backend!claimVars, Backend!tokenVars
    <3>4. CASE tx.call = "setScore"
      BY <2>1, <3>4 DEF Landed, Backend!Execute, Backend!Resolver!SetScore,
                        Backend!factoryVars, Backend!claimVars, Backend!tokenVars
    <3>5. CASE tx.call = "gasDrip"
      BY <2>1, <3>5 DEF Landed, Backend!Execute, Backend!factoryVars, Backend!claimVars,
                        Backend!nameVars, Backend!tokenVars
    <3>6. CASE tx.call = "mint"
      BY <2>1, <3>6 DEF Landed, Backend!Execute, Backend!Token!Mint, Backend!factoryVars,
                        Backend!claimVars, Backend!nameVars
    <3>7. CASE tx.call = "setRevoked"
      BY <2>1, <3>7 DEF Landed, Backend!Execute, Backend!factoryVars, Backend!nameVars,
                        Backend!tokenVars
    <3> QED
      BY <1>4, <3>1, <3>2, <3>3, <3>4, <3>5, <3>6, <3>7 DEF TxRec, Backend!Sending
  <2> QED
    BY <1>1, <1>2, <1>3, <1>4, <2>2
<1> QED
  BY <1>5, <1>6

LEMMA LandedFits ==
    ASSUME ChainTypes, FactoryFits, NEW tx \in TxRec, TxFits(tx), Landed(tx)
    PROVE  ChainTypes' /\ FactoryFits' /\ Grows
<1>0. /\ MintAmount \in Nat /\ MintAmount > 0 /\ Score # 0 /\ NoIdentity \notin Identity
      /\ Wallet \cap Agent = {}
  BY PageAssumption
<1>1. CASE tx.call = "createIdentity"
  <2>1. tx.account \in Wallet
    BY <1>1 DEF TxFits
  <2>2. PICK id \in Identity \ isIdentity :
           /\ identityOfWallet' = [identityOfWallet EXCEPT ![tx.account] = id]
           /\ isIdentity' = isIdentity \cup {id}
    BY <1>1 DEF Landed
  <2>3. /\ identityOfWallet[tx.account] = NoIdentity
        /\ UNCHANGED <<isAgent, held, latched, identityOf, scoreOf, balanceOf, minted, funded>>
    BY <1>1 DEF Landed
  <2>4. ChainTypes'
    BY <2>1, <2>2, <2>3 DEF ChainTypes, Account
  <2>5. FactoryFits'
    <3>1. \A a \in Account : identityOfWallet'[a] \in isIdentity' \cup {NoIdentity}
      BY <2>2, <2>3 DEF FactoryFits, ChainTypes
    <3>2. \A i \in isIdentity' : \E w \in Wallet : identityOfWallet'[w] = i
      <4>1. identityOfWallet'[tx.account] = id
        BY <2>1, <2>2 DEF ChainTypes, Account
      <4>2. ASSUME NEW i \in isIdentity PROVE \E w \in Wallet : identityOfWallet'[w] = i
        <5>1. PICK w \in Wallet : identityOfWallet[w] = i
          BY DEF FactoryFits
        <5>2. i # NoIdentity
          BY <1>0 DEF ChainTypes
        <5> QED
          BY <2>2, <2>3, <5>1, <5>2 DEF ChainTypes, Account
      <4> QED
        BY <2>1, <2>2, <4>1, <4>2
    <3>3. \A a \in isAgent' : a \in Agent /\ identityOfWallet'[a] # NoIdentity
      BY <1>0, <2>1, <2>2, <2>3 DEF FactoryFits, ChainTypes, Account
    <3>4. \A a \in Agent : minted'[a] > 0 => identityOfWallet'[a] # NoIdentity
      BY <1>0, <2>1, <2>2, <2>3 DEF FactoryFits, ChainTypes, Account
    <3> QED
      BY <3>1, <3>2, <3>3, <3>4 DEF FactoryFits
  <2>6. Grows
    BY <2>1, <2>2, <2>3 DEF Grows, ChainTypes, Account
  <2> QED
    BY <2>4, <2>5, <2>6
<1>2. CASE tx.call = "linkAgent"
  <2>1. /\ tx.account \in Agent /\ tx.identity \in Identity
        /\ tx.identity \in isIdentity
        /\ identityOfWallet[tx.account] = NoIdentity
        /\ identityOfWallet' = [identityOfWallet EXCEPT ![tx.account] = tx.identity]
        /\ isAgent' = isAgent \cup {tx.account}
        /\ UNCHANGED <<isIdentity, held, latched, identityOf, scoreOf, balanceOf, minted,
                       funded>>
    BY <1>2 DEF TxFits, Landed
  <2>4. ChainTypes'
    BY <2>1 DEF ChainTypes, Account
  <2>5. FactoryFits'
    <3>1. \A a \in Account : identityOfWallet'[a] \in isIdentity' \cup {NoIdentity}
      BY <2>1 DEF FactoryFits, ChainTypes
    <3>2. \A i \in isIdentity' : \E w \in Wallet : identityOfWallet'[w] = i
      BY <1>0, <2>1 DEF FactoryFits, ChainTypes, Account
    <3>3. \A a \in isAgent' : a \in Agent /\ identityOfWallet'[a] # NoIdentity
      BY <1>0, <2>1 DEF FactoryFits, ChainTypes, Account
    <3>4. \A a \in Agent : minted'[a] > 0 => identityOfWallet'[a] # NoIdentity
      BY <1>0, <2>1 DEF FactoryFits, ChainTypes, Account
    <3> QED
      BY <3>1, <3>2, <3>3, <3>4 DEF FactoryFits
  <2>6. Grows
    BY <2>1 DEF Grows, ChainTypes, Account
  <2> QED
    BY <2>4, <2>5, <2>6
<1>3. CASE tx.call = "bind"
  <2>1. /\ tx.name \in Backend!Name /\ tx.identity \in Identity
        /\ identityOf' = [identityOf EXCEPT ![tx.name] = tx.identity]
        /\ UNCHANGED <<identityOfWallet, isIdentity, isAgent, held, latched, scoreOf,
                       balanceOf, minted, funded>>
    BY <1>3 DEF TxFits, Landed
  <2> QED
    BY <1>0, <2>1 DEF ChainTypes, FactoryFits, Grows
<1>4. CASE tx.call = "setScore"
  <2>1. /\ tx.account \in Agent
        /\ scoreOf' = [scoreOf EXCEPT ![tx.account] = Score]
        /\ UNCHANGED <<identityOfWallet, isIdentity, isAgent, held, latched, identityOf,
                       balanceOf, minted, funded>>
    BY <1>4 DEF TxFits, Landed
  <2> QED
    BY <2>1 DEF ChainTypes, FactoryFits, Grows
<1>5. CASE tx.call = "gasDrip"
  <2>1. /\ tx.account \in Account
        /\ funded' = funded \cup {tx.account}
        /\ UNCHANGED <<identityOfWallet, isIdentity, isAgent, held, latched, identityOf,
                       scoreOf, balanceOf, minted>>
    BY <1>5 DEF TxFits, Landed
  <2> QED
    BY <2>1 DEF ChainTypes, FactoryFits, Grows
<1>6. CASE tx.call = "mint"
  <2>1. /\ tx.account \in Agent
        /\ tx.account \in Backend!EligibleAccount
        /\ balanceOf' = [balanceOf EXCEPT ![tx.account] = @ + MintAmount]
        /\ minted' = [minted EXCEPT ![tx.account] = @ + MintAmount]
        /\ UNCHANGED <<identityOfWallet, isIdentity, isAgent, held, latched, identityOf,
                       scoreOf, funded>>
    BY <1>6 DEF TxFits, Landed
  <2>2. identityOfWallet[tx.account] # NoIdentity
    BY <1>0, <2>1 DEF Backend!EligibleAccount, Backend!Eligible
  <2>3. /\ \A a \in Account : balanceOf[a] \in Nat
        /\ \A a \in Agent : minted[a] \in Nat
    BY DEF ChainTypes
  <2>4. /\ balanceOf' \in [Account -> Nat]
        /\ minted' \in [Agent -> Nat]
    BY <1>0, <2>1, <2>3 DEF ChainTypes, Account
  <2>5. /\ minted'[tx.account] > 0
        /\ \A a \in Agent : a # tx.account => minted'[a] = minted[a]
    BY <1>0, <2>1, <2>3 DEF ChainTypes
  <2> QED
    BY <2>1, <2>2, <2>4, <2>5 DEF ChainTypes, FactoryFits, Grows
<1>7. CASE tx.call = "setRevoked"
  <2>1. /\ tx.identity \in Identity
        /\ latched' = latched \cup {<<tx.identity, "KYC_VERIFIED">>}
        /\ UNCHANGED <<identityOfWallet, isIdentity, isAgent, held, identityOf, scoreOf,
                       balanceOf, minted, funded>>
    BY <1>7 DEF TxFits, Landed
  <2>2. latched' \subseteq Identity \X Backend!Topic
    BY <2>1 DEF ChainTypes, Backend!Topic
  <2> QED
    BY <2>1, <2>2 DEF ChainTypes, FactoryFits, Grows
<1> QED
  BY <1>1, <1>2, <1>3, <1>4, <1>5, <1>6, <1>7 DEF TxRec, Backend!Sending

(* What a request has seen to stays so while the chain grows.              *)
LEMMA PastStays ==
    ASSUME ChainTypes, Grows, NEW h \in Handler, UNCHANGED job,
           Shaped(job[h]), Past(job[h]),
           job[h].call = "linkAgent" /\ job[h].step # "failed" =>
               identityOfWallet'[job[h].account] \in {NoIdentity, job[h].identity}
    PROVE  /\ Past(job[h])'
           /\ Effect(job[h]) => Effect(job[h])'
<1> PICK j : j = job[h]
  OBVIOUS
<1>0. Shaped(j) /\ Past(j) /\ job'[h] = j /\ j \in JobRec
  BY DEF Shaped
<1>1. /\ j.call = "provision" => j.account \in Account /\ NameOf(j) \in Backend!Name
      /\ j.call = "linkAgent" => /\ j.account \in Account /\ j.account \in Agent
                                 /\ NameOf(j) \in Backend!Name
                                 /\ j.identity \in Identity /\ j.identity # NoIdentity
  BY <1>0, PageAssumption DEF Shaped, NameOf, Backend!Name, Account
<1>2. ASSUME j.account \in Account, j.identity # NoIdentity, Linked(j)
      PROVE  identityOfWallet'[j.account] = j.identity
  BY <1>2 DEF Grows, Linked
<1>3. ASSUME NameOf(j) \in Backend!Name, Named(j)
      PROVE  identityOf'[NameOf(j)] # NoIdentity
  BY <1>3 DEF Grows, Named
<1>4. ASSUME j.account \in Agent, Scored(j) PROVE scoreOf'[j.account] = Score
  BY <1>4 DEF Grows, Scored
<1>5. /\ Funded(j) => j.account \in funded'
      /\ Stopped(j) => <<j.identity, "KYC_VERIFIED">> \in latched'
  BY DEF Grows, Funded, Stopped
<1>6. ASSUME j.call = "linkAgent", Paid(j),
             j.green, j.identity \in Backend!Eligible'
      PROVE  minted'[j.account] > 0
  <2>1. <<j.identity, "KYC_VERIFIED">> \in held
    BY <1>0, <1>6 DEF Past
  <2>2. <<j.identity, "KYC_VERIFIED">> \notin latched
    BY <1>6 DEF Backend!Eligible, Backend!ClaimValid, Grows
  <2>3. j.identity \in Backend!Eligible
    BY <1>1, <1>6, <2>1, <2>2 DEF Backend!Eligible, Backend!ClaimValid
  <2> QED
    BY <1>1, <1>6, <2>3 DEF Paid, Grows
<1>7. Past(job[h])'
  <2>1. ASSUME j.call = "provision"
        PROVE  /\ j.identity # NoIdentity => identityOfWallet'[j.account] = j.identity
               /\ j.step = "done" => identityOf'[NameOf(j)] # NoIdentity
    BY <1>0, <1>1, <1>2, <1>3, <2>1 DEF Past
  <2>2. ASSUME j.call = "linkAgent"
        PROVE  /\ j.identity \in isIdentity'
               /\ j.green => <<j.identity, "KYC_VERIFIED">> \in held'
               /\ j.step # "failed" =>
                     identityOfWallet'[j.account] \in {NoIdentity, j.identity}
               /\ j.step \in {"bind", "setScore", "gasDrip", "mint", "done"} =>
                     identityOfWallet'[j.account] = j.identity
               /\ j.step \in {"setScore", "gasDrip", "mint", "done"} =>
                     identityOf'[NameOf(j)] # NoIdentity
               /\ j.step \in {"gasDrip", "mint", "done"} => scoreOf'[j.account] = Score
               /\ j.step \in {"mint", "done"} => j.account \in funded'
               /\ j.step = "done" /\ j.green /\ j.identity \in Backend!Eligible' =>
                     minted'[j.account] > 0
    BY <1>0, <1>1, <1>2, <1>3, <1>4, <1>5, <1>6, <2>2 DEF Past, Grows
  <2>3. j.call = "revoke" /\ j.step = "done" => <<j.identity, "KYC_VERIFIED">> \in latched'
    BY <1>0, <1>5 DEF Past
  <2> QED
    BY <1>0, <2>1, <2>2, <2>3 DEF Past, Linked, Named, Scored, Funded, Stopped, Paid, NameOf
<1>8. ASSUME Effect(j) PROVE Effect(job[h])'
  <2>1. j.step \in {"linkAgent", "setScore", "mint"} => j.call = "linkAgent"
    BY <1>0 DEF Shaped, JobRec
  <2>2. j.step = "bind" => NameOf(j) \in Backend!Name
    BY <1>0, <1>1 DEF Shaped, JobRec
  <2>3. /\ j.step = "linkAgent" => identityOfWallet'[j.account] = j.identity
        /\ j.step = "bind" => identityOf'[NameOf(j)] # NoIdentity
        /\ j.step = "setScore" => scoreOf'[j.account] = Score
        /\ j.step = "gasDrip" => j.account \in funded'
        /\ j.step = "mint" /\ j.green /\ j.identity \in Backend!Eligible' =>
              minted'[j.account] > 0
        /\ j.step = "setRevoked" => <<j.identity, "KYC_VERIFIED">> \in latched'
    BY <1>1, <1>2, <1>3, <1>4, <1>5, <1>6, <1>8, <2>1, <2>2 DEF Effect
  <2> QED
    BY <1>0, <2>3 DEF Effect, Linked, Named, Scored, Funded, Stopped, Paid, NameOf
<1> QED
  BY <1>7, <1>8

(* Once mined, a transaction has had its effect: landed now, or reverted   *)
(* because an earlier one had, or because the person is cut off.           *)
LEMMA MinedEffect ==
    ASSUME BackendInv, NEW h \in Handler, UNCHANGED job, Grows,
           NEW tx \in Pool, TxFits(tx), tx.by = h,
           (Reverted(tx) /\ UNCHANGED chainVars) \/ Landed(tx)
    PROVE  Effect(job[h])'
<1> PICK j : j = job[h]
  OBVIOUS
<1>0. ChainTypes
  BY DEF BackendInv, Types
<1>1. j \in JobRec /\ Shaped(j) /\ Past(j) /\ job'[h] = j /\ j.sent
      /\ tx = Backend!Tx(h, h)
  BY HandlerFacts DEF BackendInv, PoolFits
<1>2. /\ tx.call = j.step /\ tx.account = j.account /\ tx.identity = j.identity
      /\ tx.name = NameOf(j)
  BY <1>1, TxType DEF Shaped
<1>3. ASSUME j.step = "linkAgent" PROVE identityOfWallet'[j.account] = j.identity
  <2>1. /\ j.call = "linkAgent" /\ j.account \in Account /\ j.identity \in isIdentity
        /\ j.identity # NoIdentity /\ identityOfWallet[j.account] \in {NoIdentity, j.identity}
    BY <1>1, <1>3, PageAssumption DEF Shaped, JobRec, Past, Account
  <2>2. CASE Reverted(tx) /\ UNCHANGED chainVars
    BY <1>2, <1>3, <2>1, <2>2 DEF Reverted, Backend!FactoryReverts, Backend!TokenReverts, chainVars
  <2>3. CASE Landed(tx)
    BY <1>0, <1>2, <1>3, <2>1, <2>3 DEF Landed, ChainTypes
  <2> QED
    BY <2>2, <2>3
<1>4. ASSUME j.step = "bind" PROVE identityOf'[NameOf(j)] # NoIdentity
  <2>1. Landed(tx)
    BY <1>2, <1>4 DEF Reverted, Backend!FactoryReverts, Backend!TokenReverts
  <2>2. tx.name \in Backend!Name /\ tx.identity \in Identity
    BY <1>2, <1>4 DEF TxFits
  <2> QED
    BY <1>0, <1>2, <1>4, <2>1, <2>2, PageAssumption DEF Landed, ChainTypes
<1>5. ASSUME j.step = "setScore" PROVE scoreOf'[j.account] = Score
  <2>1. Landed(tx)
    BY <1>2, <1>5 DEF Reverted, Backend!FactoryReverts, Backend!TokenReverts
  <2>2. tx.account \in Agent
    BY <1>2, <1>5 DEF TxFits
  <2> QED
    BY <1>0, <1>2, <1>5, <2>1, <2>2 DEF Landed, ChainTypes
<1>6. ASSUME j.step = "gasDrip" PROVE j.account \in funded'
  BY <1>2, <1>6 DEF Reverted, Backend!FactoryReverts, Backend!TokenReverts, Landed
<1>7. ASSUME j.step = "mint", j.green, j.identity \in Backend!Eligible'
      PROVE  minted'[j.account] > 0
  <2>1. /\ j.call = "linkAgent" /\ j.account \in Account /\ j.account \in Agent
        /\ Linked(j) /\ <<j.identity, "KYC_VERIFIED">> \in held /\ j.identity \in Identity
    BY <1>1, <1>7 DEF Shaped, JobRec, Past, Account
  <2>2. j.identity \in Backend!Eligible
    BY <1>7, <2>1 DEF Backend!Eligible, Backend!ClaimValid, Grows
  <2>3. j.account \in Backend!EligibleAccount
    BY <2>1, <2>2 DEF Backend!EligibleAccount, Linked, Account, Backend!Account
  <2>4. Landed(tx)
    BY <1>2, <1>7, <2>3 DEF Reverted, Backend!FactoryReverts, Backend!TokenReverts
  <2>5. minted' = [minted EXCEPT ![j.account] = @ + MintAmount] /\ minted \in [Agent -> Nat]
    BY <1>0, <1>2, <1>7, <2>4 DEF Landed, ChainTypes
  <2> QED
    BY <2>1, <2>5, PageAssumption
<1>8. ASSUME j.step = "setRevoked" PROVE <<j.identity, "KYC_VERIFIED">> \in latched'
  BY <1>2, <1>8 DEF Reverted, Backend!FactoryReverts, Backend!TokenReverts, Landed
<1> QED
  BY <1>1, <1>3, <1>4, <1>5, <1>6, <1>7, <1>8
     DEF Effect, Linked, Named, Scored, Funded, Stopped, Paid, NameOf

LEMMA MineInv ==
    ASSUME BackendInv, Backend!Mine
    PROVE  BackendInv' /\ Grows
<1>0. Types /\ ChainTypes /\ FactoryFits /\ mempool \in Seq(TxRec)
  BY DEF BackendInv, Types
<1>1. PICK tx \in Pool :
              /\ tx = Head(mempool)
              /\ tx \in TxRec /\ TxFits(tx)
              /\ mempool # <<>> /\ mempool' = Tail(mempool)
              /\ mempool' \in Seq(TxRec) /\ Len(mempool') = Len(mempool) - 1
              /\ Pool' \subseteq Pool /\ Pool = Pool' \cup {tx}
              /\ UNCHANGED <<job, faults>>
              /\ \/ Reverted(tx) /\ UNCHANGED chainVars
                 \/ Landed(tx)
  BY <1>0, MineIs
<1>2. ChainTypes' /\ FactoryFits' /\ Grows
  <2>1. CASE UNCHANGED chainVars
    BY <1>0, <2>1 DEF ChainTypes, FactoryFits, Grows, chainVars
  <2>2. CASE Landed(tx)
    BY <1>0, <1>1, <2>2, LandedFits
  <2> QED
    BY <1>1, <2>1, <2>2
<1>3. Types'
  <2>1. Len(mempool') <= MaxInFlight
    BY <1>1, PageAssumption, LenProperties DEF BackendInv, Types
  <2> QED
    BY <1>1, <1>2, <2>1 DEF BackendInv, Types, Shaped, TxFits
<1>4. ASSUME NEW h \in Handler, Linking(job[h])
      PROVE  identityOfWallet'[job[h].account] \in {NoIdentity, job[h].identity}
  <2>1. /\ job[h].account \in Agent
        /\ identityOfWallet[job[h].account] \in {NoIdentity, job[h].identity}
    BY <1>4, HandlerFacts DEF Linking, Shaped, Past
  <2>2. CASE UNCHANGED chainVars
    BY <2>1, <2>2 DEF chainVars
  <2>3. CASE Landed(tx)
    <3>1. CASE tx.call = "createIdentity"
      <4>1. tx.account \in Wallet /\ tx.account # job[h].account
        BY <2>1, <3>1, <1>1, PageAssumption DEF TxFits
      <4>2. PICK id \in Identity \ isIdentity :
               identityOfWallet' = [identityOfWallet EXCEPT ![tx.account] = id]
        BY <2>3, <3>1 DEF Landed
      <4>3. /\ identityOfWallet \in [Account -> Identity \cup {NoIdentity}]
            /\ job[h].account \in Account
        BY <1>0, <2>1 DEF ChainTypes, Account
      <4> QED
        BY <2>1, <4>1, <4>2, <4>3
    <3>2. CASE tx.call = "linkAgent"
      <4>1. tx.account = job[h].account => tx.identity = job[h].identity
        BY <1>4, <3>2 DEF BackendInv, PoolFits
      <4>2. /\ identityOfWallet \in [Account -> Identity \cup {NoIdentity}]
            /\ job[h].account \in Account
            /\ identityOfWallet' = [identityOfWallet EXCEPT ![tx.account] = tx.identity]
        BY <1>0, <2>1, <2>3, <3>2 DEF Landed, ChainTypes, Account
      <4> QED
        BY <2>1, <4>1, <4>2
    <3>3. CASE tx.call \notin {"createIdentity", "linkAgent"}
      BY <2>1, <2>3, <3>3 DEF Landed
    <3> QED
      BY <3>1, <3>2, <3>3
  <2> QED
    BY <1>1, <2>2, <2>3
<1>5. ASSUME NEW h \in Handler
      PROVE  /\ Past(job[h])'
             /\ Effect(job[h]) => Effect(job[h])'
  <2>1. job' = job /\ Shaped(job[h]) /\ Past(job[h])
    BY <1>1, HandlerFacts
  <2> QED
    BY <1>0, <1>2, <1>4, <2>1, PastStays DEF Linking
<1>6. ASSUME NEW h \in Handler, job[h]'.sent
      PROVE  Backend!Unmined(h)' \/ Effect(job[h])'
  <2>1. job[h].sent
    BY <1>1, <1>6
  <2>2. CASE Effect(job[h])
    BY <1>5, <2>2
  <2>3. CASE Backend!Unmined(h)
    <3>1. PICK t \in Pool : t.by = h
      BY <1>0, <2>3, PoolType
    <3>2. CASE t \in Pool'
      BY <3>1, <3>2 DEF Pool, Backend!Unmined
    <3>3. CASE t = tx
      BY <1>1, <1>2, <3>1, <3>3, MinedEffect
    <3> QED
      BY <1>1, <3>2, <3>3
  <2> QED
    BY <2>1, <2>2, <2>3 DEF BackendInv
<1>7. PoolFits'
  BY <1>1, <1>2 DEF BackendInv, PoolFits, Grows, Linking, Backend!Tx
<1>8. Alone'
  BY <1>1 DEF BackendInv, Alone, Linking
<1> QED
  BY <1>2, <1>3, <1>5, <1>6, <1>7, <1>8 DEF BackendInv

-----------------------------------------------------------------------------
(* The steps of the page, as the backend and the chain see them            *)
Holder ==
    \/ \E w \in Wallet, id \in Identity, t \in Backend!SignedTopic :
          Backend!SubmitClaim(w, id, t)
    \/ \E a \in Account, to \in Account : Backend!TransferToken(a, to)
    \/ \E a \in Account : Backend!BurnToken(a)

BackendMove ==
    \/ UNCHANGED <<chainVars, mempool, job>> /\ faults' \in {faults, faults + 1}
    \/ Holder /\ UNCHANGED <<mempool, job, faults>>
    \/ Backend!Mine
    \/ \E h \in Handler : Backend!HandlerStep(h) \/ Backend!HandlerFault(h)
    \/ \E h \in Handler, w \in Wallet, l \in Label : Backend!StartProvision(h, w, l)
    \/ \E h \in Handler, a \in Agent, id \in isIdentity, l \in Label :
          Backend!StartLinkAgent(h, a, id, l)
    \/ \E h \in Handler, id \in Identity : Backend!StartRevoke(h, id)

LEMMA HolderFits ==
    ASSUME ChainTypes, FactoryFits, Holder
    PROVE  /\ ChainTypes' /\ FactoryFits' /\ Grows
           /\ UNCHANGED <<identityOfWallet, isIdentity, isAgent, minted>>
<1>1. ASSUME NEW w \in Wallet, NEW id \in Identity, NEW t \in Backend!SignedTopic,
             Backend!SubmitClaim(w, id, t)
      PROVE  /\ ChainTypes' /\ FactoryFits' /\ Grows
             /\ UNCHANGED <<identityOfWallet, isIdentity, isAgent, minted>>
  <2>1. /\ held' = held \cup {<<id, t>>}
        /\ UNCHANGED <<identityOfWallet, isIdentity, isAgent, latched, identityOf, scoreOf,
                       balanceOf, minted, funded>>
    BY <1>1 DEF Backend!SubmitClaim, Backend!factoryVars, Backend!nameVars, Backend!tokenVars
  <2>2. held' \subseteq Identity \X Backend!SignedTopic
    BY <2>1 DEF ChainTypes
  <2> QED
    BY <2>1, <2>2 DEF ChainTypes, FactoryFits, Grows
<1>2. ASSUME NEW a \in Account, NEW to \in Account, Backend!TransferToken(a, to)
      PROVE  /\ ChainTypes' /\ FactoryFits' /\ Grows
             /\ UNCHANGED <<identityOfWallet, isIdentity, isAgent, minted>>
  <2>1. /\ balanceOf[a] >= 1
        /\ balanceOf' = [b \in Backend!Account |->
                            balanceOf[b] + (IF b = to THEN 1 ELSE 0)
                                         - (IF b = a THEN 1 ELSE 0)]
        /\ UNCHANGED <<identityOfWallet, isIdentity, isAgent, held, latched, identityOf,
                       scoreOf, minted, funded>>
    BY <1>2 DEF Backend!TransferToken, Backend!Token!Transfer, Backend!factoryVars,
                Backend!claimVars, Backend!nameVars
  <2>2. balanceOf' \in [Account -> Nat]
    BY <2>1 DEF ChainTypes, Account, Backend!Account
  <2> QED
    BY <2>1, <2>2 DEF ChainTypes, FactoryFits, Grows
<1>3. ASSUME NEW a \in Account, Backend!BurnToken(a)
      PROVE  /\ ChainTypes' /\ FactoryFits' /\ Grows
             /\ UNCHANGED <<identityOfWallet, isIdentity, isAgent, minted>>
  <2>1. /\ balanceOf[a] >= 1
        /\ balanceOf' = [balanceOf EXCEPT ![a] = @ - 1]
        /\ UNCHANGED <<identityOfWallet, isIdentity, isAgent, held, latched, identityOf,
                       scoreOf, minted, funded>>
    BY <1>3 DEF Backend!BurnToken, Backend!Token!Burn, Backend!factoryVars,
                Backend!claimVars, Backend!nameVars
  <2>2. balanceOf' \in [Account -> Nat]
    BY <2>1 DEF ChainTypes
  <2> QED
    BY <2>1, <2>2 DEF ChainTypes, FactoryFits, Grows
<1> QED
  BY <1>1, <1>2, <1>3 DEF Holder

LEMMA QuietInv ==
    ASSUME BackendInv, ChainTypes', FactoryFits', Grows, faults' \in Nat,
           UNCHANGED <<identityOfWallet, isIdentity, mempool, job>>
    PROVE  BackendInv'
<1>1. ChainTypes /\ job' = job /\ mempool' = mempool /\ identityOfWallet' = identityOfWallet
        /\ isIdentity' = isIdentity
  BY DEF BackendInv, Types
<1>2. Types'
  BY <1>1 DEF BackendInv, Types, Pool, Shaped, TxFits
<1>3. ASSUME NEW h \in Handler
      PROVE  /\ Past(job[h])'
             /\ Effect(job[h]) => Effect(job[h])'
  <2>1. Shaped(job[h]) /\ Past(job[h])
    BY HandlerFacts
  <2>2. job[h].call = "linkAgent" /\ job[h].step # "failed" =>
               identityOfWallet'[job[h].account] \in {NoIdentity, job[h].identity}
    BY <1>1, <2>1 DEF Past
  <2> QED
    BY <1>1, <2>1, <2>2, PastStays
<1>4. \A h \in Handler : job[h]'.sent => Backend!Unmined(h)' \/ Effect(job[h])'
  BY <1>1, <1>3 DEF BackendInv, Backend!Unmined
<1>5. PoolFits'
  BY <1>1 DEF BackendInv, PoolFits, Linking, Pool, Backend!Tx
<1>6. Alone'
  BY <1>1 DEF BackendInv, Alone, Linking
<1> QED
  BY <1>2, <1>3, <1>4, <1>5, <1>6 DEF BackendInv

LEMMA BackendStays ==
    ASSUME BackendInv, BackendMove
    PROVE  BackendInv' /\ Grows
<1>0. ChainTypes /\ FactoryFits /\ faults \in Nat
  BY DEF BackendInv, Types
<1>1. CASE UNCHANGED <<chainVars, mempool, job>> /\ faults' \in {faults, faults + 1}
  <2>1. ChainTypes' /\ FactoryFits' /\ Grows /\ faults' \in Nat
    BY <1>0, <1>1 DEF ChainTypes, FactoryFits, Grows, chainVars
  <2>2. UNCHANGED <<identityOfWallet, isIdentity, mempool, job>>
    BY <1>1 DEF chainVars
  <2> QED
    BY <2>1, <2>2, QuietInv
<1>2. CASE Holder /\ UNCHANGED <<mempool, job, faults>>
  BY <1>0, <1>2, HolderFits, QuietInv
<1>3. CASE Backend!Mine
  BY <1>3, MineInv
<1>4. ASSUME UNCHANGED chainVars PROVE Grows
  BY <1>4 DEF Grows, chainVars
<1>5. CASE \E h \in Handler : Backend!HandlerStep(h) \/ Backend!HandlerFault(h)
  <2>1. PICK h \in Handler, k \in JobRec : Moved(h, k)
    BY <1>5, HandlerMoves
  <2> QED
    BY <1>4, <2>1, MovedInv DEF Moved
<1>6. ASSUME NEW h \in Handler, NEW k \in JobRec, Begun(h, k)
      PROVE  BackendInv' /\ Grows
  BY <1>4, <1>6, BegunInv DEF Begun
<1> QED
  BY <1>1, <1>2, <1>3, <1>5, <1>6, ProvisionBegins, LinkAgentBegins, RevokeBegins
     DEF BackendMove

-----------------------------------------------------------------------------
(* What a step of the page, other than a reload, does to what it knows     *)
PageMove ==
    /\ isIdentity \subseteq isIdentity'
    /\ page.identity # NoIdentity => page'.identity # NoIdentity
    /\ page'.identity \in isIdentity' \cup {NoIdentity}
    /\ page.agent # NoAgent => page'.agent # NoAgent
    /\ page'.agent # NoAgent => page.agent # NoAgent \/ page'.identity # NoIdentity
    /\ page'.status # "NONE" => page.status # "NONE" \/ page'.identity # NoIdentity
    /\ page'.casaOk => page.casaOk \/ page'.identity # NoIdentity
    /\ page'.busy # "none" => UnderWay(page.busy)'
    /\ \A r \in Run : op'[r] # op[r] => OpFits(r)'
    /\ \A r \in Run :
          op'[r] = op[r] /\ op[r].step = "await" =>
              job'[op[r].handler].call = job[op[r].handler].call
    /\ \A r \in Run :
          op'[r].seen.identity # NoIdentity =>
              op[r].seen.identity # NoIdentity \/ page'.identity # NoIdentity
    /\ \A kind \in Pressed :
          world'[kind] # world[kind] =>
              /\ world'[kind].phase = "widget" \/ world'[kind].seen.identity # NoIdentity =>
                    page'.identity # NoIdentity
              /\ world'[kind].phase = "submitting" => world'[kind].claim \in Claim
    /\ \A t \in Trigger :
          reading'[t].left # {} => reading[t].left # {} \/ page'.identity # NoIdentity
    /\ \A w \in Wallet : storage'[w] # storage[w] => storage'[w] = Saved(page')

LEMMA PageStays ==
    ASSUME PageInv, PageTypes', PageMove
    PROVE  PageInv'
<1>1. \A r \in Run : OpFits(r)'
  <2> SUFFICES ASSUME NEW r \in Run, op'[r] = op[r] PROVE OpFits(r)'
    BY DEF PageMove
  <2>1. OpFits(r)
    BY DEF PageInv
  <2> QED
    BY <2>1 DEF OpFits, PageMove
<1>2. \A kind \in Pressed :
          world'[kind].phase = "submitting" => world'[kind].claim \in Claim
  BY DEF PageInv, PageMove
<1>3. page'.busy # "none" => UnderWay(page.busy)'
  BY DEF PageMove
<1>4. Identified' => page'.identity # NoIdentity
  <2>1. Identified => page'.identity # NoIdentity
    BY DEF PageInv, PageMove
  <2>2. /\ page'.status # "NONE" => Identified \/ page'.identity # NoIdentity
        /\ page'.agent # NoAgent => Identified \/ page'.identity # NoIdentity
        /\ page'.casaOk => Identified \/ page'.identity # NoIdentity
    BY DEF PageMove, Identified
  <2>3. \A r \in Run :
           op'[r].seen.identity # NoIdentity => Identified \/ page'.identity # NoIdentity
    BY DEF PageMove, Identified
  <2>4. \A kind \in Pressed :
           world'[kind].phase = "widget" \/ world'[kind].seen.identity # NoIdentity =>
              Identified \/ page'.identity # NoIdentity
    BY DEF PageMove, Identified
  <2>5. \A t \in Trigger :
           reading'[t].left # {} => Identified \/ page'.identity # NoIdentity
    BY DEF PageMove, Identified
  <2> QED
    BY <2>1, <2>2, <2>3, <2>4, <2>5 DEF Identified
<1>5. ASSUME NEW w \in Wallet
      PROVE  /\ storage'[w].identity \in isIdentity' \cup {NoIdentity}
             /\ storage'[w].agent # NoAgent => storage'[w].identity # NoIdentity
  <2>1. CASE storage'[w] = storage[w]
    BY <2>1 DEF PageInv, PageMove
  <2>2. CASE storage'[w] = Saved(page')
    <3>1. page'.agent # NoAgent => page'.identity # NoIdentity
      BY <1>4 DEF Identified
    <3> QED
      BY <2>2, <3>1 DEF Saved, PageMove
  <2> QED
    BY <2>1, <2>2 DEF PageMove
<1> QED
  BY <1>1, <1>2, <1>3, <1>4, <1>5 DEF PageInv, PageMove

LEMMA ViewType ==
    ASSUME NEW p \in PageRec
    PROVE  View(p) \in ViewRec /\ View(p).identity = p.identity
BY DEF View, ViewRec, PageRec

LEMMA EmptyIs ==
    /\ Empty \in PageRec /\ Empty.identity = NoIdentity /\ Empty.status = "NONE"
    /\ Empty.agent = NoAgent /\ ~Empty.casaOk /\ Empty.busy = "none"
    /\ Saved(Empty) \in SavedRec /\ Saved(Empty).identity = NoIdentity
    /\ Saved(Empty).agent = NoAgent
    /\ View(Empty) \in ViewRec /\ View(Empty).identity = NoIdentity
<1>1. /\ Empty \in PageRec /\ Empty.identity = NoIdentity /\ Empty.status = "NONE"
      /\ Empty.agent = NoAgent /\ ~Empty.casaOk /\ Empty.busy = "none"
  BY DEF Empty, PageRec
<1>2. /\ Saved(Empty) \in SavedRec /\ Saved(Empty).identity = NoIdentity
      /\ Saved(Empty).agent = NoAgent
  BY <1>1 DEF Saved, SavedRec, PageRec
<1> QED
  BY <1>1, <1>2, ViewType

LEMMA QuietIs ==
    /\ Quiet \in OpRec /\ Quiet.key = "none" /\ Quiet.step = "idle"
    /\ Quiet.seen.identity = NoIdentity
<1> PICK v \in ViewRec : v = View(Empty) /\ v.identity = NoIdentity
  BY EmptyIs
<1>1. Quiet = [key |-> "none", step |-> "idle", handler |-> NoHandler, claim |-> Refused,
               seen |-> v]
  BY DEF Quiet
<1> QED
  BY <1>1 DEF OpRec

LEMMA UnpressedIs ==
    /\ Unpressed \in WorldRec /\ Unpressed.phase = "idle"
    /\ Unpressed.seen.identity = NoIdentity
<1> PICK v \in ViewRec : v = View(Empty) /\ v.identity = NoIdentity
  BY EmptyIs
<1>1. Unpressed = [phase |-> "idle", claim |-> Refused, seen |-> v]
  BY DEF Unpressed
<1> QED
  BY <1>1 DEF WorldRec

LEMMA OpType ==
    /\ \A h \in Handler : /\ Awaits(h) \in OpRec
                          /\ Awaits(h).step = "await" /\ Awaits(h).handler = h
    /\ \A c \in Claim : LET o == [Quiet EXCEPT !.step = "submit", !.claim = c]
                       IN  o \in OpRec /\ o.step = "submit" /\ o.claim = c
    /\ LET o == [Quiet EXCEPT !.step = "send"]
       IN  o \in OpRec /\ o.step = "send"
BY QuietIs DEF Awaits, OpRec

(* An operation begins in a place that is spare.                           *)
LEMMA OpBegan ==
    ASSUME PageTypes, NEW k \in Key, NEW what \in OpRec, Spare # {}, Began(k, what)
    PROVE  /\ op' \in [Run -> OpRec]
           /\ \E r \in Run :
                 /\ op'[r].key = k /\ op'[r].seen = View(page)
                 /\ op'[r].step = what.step /\ op'[r].handler = what.handler
                 /\ op'[r].claim = what.claim
                 /\ \A i \in Run : i # r => op'[i] = op[i]
<1> DEFINE o == [what EXCEPT !.key = k, !.seen = View(page)]
<1> PICK r \in Run : r = CHOOSE i \in Spare : TRUE
  BY DEF Spare
<1>1. View(page) \in ViewRec
  BY ViewType DEF PageTypes
<1>2. /\ o \in OpRec /\ o.key = k /\ o.seen = View(page) /\ o.step = what.step
      /\ o.handler = what.handler /\ o.claim = what.claim
  BY <1>1 DEF OpRec
<1>3. op' = [op EXCEPT ![r] = o]
  BY DEF Began
<1> HIDE DEF o
<1>4. /\ op' \in [Run -> OpRec] /\ op'[r] = o
      /\ \A i \in Run : i # r => op'[i] = op[i]
  BY <1>2, <1>3 DEF PageTypes
<1> QED
  BY <1>2, <1>4

LEMMA OpEnded ==
    ASSUME PageTypes, NEW r \in Run, Ended(r)
    PROVE  /\ op' \in [Run -> OpRec]
           /\ OpFits(r)' /\ op'[r].seen.identity = NoIdentity
           /\ \A i \in Run : i # r => op'[i] = op[i]
<1>1. /\ op' \in [Run -> OpRec] /\ op'[r] = Quiet
      /\ \A i \in Run : i # r => op'[i] = op[i]
  BY QuietIs DEF PageTypes, Ended
<1> QED
  BY <1>1, QuietIs DEF OpFits

LEMMA NothingIs ==
    /\ Nothing \in GotRec /\ DOMAIN Nothing = Field
    /\ Nothing["ens"] = "NONE" /\ ~Nothing["kyc"] /\ ~Nothing["accredited"]
BY DEF Nothing, GotRec, Field

LEMMA ReadingType ==
    /\ NotReading \in ReadingRec /\ NotReading.left = {}
    /\ \A seen :
          /\ seen.identity \in Identity \cup {NoIdentity}
          /\ seen.name \in Label \cup {NoLabel}
          => /\ Refresh(seen) \in ReadingRec
             /\ Refresh(seen).left # {} => seen.identity # NoIdentity
<1>1. NotReading \in ReadingRec /\ NotReading.left = {}
  BY NothingIs DEF NotReading, ReadingRec
<1>2. ASSUME NEW seen, seen.identity \in Identity \cup {NoIdentity},
             seen.name \in Label \cup {NoLabel}
      PROVE  /\ Refresh(seen) \in ReadingRec
             /\ Refresh(seen).left # {} => seen.identity # NoIdentity
  <2>1. CASE seen.identity = NoIdentity \/ seen.name = NoLabel
    BY <1>1, <2>1 DEF Refresh
  <2>2. CASE ~(seen.identity = NoIdentity \/ seen.name = NoLabel)
    <3>1. Refresh(seen) = [NotReading EXCEPT !.left = DOMAIN Nothing,
                            !.identity = seen.identity, !.name = seen.name]
      BY <2>2 DEF Refresh
    <3>2. DOMAIN Nothing \in SUBSET Field
      BY NothingIs
    <3>3. Refresh(seen) \in ReadingRec
      BY <1>1, <1>2, <3>1, <3>2 DEF ReadingRec
    <3> QED
      BY <2>2, <3>3
  <2> QED
    BY <2>1, <2>2
<1> QED
  BY <1>1, <1>2

LEMMA RefreshType ==
    /\ \A p \in PageRec : /\ Refresh(p) \in ReadingRec
                          /\ Refresh(p).left # {} => p.identity # NoIdentity
    /\ \A v \in ViewRec : /\ Refresh(v) \in ReadingRec
                          /\ Refresh(v).left # {} => v.identity # NoIdentity
<1>1. \A p \in PageRec : /\ p.identity \in Identity \cup {NoIdentity}
                         /\ p.name \in Label \cup {NoLabel}
  BY DEF PageRec
<1>2. \A v \in ViewRec : /\ v.identity \in Identity \cup {NoIdentity}
                         /\ v.name \in Label \cup {NoLabel}
  BY DEF ViewRec
<1> QED
  BY <1>1, <1>2, ReadingType

LEMMA RenderIs ==
    ASSUME PageTypes, NEW p \in PageRec, Render(p)
    PROVE  /\ page' = p
           /\ storage' \in [Wallet -> SavedRec]
           /\ \A w \in Wallet : storage'[w] # storage[w] => storage'[w] = Saved(p)
           /\ reading' \in [Trigger -> ReadingRec]
           /\ \A t \in Trigger :
                 reading'[t].left # {} => reading[t].left # {} \/ p.identity # NoIdentity
<1>1. Saved(p) \in SavedRec
  BY DEF Saved, SavedRec, PageRec
<1>2. /\ page' = p
      /\ storage' = [w \in Wallet |-> IF w = p.wallet THEN Saved(p) ELSE storage[w]]
      /\ \/ reading' = reading
         \/ reading' = [reading EXCEPT !["effect"] = Refresh(p)]
  BY DEF Render
<1>3. storage' \in [Wallet -> SavedRec]
  BY <1>1, <1>2 DEF PageTypes
<1>4. reading' \in [Trigger -> ReadingRec]
  BY <1>2, RefreshType DEF PageTypes
<1>5. \A t \in Trigger : reading'[t] # reading[t] => reading'[t] = Refresh(p)
  BY <1>2 DEF PageTypes
<1> QED
  BY <1>2, <1>3, <1>4, <1>5, RefreshType

-----------------------------------------------------------------------------
(* The user's steps                                                        *)
LEMMA Still ==
    ASSUME UNCHANGED backendVars
    PROVE  /\ BackendMove
           /\ UNCHANGED <<identityOfWallet, isIdentity, isAgent, held, job, faults, mempool>>
BY DEF backendVars, BackendMove, chainVars

LEMMA PageFacts ==
    ASSUME PageInv
    PROVE  /\ page \in PageRec /\ storage \in [Wallet -> SavedRec]
           /\ op \in [Run -> OpRec] /\ world \in [Pressed -> WorldRec]
           /\ reading \in [Trigger -> ReadingRec]
           /\ mishaps \in Nat /\ faults + mishaps <= MaxMishaps
           /\ page.identity \in isIdentity \cup {NoIdentity}
           /\ page.busy # "none" => UnderWay(page.busy)
           /\ Identified => page.identity # NoIdentity
           /\ page.busy \in Key \cup {"none"}
BY DEF PageInv, PageTypes, PageRec

(* The page alone moves, to state that says nothing of an identity it has  *)
(* not got.                                                                *)
LEMMA Renders ==
    ASSUME PageInv, NEW p \in PageRec,
           UNCHANGED <<isIdentity, job, faults, op, world>>,
           \/ Render(p)
           \/ page' = p /\ UNCHANGED <<storage, reading>>,
           mishaps' \in Nat, faults' + mishaps' <= MaxMishaps,
           p.identity \in isIdentity \cup {NoIdentity},
           page.identity # NoIdentity => p.identity # NoIdentity,
           page.agent # NoAgent => p.agent # NoAgent,
           p.agent # NoAgent => page.agent # NoAgent \/ p.identity # NoIdentity,
           p.status # "NONE" => page.status # "NONE" \/ p.identity # NoIdentity,
           p.casaOk = page.casaOk, p.busy = page.busy
    PROVE  PageTypes' /\ PageMove
<1>1. /\ page' = p
      /\ storage' \in [Wallet -> SavedRec]
      /\ \A w \in Wallet : storage'[w] # storage[w] => storage'[w] = Saved(p)
      /\ reading' \in [Trigger -> ReadingRec]
      /\ \A t \in Trigger :
            reading'[t].left # {} => reading[t].left # {} \/ p.identity # NoIdentity
  BY PageFacts, RenderIs DEF PageInv
<1>2. PageTypes'
  BY <1>1, PageFacts DEF PageTypes
<1>3. page'.busy # "none" => UnderWay(page.busy)'
  BY <1>1, PageFacts DEF UnderWay
<1>4. PageMove
  BY <1>1, <1>3, PageFacts DEF PageMove
<1> QED
  BY <1>2, <1>4

LEMMA ConnectMoves ==
    ASSUME BackendInv, PageInv, NEW w \in Wallet, Connect(w)
    PROVE  PageTypes' /\ PageMove /\ BackendMove
<1> DEFINE s  == storage[w]
           p1 == [page EXCEPT !.wallet = w]
           p2 == [p1 EXCEPT !.identity = IF s.identity = NoIdentity THEN @ ELSE s.identity]
           p3 == [p2 EXCEPT !.name = IF s.name = NoLabel THEN @ ELSE s.name]
           p4 == [p3 EXCEPT !.agent = IF s.agent = NoAgent THEN @ ELSE s.agent]
           p5 == [p4 EXCEPT !.looking = @ \cup {w}]
<1>1. Render(p5) /\ UNCHANGED backendVars /\ UNCHANGED <<op, world, mishaps>>
  BY DEF Connect
<1>2. /\ s \in SavedRec /\ s.identity \in isIdentity \cup {NoIdentity}
      /\ s.agent # NoAgent => s.identity # NoIdentity
      /\ isIdentity \subseteq Identity
  BY PageFacts DEF PageInv, BackendInv, Types, ChainTypes
<1>4. /\ p1 \in PageRec /\ p1.identity = page.identity /\ p1.agent = page.agent
      /\ p1.status = page.status /\ p1.casaOk = page.casaOk /\ p1.busy = page.busy
  BY PageFacts DEF PageRec
<1>5. /\ p2 \in PageRec
      /\ p2.identity = (IF s.identity = NoIdentity THEN page.identity ELSE s.identity)
      /\ p2.agent = page.agent
      /\ p2.status = page.status /\ p2.casaOk = page.casaOk /\ p2.busy = page.busy
  <2> HIDE DEF p1
  <2> QED
    BY <1>2, <1>4 DEF PageRec
<1>6. /\ p3 \in PageRec /\ p3.identity = p2.identity /\ p3.agent = page.agent
      /\ p3.status = page.status /\ p3.casaOk = page.casaOk /\ p3.busy = page.busy
  <2> HIDE DEF p2
  <2> QED
    BY <1>2, <1>5 DEF PageRec, SavedRec
<1>7. /\ p4 \in PageRec /\ p4.identity = p2.identity
      /\ p4.agent = (IF s.agent = NoAgent THEN page.agent ELSE s.agent)
      /\ p4.status = page.status /\ p4.casaOk = page.casaOk /\ p4.busy = page.busy
  <2> HIDE DEF p3
  <2> QED
    BY <1>2, <1>6 DEF PageRec, SavedRec
<1>8. /\ p5 \in PageRec /\ p5.identity = p4.identity /\ p5.agent = p4.agent
      /\ p5.status = page.status /\ p5.casaOk = page.casaOk /\ p5.busy = page.busy
  <2> HIDE DEF p4
  <2> QED
    BY <1>7 DEF PageRec
<1> HIDE DEF p2, p4, p5
<1>9. UNCHANGED <<isIdentity, job, faults>> /\ BackendMove
  BY <1>1, Still
<1>10. PageTypes' /\ PageMove
  BY <1>1, <1>2, <1>5, <1>7, <1>8, <1>9, PageFacts, Renders
<1> QED
  BY <1>9, <1>10

LEMMA LookedUpMoves ==
    ASSUME BackendInv, PageInv, NEW w \in Wallet, LookedUp(w)
    PROVE  PageTypes' /\ PageMove /\ BackendMove
<1> DEFINE id == identityOfWallet[w]
           p1 == [page EXCEPT !.identity = IF id = NoIdentity THEN @ ELSE id]
           p2 == [p1 EXCEPT !.looking = @ \ {w}]
<1>1. Render(p2) /\ UNCHANGED backendVars /\ UNCHANGED <<op, world, mishaps>>
  BY DEF LookedUp
<1>2. id \in isIdentity \cup {NoIdentity} /\ isIdentity \subseteq Identity
  BY DEF BackendInv, Types, ChainTypes, FactoryFits, Account
<1>3. /\ p1 \in PageRec /\ p1.identity = (IF id = NoIdentity THEN page.identity ELSE id)
      /\ p1.agent = page.agent
      /\ p1.status = page.status /\ p1.casaOk = page.casaOk /\ p1.busy = page.busy
  BY <1>2, PageFacts DEF PageRec
<1>4. /\ p2 \in PageRec /\ p2.identity = p1.identity /\ p2.agent = page.agent
      /\ p2.status = page.status /\ p2.casaOk = page.casaOk /\ p2.busy = page.busy
  <2> HIDE DEF p1
  <2> QED
    BY <1>3 DEF PageRec
<1> HIDE DEF p1, p2
<1>5. UNCHANGED <<isIdentity, job, faults>> /\ BackendMove
  BY <1>1, Still
<1>6. PageTypes' /\ PageMove
  BY <1>1, <1>2, <1>3, <1>4, <1>5, PageFacts, Renders
<1> QED
  BY <1>5, <1>6

LEMMA LookupFailsMoves ==
    ASSUME BackendInv, PageInv, NEW w \in Wallet, LookupFails(w),
           faults + mishaps < MaxMishaps
    PROVE  PageTypes' /\ PageMove /\ BackendMove
<1> PICK p : p = [page EXCEPT !.looking = @ \ {w}]
  OBVIOUS
<1>1. /\ page' = p /\ UNCHANGED <<storage, reading, op, world>> /\ UNCHANGED backendVars
      /\ mishaps' = mishaps + 1
  BY DEF LookupFails
<1>2. /\ p \in PageRec /\ p.identity = page.identity /\ p.agent = page.agent
      /\ p.status = page.status /\ p.casaOk = page.casaOk /\ p.busy = page.busy
  BY PageFacts DEF PageRec
<1>3. UNCHANGED <<isIdentity, job, faults>> /\ BackendMove
  BY <1>1, Still
<1>4. mishaps' \in Nat /\ faults' + mishaps' <= MaxMishaps
  BY <1>1, <1>3, PageFacts, PageAssumption DEF BackendInv, Types
<1>5. PageTypes' /\ PageMove
  BY <1>1, <1>2, <1>3, <1>4, PageFacts, Renders
<1> QED
  BY <1>3, <1>5

LEMMA RedeemMoves ==
    ASSUME BackendInv, PageInv, NEW a \in Backend!Account, Redeem(a)
    PROVE  PageTypes' /\ PageMove /\ BackendMove
<1>1. /\ Backend!BurnToken(a) /\ UNCHANGED <<mempool, job, faults>>
      /\ UNCHANGED <<page, storage, op, world, reading, mishaps>>
  BY DEF Redeem, pageVars
<1>2. UNCHANGED isIdentity /\ BackendMove
  BY <1>1 DEF Backend!BurnToken, Backend!factoryVars, BackendMove, Holder, Account,
              Backend!Account
<1>3. PageTypes' /\ PageMove
  BY <1>1, <1>2, PageFacts, Renders
<1> QED
  BY <1>2, <1>3

(* A click leaves what is known of an identity, and names its operation.   *)
BusyWith(k) ==
    /\ page' \in PageRec
    /\ page'.identity = page.identity /\ page'.agent = page.agent
    /\ page'.status = page.status /\ page'.casaOk = page.casaOk
    /\ page'.busy = k

LEMMA Busied ==
    ASSUME PageInv, NEW k \in Key,
           \/ page' = [page EXCEPT !.busy = k]
           \/ \E l \in Label : page' = [page EXCEPT !.label = l, !.busy = k]
    PROVE  BusyWith(k)
<1>1. CASE page' = [page EXCEPT !.busy = k]
  BY <1>1, PageFacts DEF PageRec, BusyWith
<1>2. ASSUME NEW l \in Label, page' = [page EXCEPT !.label = l, !.busy = k]
      PROVE  BusyWith(k)
  BY <1>2, PageFacts DEF PageRec, BusyWith
<1> QED
  BY <1>1, <1>2

(* What a click does, beside what it asks the backend for.                 *)
LEMMA Begins ==
    ASSUME PageInv, NEW k \in Key, NEW what \in OpRec, Spare # {}, Began(k, what),
           BusyWith(k),
           UNCHANGED <<isIdentity, faults, storage, world, reading, mishaps>>,
           \A r \in Run :
              op[r].step = "await" => job'[op[r].handler].call = job[op[r].handler].call,
           what.step \in {"await", "submit", "send"},
           what.step = "await" =>
              k \in Asked /\ what.handler \in Handler /\ job'[what.handler].call = CallOf(k),
           what.step = "submit" => what.claim \in Claim,
           what.step = "send" => page.agent # NoAgent,
           k = "agent" => page.identity # NoIdentity
    PROVE  PageTypes' /\ PageMove
<1>1. /\ page' \in PageRec /\ page'.identity = page.identity /\ page'.agent = page.agent
      /\ page'.status = page.status /\ page'.casaOk = page.casaOk
      /\ page'.busy = k
  BY DEF BusyWith
<1>2. View(page).identity = page.identity
  BY PageFacts, ViewType
<1> PICK r \in Run :
       /\ op'[r].key = k /\ op'[r].seen = View(page)
       /\ op'[r].step = what.step /\ op'[r].handler = what.handler
       /\ op'[r].claim = what.claim
       /\ \A i \in Run : i # r => op'[i] = op[i]
  BY OpBegan DEF PageInv
<1>3. PageTypes'
  BY <1>1, OpBegan, PageFacts DEF PageTypes
<1>4. OpFits(r)'
  BY <1>1, <1>2 DEF OpFits
<1>5. \A i \in Run : op'[i] # op[i] => OpFits(i)'
  BY <1>4
<1>6. UnderWay(page.busy)'
  BY <1>1 DEF UnderWay
<1>7. \A i \in Run :
         op'[i].seen.identity # NoIdentity =>
             op[i].seen.identity # NoIdentity \/ page'.identity # NoIdentity
  BY <1>1, <1>2
<1>8. PageMove
  BY <1>1, <1>5, <1>6, <1>7, PageFacts DEF PageMove
<1> QED
  BY <1>3, <1>8

(* A click that asks the backend.                                          *)
LEMMA BegunCalls ==
    ASSUME BackendInv, PageInv, Free # {}, NEW j \in JobRec, Begun(Request, j)
    PROVE  /\ job'[Request].call = j.call
           /\ \A r \in Run :
                 op[r].step = "await" => job'[op[r].handler].call = job[op[r].handler].call
           /\ UNCHANGED <<isIdentity, faults>>
<1>1. Request \in Handler /\ \A r \in Run : op[r].handler # Request
  BY DEF Request, Free
<1>2. job \in [Handler -> JobRec] /\ job' = [job EXCEPT ![Request] = j]
  BY DEF Begun, BackendInv, Types
<1>3. \A r \in Run : op[r].step = "await" => op[r].handler \in Handler
  BY DEF PageInv, OpFits
<1>4. UNCHANGED <<isIdentity, faults>>
  BY DEF Begun, chainVars
<1> QED
  BY <1>1, <1>2, <1>3, <1>4

LEMMA Asks ==
    ASSUME BackendInv, PageInv, NEW k \in Asked, Spare # {}, Free # {},
           NEW j \in JobRec, Begun(Request, j), j.call = CallOf(k),
           Began(k, Awaits(Request)),
           BusyWith(k),
           UNCHANGED <<storage, world, reading, mishaps>>,
           k = "agent" => page.identity # NoIdentity
    PROVE  PageTypes' /\ PageMove
<1>1. Request \in Handler
  BY DEF Request, Free
<1>2. /\ job'[Request].call = CallOf(k)
      /\ \A r \in Run :
            op[r].step = "await" => job'[op[r].handler].call = job[op[r].handler].call
      /\ UNCHANGED <<isIdentity, faults>>
  BY BegunCalls
<1> PICK o \in OpRec : o = Awaits(Request) /\ o.step = "await" /\ o.handler = Request
  BY <1>1, OpType
<1> QED
  BY <1>1, <1>2, Begins DEF Asked, Key

LEMMA ClickProvisionMoves ==
    ASSUME BackendInv, PageInv, NEW l \in Label, ClickProvision(l)
    PROVE  PageTypes' /\ PageMove /\ BackendMove
<1>1. /\ page.wallet \in Wallet /\ Free # {} /\ Spare # {}
      /\ Backend!StartProvision(Request, page.wallet, l)
      /\ Began("provision", Awaits(Request))
      /\ page' = [page EXCEPT !.label = l, !.busy = "provision"]
      /\ UNCHANGED <<storage, world, reading, mishaps>>
  BY PageFacts DEF ClickProvision, Clickable, PageRec
<1>2. Request \in Handler
  BY <1>1 DEF Request, Free
<1>3. PICK j \in JobRec : Begun(Request, j) /\ j.call = "provision"
  BY <1>1, <1>2, ProvisionBegins
<1>4. BackendMove
  BY <1>1, <1>2 DEF BackendMove
<1>5. PageTypes' /\ PageMove
  BY <1>1, <1>3, Asks, Busied DEF Asked, CallOf, Key
<1> QED
  BY <1>4, <1>5

LEMMA ClickAgentMoves ==
    ASSUME BackendInv, PageInv, ClickAgent
    PROVE  PageTypes' /\ PageMove /\ BackendMove
<1>1. /\ page.status = "GREEN" /\ Free # {} /\ Spare # {} /\ page.label # NoLabel
      /\ Began("agent", Awaits(Request))
      /\ page' = [page EXCEPT !.busy = "agent"]
      /\ UNCHANGED <<storage, world, reading, mishaps>>
  BY DEF ClickAgent, Clickable
<1>2. Request \in Handler
  BY <1>1 DEF Request, Free
<1>3. page.identity \in isIdentity /\ page.identity # NoIdentity /\ page.label \in Label
  BY <1>1, PageFacts DEF Identified, PageRec
<1>4. PICK a \in Agent : Backend!StartLinkAgent(Request, a, page.identity, page.label)
  BY DEF ClickAgent
<1>5. PICK j \in JobRec : Begun(Request, j) /\ j.call = "linkAgent"
  BY <1>2, <1>3, <1>4, LinkAgentBegins
<1>6. BackendMove
  BY <1>2, <1>3, <1>4 DEF BackendMove
<1>7. PageTypes' /\ PageMove
  BY <1>1, <1>3, <1>5, Asks, Busied DEF Asked, CallOf, Key
<1> QED
  BY <1>6, <1>7

LEMMA ClickRevokeMoves ==
    ASSUME BackendInv, PageInv, ClickRevoke
    PROVE  PageTypes' /\ PageMove /\ BackendMove
<1>1. /\ page.casaOk /\ Free # {} /\ Spare # {}
      /\ Backend!StartRevoke(Request, page.identity)
      /\ Began("revoke", Awaits(Request))
      /\ page' = [page EXCEPT !.busy = "revoke"]
      /\ UNCHANGED <<storage, world, reading, mishaps>>
  BY DEF ClickRevoke, Clickable
<1>2. Request \in Handler
  BY <1>1 DEF Request, Free
<1>3. page.identity \in Identity /\ page.identity # NoIdentity
  BY <1>1, PageFacts DEF Identified, PageRec
<1>4. PICK j \in JobRec : Begun(Request, j) /\ j.call = "revoke"
  BY <1>1, <1>2, <1>3, RevokeBegins
<1>5. BackendMove
  BY <1>1, <1>2, <1>3 DEF BackendMove
<1>6. PageTypes' /\ PageMove
  BY <1>1, <1>4, Asks, Busied DEF Asked, CallOf, Key
<1> QED
  BY <1>5, <1>6

LEMMA ClickAccreditedMoves ==
    ASSUME BackendInv, PageInv, ClickAccredited
    PROVE  PageTypes' /\ PageMove /\ BackendMove
<1>1. PICK c : /\ c = Issue!MockClaim(page.identity, "ACCREDITED_INVESTOR", TRUE)
               /\ c # Refused
               /\ Began("accredited", [Quiet EXCEPT !.step = "submit", !.claim = c])
  BY DEF ClickAccredited
<1>2. /\ page.status = "LIMITED" /\ Spare # {}
      /\ page' = [page EXCEPT !.busy = "accredited"]
      /\ UNCHANGED <<storage, world, reading, mishaps>> /\ UNCHANGED backendVars
  BY DEF ClickAccredited, Clickable
<1>3. page.identity \in Identity /\ page.identity # NoIdentity
  BY <1>2, PageFacts DEF Identified, PageRec
<1>4. c \in Claim
  BY <1>1, <1>3 DEF Issue!MockClaim, Issue!SignClaim, Claim, Backend!SignedTopic,
                    Backend!Topic
<1> PICK o \in OpRec : o = [Quiet EXCEPT !.step = "submit", !.claim = c]
                       /\ o.step = "submit" /\ o.claim = c
  BY <1>4, OpType
<1>5. UNCHANGED <<isIdentity, job, faults>> /\ BackendMove
  BY <1>2, Still
<1>6. PageTypes' /\ PageMove
  BY <1>1, <1>2, <1>4, <1>5, Begins, Busied DEF Key
<1> QED
  BY <1>5, <1>6

LEMMA ClickCasaMoves ==
    ASSUME BackendInv, PageInv, NEW k \in {"casa", "casa-retry"}, ClickCasa(k)
    PROVE  PageTypes' /\ PageMove /\ BackendMove
<1>1. /\ page.agent # NoAgent /\ Spare # {}
      /\ Began(k, [Quiet EXCEPT !.step = "send"])
      /\ page' = [page EXCEPT !.busy = k]
      /\ UNCHANGED <<storage, world, reading, mishaps>> /\ UNCHANGED backendVars
  BY DEF ClickCasa, Clickable
<1> PICK o \in OpRec : o = [Quiet EXCEPT !.step = "send"] /\ o.step = "send"
  BY OpType
<1>2. UNCHANGED <<isIdentity, job, faults>> /\ BackendMove
  BY <1>1, Still
<1>3. PageTypes' /\ PageMove
  BY <1>1, <1>2, Begins, Busied DEF Key
<1> QED
  BY <1>2, <1>3

-----------------------------------------------------------------------------
(* The steps of the page's operations                                      *)
LEMMA Ends ==
    ASSUME PageInv, NEW r \in Run, Ended(r),
           UNCHANGED <<isIdentity, job, faults, world, mishaps>>,
           page' \in PageRec, page'.busy = "none",
           page'.identity \in isIdentity \cup {NoIdentity},
           page.identity # NoIdentity => page'.identity # NoIdentity,
           page.agent # NoAgent => page'.agent # NoAgent,
           page'.agent # NoAgent => page.agent # NoAgent \/ page'.identity # NoIdentity,
           page'.status = page.status,
           page'.casaOk => page.casaOk \/ page'.identity # NoIdentity,
           storage' \in [Wallet -> SavedRec],
           \A w \in Wallet : storage'[w] # storage[w] => storage'[w] = Saved(page'),
           reading' \in [Trigger -> ReadingRec],
           \A t \in Trigger :
              reading'[t].left # {} => reading[t].left # {} \/ page'.identity # NoIdentity
    PROVE  PageTypes' /\ PageMove
<1>1. /\ op' \in [Run -> OpRec] /\ op'[r].seen.identity = NoIdentity /\ OpFits(r)'
      /\ \A i \in Run : i # r => op'[i] = op[i]
  BY OpEnded DEF PageInv
<1>2. PageTypes'
  BY <1>1, PageFacts DEF PageTypes
<1>3. \A i \in Run : op'[i] # op[i] => OpFits(i)'
  BY <1>1
<1>4. \A i \in Run :
         op'[i].seen.identity # NoIdentity => op[i].seen.identity # NoIdentity
  BY <1>1
<1>5. PageMove
  BY <1>3, <1>4 DEF PageMove
<1> QED
  BY <1>2, <1>5

(* A view that knew an identity leaves the page with one.                  *)
LEMMA RefreshIs ==
    ASSUME PageInv, NEW t \in Trigger, NEW v \in ViewRec,
           v.identity # NoIdentity => page.identity # NoIdentity,
           reading' = [reading EXCEPT ![t] = Refresh(v)]
    PROVE  /\ reading' \in [Trigger -> ReadingRec]
           /\ \A u \in Trigger :
                 reading'[u].left # {} => reading[u].left # {} \/ page.identity # NoIdentity
<1>1. /\ Refresh(v) \in ReadingRec
      /\ Refresh(v).left # {} => page.identity # NoIdentity
  BY RefreshType
<1> QED
  BY <1>1, PageFacts

LEMMA Continues ==
    ASSUME PageInv, NEW r \in Run, AwaitsRefresh(r),
           UNCHANGED <<isIdentity, job, faults, page, storage, world, mishaps>>
    PROVE  PageTypes' /\ PageMove
<1> DEFINE o == [op[r] EXCEPT !.step = "refresh", !.handler = NoHandler, !.claim = Refused]
<1>1. /\ op[r] \in OpRec /\ op[r].seen \in ViewRec
      /\ op[r].seen.identity # NoIdentity => page.identity # NoIdentity
      /\ op[r].key = "agent" => op[r].seen.identity # NoIdentity
  BY PageFacts DEF PageInv, OpFits, OpRec, Identified
<1>2. /\ o \in OpRec /\ o.key = op[r].key /\ o.seen = op[r].seen /\ o.step = "refresh"
  BY <1>1 DEF OpRec
<1>3. op' = [op EXCEPT ![r] = o] /\ reading' = [reading EXCEPT ![r] = Refresh(op[r].seen)]
  BY DEF AwaitsRefresh
<1> HIDE DEF o
<1>4. /\ op' \in [Run -> OpRec] /\ op'[r] = o
      /\ \A i \in Run : i # r => op'[i] = op[i]
  BY <1>2, <1>3, PageFacts
<1>5. /\ reading' \in [Trigger -> ReadingRec]
      /\ \A u \in Trigger :
            reading'[u].left # {} => reading[u].left # {} \/ page'.identity # NoIdentity
  BY <1>1, <1>3, RefreshIs DEF Trigger
<1>6. PageTypes'
  BY <1>4, <1>5, PageFacts DEF PageTypes
<1>7. OpFits(r)'
  BY <1>1, <1>2, <1>4 DEF OpFits
<1>8. /\ \A i \in Run : op'[i] # op[i] => OpFits(i)'
      /\ \A i \in Run : op'[i].key = op[i].key /\ op'[i].seen = op[i].seen
  BY <1>2, <1>4, <1>7
<1>9. page'.busy # "none" => UnderWay(page.busy)'
  BY <1>8, PageFacts DEF UnderWay
<1>10. PageMove
  BY <1>5, <1>8, <1>9, PageFacts DEF PageMove
<1> QED
  BY <1>6, <1>10

(* The request an operation awaits has ended; what it has found is there.  *)
LEMMA AnswerIs ==
    ASSUME BackendInv, PageInv, NEW r \in Run, op[r].step = "await"
    PROVE  LET j == job[op[r].handler]
           IN  /\ op[r].handler \in Handler
               /\ j \in JobRec /\ j.call = CallOf(op[r].key)
               /\ j.call = "provision" /\ j.step = "done" =>
                     j.identity \in isIdentity /\ j.label \in Label
               /\ j.call = "linkAgent" /\ j.step = "done" =>
                     j.account \in Agent /\ j.label \in Label
<1> DEFINE j == job[op[r].handler]
<1>1. op[r].handler \in Handler /\ j.call = CallOf(op[r].key)
  BY DEF PageInv, OpFits
<1>2. j \in JobRec /\ Shaped(j) /\ Past(j)
  BY <1>1, HandlerFacts
<1>3. ASSUME j.call = "provision", j.step = "done"
      PROVE  j.identity \in isIdentity /\ j.label \in Label
  <2>1. /\ j.identity \in Identity /\ j.label \in Label /\ j.account \in Wallet
        /\ identityOfWallet[j.account] = j.identity
    BY <1>2, <1>3, PageAssumption DEF Shaped, Past, Linked
  <2>2. identityOfWallet[j.account] \in isIdentity \cup {NoIdentity}
    BY <2>1 DEF BackendInv, FactoryFits, Account
  <2> QED
    BY <2>1, <2>2, PageAssumption
<1>4. ASSUME j.call = "linkAgent", j.step = "done"
      PROVE  j.account \in Agent /\ j.label \in Label
  BY <1>2, <1>4 DEF Shaped
<1> QED
  BY <1>1, <1>2, <1>3, <1>4

LEMMA SettledPage ==
    ASSUME NEW p \in PageRec
    PROVE  LET q == [p EXCEPT !.busy = "none"]
           IN  /\ q \in PageRec /\ q.busy = "none" /\ q.identity = p.identity
               /\ q.agent = p.agent /\ q.status = p.status /\ q.casaOk = p.casaOk
BY DEF PageRec

(* An operation that ends and renders what it was told.                    *)
LEMMA EndsWith ==
    ASSUME BackendInv, PageInv, NEW r \in Run, Ended(r), UNCHANGED backendVars,
           UNCHANGED <<world, mishaps>>,
           NEW q \in PageRec, Render([q EXCEPT !.busy = "none"]),
           q.status = page.status, q.casaOk = page.casaOk,
           q.identity \in isIdentity \cup {NoIdentity},
           page.identity # NoIdentity => q.identity # NoIdentity,
           page.agent # NoAgent => q.agent # NoAgent,
           q.agent # NoAgent => page.agent # NoAgent \/ q.identity # NoIdentity
    PROVE  PageTypes' /\ PageMove /\ BackendMove
<1> DEFINE p == [q EXCEPT !.busy = "none"]
<1>1. /\ p \in PageRec /\ p.busy = "none" /\ p.identity = q.identity /\ p.agent = q.agent
      /\ p.status = page.status /\ p.casaOk = page.casaOk
  BY SettledPage
<1>2. Render(p)
  OBVIOUS
<1> HIDE DEF p
<1>3. UNCHANGED <<isIdentity, job, faults>> /\ BackendMove
  BY Still
<1>4. /\ page' = p
      /\ storage' \in [Wallet -> SavedRec]
      /\ \A v \in Wallet : storage'[v] # storage[v] => storage'[v] = Saved(p)
      /\ reading' \in [Trigger -> ReadingRec]
      /\ \A t \in Trigger :
            reading'[t].left # {} => reading[t].left # {} \/ p.identity # NoIdentity
  BY <1>1, <1>2, RenderIs DEF PageInv
<1>5. PageTypes' /\ PageMove
  BY <1>1, <1>3, <1>4, Ends
<1> QED
  BY <1>3, <1>5

LEMMA ProvisionedMoves ==
    ASSUME BackendInv, PageInv, NEW r \in Run, op[r].key = "provision", Provisioned(r)
    PROVE  PageTypes' /\ PageMove /\ BackendMove
<1> DEFINE j == job[op[r].handler]
           q == [page EXCEPT !.identity = j.identity, !.name = j.label]
<1>1. Ended(r) /\ UNCHANGED backendVars /\ UNCHANGED <<world, mishaps>>
      /\ op[r].step = "await"
  BY DEF Provisioned, Answered
<1>2. CASE Done(r)
  <2>1. j.identity \in isIdentity /\ j.label \in Label
    BY <1>1, <1>2, AnswerIs DEF Done, CallOf
  <2>2. j.identity \in Identity /\ j.identity # NoIdentity
    BY <2>1, PageAssumption DEF BackendInv, Types, ChainTypes
  <2>3. Render([q EXCEPT !.busy = "none"])
    BY <1>2 DEF Provisioned
  <2> HIDE DEF j
  <2>4. /\ q \in PageRec /\ q.agent = page.agent /\ q.identity = j.identity
        /\ q.status = page.status /\ q.casaOk = page.casaOk
    BY <2>1, <2>2, PageFacts DEF PageRec
  <2> HIDE DEF q
  <2> QED
    BY <1>1, <2>1, <2>2, <2>3, <2>4, EndsWith
<1>3. CASE ~Done(r)
  <2>1. Render([page EXCEPT !.busy = "none"])
    BY <1>3 DEF Provisioned
  <2> QED
    BY <1>1, <2>1, PageFacts, EndsWith
<1> QED
  BY <1>2, <1>3

LEMMA AgentLinkedMoves ==
    ASSUME BackendInv, PageInv, NEW r \in Run, op[r].key = "agent", AgentLinked(r)
    PROVE  PageTypes' /\ PageMove /\ BackendMove
<1> DEFINE j == job[op[r].handler]
           a == [address |-> j.account, label |-> j.label]
           q == [page EXCEPT !.agent = a, !.registered = FALSE]
<1>1. /\ Ended(r) /\ UNCHANGED backendVars /\ UNCHANGED <<world, mishaps>>
      /\ op[r].step = "await"
  BY DEF AgentLinked, Answered
<1>2. page.identity # NoIdentity
  BY PageFacts DEF PageInv, OpFits, Identified
<1>3. CASE Done(r)
  <2>1. j.account \in Agent /\ j.label \in Label
    BY <1>1, <1>3, AnswerIs DEF Done, CallOf
  <2>2. Render([q EXCEPT !.busy = "none"])
    BY <1>3 DEF AgentLinked
  <2>3. a \in AgentRec /\ a # NoAgent
    BY <2>1, PageAssumption DEF AgentRec
  <2> HIDE DEF a
  <2>4. /\ q \in PageRec /\ q.identity = page.identity /\ q.agent = a
        /\ q.status = page.status /\ q.casaOk = page.casaOk
    BY <2>3, PageFacts DEF PageRec
  <2> HIDE DEF q
  <2> QED
    BY <1>1, <1>2, <2>2, <2>3, <2>4, PageFacts, EndsWith
<1>4. CASE ~Done(r)
  <2>1. Render([page EXCEPT !.busy = "none"])
    BY <1>4 DEF AgentLinked
  <2> QED
    BY <1>1, <2>1, PageFacts, EndsWith
<1> QED
  BY <1>3, <1>4

(* A claim lands on the chain, or its call reverts.                        *)
LEMMA ClaimLandsMoves ==
    ASSUME BackendInv, NEW w, NEW c \in Claim, ClaimLands(w, c),
           UNCHANGED <<mempool, job, faults>>
    PROVE  UNCHANGED <<isIdentity, job, faults>> /\ BackendMove
<1>1. c.identity \in Identity /\ c.topic \in Backend!SignedTopic
  BY DEF Claim
<1>2. CASE UNCHANGED chainVars
  BY <1>2 DEF BackendMove, chainVars
<1>3. CASE Backend!SubmitClaim(w, c.identity, c.topic)
  <2>1. w \in Wallet /\ UNCHANGED isIdentity
    BY <1>3 DEF Backend!SubmitClaim, Backend!factoryVars
  <2> QED
    BY <1>1, <1>3, <2>1 DEF BackendMove, Holder
<1> QED
  BY <1>2, <1>3 DEF ClaimLands

LEMMA AccreditedLandsMoves ==
    ASSUME BackendInv, PageInv, NEW r \in Run, AccreditedLands(r)
    PROVE  PageTypes' /\ PageMove /\ BackendMove
<1>1. /\ op[r].step = "submit" /\ ClaimLands(op[r].seen.wallet, op[r].claim)
      /\ AwaitsRefresh(r)
      /\ UNCHANGED <<mempool, job, faults, page, storage, world, mishaps>>
  BY DEF AccreditedLands
<1>2. op[r].claim \in Claim
  BY <1>1 DEF PageInv, OpFits
<1>3. UNCHANGED <<isIdentity, job, faults>> /\ BackendMove
  BY <1>1, <1>2, ClaimLandsMoves
<1>4. PageTypes' /\ PageMove
  BY <1>1, <1>3, Continues
<1> QED
  BY <1>3, <1>4

(* An operation that ends and changes nothing but the page's busy.         *)
LEMMA OnlyEnds ==
    ASSUME BackendInv, PageInv, NEW r \in Run, Ended(r),
           page' = [page EXCEPT !.busy = "none"],
           UNCHANGED <<storage, world, reading, mishaps>>, UNCHANGED backendVars
    PROVE  PageTypes' /\ PageMove /\ BackendMove
<1>1. UNCHANGED <<isIdentity, job, faults>> /\ BackendMove
  BY Still
<1>2. /\ page' \in PageRec /\ page'.busy = "none" /\ page'.identity = page.identity
      /\ page'.agent = page.agent /\ page'.status = page.status
      /\ page'.casaOk = page.casaOk
  BY PageFacts, SettledPage
<1>3. PageTypes' /\ PageMove
  BY <1>1, <1>2, PageFacts, Ends
<1> QED
  BY <1>1, <1>3

LEMMA RevokedMoves ==
    ASSUME BackendInv, PageInv, NEW r \in Run, Revoked(r)
    PROVE  PageTypes' /\ PageMove /\ BackendMove
<1>1. UNCHANGED <<storage, world, mishaps>> /\ UNCHANGED backendVars
  BY DEF Revoked
<1>2. CASE Done(r)
  <2>1. AwaitsRefresh(r) /\ UNCHANGED page
    BY <1>2 DEF Revoked
  <2>2. UNCHANGED <<isIdentity, job, faults>> /\ BackendMove
    BY <1>1, Still
  <2>3. PageTypes' /\ PageMove
    BY <1>1, <2>1, <2>2, Continues
  <2> QED
    BY <2>2, <2>3
<1>3. CASE ~Done(r)
  <2>1. Ended(r) /\ page' = [page EXCEPT !.busy = "none"] /\ UNCHANGED reading
    BY <1>3 DEF Revoked
  <2> QED
    BY <1>1, <2>1, OnlyEnds
<1> QED
  BY <1>2, <1>3

LEMMA TransferMoves ==
    ASSUME BackendInv, PageInv, NEW r \in Run, TransferLands(r)
    PROVE  PageTypes' /\ PageMove /\ BackendMove
<1>1. /\ op[r].step = "send" /\ Ended(r)
      /\ page' = [page EXCEPT !.casaOk = TRUE, !.busy = "none"]
      /\ UNCHANGED <<storage, world, reading, mishaps>>
      /\ UNCHANGED <<mempool, job, faults>>
  BY DEF TransferLands
<1>2. page.agent # NoAgent /\ page.identity # NoIdentity
  BY <1>1, PageFacts DEF PageInv, OpFits, Identified
<1> DEFINE from == op[r].seen.agent.address
           to   == op[r].seen.wallet
<1>3. UNCHANGED isIdentity /\ BackendMove
  <2>1. CASE UNCHANGED chainVars
    BY <1>1, <2>1 DEF BackendMove, chainVars
  <2>2. CASE Backend!TransferToken(from, to) /\ Backend!MayTransfer(from, to)
    <3>1. from \in Account /\ to \in Account
      BY <2>2 DEF Backend!MayTransfer, Backend!Token!MayMove, Backend!EligibleAccount,
                  Account, Backend!Account
    <3>2. UNCHANGED isIdentity
      BY <2>2 DEF Backend!TransferToken, Backend!factoryVars
    <3> QED
      BY <1>1, <2>2, <3>1, <3>2 DEF BackendMove, Holder
  <2> QED
    BY <2>1, <2>2 DEF TransferLands
<1>4. /\ page' \in PageRec /\ page'.busy = "none" /\ page'.identity = page.identity
      /\ page'.agent = page.agent /\ page'.status = page.status
  BY <1>1, PageFacts DEF PageRec
<1>5. PageTypes' /\ PageMove
  BY <1>1, <1>2, <1>3, <1>4, PageFacts, Ends
<1> QED
  BY <1>3, <1>5

LEMMA TransferRefusedMoves ==
    ASSUME BackendInv, PageInv, NEW r \in Run, TransferRefused(r)
    PROVE  PageTypes' /\ PageMove /\ BackendMove
<1>1. /\ Ended(r) /\ page' = [page EXCEPT !.casaOk = FALSE, !.busy = "none"]
      /\ UNCHANGED <<storage, world, reading, mishaps>> /\ UNCHANGED backendVars
  BY DEF TransferRefused
<1>2. /\ page' \in PageRec /\ page'.busy = "none" /\ page'.identity = page.identity
      /\ page'.agent = page.agent /\ page'.status = page.status /\ ~page'.casaOk
  BY <1>1, PageFacts DEF PageRec
<1>3. UNCHANGED <<isIdentity, job, faults>> /\ BackendMove
  BY <1>1, Still
<1>4. PageTypes' /\ PageMove
  BY <1>1, <1>2, <1>3, PageFacts, Ends
<1> QED
  BY <1>3, <1>4

LEMMA OpStepMoves ==
    ASSUME BackendInv, PageInv, NEW r \in Run, OpStep(r)
    PROVE  PageTypes' /\ PageMove /\ BackendMove
<1>1. ASSUME Refreshed(r) PROVE PageTypes' /\ PageMove /\ BackendMove
  BY <1>1, OnlyEnds DEF Refreshed
<1>2. ASSUME AccreditedRefused(r) PROVE PageTypes' /\ PageMove /\ BackendMove
  BY <1>2, OnlyEnds DEF AccreditedRefused
<1> QED
  BY <1>1, <1>2, ProvisionedMoves, AccreditedLandsMoves, AgentLinkedMoves, TransferMoves,
     TransferRefusedMoves, RevokedMoves DEF OpStep

-----------------------------------------------------------------------------
(* The World button, the reads and the reload                              *)
WorldSet(kind, u) == world' = [world EXCEPT ![kind] = u]

LEMMA WorldMoves ==
    ASSUME PageInv, UNCHANGED <<isIdentity, job, faults>>,
           UNCHANGED <<page, storage, op, mishaps>>,
           NEW kind \in Pressed, NEW u \in WorldRec, WorldSet(kind, u),
           u.phase = "widget" \/ u.seen.identity # NoIdentity => page.identity # NoIdentity,
           u.phase = "submitting" => u.claim \in Claim,
           reading' \in [Trigger -> ReadingRec],
           \A t \in Trigger :
              reading'[t].left # {} => reading[t].left # {} \/ page'.identity # NoIdentity
    PROVE  PageTypes' /\ PageMove
<1>1. /\ world' \in [Pressed -> WorldRec] /\ world'[kind] = u
      /\ \A i \in Pressed : i # kind => world'[i] = world[i]
  BY PageFacts DEF WorldSet
<1>2. PageTypes'
  BY <1>1, PageFacts DEF PageTypes
<1>3. page'.busy # "none" => UnderWay(page.busy)'
  BY PageFacts DEF UnderWay
<1>4. PageMove
  BY <1>1, <1>3, PageFacts DEF PageMove
<1> QED
  BY <1>2, <1>4

LEMMA ResetIs ==
    ASSUME NEW kind, NEW phase \in {"idle", "widget", "submitting", "done"}, Reset(kind, phase)
    PROVE  \E u \in WorldRec : /\ WorldSet(kind, u) /\ u.phase = phase
                               /\ u.seen.identity = NoIdentity
<1> DEFINE u == [Unpressed EXCEPT !.phase = phase]
<1>1. u \in WorldRec /\ u.phase = phase /\ u.seen = Unpressed.seen
  BY UnpressedIs DEF WorldRec
<1>2. WorldSet(kind, u)
  BY DEF Reset, WorldSet
<1> HIDE DEF u
<1> QED
  BY <1>1, <1>2, UnpressedIs

LEMMA PhaseIs ==
    ASSUME PageInv, NEW kind, NEW c \in Claim, Phase(kind, "submitting", c)
    PROVE  \E u \in WorldRec : /\ WorldSet(kind, u) /\ u.phase = "submitting" /\ u.claim = c
                               /\ u.seen.identity = page.identity
<1> PICK v \in ViewRec : v = View(page) /\ v.identity = page.identity
  BY PageFacts, ViewType
<1> DEFINE u == [phase |-> "submitting", claim |-> c, seen |-> v]
<1>1. /\ u \in WorldRec /\ u.phase = "submitting" /\ u.claim = c
      /\ u.seen.identity = page.identity
  BY DEF WorldRec
<1>2. WorldSet(kind, u)
  BY DEF Phase, WorldSet
<1> HIDE DEF u
<1> QED
  BY <1>1, <1>2

LEMMA SignedClaim ==
    ASSUME NEW id \in Identity, NEW kind, NEW credential, NEW attested
    PROVE  Issue!WorldClaim(id, kind, credential, attested, "KYC_VERIFIED")
              \in Claim \cup {Refused}
BY DEF Issue!WorldClaim, Issue!SignClaim, Issue!TopicForKind, Claim, Backend!SignedTopic,
       Backend!Topic

(* A button set to something that fits the page.                           *)
Fitting(kind) ==
    \E u \in WorldRec :
        /\ WorldSet(kind, u)
        /\ u.phase = "widget" \/ u.seen.identity # NoIdentity => page.identity # NoIdentity
        /\ u.phase = "submitting" => u.claim \in Claim

LEMMA VerifiedFits ==
    ASSUME PageInv, page.identity # NoIdentity, NEW kind,
           NEW c \in Claim \cup {Refused}, Verified(kind, c)
    PROVE  Fitting(kind)
<1>1. CASE c = Refused
  <2>1. Reset(kind, "idle")
    BY <1>1 DEF Verified
  <2> QED
    BY <2>1, ResetIs DEF Fitting
<1>2. CASE c # Refused
  <2>1. c \in Claim /\ Phase(kind, "submitting", c)
    BY <1>2 DEF Verified
  <2> QED
    BY <2>1, PhaseIs DEF Fitting
<1> QED
  BY <1>1, <1>2

LEMMA WorldButtonMoves ==
    ASSUME BackendInv, PageInv, NEW kind \in Pressed,
           \/ ClickWorld(kind) \/ WidgetLeft(kind)
           \/ \E c \in Issue!Credential, b \in BOOLEAN : WidgetResult(kind, c, b)
    PROVE  PageTypes' /\ PageMove /\ BackendMove
<1>1. UNCHANGED <<page, storage, op, reading, mishaps>> /\ UNCHANGED backendVars
  BY DEF ClickWorld, WidgetLeft, WidgetResult
<1>2. UNCHANGED <<isIdentity, job, faults>> /\ BackendMove
  BY <1>1, Still
<1>3. CASE WidgetLeft(kind)
  <2>1. Reset(kind, "idle")
    BY <1>3 DEF WidgetLeft
  <2> QED
    BY <1>1, <1>2, <2>1, ResetIs, PageFacts, WorldMoves
<1>4. ASSUME Fitting(kind) PROVE PageTypes' /\ PageMove /\ BackendMove
  <2>1. PICK u \in WorldRec :
           /\ WorldSet(kind, u)
           /\ u.phase = "widget" \/ u.seen.identity # NoIdentity =>
                 page.identity # NoIdentity
           /\ u.phase = "submitting" => u.claim \in Claim
    BY <1>4 DEF Fitting
  <2> QED
    BY <1>1, <1>2, <2>1, PageFacts, WorldMoves
<1>5. CASE \E c \in Issue!Credential, b \in BOOLEAN : WidgetResult(kind, c, b)
  <2>1. PICK c \in Issue!Credential, b \in BOOLEAN :
           /\ world[kind].phase = "widget"
           /\ Verified(kind, Issue!WorldClaim(page.identity, kind, c, b, "KYC_VERIFIED"))
    BY <1>5 DEF WidgetResult
  <2>2. page.identity \in Identity /\ page.identity # NoIdentity
    BY <2>1, PageFacts DEF Identified, PageRec
  <2>3. Fitting(kind)
    BY <2>1, <2>2, SignedClaim, VerifiedFits
  <2> QED
    BY <1>4, <2>3
<1>6. CASE ClickWorld(kind)
  <2>1. page.identity \in Identity /\ page.identity # NoIdentity
    BY <1>6, PageFacts DEF ClickWorld, PageRec
  <2>2. CASE Issue!BuildRequest = "widget"
    <3>1. Reset(kind, "widget")
      BY <1>6, <2>2 DEF ClickWorld
    <3>2. Fitting(kind)
      BY <2>1, <3>1, ResetIs DEF Fitting
    <3> QED
      BY <1>4, <3>2
  <2>3. CASE Issue!BuildRequest = "mock"
    <3>1. Verified(kind, Issue!WorldClaim(page.identity, kind, Issue!Expected(kind),
                                          FALSE, "KYC_VERIFIED"))
      BY <1>6, <2>3 DEF ClickWorld
    <3>2. Fitting(kind)
      BY <2>1, <3>1, SignedClaim, VerifiedFits
    <3> QED
      BY <1>4, <3>2
  <2>4. CASE Issue!BuildRequest \notin {"widget", "mock"}
    <3>1. Reset(kind, "idle")
      BY <1>6, <2>4 DEF ClickWorld
    <3>2. Fitting(kind)
      BY <3>1, ResetIs DEF Fitting
    <3> QED
      BY <1>4, <3>2
  <2> QED
    BY <2>2, <2>3, <2>4
<1> QED
  BY <1>3, <1>5, <1>6

LEMMA WorldLandsMoves ==
    ASSUME BackendInv, PageInv, NEW kind \in Pressed, WorldLands(kind)
    PROVE  PageTypes' /\ PageMove /\ BackendMove
<1> DEFINE seen == world[kind].seen
<1>1. /\ world[kind].phase = "submitting" /\ world[kind].claim \in Claim
      /\ UNCHANGED <<mempool, job, faults>> /\ UNCHANGED <<page, storage, op, mishaps>>
  BY DEF WorldLands, PageInv
<1>2. seen \in ViewRec /\ (seen.identity # NoIdentity => page.identity # NoIdentity)
  BY PageFacts DEF Identified, WorldRec
<1>3. CASE HasGas(seen.wallet)
  <2>1. /\ ClaimLands(seen.wallet, world[kind].claim) /\ Reset(kind, "done")
        /\ reading' = [reading EXCEPT ![kind] = Refresh(seen)]
    BY <1>3 DEF WorldLands
  <2>2. UNCHANGED <<isIdentity, job, faults>> /\ BackendMove
    BY <1>1, <2>1, ClaimLandsMoves
  <2>3. /\ reading' \in [Trigger -> ReadingRec]
        /\ \A u \in Trigger :
              reading'[u].left # {} => reading[u].left # {} \/ page'.identity # NoIdentity
    BY <1>1, <1>2, <2>1, RefreshIs DEF Trigger
  <2>4. PageTypes' /\ PageMove
    BY <1>1, <2>1, <2>2, <2>3, ResetIs, WorldMoves
  <2> QED
    BY <2>2, <2>4
<1>4. CASE ~HasGas(seen.wallet)
  <2>1. Reset(kind, "idle") /\ UNCHANGED reading /\ UNCHANGED chainVars
    BY <1>4 DEF WorldLands
  <2>2. UNCHANGED <<isIdentity, job, faults>> /\ BackendMove
    BY <1>1, <2>1 DEF chainVars, BackendMove
  <2>3. PageTypes' /\ PageMove
    BY <1>1, <2>1, <2>2, ResetIs, PageFacts, WorldMoves
  <2> QED
    BY <2>2, <2>3
<1> QED
  BY <1>3, <1>4

(* What a read of each field can say.                                      *)
Says(f, value) ==
    /\ f = "ens" => value \in {"NONE", "GREEN", "REVOKED"}
    /\ f # "ens" => value \in BOOLEAN

LEMMA AnswerSteps ==
    ASSUME BackendInv, PageInv, NEW t \in Trigger, NEW f \in reading[t].left,
           NEW value, Answer(t, f, value), Says(f, value)
    PROVE  \E r \in ReadingRec :
              /\ reading' = [reading EXCEPT ![t] = IF r.left = {} THEN NotReading ELSE r]
              /\ page' = IF r.left = {} THEN [page EXCEPT !.status = PassportStatus(r.got)]
                                        ELSE page
<1> DEFINE r0 == [reading[t] EXCEPT !.left = @ \ {f}]
           g  == [r0.got EXCEPT ![f] = value]
           r  == [r0 EXCEPT !.got = g]
<1>1. reading[t] \in ReadingRec /\ f \in Field
  BY PageFacts DEF ReadingRec
<1>2. r0 \in ReadingRec
  BY <1>1 DEF ReadingRec
<1>3. r0.got \in GotRec
  BY <1>2 DEF ReadingRec
<1> HIDE DEF r0
<1>4. g \in GotRec
  <2>1. CASE f = "ens"
    BY <1>3, <2>1 DEF GotRec, Says
  <2>2. CASE f = "kyc"
    BY <1>3, <2>2 DEF GotRec, Says
  <2>3. CASE f = "accredited"
    BY <1>3, <2>3 DEF GotRec, Says
  <2> QED
    BY <1>1, <2>1, <2>2, <2>3 DEF Field
<1> HIDE DEF g
<1>5. r \in ReadingRec
  BY <1>2, <1>4 DEF ReadingRec
<1>6. /\ reading' = [reading EXCEPT ![t] = IF r.left = {} THEN NotReading ELSE r]
      /\ page' = IF r.left = {} THEN [page EXCEPT !.status = PassportStatus(r.got)] ELSE page
  BY DEF Answer, r0, g
<1> HIDE DEF r
<1> QED
  BY <1>5, <1>6

LEMMA StatusType ==
    ASSUME NEW got
    PROVE  PassportStatus(got) \in {"NONE", "LIMITED", "GREEN", "REVOKED"}
BY DEF PassportStatus

LEMMA FieldReadType ==
    ASSUME NEW f \in Field
    PROVE  /\ \A r : Says(f, FieldRead(r, f))
           /\ Says(f, Nothing[f])
<1>1. \A r : FieldRead(r, "ens") \in {"NONE", "GREEN", "REVOKED"}
  BY DEF FieldRead, Backend!Resolver!ComplianceStatus
<1>2. \A r : FieldRead(r, "kyc") = Backend!ClaimValid(r.identity, "KYC_VERIFIED")
  BY DEF FieldRead
<1>3. \A r : FieldRead(r, "accredited") = Backend!ClaimValid(r.identity, "ACCREDITED_INVESTOR")
  BY DEF FieldRead
<1>4. \A id, t : Backend!ClaimValid(id, t) \in BOOLEAN
  BY DEF Backend!ClaimValid
<1>5. \A r : FieldRead(r, "kyc") \in BOOLEAN /\ FieldRead(r, "accredited") \in BOOLEAN
  BY <1>2, <1>3, <1>4, Zenon
<1>6. Nothing["kyc"] \in BOOLEAN /\ Nothing["accredited"] \in BOOLEAN
  BY NothingIs DEF GotRec
<1>7. CASE f = "ens"
  BY <1>1, <1>7, NothingIs DEF Says
<1>8. CASE f = "kyc"
  BY <1>5, <1>6, <1>8, Zenon DEF Says
<1>9. CASE f = "accredited"
  BY <1>5, <1>6, <1>9, Zenon DEF Says
<1> QED
  BY <1>7, <1>8, <1>9 DEF Field

LEMMA AnswerMoves ==
    ASSUME BackendInv, PageInv, NEW t \in Trigger, NEW f \in reading[t].left,
           NEW value, Answer(t, f, value), Says(f, value),
           mishaps' \in {mishaps, mishaps + 1}, faults + mishaps' <= MaxMishaps
    PROVE  PageTypes' /\ PageMove /\ BackendMove
<1>1. UNCHANGED <<storage, op, world>> /\ UNCHANGED backendVars
  BY DEF Answer
<1>2. UNCHANGED <<isIdentity, job, faults>> /\ BackendMove
  BY <1>1, Still
<1>3. page.identity # NoIdentity
  BY PageFacts DEF Identified
<1>4. PICK r \in ReadingRec :
         /\ reading' = [reading EXCEPT ![t] = IF r.left = {} THEN NotReading ELSE r]
         /\ page' = IF r.left = {} THEN [page EXCEPT !.status = PassportStatus(r.got)]
                                   ELSE page
  BY AnswerSteps
<1>5. reading' \in [Trigger -> ReadingRec]
  BY <1>4, PageFacts, ReadingType
<1>6. /\ page' \in PageRec /\ page'.identity = page.identity /\ page'.agent = page.agent
      /\ page'.casaOk = page.casaOk /\ page'.busy = page.busy
  BY <1>4, PageFacts, StatusType DEF PageRec
<1>7. PageTypes'
  BY <1>1, <1>2, <1>5, <1>6, PageFacts DEF PageTypes
<1>8. page'.busy # "none" => UnderWay(page.busy)'
  BY <1>1, <1>6, PageFacts DEF UnderWay
<1>9. PageMove
  BY <1>1, <1>2, <1>3, <1>5, <1>6, <1>8, PageFacts DEF PageMove
<1> QED
  BY <1>2, <1>7, <1>9

LEMMA ReadMoves ==
    ASSUME BackendInv, PageInv, NEW t \in Trigger, NEW f \in DOMAIN Nothing,
           \/ Read(t, f)
           \/ ReadFails(t, f) /\ faults + mishaps < MaxMishaps
    PROVE  PageTypes' /\ PageMove /\ BackendMove
<1>1. f \in reading[t].left /\ f \in Field
  BY NothingIs DEF Read, ReadFails
<1>2. faults \in Nat /\ mishaps \in Nat /\ MaxMishaps \in Nat /\ faults + mishaps <= MaxMishaps
  BY PageFacts, PageAssumption DEF BackendInv, Types
<1>3. CASE Read(t, f)
  <2>1. Answer(t, f, FieldRead(reading[t], f)) /\ mishaps' = mishaps
    BY <1>3 DEF Read
  <2>2. Says(f, FieldRead(reading[t], f))
    BY <1>1, FieldReadType
  <2> QED
    BY <1>1, <1>2, <2>1, <2>2, AnswerMoves
<1>4. CASE ReadFails(t, f) /\ faults + mishaps < MaxMishaps
  <2>1. Answer(t, f, Nothing[f]) /\ mishaps' = mishaps + 1
    BY <1>4 DEF ReadFails
  <2>2. Says(f, Nothing[f])
    BY <1>1, FieldReadType
  <2>3. faults + mishaps' <= MaxMishaps
    BY <1>2, <1>4, <2>1
  <2> QED
    BY <1>1, <1>2, <2>1, <2>2, <2>3, AnswerMoves
<1> QED
  BY <1>3, <1>4

LEMMA PollMoves ==
    ASSUME BackendInv, PageInv, PollAgent
    PROVE  PageTypes' /\ PageMove /\ BackendMove
<1> PICK p : p = [page EXCEPT !.registered = TRUE]
  OBVIOUS
<1>1. /\ page' = p
      /\ UNCHANGED <<storage, op, world, reading, mishaps>> /\ UNCHANGED backendVars
  BY DEF PollAgent
<1>2. UNCHANGED <<isIdentity, job, faults>> /\ BackendMove
  BY <1>1, Still
<1>3. /\ p \in PageRec /\ p.identity = page.identity /\ p.agent = page.agent
      /\ p.status = page.status /\ p.casaOk = page.casaOk
      /\ p.busy = page.busy
  BY PageFacts DEF PageRec
<1>4. PageTypes' /\ PageMove
  BY <1>1, <1>2, <1>3, PageFacts, Renders
<1> QED
  BY <1>2, <1>4

(* The backend moves on its own and keeps what each request was for.       *)
LEMMA CallKept ==
    ASSUME BackendInv, NEW h \in Handler,
           \/ Backend!Mine
           \/ \E i \in Handler : Backend!HandlerStep(i) \/ Backend!HandlerFault(i)
    PROVE  /\ job'[h].call = job[h].call
           /\ job[h].call = "linkAgent" => job'[h].identity = job[h].identity
<1>1. CASE Backend!Mine
  BY <1>1 DEF Backend!Mine
<1>2. CASE \E i \in Handler : Backend!HandlerStep(i) \/ Backend!HandlerFault(i)
  <2>1. PICK i \in Handler, k \in JobRec : Moved(i, k)
    BY <1>2, HandlerMoves
  <2> QED
    BY <2>1 DEF Moved, Kept, BackendInv, Types
<1> QED
  BY <1>1, <1>2

LEMMA FaultsGrow ==
    ASSUME BackendInv,
           \/ Backend!Mine
           \/ \E i \in Handler : Backend!HandlerStep(i) \/ Backend!HandlerFault(i)
    PROVE  /\ faults' \in {faults, faults + 1}
           /\ (Backend!Mine \/ \E i \in Handler : Backend!HandlerStep(i)) => faults' = faults
BY DEF Backend!Mine, Backend!HandlerStep, Backend!HandlerFault, Backend!CheckIdentity,
       Backend!ReadBack, Backend!ReadAgent, Backend!SkipDrip, Backend!Send,
       Backend!SendRefused, Backend!Receipt, Backend!SendAnswerLost, Backend!ReceiptTimeout

LEMMA BackendAlone ==
    ASSUME BackendInv, PageInv, UNCHANGED pageVars,
           \/ Backend!Mine
           \/ \E h \in Handler :
                 \/ Backend!HandlerStep(h)
                 \/ Backend!HandlerFault(h) /\ faults + mishaps < MaxMishaps
    PROVE  PageTypes' /\ PageMove /\ BackendMove
<1>1. BackendMove
  BY DEF BackendMove
<1>2. isIdentity \subseteq isIdentity'
  BY <1>1, BackendStays DEF Grows
<1>3. UNCHANGED <<page, storage, op, world, reading, mishaps>>
  BY DEF pageVars
<1>4. faults' + mishaps <= MaxMishaps
  <2>1. faults \in Nat /\ mishaps \in Nat /\ MaxMishaps \in Nat
    BY PageFacts, PageAssumption DEF BackendInv, Types
  <2> QED
    BY <2>1, FaultsGrow, PageFacts
<1>5. PageTypes'
  BY <1>3, <1>4, PageFacts DEF PageTypes
<1>6. \A r \in Run :
         op[r].step = "await" => job'[op[r].handler].call = job[op[r].handler].call
  BY CallKept DEF PageInv, OpFits
<1>7. page'.busy # "none" => UnderWay(page.busy)'
  BY <1>3, PageFacts DEF UnderWay
<1>8. PageMove
  BY <1>2, <1>3, <1>6, <1>7, PageFacts DEF PageMove
<1> QED
  BY <1>1, <1>5, <1>8

LEMMA ReloadMoves ==
    ASSUME BackendInv, PageInv, Reload
    PROVE  PageInv' /\ BackendMove
<1>1. /\ page' = Empty /\ op' = [r \in Run |-> Quiet]
      /\ world' = [k \in Pressed |-> Unpressed]
      /\ reading' = [t \in Trigger |-> NotReading]
      /\ mishaps' = mishaps + 1 /\ faults + mishaps < MaxMishaps
      /\ UNCHANGED storage /\ UNCHANGED backendVars
  BY DEF Reload
<1>2. UNCHANGED <<isIdentity, job, faults>> /\ BackendMove
  BY <1>1, Still
<1>3. mishaps' \in Nat /\ faults' + mishaps' <= MaxMishaps
  BY <1>1, <1>2, PageFacts, PageAssumption DEF BackendInv, Types
<1>4. \A w \in Wallet :
         /\ storage'[w].identity \in isIdentity' \cup {NoIdentity}
         /\ storage'[w].agent # NoAgent => storage'[w].identity # NoIdentity
  BY <1>1, <1>2 DEF PageInv
<1>5. PageTypes'
  BY <1>1, <1>3, PageFacts, EmptyIs, QuietIs, UnpressedIs, ReadingType DEF PageTypes
<1>6. \A r \in Run : /\ op'[r].step = "idle" /\ op'[r].key = "none"
                     /\ op'[r].seen.identity = NoIdentity
  BY <1>1, <1>3, PageFacts, QuietIs
<1>7. \A kind \in Pressed : /\ world'[kind].phase = "idle"
                            /\ world'[kind].seen.identity = NoIdentity
  BY <1>1, <1>3, PageFacts, UnpressedIs
<1>8. \A t \in Trigger : reading'[t].left = {}
  BY <1>1, <1>3, PageFacts, ReadingType
<1>9. \A r \in Run : OpFits(r)'
  BY <1>6 DEF OpFits
<1>10. ~Identified'
  BY <1>1, <1>3, PageFacts, <1>6, <1>7, <1>8, EmptyIs DEF Identified
<1>11. PageInv'
  BY <1>1, <1>4, <1>5, <1>7, <1>9, <1>10, EmptyIs DEF PageInv
<1> QED
  BY <1>2, <1>11

LEMMA NextMoves ==
    ASSUME BackendInv, PageInv, [Next]_vars
    PROVE  BackendMove /\ BackendInv' /\ PageInv'
<1>1. CASE UNCHANGED vars
  <2>1. /\ UNCHANGED backendVars
        /\ UNCHANGED <<page, storage, op, world, reading, mishaps>>
    BY <1>1 DEF vars, pageVars
  <2>2. UNCHANGED <<isIdentity, job, faults>> /\ BackendMove
    BY <2>1, Still
  <2>3. PageInv'
    BY <2>1, <2>2 DEF PageInv, PageTypes, OpFits, UnderWay, Identified
  <2> QED
    BY <2>2, <2>3, BackendStays
<1>2. CASE Reload
  BY <1>2, ReloadMoves, BackendStays
<1>3. ASSUME PageTypes', PageMove, BackendMove
      PROVE  BackendMove /\ BackendInv' /\ PageInv'
  BY <1>3, PageStays, BackendStays
<1>4. CASE UserStep
  <2>1. ASSUME NEW w \in Wallet, Connect(w) PROVE BackendMove /\ BackendInv' /\ PageInv'
    BY <1>3, <2>1, ConnectMoves
  <2>2. ASSUME NEW l \in Label, ClickProvision(l)
        PROVE  BackendMove /\ BackendInv' /\ PageInv'
    BY <1>3, <2>2, ClickProvisionMoves
  <2>3. ASSUME ClickAccredited \/ ClickAgent \/ ClickRevoke
        PROVE  BackendMove /\ BackendInv' /\ PageInv'
    BY <1>3, <2>3, ClickAccreditedMoves, ClickAgentMoves, ClickRevokeMoves
  <2>4. ASSUME ClickCasa("casa") \/ ClickCasa("casa-retry")
        PROVE  BackendMove /\ BackendInv' /\ PageInv'
    BY <1>3, <2>4, ClickCasaMoves
  <2>5. ASSUME NEW kind \in Pressed,
               \/ ClickWorld(kind) \/ WidgetLeft(kind)
               \/ \E c \in Issue!Credential, b \in BOOLEAN : WidgetResult(kind, c, b)
        PROVE  BackendMove /\ BackendInv' /\ PageInv'
    BY <1>3, <2>5, WorldButtonMoves
  <2>6. ASSUME NEW a \in Backend!Account, Redeem(a)
        PROVE  BackendMove /\ BackendInv' /\ PageInv'
    BY <1>3, <2>6, RedeemMoves
  <2> QED
    BY <1>2, <1>4, <2>1, <2>2, <2>3, <2>4, <2>5, <2>6 DEF UserStep
<1>5. CASE PageStep
  <2>1. ASSUME NEW r \in Run, OpStep(r) PROVE BackendMove /\ BackendInv' /\ PageInv'
    BY <1>3, <2>1, OpStepMoves
  <2>2. ASSUME PollAgent PROVE BackendMove /\ BackendInv' /\ PageInv'
    BY <1>3, <2>2, PollMoves
  <2>3. ASSUME NEW kind \in Pressed, WorldLands(kind)
        PROVE  BackendMove /\ BackendInv' /\ PageInv'
    BY <1>3, <2>3, WorldLandsMoves
  <2>4. ASSUME NEW t \in Trigger, NEW f \in DOMAIN Nothing, Read(t, f)
        PROVE  BackendMove /\ BackendInv' /\ PageInv'
    BY <1>3, <2>4, ReadMoves
  <2>5. ASSUME NEW w \in Wallet, LookedUp(w) PROVE BackendMove /\ BackendInv' /\ PageInv'
    BY <1>3, <2>5, LookedUpMoves
  <2> QED
    BY <1>5, <2>1, <2>2, <2>3, <2>4, <2>5 DEF PageStep
<1>6. CASE BackendStep
  BY <1>3, <1>6, BackendAlone DEF BackendStep
<1>7. CASE Fault
  <2>1. ASSUME NEW h \in Handler, Backend!HandlerFault(h), UNCHANGED pageVars
        PROVE  BackendMove /\ BackendInv' /\ PageInv'
    BY <1>3, <1>7, <2>1, BackendAlone DEF Fault
  <2>2. ASSUME NEW t \in Trigger, NEW f \in DOMAIN Nothing, ReadFails(t, f)
        PROVE  BackendMove /\ BackendInv' /\ PageInv'
    BY <1>3, <1>7, <2>2, ReadMoves DEF Fault
  <2>3. ASSUME NEW w \in Wallet, LookupFails(w)
        PROVE  BackendMove /\ BackendInv' /\ PageInv'
    BY <1>3, <1>7, <2>3, LookupFailsMoves DEF Fault
  <2> QED
    BY <1>7, <2>1, <2>2, <2>3 DEF Fault
<1> QED
  BY <1>1, <1>4, <1>5, <1>6, <1>7 DEF Next

LEMMA InitBackend ==
    ASSUME Init
    PROVE  BackendInv
<1>1. /\ identityOfWallet = [w \in Account |-> NoIdentity] /\ isIdentity = {} /\ isAgent = {}
      /\ identityOf = [n \in Backend!Name |-> NoIdentity] /\ scoreOf = [a \in Agent |-> 0]
      /\ balanceOf = [a \in Account |-> 0]
      /\ held = {} /\ latched = {} /\ minted = [a \in Agent |-> 0] /\ funded = {}
      /\ mempool = <<>> /\ job = [h \in Handler |-> Backend!Idle] /\ faults = 0
  BY DEF Init, Backend!Init, Backend!Factory!Init, Backend!Resolver!Init, Backend!Token!Init,
         Account, Backend!Account
<1>2. /\ Backend!Idle \in JobRec /\ Backend!Idle.call = "none"
      /\ Backend!Idle.step = "done" /\ ~Backend!Idle.sent
  BY PageAssumption DEF Backend!Idle, JobRec, Backend!Step
<1>3. \A h \in Handler : /\ job[h] \in JobRec /\ job[h].call = "none"
                         /\ job[h].step = "done" /\ ~job[h].sent
  BY <1>1, <1>2
<1>4. \A h \in Handler : Shaped(job[h]) /\ Past(job[h])
  BY <1>3 DEF Shaped, Past
<1>5. Pool = {} /\ Len(mempool) = 0 /\ mempool \in Seq(TxRec)
  BY <1>1 DEF Pool
<1>6. Types
  BY <1>1, <1>3, <1>4, <1>5, PageAssumption DEF Types, ChainTypes
<1>7. FactoryFits
  BY <1>1 DEF FactoryFits, Account
<1> QED
  BY <1>3, <1>4, <1>5, <1>6, <1>7 DEF BackendInv, PoolFits, Alone, Linking

LEMMA InitPage ==
    ASSUME Init
    PROVE  PageInv
<1>1. /\ page = Empty /\ op = [r \in Run |-> Quiet]
      /\ world = [k \in Pressed |-> Unpressed]
      /\ reading = [t \in Trigger |-> NotReading]
      /\ storage = [w \in Wallet |-> Saved(Empty)] /\ mishaps = 0 /\ faults = 0
  BY DEF Init, Backend!Init
<1>2. storage \in [Wallet -> SavedRec] /\ faults + mishaps <= MaxMishaps
  BY <1>1, EmptyIs, PageAssumption
<1>3. PageTypes
  BY <1>1, <1>2, EmptyIs, QuietIs, UnpressedIs, ReadingType DEF PageTypes
<1>4. \A r \in Run : /\ op[r].step = "idle" /\ op[r].key = "none"
                     /\ op[r].seen.identity = NoIdentity
  BY <1>1, <1>2, QuietIs
<1>5. \A kind \in Pressed : /\ world[kind].phase = "idle"
                            /\ world[kind].seen.identity = NoIdentity
  BY <1>1, <1>2, UnpressedIs
<1>6. \A t \in Trigger : reading[t].left = {}
  BY <1>1, <1>2, ReadingType
<1>7. \A r \in Run : OpFits(r)
  BY <1>4 DEF OpFits
<1>8. ~Identified
  BY <1>1, <1>2, <1>4, <1>5, <1>6, EmptyIs DEF Identified
<1>9. \A w \in Wallet :
         /\ storage[w].identity \in isIdentity \cup {NoIdentity}
         /\ storage[w].agent # NoAgent => storage[w].identity # NoIdentity
  BY <1>1, EmptyIs
<1> QED
  BY <1>1, <1>3, <1>5, <1>7, <1>8, <1>9, EmptyIs DEF PageInv

(* The invariant of the backend and the page together: what the requests   *)
(* and the transactions under way say of the chain is so                   *)
(* (hero.service.ts:95-248, identity.service.ts:87-108), and what the page *)
(* and its storage know is something the factory knows                     *)
(* (hero/page.tsx:52-300).                                                 *)
THEOREM Invariant == Spec => [](BackendInv /\ PageInv)
<1>1. Init => BackendInv /\ PageInv
  BY InitBackend, InitPage
<1>2. BackendInv /\ PageInv /\ [Next]_vars => (BackendInv /\ PageInv)'
  BY NextMoves
<1> QED
  BY <1>1, <1>2, PTL DEF Spec

-----------------------------------------------------------------------------
(* What a user is told                                                     *)

(* The page's state, its operations and what the backend and the chain     *)
(* keep have their types; a page that says it is busy with an operation    *)
(* has it under way (hero/page.tsx:36-135, hero.service.ts:95-248).        *)
THEOREM TypeCorrect == Spec => []TypeOK
<1>1. BackendInv /\ PageInv => TypeOK
  <2> SUFFICES ASSUME BackendInv, PageInv PROVE TypeOK
    OBVIOUS
  <2>1. Types /\ ChainTypes
    BY DEF BackendInv, Types
  <2>2. \A h \in Handler : /\ job[h].step \in Backend!Step
                           /\ job[h].tries \in 0..(MaxAttempts - 1)
    BY <2>1 DEF Types, JobRec
  <2>3. faults \in 0..MaxMishaps
    BY <2>1, PageFacts, PageAssumption DEF Types
  <2>4. Backend!TypeOK
    BY <2>1, <2>2, <2>3 DEF Types, ChainTypes, Backend!TypeOK, Account, Backend!Account
  <2>5. /\ page \in PageRec /\ op \in [Run -> OpRec] /\ world \in [Pressed -> WorldRec]
        /\ page.busy # "none" => UnderWay(page.busy)
        /\ faults + mishaps <= MaxMishaps
    BY DEF PageInv, PageTypes
  <2> QED
    BY <2>4, <2>5 DEF TypeOK, PageRec, OpRec, WorldRec, UnderWay
<1> QED
  BY <1>1, Invariant, PTL

(* Requests for one wallet that race, are refused, are lost or are late:   *)
(* the identity a request carries and answers with is the factory's, the   *)
(* factory has no other, and the name it answers with is bound             *)
(* (identity.service.ts:87-108, hero.service.ts:117-120).                  *)
THEOREM FactorysIdentity == Spec => []AnswersNameTheFactorysIdentity
<1>1. BackendInv => AnswersNameTheFactorysIdentity
  <2> SUFFICES ASSUME BackendInv PROVE AnswersNameTheFactorysIdentity
    OBVIOUS
  <2>1. ASSUME NEW h \in Handler, job[h].call = "provision"
        PROVE  /\ job[h].identity # NoIdentity =>
                     job[h].identity = identityOfWallet[job[h].account]
               /\ job[h].step = "done" =>
                     /\ job[h].identity # NoIdentity
                     /\ identityOf[<<"person", job[h].label>>] # NoIdentity
    <3>1. Shaped(job[h]) /\ Past(job[h])
      BY HandlerFacts
    <3> QED
      BY <2>1, <3>1, PageAssumption DEF Shaped, Past, Linked, Named, NameOf
  <2>2. \A id \in isIdentity : \E w \in Wallet : identityOfWallet[w] = id
    BY DEF BackendInv, FactoryFits
  <2> QED
    BY <2>1, <2>2
       DEF AnswersNameTheFactorysIdentity, Backend!AnswersNameTheFactorysIdentity,
           Backend!Answered
<1> QED
  BY <1>1, Invariant, PTL

(* A request to link an agent looks at no receipt, and still: when it      *)
(* answers, the agent is linked, named, scored and has gas, and has its    *)
(* tokens unless the person was cut off (hero.service.ts:132-170).         *)
THEOREM AgentIsWhole == Spec => []AnsweredAgentIsWhole
<1>1. BackendInv => AnsweredAgentIsWhole
  <2> SUFFICES ASSUME BackendInv, NEW h \in Handler, job[h].call = "linkAgent",
                      job[h].step = "done"
               PROVE  /\ identityOfWallet[job[h].account] = job[h].identity
                      /\ identityOf[<<"bot", job[h].label>>] # NoIdentity
                      /\ scoreOf[job[h].account] = Score
                      /\ job[h].account \in funded
                      /\ job[h].green /\ job[h].identity \in Backend!Eligible =>
                            minted[job[h].account] > 0
    BY DEF AnsweredAgentIsWhole, Backend!AnsweredAgentIsWhole, Backend!Answered
  <2>1. Shaped(job[h]) /\ Past(job[h])
    BY HandlerFacts
  <2> QED
    BY <2>1 DEF Past, Linked, Named, NameOf, Scored, Funded, Paid
<1> QED
  BY <1>1, Invariant, PTL

-----------------------------------------------------------------------------
(* The money moment                                                        *)
Burnt(a) == balanceOf[a] >= 1 /\ balanceOf' = [balanceOf EXCEPT ![a] = @ - 1]

(* An account that is not eligible keeps its tokens or redeems them.       *)
LEMMA FrozenStep ==
    ASSUME BackendInv, BackendMove, NEW a \in Account \ Backend!EligibleAccount
    PROVE  balanceOf'[a] = balanceOf[a] \/ \E b \in Account : Burnt(b)
<1>1. ASSUME UNCHANGED chainVars PROVE balanceOf'[a] = balanceOf[a]
  BY <1>1 DEF chainVars
<1>2. CASE Holder
  <2>1. ASSUME NEW w \in Wallet, NEW id \in Identity, NEW t \in Backend!SignedTopic,
               Backend!SubmitClaim(w, id, t)
        PROVE  balanceOf'[a] = balanceOf[a]
    BY <2>1 DEF Backend!SubmitClaim, Backend!tokenVars
  <2>2. ASSUME NEW b \in Account, NEW to \in Account, Backend!TransferToken(b, to)
        PROVE  balanceOf'[a] = balanceOf[a]
    <3>1. a # b /\ a # to
      BY <2>2 DEF Backend!TransferToken, Backend!Token!Transfer, Backend!Token!MayMove
    <3>2. balanceOf' = [c \in Backend!Account |->
                           balanceOf[c] + (IF c = to THEN 1 ELSE 0)
                                        - (IF c = b THEN 1 ELSE 0)]
      BY <2>2 DEF Backend!TransferToken, Backend!Token!Transfer
    <3>3. balanceOf[a] \in Nat /\ a \in Backend!Account
      BY DEF BackendInv, Types, ChainTypes, Account, Backend!Account
    <3> QED
      BY <3>1, <3>2, <3>3
  <2>3. ASSUME NEW b \in Account, Backend!BurnToken(b)
        PROVE  Burnt(b)
    BY <2>3 DEF Backend!BurnToken, Backend!Token!Burn, Burnt
  <2> QED
    BY <1>2, <2>1, <2>2, <2>3 DEF Holder
<1>3. CASE Backend!Mine
  <2>1. Types /\ balanceOf \in [Account -> Nat]
    BY DEF BackendInv, Types, ChainTypes
  <2>2. PICK tx \in Pool : UNCHANGED chainVars \/ Landed(tx)
    BY <1>3, <2>1, MineIs
  <2>3. CASE Landed(tx)
    BY <2>1, <2>3 DEF Landed
  <2> QED
    BY <1>1, <2>2, <2>3
<1>4. CASE \E h \in Handler : Backend!HandlerStep(h) \/ Backend!HandlerFault(h)
  <2>1. PICK h \in Handler, k \in JobRec : Moved(h, k)
    BY <1>4, HandlerMoves
  <2> QED
    BY <1>1, <2>1 DEF Moved
<1>5. ASSUME NEW h \in Handler, NEW k \in JobRec, Begun(h, k)
      PROVE  balanceOf'[a] = balanceOf[a]
  BY <1>1, <1>5 DEF Begun
<1> QED
  BY <1>1, <1>2, <1>3, <1>4, <1>5, ProvisionBegins, LinkAgentBegins, RevokeBegins
     DEF BackendMove

LEMMA RevokedStep ==
    ASSUME BackendInv, BackendMove, NEW a \in Account,
           <<identityOfWallet[a], "KYC_VERIFIED">> \in latched
    PROVE  /\ <<identityOfWallet'[a], "KYC_VERIFIED">> \in latched'
           /\ balanceOf'[a] <= balanceOf[a]
           /\ balanceOf'[a] < balanceOf[a] => \A b \in Account : balanceOf'[b] <= balanceOf[b]
<1>1. identityOfWallet[a] \in Identity /\ identityOfWallet[a] # NoIdentity
  BY PageAssumption DEF BackendInv, Types, ChainTypes
<1>2. identityOfWallet'[a] = identityOfWallet[a] /\ latched \subseteq latched'
  BY <1>1, BackendStays DEF Grows
<1>3. a \notin Backend!EligibleAccount
  BY DEF Backend!EligibleAccount, Backend!Eligible, Backend!ClaimValid
<1>4. balanceOf \in [Account -> Nat]
  BY DEF BackendInv, Types, ChainTypes
<1>5. CASE balanceOf'[a] = balanceOf[a]
  BY <1>2, <1>4, <1>5
<1>6. ASSUME NEW b \in Account, Burnt(b)
      PROVE  \A c \in Account : balanceOf'[c] <= balanceOf[c]
  BY <1>4, <1>6 DEF Burnt
<1> QED
  BY <1>2, <1>3, <1>5, <1>6, FrozenStep

(* A revocation the page is told of is on-chain, whatever was lost or late *)
(* on its way, and from the block it lands in the agent and the person     *)
(* receive nothing and send nothing: what was sent before it and lands     *)
(* after, what is clicked meanwhile, what is retried since.  What they     *)
(* hold they may only redeem (revocation.service.ts:113,                   *)
(* GatedERC20.sol:20-25, 64-80, hero-chain.ts:105-126).                    *)
THEOREM RevocationHolds == Spec => AnsweredRevocationHolds
<1>1. ASSUME BackendInv
      PROVE  \A h \in Handler :
                Backend!Answered(h, "revoke") => <<job[h].identity, "KYC_VERIFIED">> \in latched
  BY <1>1 DEF BackendInv, Backend!Answered, Past, Stopped
<1>2. ASSUME BackendInv, PageInv, [Next]_vars
      PROVE  \A a \in Account :
                <<identityOfWallet[a], "KYC_VERIFIED">> \in latched =>
                    /\ <<identityOfWallet'[a], "KYC_VERIFIED">> \in latched'
                    /\ balanceOf'[a] <= balanceOf[a]
                    /\ balanceOf'[a] < balanceOf[a] =>
                          \A b \in Account : balanceOf'[b] <= balanceOf[b]
  BY <1>2, NextMoves, RevokedStep
<1>3. BackendInv /\ PageInv /\ [Next]_vars =>
         [/\ \A h \in Handler :
                Backend!Answered(h, "revoke") =>
                    <<job[h].identity, "KYC_VERIFIED">> \in latched
          /\ \A a \in Backend!Account :
                <<identityOfWallet[a], "KYC_VERIFIED">> \in latched =>
                    /\ <<identityOfWallet'[a], "KYC_VERIFIED">> \in latched'
                    /\ balanceOf'[a] <= balanceOf[a]
                    /\ balanceOf'[a] < balanceOf[a] =>
                          \A b \in Backend!Account : balanceOf'[b] <= balanceOf[b]]_(Backend!vars)
  BY <1>1, <1>2 DEF Account, Backend!Account
<1> QED
  BY <1>3, Invariant, PTL
     DEF Spec, AnsweredRevocationHolds, Backend!AnsweredRevocationHolds

-----------------------------------------------------------------------------
(* Mints that are under way                                                *)
Minting(tx, a) == tx.call = "mint" /\ tx.account = a

MintsIn(s, a) == {i \in 1..Len(s) : Minting(s[i], a)}

LEMMA SameCardinality == \A S : Backend!Cardinality(S) = Cardinality(S)
BY DEF Backend!Cardinality, Cardinality

LEMMA PendingIs == \A a : Backend!PendingMints(a) = Cardinality(MintsIn(mempool, a))
BY SameCardinality DEF Backend!PendingMints, MintsIn, Minting

LEMMA MintsFinite ==
    ASSUME NEW s \in Seq(TxRec), NEW a
    PROVE  IsFiniteSet(MintsIn(s, a)) /\ Cardinality(MintsIn(s, a)) \in Nat
<1>1. Len(s) \in Nat
  BY LenProperties
<1>2. IsFiniteSet(1..Len(s)) /\ MintsIn(s, a) \in SUBSET (1..Len(s))
  BY <1>1, FS_Interval DEF MintsIn
<1>3. IsFiniteSet(MintsIn(s, a))
  BY <1>2, FS_Subset
<1> QED
  BY <1>3, FS_CardinalityType

LEMMA MintsAppend ==
    ASSUME NEW s \in Seq(TxRec), NEW tx \in TxRec, NEW a
    PROVE  Cardinality(MintsIn(Append(s, tx), a))
              = Cardinality(MintsIn(s, a)) + (IF Minting(tx, a) THEN 1 ELSE 0)
<1> DEFINE n == Len(s) + 1
           t == Append(s, tx)
<1>1. /\ Len(s) \in Nat /\ Len(t) = n /\ t[n] = tx
      /\ \A i \in 1..Len(s) : t[i] = s[i]
  BY AppendProperties, LenProperties
<1> HIDE DEF t
<1>2. /\ IsFiniteSet(MintsIn(s, a)) /\ Cardinality(MintsIn(s, a)) \in Nat
      /\ n \notin MintsIn(s, a)
  <2>1. IsFiniteSet(MintsIn(s, a)) /\ Cardinality(MintsIn(s, a)) \in Nat
    BY MintsFinite
  <2>2. n \notin MintsIn(s, a)
    BY <1>1 DEF MintsIn
  <2> QED
    BY <2>1, <2>2
<1>3. CASE Minting(tx, a)
  <2>1. MintsIn(t, a) = MintsIn(s, a) \cup {n}
    BY <1>1, <1>3 DEF MintsIn
  <2> QED
    BY <1>2, <1>3, <2>1, FS_AddElement DEF t
<1>4. CASE ~Minting(tx, a)
  <2>1. MintsIn(t, a) = MintsIn(s, a)
    BY <1>1, <1>4 DEF MintsIn
  <2> QED
    BY <1>2, <1>4, <2>1 DEF t
<1> QED
  BY <1>3, <1>4

LEMMA MintsTail ==
    ASSUME NEW s \in Seq(TxRec), s # <<>>, NEW a
    PROVE  Cardinality(MintsIn(s, a))
              = Cardinality(MintsIn(Tail(s), a)) + (IF Minting(Head(s), a) THEN 1 ELSE 0)
<1> DEFINE t == Tail(s)
           M == MintsIn(t, a)
           R == MintsIn(s, a) \ {1}
           f == [i \in M |-> i + 1]
<1>1. /\ t \in Seq(TxRec) /\ Len(t) = Len(s) - 1 /\ Len(s) \in Nat \ {0}
      /\ Head(s) = s[1]
      /\ \A i \in 1..Len(t) : t[i] = s[i + 1]
  BY HeadTailProperties, LenProperties, EmptySeq
<1>2. IsFiniteSet(M) /\ Cardinality(M) \in Nat
  BY <1>1, MintsFinite
<1> HIDE DEF t
<1>3. f \in Bijection(M, R)
  <2>1. \A i \in M : i \in Nat /\ i + 1 \in R
    BY <1>1 DEF MintsIn
  <2>2. f \in [M -> R]
    BY <2>1
  <2>3. \A i, j \in M : f[i] = f[j] => i = j
    BY <2>1
  <2>4. ASSUME NEW y \in R PROVE \E i \in M : f[i] = y
    <3>1. y - 1 \in M /\ y \in Nat
      BY <1>1 DEF MintsIn
    <3> QED
      BY <3>1
  <2> QED
    BY <2>2, <2>3, <2>4 DEF Bijection, Injection, Surjection, IsInjective
<1>4. IsFiniteSet(R) /\ Cardinality(R) = Cardinality(M)
  BY <1>2, <1>3, FS_Bijection DEF ExistsBijection
<1>5. CASE Minting(Head(s), a)
  <2>1. MintsIn(s, a) = R \cup {1} /\ 1 \notin R
    BY <1>1, <1>5 DEF MintsIn
  <2> HIDE DEF R, M
  <2>2. Cardinality(R \cup {1}) = Cardinality(R) + 1
    BY <1>4, <2>1, FS_AddElement
  <2> QED
    BY <1>2, <1>4, <1>5, <2>1, <2>2 DEF t, M
<1>6. CASE ~Minting(Head(s), a)
  <2>1. MintsIn(s, a) = R
    BY <1>1, <1>6 DEF MintsIn
  <2> HIDE DEF R, M
  <2> QED
    BY <1>2, <1>4, <1>6, <2>1 DEF t, M
<1> QED
  BY <1>5, <1>6

LEMMA MintsForgotten ==
    ASSUME mempool \in Seq(TxRec), NEW h \in Handler, NEW a,
           mempool' = [i \in 1..Len(mempool) |-> Forgotten(mempool[i], h)]
    PROVE  MintsIn(mempool, a)' = MintsIn(mempool, a)
<1>1. Len(mempool) \in Nat /\ \A i \in 1..Len(mempool) : mempool[i] \in TxRec
  BY LenProperties, ElementOfSeq
<1>2. Len(mempool') = Len(mempool)
  BY PoolForgets
<1>3. \A i \in 1..Len(mempool) : mempool'[i] = Forgotten(mempool[i], h)
  OBVIOUS
<1>4. \A i \in 1..Len(mempool) :
         /\ Forgotten(mempool[i], h).call = mempool[i].call
         /\ Forgotten(mempool[i], h).account = mempool[i].account
  BY <1>1, ForgottenIs
<1> HIDE DEF Forgotten
<1> QED
  BY <1>2, <1>3, <1>4 DEF MintsIn, Minting

(* The count of an agent may grow by what the faults have grown by, and    *)
(* pays for a mint that is mined.                                          *)
LEMMA Counted ==
    ASSUME NEW n \in Nat, NEW m \in Nat, NEW c \in Nat, NEW f \in Nat,
           NEW d \in Nat, NEW g \in Nat,
           m + n * c <= n * (1 + f), f <= g
    PROVE  /\ d + f <= c + g => m + n * d <= n * (1 + g)
           /\ d + 1 <= c => (m + n) + n * d <= n * (1 + f)
           /\ d <= 1 => n * d <= n * (1 + g)
<1>1. \A x, y \in Nat : x <= y => n * x <= n * y
  OBVIOUS
<1>2. /\ n * c \in Nat /\ n * d \in Nat /\ n * f \in Nat /\ n * g \in Nat
      /\ n * (1 + f) = n + n * f /\ n * (1 + g) = n + n * g
      /\ n * (d + f) = n * d + n * f /\ n * (c + g) = n * c + n * g
      /\ n * (d + 1) = n * d + n
  OBVIOUS
<1>3. d + f <= c + g => n * (d + f) <= n * (c + g)
  BY <1>1
<1>4. d + 1 <= c => n * (d + 1) <= n * c
  BY <1>1
<1>5. d <= 1 => n * d <= n * (1 + g)
  BY <1>1
<1> QED
  BY <1>2, <1>3, <1>4, <1>5

(* What an agent is still owed, plus what was sent to it.                  *)
Count(a) == Backend!PendingMints(a) + Owed(a)

LEMMA CountType ==
    ASSUME mempool \in Seq(TxRec), NEW a
    PROVE  Backend!PendingMints(a) \in Nat /\ Owed(a) \in {0, 1} /\ Count(a) \in Nat
<1>1. Backend!PendingMints(a) \in Nat
  BY PendingIs, MintsFinite
<1>2. Owed(a) \in {0, 1}
  BY DEF Owed
<1> QED
  BY <1>1, <1>2 DEF Count

LEMMA PendingPosted ==
    ASSUME mempool \in Seq(TxRec), NEW tx \in TxRec, Posted(tx), NEW a
    PROVE  Backend!PendingMints(a)'
              = Backend!PendingMints(a) + (IF Minting(tx, a) THEN 1 ELSE 0)
<1>1. Backend!PendingMints(a) = Cardinality(MintsIn(mempool, a))
  BY PendingIs
<1>2. Backend!PendingMints(a)' = Cardinality(MintsIn(mempool', a))
  BY SameCardinality DEF Backend!PendingMints, MintsIn, Minting
<1> QED
  BY <1>1, <1>2, MintsAppend DEF Posted

LEMMA MovedCount ==
    ASSUME BackendInv, NEW h \in Handler, NEW k \in JobRec, Moved(h, k), NEW a \in Agent
    PROVE  /\ Count(a)' + faults <= Count(a) + faults'
           /\ faults <= faults' /\ faults' \in Nat /\ UNCHANGED minted
<1>1. /\ mempool \in Seq(TxRec) /\ mempool' \in Seq(TxRec) /\ faults \in Nat
      /\ faults' \in Nat /\ job[h] \in JobRec /\ UNCHANGED minted
      /\ job' = [job EXCEPT ![h] = k] /\ job \in [Handler -> JobRec]
      /\ Kept(job[h], k) /\ Traffic(h, k) /\ Shaped(job[h])
  BY MovedPool DEF Moved, BackendInv, Types, chainVars
<1>2. /\ Backend!PendingMints(a) \in Nat /\ Owed(a) \in {0, 1}
      /\ Count(a) = Backend!PendingMints(a) + Owed(a)
      /\ Owed(a)' \in {0, 1}
      /\ Count(a)' = Backend!PendingMints(a)' + Owed(a)'
  BY <1>1, CountType DEF Count, Owed
<1>3. /\ job'[h] = k
      /\ \A g \in Handler : g # h => job'[g] = job[g]
  BY <1>1
<1>4. Owed(a)' <= Owed(a)
  <2>1. ASSUME NEW g \in Handler, Owes(job'[g], a)
        PROVE  Owes(job[g], a)
    BY <1>1, <1>3, <2>1 DEF Kept
  <2> QED
    BY <2>1 DEF Owed
<1>5. CASE UNCHANGED <<mempool, faults>>
  <2>1. Backend!PendingMints(a)' = Backend!PendingMints(a)
    BY <1>5 DEF Backend!PendingMints
  <2> QED
    BY <1>1, <1>2, <1>4, <1>5, <2>1
<1>6. ASSUME Backend!ReadyToSend(h),
             k = With(job[h], job[h].step, job[h].identity, TRUE, job[h].tries),
             Posted(Backend!Tx(h, h)), UNCHANGED faults
      PROVE  Count(a)' + faults <= Count(a) + faults'
  <2>1. /\ Backend!Tx(h, h) \in TxRec /\ Backend!Tx(h, h).call = job[h].step
        /\ Backend!Tx(h, h).account = job[h].account
    BY <1>1, <1>6, TxType DEF Backend!ReadyToSend, TxFits
  <2>2. Backend!PendingMints(a)' = Backend!PendingMints(a)
                        + (IF Minting(Backend!Tx(h, h), a) THEN 1 ELSE 0)
    BY <1>1, <1>6, <2>1, PendingPosted
  <2>3. CASE ~Minting(Backend!Tx(h, h), a)
    BY <1>1, <1>2, <1>4, <1>6, <2>2, <2>3
  <2>4. CASE Minting(Backend!Tx(h, h), a)
    <3>1. job[h].step = "mint" /\ job[h].account = a /\ ~job[h].sent
      BY <1>6, <2>1, <2>4 DEF Minting, Backend!ReadyToSend
    <3>2. job[h].call = "linkAgent"
      BY <1>1, <3>1 DEF Shaped, JobRec
    <3>3. Owes(job[h], a) /\ Linking(job[h])
      BY <3>1, <3>2 DEF Owes, Linking
    <3>4. k.step = "mint" /\ k.sent
      BY <1>6, <3>1 DEF With
    <3>5. \A g \in Handler : ~Owes(job'[g], a)
      <4>1. ~Owes(job'[h], a)
        BY <1>3, <3>4 DEF Owes
      <4>2. ASSUME NEW g \in Handler, g # h PROVE ~Owes(job'[g], a)
        BY <1>3, <3>1, <3>3, <4>2 DEF Owes, Linking, BackendInv, Alone
      <4> QED
        BY <4>1, <4>2
    <3>6. Owed(a) = 1 /\ Owed(a)' = 0
      BY <3>3, <3>5 DEF Owed
    <3> QED
      BY <1>1, <1>2, <1>6, <2>2, <2>4, <3>6
  <2> QED
    BY <2>3, <2>4
<1>7. ASSUME Backend!ReadyToSend(h), Posted(Backend!Tx(h, NoHandler)), faults' = faults + 1
      PROVE  Count(a)' + faults <= Count(a) + faults'
  <2>1. Backend!Tx(h, NoHandler) \in TxRec
    BY <1>1, <1>7, TxType DEF Backend!ReadyToSend, TxFits
  <2>2. Backend!PendingMints(a)' = Backend!PendingMints(a)
                        + (IF Minting(Backend!Tx(h, NoHandler), a) THEN 1 ELSE 0)
    BY <1>1, <1>7, <2>1, PendingPosted
  <2> QED
    BY <1>1, <1>2, <1>4, <1>7, <2>2
<1>8. ASSUME mempool' = [i \in 1..Len(mempool) |-> Forgotten(mempool[i], h)],
             faults' = faults + 1
      PROVE  Count(a)' + faults <= Count(a) + faults'
  <2>1. Backend!PendingMints(a)' = Cardinality(MintsIn(mempool', a))
    BY SameCardinality DEF Backend!PendingMints, MintsIn, Minting
  <2>2. MintsIn(mempool', a) = MintsIn(mempool, a)
    BY <1>1, <1>8, MintsForgotten DEF MintsIn
  <2>3. Backend!PendingMints(a)' = Backend!PendingMints(a)
    BY <2>1, <2>2, PendingIs
  <2> QED
    BY <1>1, <1>2, <1>4, <1>8, <2>3
<1>9. faults <= faults'
  <2>1. Traffic(h, k)
    BY <1>1
  <2>2. faults' = faults \/ faults' = faults + 1
    BY <2>1 DEF Traffic
  <2> QED
    BY <1>1, <2>2
<1> QED
  BY <1>1, <1>5, <1>6, <1>7, <1>8, <1>9 DEF Traffic

(* A fresh agent has received nothing and nothing is on its way.           *)
LEMMA BegunCount ==
    ASSUME BackendInv, NEW h \in Handler, NEW k \in JobRec, Begun(h, k), NEW a \in Agent
    PROVE  /\ UNCHANGED <<minted, faults>>
           /\ \/ Count(a)' <= Count(a)
              \/ minted[a] = 0 /\ Count(a)' <= 1
<1>1. /\ mempool \in Seq(TxRec) /\ UNCHANGED <<minted, faults, mempool>>
      /\ job' = [job EXCEPT ![h] = k] /\ job \in [Handler -> JobRec] /\ minted[a] \in Nat
  BY DEF Begun, BackendInv, Types, ChainTypes, chainVars
<1>2. /\ Backend!PendingMints(a) \in Nat /\ Owed(a) \in {0, 1}
      /\ Count(a) = Backend!PendingMints(a) + Owed(a)
      /\ Owed(a)' \in {0, 1}
      /\ Count(a)' = Backend!PendingMints(a)' + Owed(a)'
      /\ Backend!PendingMints(a)' = Backend!PendingMints(a)
  BY <1>1, CountType DEF Count, Owed, Backend!PendingMints
<1>3. CASE Owes(k, a)
  <2>1. Backend!Fresh(a)
    BY <1>3 DEF Begun, Owes
  <2>2. minted[a] = 0
    BY <1>1, <2>1 DEF Backend!Fresh, BackendInv, FactoryFits
  <2>3. MintsIn(mempool, a) = {}
    BY <2>1 DEF Backend!Fresh, MintsIn, Minting
  <2>4. Backend!PendingMints(a) = 0
    BY <2>3, PendingIs, FS_EmptySet
  <2> QED
    BY <1>1, <1>2, <2>2, <2>4
<1>4. CASE ~Owes(k, a)
  <2>1. \A g \in Handler : Owes(job'[g], a) => Owes(job[g], a)
    BY <1>1, <1>4
  <2>2. Owed(a)' <= Owed(a)
    BY <2>1 DEF Owed
  <2> QED
    BY <1>1, <1>2, <2>2
<1> QED
  BY <1>3, <1>4

LEMMA MinedCount ==
    ASSUME BackendInv, Backend!Mine, NEW a \in Agent
    PROVE  /\ UNCHANGED faults
           /\ \/ minted'[a] = minted[a] /\ Count(a)' <= Count(a)
              \/ minted'[a] = minted[a] + MintAmount /\ Count(a)' + 1 <= Count(a)
<1>1. Types /\ mempool \in Seq(TxRec) /\ minted \in [Agent -> Nat]
  BY DEF BackendInv, Types, ChainTypes
<1>2. PICK tx \in Pool :
              /\ tx = Head(mempool)
              /\ mempool # <<>> /\ mempool' = Tail(mempool)
              /\ mempool' \in Seq(TxRec)
              /\ UNCHANGED <<job, faults>>
              /\ UNCHANGED chainVars \/ Landed(tx)
  BY <1>1, MineIs
<1>3. Backend!PendingMints(a)' = Cardinality(MintsIn(mempool', a))
  BY SameCardinality DEF Backend!PendingMints, MintsIn, Minting
<1>4. Backend!PendingMints(a)
         = Backend!PendingMints(a)' + (IF Minting(tx, a) THEN 1 ELSE 0)
  BY <1>1, <1>2, <1>3, PendingIs, MintsTail
<1>5. Backend!PendingMints(a)' \in Nat
  BY <1>2, <1>3, MintsFinite
<1>6. /\ Owed(a) \in {0, 1} /\ Owed(a)' = Owed(a)
      /\ Count(a) = Backend!PendingMints(a) + Owed(a)
      /\ Count(a)' = Backend!PendingMints(a)' + Owed(a)'
  BY <1>2 DEF Count, Owed
<1>7. \/ minted'[a] = minted[a]
      \/ minted'[a] = minted[a] + MintAmount /\ Minting(tx, a)
  <2>1. CASE UNCHANGED chainVars
    BY <2>1 DEF chainVars
  <2>2. CASE Landed(tx)
    BY <1>1, <2>2 DEF Landed, Minting
  <2> QED
    BY <1>2, <2>1, <2>2
<1> QED
  BY <1>2, <1>4, <1>5, <1>6, <1>7

LEMMA CountMoves ==
    ASSUME BackendInv, BackendMove, MintsFit
    PROVE  MintsFit'
<1>0. MintAmount \in Nat /\ faults \in Nat /\ minted \in [Agent -> Nat]
        /\ mempool \in Seq(TxRec)
  BY PageAssumption DEF BackendInv, Types, ChainTypes
<1>1. BackendInv' /\ faults' \in Nat /\ mempool' \in Seq(TxRec)
  BY BackendStays DEF BackendInv, Types
<1> SUFFICES ASSUME NEW a \in Agent
             PROVE  minted'[a] + MintAmount * Count(a)' <= MintAmount * (1 + faults')
  BY DEF MintsFit, Count
<1>2. /\ minted[a] + MintAmount * Count(a) <= MintAmount * (1 + faults)
      /\ minted[a] \in Nat /\ Count(a) \in Nat
  BY <1>0, CountType DEF MintsFit, Count
<1>3. Count(a)' \in Nat
  <2>1. Backend!PendingMints(a)' = Cardinality(MintsIn(mempool', a))
    BY SameCardinality DEF Backend!PendingMints, MintsIn, Minting
  <2>2. Backend!PendingMints(a)' \in Nat
    BY <1>1, <2>1, MintsFinite
  <2>3. Owed(a)' \in {0, 1}
    BY DEF Owed
  <2> QED
    BY <2>2, <2>3 DEF Count
<1> HIDE DEF Count
<1>4. ASSUME Count(a)' + faults <= Count(a) + faults', faults <= faults', UNCHANGED minted
      PROVE  minted'[a] + MintAmount * Count(a)' <= MintAmount * (1 + faults')
  BY <1>0, <1>1, <1>2, <1>3, <1>4, Counted
<1>5. ASSUME UNCHANGED <<chainVars, mempool, job>>, faults' \in {faults, faults + 1}
      PROVE  minted'[a] + MintAmount * Count(a)' <= MintAmount * (1 + faults')
  <2>1. Count(a)' = Count(a) /\ UNCHANGED minted
    BY <1>5 DEF Count, Owed, Backend!PendingMints, chainVars
  <2> QED
    BY <1>0, <1>2, <1>4, <1>5, <2>1
<1>6. CASE Holder /\ UNCHANGED <<mempool, job, faults>>
  <2>1. Count(a)' = Count(a)
    BY <1>6 DEF Count, Owed, Backend!PendingMints
  <2>2. UNCHANGED minted
    BY <1>6, HolderFits DEF BackendInv, Types
  <2> QED
    BY <1>0, <1>2, <1>4, <1>6, <2>1, <2>2
<1>7. CASE Backend!Mine
  <2>1. faults' = faults
    BY <1>7, MinedCount
  <2>2. CASE minted'[a] = minted[a] /\ Count(a)' <= Count(a)
    <3>1. Count(a)' + faults <= Count(a) + faults'
      BY <1>0, <1>2, <1>3, <2>1, <2>2
    <3>2. faults <= faults'
      BY <1>0, <2>1
    <3>3. minted[a] + MintAmount * Count(a)' <= MintAmount * (1 + faults')
      BY <1>0, <1>1, <1>2, <1>3, <3>1, <3>2, Counted
    <3> QED
      BY <2>2, <3>3, Zenon
  <2>3. CASE minted'[a] = minted[a] + MintAmount /\ Count(a)' + 1 <= Count(a)
    <3>1. Count(a)' + 1 <= Count(a) /\ faults <= faults
      BY <1>0, <2>3
    <3>2. (minted[a] + MintAmount) + MintAmount * Count(a)' <= MintAmount * (1 + faults)
      BY <1>0, <1>2, <1>3, <3>1, Counted
    <3> QED
      BY <2>1, <2>3, <3>2, Zenon
  <2> QED
    BY <1>7, <2>2, <2>3, MinedCount
<1>8. CASE \E h \in Handler : Backend!HandlerStep(h) \/ Backend!HandlerFault(h)
  <2>1. PICK h \in Handler, k \in JobRec : Moved(h, k)
    BY <1>8, HandlerMoves
  <2> QED
    BY <1>4, <2>1, MovedCount
<1>9. ASSUME NEW h \in Handler, NEW k \in JobRec, Begun(h, k)
      PROVE  minted'[a] + MintAmount * Count(a)' <= MintAmount * (1 + faults')
  <2>1. CASE Count(a)' <= Count(a)
    BY <1>0, <1>2, <1>3, <1>4, <1>9, <2>1, BegunCount
  <2>2. CASE minted[a] = 0 /\ Count(a)' <= 1
    BY <1>0, <1>2, <1>3, <1>9, <2>2, BegunCount, Counted
  <2> QED
    BY <1>9, <2>1, <2>2, BegunCount
<1> QED
  BY <1>5, <1>6, <1>7, <1>8, <1>9, ProvisionBegins, LinkAgentBegins, RevokeBegins
     DEF BackendMove

(* An agent gets one mint, and one more for each answer the transport      *)
(* lost, never one for an attempt the node refused                         *)
(* (hero.service.ts:163, 220-248).                                         *)
THEOREM OneMintEach == Spec => []MintsArePaidFor
<1>1. Init => MintsFit
  <2> SUFFICES ASSUME Init, NEW a \in Agent
               PROVE  minted[a] + MintAmount * Count(a) <= MintAmount * (1 + faults)
    BY DEF MintsFit, Count
  <2>1. /\ minted[a] = 0 /\ mempool = <<>> /\ faults = 0 /\ MintAmount \in Nat
        /\ \A h \in Handler : job[h].call = "none"
    BY PageAssumption DEF Init, Backend!Init, Backend!Idle
  <2>2. MintsIn(mempool, a) = {}
    BY <2>1 DEF MintsIn
  <2>3. Count(a) = 0
    BY <2>1, <2>2, PendingIs, FS_EmptySet DEF Count, Owed, Owes
  <2> QED
    BY <2>1, <2>3
<1>2. BackendInv /\ PageInv /\ MintsFit /\ [Next]_vars => MintsFit'
  BY NextMoves, CountMoves
<1>3. BackendInv /\ MintsFit => MintsArePaidFor
  <2> SUFFICES ASSUME BackendInv, MintsFit, NEW a \in Agent
               PROVE  minted[a] + MintAmount * Backend!PendingMints(a)
                         <= MintAmount * (1 + faults)
    BY DEF MintsArePaidFor, Backend!MintsArePaidFor
  <2>1. /\ Backend!PendingMints(a) \in Nat /\ Owed(a) \in {0, 1} /\ MintAmount \in Nat
        /\ minted[a] \in Nat /\ faults \in Nat
    BY CountType, PageAssumption DEF BackendInv, Types, ChainTypes
  <2>2. minted[a] + MintAmount * (Backend!PendingMints(a) + Owed(a))
           <= MintAmount * (1 + faults)
    BY DEF MintsFit
  <2> QED
    BY <2>1, <2>2
<1> QED
  BY <1>1, <1>2, <1>3, Invariant, PTL DEF Spec

===============================================================================
