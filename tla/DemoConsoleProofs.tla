--------------------------- MODULE DemoConsoleProofs ---------------------------
(***************************************************************************)
(* What DemoConsole keeps for any actors, request slots, clients and posts *)
(* and however many requests and failing calls: no pool event is missed,   *)
(* and an undisturbed "claim valid" is one.                                *)
(*                                                                         *)
(* Both are true because of what a request between two awaits still relies *)
(* on: a refresh on what the cache held when it took the height            *)
(* (FetchFits), a verification on the latch and the clock it found when it *)
(* signed (PromiseFits).                                                   *)
(***************************************************************************)
EXTENDS DemoConsole, SequenceTheorems, TLAPS

-----------------------------------------------------------------------------
(* Types                                                                   *)
ChainState ==
    [deployed : BOOLEAN, identity : BOOLEAN, signed : [Topic -> Nat \cup {Never}],
     latched : [Topic -> BOOLEAN], year : Nat, events : Seq(PoolAction)]

CacheState == [object : Nat, nextBlock : Nat, logs : Seq(Nat)]

Fetch == [object : Nat, from : Nat, latest : Nat]

FnName == {"none", "open", "close", "createIdentity", "submitClaim"} \cup PoolAction

CallState == [fn : FnName, topic : Topic, year : Nat]

PromiseStep ==
    {"identity", "created", "latch", "claim", "compliant", "sign", "simulate", "send",
     "ok", "refused"}

StepName == PromiseStep \cup {"idle", "height", "logs", "redeploy"} \cup Kind

Request ==
    [step : StepName, kind : Kind \cup {"none"}, topics : Seq(Topic), call : CallState,
     then : {"none", "ok", "height", "topic", "created", "claim", "compliant"},
     fetch : Fetch, disturbed : BOOLEAN]

World ==
    [shown : BOOLEAN, claims : [Topic -> {"UNVERIFIED", "REVOKED", "EXPIRED", "VERIFIED"}],
     compliant : BOOLEAN, tickets : Seq(Nat)]

Reader ==
    [step : {"idle", "off", "clock", "height", "logs", "gate", "claims", "answer", "error"},
     now : Nat, identity : BOOLEAN, fetch : Fetch, world : World]

TypeInv ==
    /\ who \in Actor
    /\ enabled \in BOOLEAN
    /\ chain \in ChainState
    /\ chain.identity => chain.deployed
    /\ cache \in CacheState
    /\ tickets \in Seq(Nat)
    /\ req \in [Slot -> Request]
    /\ get \in [Source -> Reader]

(* A request with topics has those its route lets through.                 *)
TopicsFit(r) ==
    /\ r.kind \in {"verify", "refuse"} => Len(r.topics) = 1
    /\ r.kind = "revoke" => r.topics # <<>>
    /\ r.kind = "restore" => r.topics = <<"kyc">>

-----------------------------------------------------------------------------
LEMMA IdleType ==
    /\ NotFetching \in Fetch
    /\ NoCall \in CallState
    /\ Idle \in Request
    /\ Idle.step = "idle" /\ Idle.kind = "none" /\ Idle.fetch = NotFetching
    /\ Idle.disturbed = FALSE
BY DEF NotFetching, Fetch, NoCall, Call, CallState, FnName, Topic, Idle, Request, StepName

LEMMA CapturedType ==
    ASSUME cache \in CacheState
    PROVE  /\ Captured(cache) \in Fetch
           /\ Captured(cache).object = cache.object
BY DEF Captured, NotFetching, Fetch, CacheState

LEMMA FinishedType ==
    ASSUME NEW r \in Request, NEW answer \in {"ok", "refused"}
    PROVE  /\ Finished(r, answer) \in Request
           /\ Finished(r, answer).step = answer
           /\ Finished(r, answer).fetch = NotFetching
           /\ Promises(r) => /\ Finished(r, answer).kind = r.kind
                             /\ Finished(r, answer).topics = r.topics
                             /\ Finished(r, answer).disturbed = r.disturbed
           /\ ~Promises(r) => Finished(r, answer).kind = "none"
<1>1. CASE Promises(r)
  <2>1. Finished(r, answer) =
          [Idle EXCEPT !.step = answer, !.kind = r.kind, !.topics = r.topics,
                       !.disturbed = r.disturbed]
    BY <1>1 DEF Finished
  <2> QED
    BY <1>1, <2>1, IdleType DEF Request, StepName, PromiseStep
<1>2. CASE ~Promises(r)
  <2>1. Finished(r, answer) = [Idle EXCEPT !.step = answer]
    BY <1>2 DEF Finished
  <2> QED
    BY <1>2, <2>1, IdleType DEF Request, StepName, PromiseStep
<1> QED
  BY <1>1, <1>2

LEMMA WritingType ==
    ASSUME NEW r \in Request, NEW call \in CallState,
           NEW then \in {"none", "ok", "height", "topic", "created", "claim", "compliant"}
    PROVE  /\ Writing(r, call, then) \in Request
           /\ Writing(r, call, then).step = "simulate"
           /\ Writing(r, call, then).kind = r.kind
           /\ Writing(r, call, then).topics = r.topics
           /\ Writing(r, call, then).call = call
           /\ Writing(r, call, then).then = then
           /\ Writing(r, call, then).fetch = r.fetch
           /\ Writing(r, call, then).disturbed = r.disturbed
BY DEF Writing, Request, StepName, PromiseStep

LEMMA StepType ==
    ASSUME NEW r \in Request, NEW step \in StepName
    PROVE  /\ [r EXCEPT !.step = step] \in Request
           /\ [r EXCEPT !.step = step].step = step
           /\ [r EXCEPT !.step = step].kind = r.kind
           /\ [r EXCEPT !.step = step].topics = r.topics
           /\ [r EXCEPT !.step = step].call = r.call
           /\ [r EXCEPT !.step = step].then = r.then
           /\ [r EXCEPT !.step = step].fetch = r.fetch
           /\ [r EXCEPT !.step = step].disturbed = r.disturbed
BY DEF Request

LEMMA FetchStepType ==
    ASSUME NEW r \in Request, NEW step \in StepName, NEW f \in Fetch
    PROVE  /\ [r EXCEPT !.step = step, !.fetch = f] \in Request
           /\ [r EXCEPT !.step = step, !.fetch = f].step = step
           /\ [r EXCEPT !.step = step, !.fetch = f].kind = r.kind
           /\ [r EXCEPT !.step = step, !.fetch = f].topics = r.topics
           /\ [r EXCEPT !.step = step, !.fetch = f].fetch = f
           /\ [r EXCEPT !.step = step, !.fetch = f].disturbed = r.disturbed
BY DEF Request

LEMMA FetchingType ==
    ASSUME NEW f \in Fetch, cache \in CacheState, NEW height \in Nat
    PROVE  /\ Fetching(f, cache, height) \in Fetch
           /\ Fetching(f, cache, height).object = f.object
           /\ Fetching(f, cache, height).from = cache.nextBlock
           /\ Fetching(f, cache, height).latest = height
BY DEF Fetching, Fetch, CacheState

LEMMA HeightType ==
    ASSUME chain \in ChainState
    PROVE  Height \in Nat
BY DEF ChainState, Height

(* One request as it was, but for the disturbance.                         *)
Alike(d, r, topics) ==
    /\ d.step = r.step /\ d.kind = r.kind /\ d.topics = r.topics
    /\ d.call = r.call /\ d.then = r.then /\ d.fetch = r.fetch
    /\ d.disturbed = (r.disturbed \/ (Promises(r) /\ Head(r.topics) \in topics))

LEMMA DisturbType ==
    ASSUME NEW requests \in [Slot -> Request], NEW topics
    PROVE  /\ Disturb(requests, topics) \in [Slot -> Request]
           /\ \A d \in Slot : Alike(Disturb(requests, topics)[d], requests[d], topics)
BY DEF Disturb, Request, Alike

LEMMA ReloadType ==
    ASSUME cache \in CacheState
    PROVE  /\ Reload(cache) \in CacheState
           /\ Reload(cache).object = cache.object + 1
           /\ Reload(cache).nextBlock = 1
BY DEF Reload, NewCache, CacheState

LEMMA DeployedType ==
    ASSUME who \in Actor
    PROVE  /\ Deployed(who) \in ChainState
           /\ Deployed(who).deployed = TRUE
           /\ Wiped \in ChainState
           /\ Wiped.deployed = FALSE
           /\ Wiped.identity = FALSE
BY DEF Deployed, Wiped, ChainState, Never

(* The blocks asked for, in order.                                         *)
LEMMA Ascending ==
    ASSUME NEW from \in Nat, NEW k \in Int, NEW new, new = [i \in 1..k |-> from + i - 1]
    PROVE  /\ new \in Seq(Nat)
           /\ DOMAIN new = 1..k
           /\ \A i \in 1..k : new[i] = from + i - 1
<1>1. CASE k \in Nat
  <2>1. \A i \in 1..k : from + i - 1 \in Nat
    BY <1>1
  <2>2. new \in [1..k -> Nat]
    BY <2>1
  <2> QED
    BY <1>1, <2>2, SeqDef
<1>2. CASE k \notin Nat
  <2>1. 1..k = {} /\ 1..0 = {}
    BY <1>2
  <2>2. new \in [1..0 -> Nat]
    BY <2>1
  <2>3. new \in Seq(Nat)
    BY <2>2, SeqDef
  <2> QED
    BY <2>1, <2>3
<1> QED
  BY <1>1, <1>2

Blocks(f, height) ==
    LET last == IF f.latest <= height THEN f.latest ELSE height
    IN  [i \in 1..(last + 1 - f.from) |-> f.from + i - 1]

(* What is pushed are the logs of the blocks asked for that are still      *)
(* there.                                                                  *)
LEMMA PushedType ==
    ASSUME cache \in CacheState, NEW f \in Fetch, NEW height \in Nat
    PROVE  /\ Pushed(f, cache, height) \in CacheState
           /\ Pushed(f, cache, height).object = cache.object
           /\ f.object = cache.object =>
                /\ Pushed(f, cache, height).nextBlock = f.latest + 1
                /\ Pushed(f, cache, height).logs = cache.logs \o Blocks(f, height)
           /\ Blocks(f, height) \in Seq(Nat)
<1>1. f.from \in Nat /\ f.latest \in Nat
  BY DEF Fetch
<1>2. Blocks(f, height) \in Seq(Nat)
  BY <1>1, Ascending DEF Blocks
<1>3. CASE f.object = cache.object
  <2>1. Pushed(f, cache, height) =
          [cache EXCEPT !.nextBlock = f.latest + 1, !.logs = cache.logs \o Blocks(f, height)]
    BY <1>3 DEF Pushed, Blocks, CacheState
  <2>2. cache.logs \o Blocks(f, height) \in Seq(Nat)
    BY <1>2, ConcatProperties DEF CacheState
  <2>3. f.latest + 1 \in Nat
    BY <1>1
  <2>4. /\ Pushed(f, cache, height).object = cache.object
        /\ Pushed(f, cache, height).nextBlock = f.latest + 1
        /\ Pushed(f, cache, height).logs = cache.logs \o Blocks(f, height)
    BY <2>1 DEF CacheState
  <2>5. Pushed(f, cache, height) \in CacheState
    BY <2>1, <2>2, <2>3 DEF CacheState
  <2> QED
    BY <1>2, <2>4, <2>5
<1>4. CASE f.object # cache.object
  BY <1>2, <1>4 DEF Pushed
<1> QED
  BY <1>3, <1>4

LEMMA AfterEffect ==
    ASSUME chain \in ChainState, NEW call \in CallState, call.fn # "none"
    PROVE  \/ After(call) = chain
           \/ /\ Passes(call) /\ chain.deployed
              /\ \/ /\ call.fn \in {"open", "close"}
                    /\ After(call) =
                         [chain EXCEPT !.latched[call.topic] = (call.fn = "close")]
                 \/ /\ call.fn = "createIdentity"
                    /\ After(call) = [chain EXCEPT !.identity = TRUE]
                 \/ /\ call.fn = "submitClaim"
                    /\ After(call) = [chain EXCEPT !.signed[call.topic] = call.year]
                 \/ /\ call.fn \in PoolAction
                    /\ After(call) = [chain EXCEPT !.events = Append(@, call.fn)]
<1>1. CASE ~Passes(call) \/ ~chain.deployed
  <2>1. After(call) = chain
    BY <1>1, Zenon DEF After
  <2> QED
    BY <2>1, Zenon
<1>2. CASE Passes(call) /\ chain.deployed /\ call.fn \in {"open", "close"}
  <2>1. ~(~Passes(call) \/ ~chain.deployed)
    BY <1>2
  <2>2. After(call) = [chain EXCEPT !.latched[call.topic] = (call.fn = "close")]
    BY <2>1, <1>2, Zenon DEF After
  <2> QED
    BY <1>2, <2>2, Zenon
<1>3. CASE Passes(call) /\ chain.deployed /\ call.fn = "createIdentity"
  BY <1>3 DEF After
<1>4. CASE Passes(call) /\ chain.deployed /\ call.fn = "submitClaim"
  BY <1>4 DEF After
<1>5. CASE Passes(call) /\ chain.deployed /\ call.fn \in PoolAction
  <2>1. /\ call.fn \notin {"open", "close"}
        /\ call.fn # "createIdentity" /\ call.fn # "submitClaim"
    BY <1>5 DEF PoolAction
  <2>2. After(call) = [chain EXCEPT !.events = Append(@, call.fn)]
    BY <1>5, <2>1 DEF After
  <2> QED
    BY <1>5, <2>2, Zenon
<1>6. call.fn \in {"open", "close", "createIdentity", "submitClaim"} \cup PoolAction
  BY DEF CallState, FnName
<1> QED
  BY <1>1, <1>2, <1>3, <1>4, <1>5, <1>6, Zenon

LEMMA AfterType ==
    ASSUME chain \in ChainState, chain.identity => chain.deployed,
           NEW call \in CallState, call.fn # "none"
    PROVE  /\ After(call) \in ChainState
           /\ After(call).deployed = chain.deployed
           /\ After(call).identity => chain.deployed
           /\ chain.identity => After(call).identity
           /\ After(call).year = chain.year
           /\ Len(After(call).events) >= Len(chain.events)
<1>n. Len(chain.events) \in Nat /\ chain.events \in Seq(PoolAction)
  BY DEF ChainState
<1>1. CASE After(call) = chain
  BY <1>1, <1>n
<1>2. CASE After(call) = [chain EXCEPT !.latched[call.topic] = (call.fn = "close")]
  <2> DEFINE closed == call.fn = "close"
             latched == [chain.latched EXCEPT ![call.topic] = closed]
  <2>1. closed \in BOOLEAN
    OBVIOUS
  <2> HIDE DEF closed
  <2>2. latched \in [Topic -> BOOLEAN]
    BY <2>1 DEF ChainState
  <2>3. After(call) = [chain EXCEPT !.latched = latched]
    BY <1>2 DEF closed, ChainState
  <2> HIDE DEF latched
  <2> QED
    BY <2>2, <2>3, <1>n DEF ChainState
<1>3. CASE chain.deployed /\ After(call) = [chain EXCEPT !.identity = TRUE]
  <2>1. After(call) \in ChainState
    BY <1>3 DEF ChainState
  <2>2. /\ After(call).deployed = chain.deployed
        /\ After(call).identity = TRUE
        /\ After(call).year = chain.year
        /\ After(call).events = chain.events
    BY <1>3 DEF ChainState
  <2>3. Len(After(call).events) >= Len(chain.events)
    BY <2>2, <1>n
  <2> QED
    BY <1>3, <2>1, <2>2, <2>3, Zenon
<1>4. CASE After(call) = [chain EXCEPT !.signed[call.topic] = call.year]
  BY <1>4, <1>n DEF ChainState, CallState
<1>5. CASE call.fn \in PoolAction
           /\ After(call) = [chain EXCEPT !.events = Append(@, call.fn)]
  <2>1. /\ Append(chain.events, call.fn) \in Seq(PoolAction)
        /\ Len(Append(chain.events, call.fn)) = Len(chain.events) + 1
    BY <1>5, <1>n, AppendProperties
  <2> DEFINE events == Append(chain.events, call.fn)
  <2>2. After(call) = [chain EXCEPT !.events = events]
    BY <1>5 DEF ChainState
  <2> HIDE DEF events
  <2>3. events \in Seq(PoolAction) /\ Len(events) = Len(chain.events) + 1
    BY <2>1 DEF events
  <2>4. /\ After(call).events = events
        /\ After(call).deployed = chain.deployed
        /\ After(call).identity = chain.identity
        /\ After(call).year = chain.year
    BY <2>2 DEF ChainState
  <2>5. After(call) \in ChainState
    BY <2>2, <2>3 DEF ChainState
  <2> QED
    BY <1>n, <2>3, <2>4, <2>5
<1> QED
  BY <1>1, <1>2, <1>3, <1>4, <1>5, AfterEffect

-----------------------------------------------------------------------------
(* What a request between two awaits relies on                             *)
Judged == {"verify", "refuse", "revoke", "restore"}

(* Where in its program a request can be, and for what.                    *)
StepFits(r) ==
    /\ TopicsFit(r)
    /\ r.step \in {"identity", "created"} => r.kind \in Judged
    /\ r.step \in {"latch", "claim", "compliant", "sign"} => Promises(r)
    /\ r.step \in {"simulate", "send"} =>
         /\ r.call.fn # "none"
         /\ r.then = "created" => r.kind \in Judged
         /\ r.then \in {"claim", "compliant"} => Promises(r)
         /\ r.then = "topic" => r.kind = "revoke"
         /\ Promises(r) => r.then \in {"created", "claim", "compliant", "ok"}
         /\ Promises(r) /\ r.then = "ok" =>
              r.call.fn = "submitClaim" /\ r.call.topic = Head(r.topics)
    /\ Promises(r) => r.step \in PromiseStep

(* A promise nobody disturbed: the claim it sends will be taken, the one   *)
(* it answered for stands.                                                 *)
PromiseFits(r) ==
    Promises(r) /\ ~r.disturbed =>
        /\ r.step = "send" /\ r.then = "ok" => Passes(r.call)
        /\ r.step = "ok" => Head(r.topics) \in Valid

(* The cache holds the logs of the first blocks.                           *)
Covers(m) == \A n \in 1..m : \E i \in DOMAIN cache.logs : cache.logs[i] = n

CacheSound ==
    /\ cache.nextBlock >= 1
    /\ chain.deployed =>
         /\ cache.nextBlock <= Height + 1
         /\ Covers(cache.nextBlock - 1)

(* A refresh waiting for its logs asked for blocks this world has, from    *)
(* where the cache is complete, whatever was appended since; unless it     *)
(* holds the object of an earlier world.                                   *)
FetchFits(step, f) ==
    /\ f.object <= cache.object
    /\ chain.deployed /\ step = "logs" /\ f.object = cache.object =>
         /\ 1 <= f.from /\ f.from <= f.latest /\ f.latest <= Height
         /\ Covers(f.from - 1)

RequestInv ==
    \A c \in Slot :
        /\ StepFits(req[c])
        /\ PromiseFits(req[c])
        /\ FetchFits(req[c].step, req[c].fetch)

ReaderInv == \A s \in Source : FetchFits(get[s].step, get[s].fetch)

Inv == TypeInv /\ CacheSound /\ RequestInv /\ ReaderInv

-----------------------------------------------------------------------------
(* What a step of the chain and of the cache leaves true                   *)
Stands(ch, t) ==
    /\ ch.identity
    /\ ch.signed[t] # Never
    /\ ch.signed[t] \notin 0..(ch.year - 1)
    /\ ~ch.latched[t]

LEMMA ValidIs ==
    ASSUME chain \in ChainState
    PROVE  \A t \in Topic : t \in Valid <=> Stands(chain, t)
<1> SUFFICES ASSUME NEW t \in Topic
             PROVE  t \in Valid <=> Stands(chain, t)
  OBVIOUS
<1>1. t \in Valid <=> ClaimState(chain.identity, t, chain.year) = "VERIFIED"
  BY DEF Valid
<1>2. CASE ~chain.identity \/ chain.signed[t] = Never
  BY <1>1, <1>2 DEF ClaimState, Stands
<1>3. CASE chain.identity /\ chain.signed[t] # Never /\ chain.latched[t]
  BY <1>1, <1>3 DEF ClaimState, Stands
<1>4. CASE chain.identity /\ chain.signed[t] # Never /\ ~chain.latched[t]
  BY <1>1, <1>4 DEF ClaimState, Stands
<1> QED
  BY <1>2, <1>3, <1>4

LEMMA ValidIsNext ==
    ASSUME chain' \in ChainState
    PROVE  \A t \in Topic : t \in Valid' <=> Stands(chain', t)
<1> SUFFICES ASSUME NEW t \in Topic
             PROVE  t \in Valid' <=> Stands(chain', t)
  OBVIOUS
<1>1. t \in Valid' <=> ClaimState(chain.identity, t, chain.year)' = "VERIFIED"
  BY DEF Valid
<1>2. CASE ~chain'.identity \/ chain'.signed[t] = Never
  BY <1>1, <1>2 DEF ClaimState, Stands
<1>3. CASE chain'.identity /\ chain'.signed[t] # Never /\ chain'.latched[t]
  BY <1>1, <1>3 DEF ClaimState, Stands
<1>4. CASE chain'.identity /\ chain'.signed[t] # Never /\ ~chain'.latched[t]
  BY <1>1, <1>4 DEF ClaimState, Stands
<1> QED
  BY <1>2, <1>3, <1>4

TakesClaim(ch, t, y) == ch.identity /\ ~ch.latched[t] /\ y = ch.year

LEMMA SubmitIs ==
    ASSUME NEW call, call.fn = "submitClaim"
    PROVE  /\ Passes(call) <=> TakesClaim(chain, call.topic, call.year)
           /\ Passes(call)' <=> TakesClaim(chain', call.topic, call.year)
BY DEF Passes, TakesClaim

(* Claims and promises of the other topics are as good as they were.       *)
Standing(topics) ==
    \A t \in Topic \ topics :
        /\ Stands(chain, t) => Stands(chain', t)
        /\ \A y \in Nat : TakesClaim(chain, t, y) => TakesClaim(chain', t, y)

Grows ==
    /\ cache'.object >= cache.object
    /\ chain'.deployed /\ cache'.object = cache.object =>
         /\ chain.deployed
         /\ Height' >= Height
         /\ \A m \in Int : Covers(m) => Covers(m)'

Effect(topics) ==
    /\ chain' \in ChainState
    /\ chain'.identity => chain'.deployed
    /\ cache' \in CacheState
    /\ Grows
    /\ CacheSound'
    /\ Standing(topics)

LEMMA CoversSame ==
    ASSUME cache' = cache
    PROVE  \A m \in Int : Covers(m) => Covers(m)'
BY DEF Covers

LEMMA NoEffect ==
    ASSUME TypeInv, CacheSound, chain' = chain, cache' = cache
    PROVE  Effect({})
<1>1. Height \in Nat /\ Height' = Height
  BY HeightType DEF TypeInv, Height
<1>2. Grows
  BY <1>1, CoversSame DEF Grows, TypeInv, CacheState
<1>3. CacheSound'
  BY <1>1, CoversSame DEF CacheSound, Covers
<1>4. Standing({})
  BY Zenon DEF Standing
<1> QED
  BY <1>2, <1>3, <1>4, Zenon DEF Effect, TypeInv

(* A mined write closes at most the latch it is for.                       *)
ClosedBy(call) == IF call.fn = "close" THEN {call.topic} ELSE {}

LEMMA AfterStanding ==
    ASSUME TypeInv, NEW call \in CallState, call.fn # "none", chain' = After(call)
    PROVE  Standing(ClosedBy(call))
<1> SUFFICES ASSUME NEW t \in Topic, t \notin ClosedBy(call)
             PROVE  /\ Stands(chain, t) => Stands(chain', t)
                    /\ \A y \in Nat : TakesClaim(chain, t, y) => TakesClaim(chain', t, y)
  BY Zenon DEF Standing
<1>t. /\ chain \in ChainState
      /\ chain.signed \in [Topic -> Nat \cup {Never}]
      /\ chain.latched \in [Topic -> BOOLEAN]
      /\ chain.year \in Nat
      /\ call.topic \in Topic
  BY DEF TypeInv, ChainState, CallState
<1>1. CASE chain' = chain
  BY <1>1, Zenon
<1>2. CASE call.fn \in {"open", "close"}
           /\ chain' = [chain EXCEPT !.latched[call.topic] = (call.fn = "close")]
  <2> DEFINE latched == [chain.latched EXCEPT ![call.topic] = (call.fn = "close")]
  <2>1. ~chain.latched[t] => ~latched[t]
    <3>1. CASE call.topic = t
      <4>1. call.fn # "close"
        BY <3>1 DEF ClosedBy
      <4>2. latched[t] = (call.fn = "close")
        BY <1>t, <3>1, Zenon
      <4> QED
        BY <4>1, <4>2
    <3>2. CASE call.topic # t
      <4>1. latched[t] = chain.latched[t]
        BY <1>t, <3>2, Zenon
      <4> QED
        BY <4>1
    <3> QED
      BY <3>1, <3>2
  <2>2. chain' = [chain EXCEPT !.latched = latched]
    BY <1>2, Zenon
  <2> HIDE DEF latched
  <2>3. /\ chain'.identity = chain.identity
        /\ chain'.signed = chain.signed
        /\ chain'.year = chain.year
        /\ chain'.latched = latched
    BY <2>2, <1>t DEF ChainState
  <2> QED
    BY <2>1, <2>3, Zenon DEF Stands, TakesClaim
<1>3. CASE chain' = [chain EXCEPT !.identity = TRUE]
  <2>1. /\ chain'.identity = TRUE
        /\ chain'.signed = chain.signed
        /\ chain'.year = chain.year
        /\ chain'.latched = chain.latched
    BY <1>3, <1>t DEF ChainState
  <2> QED
    BY <2>1, Zenon DEF Stands, TakesClaim
<1>4. CASE /\ Passes(call) /\ call.fn = "submitClaim"
           /\ chain' = [chain EXCEPT !.signed[call.topic] = call.year]
  <2>1. /\ chain'.identity = chain.identity
        /\ chain'.signed = [chain.signed EXCEPT ![call.topic] = call.year]
        /\ chain'.year = chain.year
        /\ chain'.latched = chain.latched
    BY <1>4, <1>t DEF ChainState
  <2>2. call.year = chain.year
    BY <1>4, SubmitIs DEF TakesClaim
  <2>3. chain'.signed[t] = chain.signed[t] \/ chain'.signed[t] = chain.year
    BY <1>t, <2>1, <2>2
  <2>4. chain.year # Never /\ chain.year \notin 0..(chain.year - 1)
    BY <1>t DEF Never
  <2>5. /\ chain.signed[t] # Never => chain'.signed[t] # Never
        /\ chain.signed[t] \notin 0..(chain.year - 1)
             => chain'.signed[t] \notin 0..(chain.year - 1)
    BY <2>3, <2>4
  <2> QED
    BY <2>1, <2>5, Zenon DEF Stands, TakesClaim
<1>5. CASE chain' = [chain EXCEPT !.events = Append(@, call.fn)]
  <2>1. /\ chain'.identity = chain.identity
        /\ chain'.signed = chain.signed
        /\ chain'.year = chain.year
        /\ chain'.latched = chain.latched
    BY <1>5, <1>t DEF ChainState
  <2> QED
    BY <2>1, Zenon DEF Stands, TakesClaim
<1> QED
  BY <1>1, <1>2, <1>3, <1>4, <1>5, <1>t, AfterEffect, Zenon

LEMMA AllDisturbed == Standing(Topic)
BY Zenon DEF Standing

(* The cache as it was, the chain deployed only if it was and no shorter.  *)
LEMMA CacheKept ==
    ASSUME TypeInv, CacheSound, cache' = cache, chain' \in ChainState,
           chain'.deployed => chain.deployed /\ Height' >= Height
    PROVE  Grows /\ CacheSound'
<1>1. Height \in Nat /\ Height' \in Nat
  BY HeightType DEF TypeInv, ChainState, Height
<1>2. cache.object \in Nat /\ cache.nextBlock \in Nat
  BY DEF TypeInv, CacheState
<1>3. Grows
  BY <1>2, CoversSame DEF Grows
<1>4. Covers(cache.nextBlock - 1) => Covers(cache.nextBlock - 1)'
  BY Zenon DEF Covers
<1>5. CacheSound'
  BY <1>1, <1>2, <1>4 DEF CacheSound
<1> QED
  BY <1>3, <1>5

LEMMA CallKeeps ==
    ASSUME TypeInv, CacheSound, NEW call \in CallState, call.fn # "none",
           chain' = After(call), cache' = cache
    PROVE  Effect(ClosedBy(call))
<1>1. /\ chain' \in ChainState
      /\ chain'.deployed = chain.deployed
      /\ chain'.identity => chain.deployed
      /\ Len(chain'.events) >= Len(chain.events)
  BY AfterType DEF TypeInv
<1>2. Height' >= Height
  BY <1>1 DEF Height
<1>3. Grows /\ CacheSound'
  BY <1>1, <1>2, CacheKept
<1>4. Standing(ClosedBy(call))
  BY AfterStanding
<1> QED
  BY <1>1, <1>3, <1>4, Zenon DEF Effect, TypeInv

LEMMA WarpKeeps ==
    ASSUME TypeInv, CacheSound, chain' = [chain EXCEPT !.year = @ + 1], cache' = cache
    PROVE  Effect(Topic)
<1>1. chain \in ChainState /\ chain.year \in Nat
  BY DEF TypeInv, ChainState
<1>2. /\ chain' \in ChainState
      /\ chain'.deployed = chain.deployed
      /\ chain'.identity = chain.identity
      /\ chain'.events = chain.events
  BY <1>1 DEF ChainState
<1>3. Height' >= Height
  BY <1>1, <1>2, HeightType DEF Height
<1>4. Grows /\ CacheSound'
  BY <1>2, <1>3, CacheKept
<1> QED
  BY <1>2, <1>4, AllDisturbed, Zenon DEF Effect, TypeInv

LEMMA WipeKeeps ==
    ASSUME TypeInv, CacheSound, chain' = Wiped, cache' = cache
    PROVE  Effect(Topic)
<1>1. chain' \in ChainState /\ chain'.deployed = FALSE /\ chain'.identity = FALSE
  BY DeployedType DEF TypeInv
<1>2. Grows /\ CacheSound'
  BY <1>1, CacheKept
<1> QED
  BY <1>1, <1>2, AllDisturbed, Zenon DEF Effect, TypeInv

LEMMA RedeployKeeps ==
    ASSUME TypeInv, CacheSound, chain' = Deployed(who), cache' = Reload(cache)
    PROVE  Effect(Topic)
<1>1. /\ chain' \in ChainState /\ chain'.deployed = TRUE
      /\ cache' \in CacheState /\ cache'.object = cache.object + 1 /\ cache'.nextBlock = 1
      /\ cache.object \in Nat
  BY DeployedType, ReloadType DEF TypeInv, CacheState
<1>2. Height' \in Nat
  BY <1>1 DEF ChainState, Height
<1>3. Grows
  BY <1>1 DEF Grows
<1>4. CacheSound'
  <2>1. 1..(cache'.nextBlock - 1) = {}
    BY <1>1
  <2>2. Covers(cache.nextBlock - 1)'
    BY <2>1, Zenon DEF Covers
  <2>3. \A h \in Nat : 1 >= 1 /\ 1 <= h + 1
    OBVIOUS
  <2>4. cache'.nextBlock >= 1 /\ cache'.nextBlock <= Height' + 1
    BY <1>1, <1>2, <2>3, Zenon
  <2> QED
    BY <2>2, <2>4, Zenon DEF CacheSound
<1> QED
  BY <1>1, <1>3, <1>4, AllDisturbed, Zenon DEF Effect

LEMMA PushKeeps ==
    ASSUME TypeInv, CacheSound, NEW f \in Fetch, FetchFits("logs", f),
           chain' = chain, cache' = Pushed(f, cache, Height)
    PROVE  Effect({})
<1>1. CASE f.object # cache.object
  <2>1. cache' = cache
    BY <1>1 DEF Pushed
  <2> QED
    BY <2>1, NoEffect
<1>2. CASE f.object = cache.object
  <2> DEFINE new == Blocks(f, Height)
  <2>1. Height \in Nat /\ Height' = Height
    BY HeightType DEF TypeInv, Height
  <2>2. f.from \in Nat /\ f.latest \in Nat /\ cache \in CacheState
    BY DEF Fetch, TypeInv
  <2>3. /\ cache' \in CacheState
        /\ cache'.object = cache.object
        /\ cache'.nextBlock = f.latest + 1
        /\ cache'.logs = cache.logs \o new
        /\ new \in Seq(Nat)
    BY <1>2, <2>1, <2>2, PushedType
  <2> HIDE DEF new
  <2>4. /\ cache.logs \in Seq(Nat)
        /\ Len(cache.logs) \in Nat /\ Len(new) \in Nat
        /\ DOMAIN cache.logs = 1..Len(cache.logs) /\ DOMAIN new = 1..Len(new)
        /\ Len(cache'.logs) = Len(cache.logs) + Len(new)
        /\ DOMAIN cache'.logs = 1..(Len(cache.logs) + Len(new))
        /\ \A i \in 1..Len(cache.logs) : cache'.logs[i] = cache.logs[i]
        /\ \A i \in 1..Len(new) : cache'.logs[Len(cache.logs) + i] = new[i]
    BY <2>2, <2>3, ConcatProperties DEF CacheState
  <2>5. \A n : (\E i \in DOMAIN cache.logs : cache.logs[i] = n)
                 => \E i \in DOMAIN cache'.logs : cache'.logs[i] = n
    <3> SUFFICES ASSUME NEW n, NEW i \in DOMAIN cache.logs, cache.logs[i] = n
                 PROVE  \E j \in DOMAIN cache'.logs : cache'.logs[j] = n
      OBVIOUS
    <3>1. i \in DOMAIN cache'.logs /\ cache'.logs[i] = n
      BY <2>4
    <3> QED
      BY <3>1
  <2>6. \A m \in Int : Covers(m) => Covers(m)'
    BY <2>5 DEF Covers
  <2>7. Grows
    BY <2>1, <2>2, <2>3, <2>6 DEF Grows, CacheState
  <2>8. CacheSound'
    <3>1. cache'.nextBlock >= 1
      BY <2>2, <2>3
    <3>2. ASSUME chain.deployed
          PROVE  cache'.nextBlock <= Height' + 1 /\ Covers(cache.nextBlock - 1)'
      <4>1. /\ 1 <= f.from /\ f.from <= f.latest /\ f.latest <= Height
            /\ Covers(f.from - 1)
        BY <1>2, <3>2 DEF FetchFits
      <4>2. DOMAIN new = 1..(f.latest + 1 - f.from)
        BY <2>1, <2>2, <4>1, Ascending DEF Blocks, new
      <4>3. \A i \in 1..(f.latest + 1 - f.from) : new[i] = f.from + i - 1
        BY <2>1, <2>2, <4>1, Ascending DEF Blocks, new
      <4>4. ASSUME NEW n \in f.from..f.latest
            PROVE  \E i \in DOMAIN cache'.logs : cache'.logs[i] = n
        <5>1. n + 1 - f.from \in 1..(f.latest + 1 - f.from)
          BY <2>2, <4>1
        <5>2. new[n + 1 - f.from] = n
          BY <5>1, <4>3, <2>2
        <5>3. n + 1 - f.from \in 1..Len(new)
          BY <5>1, <4>2, <2>4
        <5>4. cache'.logs[Len(cache.logs) + (n + 1 - f.from)] = n
          BY <5>2, <5>3, <2>4
        <5>5. Len(cache.logs) + (n + 1 - f.from) \in DOMAIN cache'.logs
          BY <5>3, <2>4
        <5> QED
          BY <5>4, <5>5
      <4>5. ASSUME NEW n \in 1..f.latest
            PROVE  \E i \in DOMAIN cache'.logs : cache'.logs[i] = n
        <5>1. n \in 1..(f.from - 1) \/ n \in f.from..f.latest
          BY <2>2, <4>1
        <5>2. CASE n \in 1..(f.from - 1)
          BY <5>2, <4>1, <2>5 DEF Covers
        <5> QED
          BY <5>1, <5>2, <4>4
      <4>6. cache'.nextBlock - 1 = f.latest
        BY <2>2, <2>3
      <4>7. Covers(cache.nextBlock - 1)'
        BY <4>5, <4>6, Zenon DEF Covers
      <4>8. cache'.nextBlock <= Height' + 1
        BY <4>1, <2>1, <2>2, <2>3
      <4> QED
        BY <4>7, <4>8
    <3> QED
      BY <3>1, <3>2 DEF CacheSound
  <2>9. chain' \in ChainState /\ (chain'.identity => chain'.deployed)
    BY DEF TypeInv
  <2>10. Standing({})
    BY Zenon DEF Standing
  <2> QED
    BY <2>3, <2>7, <2>8, <2>9, <2>10, Zenon DEF Effect
<1> QED
  BY <1>1, <1>2

-----------------------------------------------------------------------------
(* Who does not move keeps what it relies on                               *)
LEMMA FetchKept ==
    ASSUME TypeInv, cache' \in CacheState, chain' \in ChainState, Grows, NEW step,
           NEW f \in Fetch, FetchFits(step, f)
    PROVE  FetchFits(step, f)'
<1>1. /\ f.object \in Nat /\ f.from \in Nat /\ f.latest \in Nat
      /\ cache.object \in Nat /\ cache'.object \in Nat
      /\ Height \in Nat /\ Height' \in Nat
  BY HeightType DEF TypeInv, CacheState, Fetch, ChainState, Height
<1>2. f.object <= cache.object /\ cache.object <= cache'.object
  BY <1>1 DEF FetchFits, Grows
<1>3. ASSUME chain'.deployed, step = "logs", f.object = cache'.object
      PROVE  /\ 1 <= f.from /\ f.from <= f.latest /\ f.latest <= Height'
             /\ Covers(f.from - 1)'
  <2>1. cache'.object = cache.object
    BY <1>1, <1>2, <1>3
  <2>2. chain.deployed /\ Height' >= Height /\ (Covers(f.from - 1) => Covers(f.from - 1)')
    BY <1>1, <1>3, <2>1 DEF Grows
  <2>3. /\ 1 <= f.from /\ f.from <= f.latest /\ f.latest <= Height
        /\ Covers(f.from - 1)
    BY <1>3, <2>1, <2>2 DEF FetchFits
  <2>4. f.latest <= Height'
    BY <1>1, <2>2, <2>3
  <2> QED
    BY <2>2, <2>3, <2>4, Zenon
<1>4. f.object <= cache'.object
  BY <1>1, <1>2
<1> QED
  BY <1>3, <1>4, Zenon DEF FetchFits

LEMMA FetchFresh ==
    ASSUME TypeInv, cache' \in CacheState, Grows, NEW step, NEW f \in Fetch,
           step # "logs", f.object <= cache.object
    PROVE  FetchFits(step, f)'
<1>1. f.object \in Nat /\ cache.object \in Nat /\ cache'.object \in Nat
  BY DEF TypeInv, CacheState, Fetch
<1>2. f.object <= cache'.object
  BY <1>1 DEF Grows
<1> QED
  BY <1>2 DEF FetchFits

LEMMA NotFetchingFits ==
    ASSUME TypeInv
    PROVE  NotFetching \in Fetch /\ NotFetching.object <= cache.object
BY IdleType DEF NotFetching, TypeInv, CacheState

LEMMA HeadTopic ==
    ASSUME NEW r \in Request, TopicsFit(r), r.kind \in Judged
    PROVE  Head(r.topics) \in Topic /\ r.topics \in Seq(Topic) /\ r.topics # <<>>
<1>1. r.topics \in Seq(Topic)
  BY DEF Request
<1>2. r.topics # <<>>
  <2>1. CASE r.kind \in {"verify", "refuse"}
    <3>1. Len(r.topics) = 1
      BY <2>1, Zenon DEF TopicsFit
    <3>2. Len(r.topics) # 0
      BY <3>1
    <3> QED
      BY <3>2, <1>1, EmptySeq, Zenon
  <2>2. CASE r.kind = "revoke"
    BY <2>2, Zenon DEF TopicsFit
  <2>3. CASE r.kind = "restore"
    <3>1. r.topics = <<"kyc">> /\ Len(<<"kyc">>) = 1
      BY <2>3 DEF TopicsFit
    <3> QED
      BY <3>1, EmptySeq
  <2> QED
    BY <2>1, <2>2, <2>3, Zenon DEF Judged
<1> QED
  BY <1>1, <1>2, HeadTailProperties

LEMMA PromiseIsJudged ==
    ASSUME NEW r, Promises(r)
    PROVE  r.kind \in Judged
BY DEF Promises, Judged

LEMMA StepKept ==
    ASSUME NEW r, NEW d, NEW topics, Alike(d, r, topics), StepFits(r)
    PROVE  StepFits(d)
BY DEF Alike, StepFits, TopicsFit, Promises

(* Its promise may be, unless it is of a topic disturbed.                  *)
PromiseNext(r, topics) == (Promises(r) /\ Head(r.topics) \in topics) \/ PromiseFits(r)'

LEMMA PromiseAlike ==
    ASSUME NEW CONSTANT r, NEW CONSTANT d, NEW CONSTANT topics, Alike(d, r, topics),
           PromiseNext(r, topics)
    PROVE  PromiseFits(d)'
<1>1. /\ d.step = r.step /\ d.kind = r.kind /\ d.topics = r.topics
      /\ d.call = r.call /\ d.then = r.then
      /\ d.disturbed = (r.disturbed \/ (Promises(r) /\ Head(r.topics) \in topics))
  BY DEF Alike
<1>2. CASE Promises(r) /\ Head(r.topics) \in topics
  BY <1>1, <1>2, Zenon DEF PromiseFits
<1>3. CASE PromiseFits(r)' /\ ~(Promises(r) /\ Head(r.topics) \in topics)
  <2>1. Promises(d) <=> Promises(r)
    BY <1>1 DEF Promises
  <2> QED
    BY <1>1, <1>3, <2>1, Zenon DEF PromiseFits
<1> QED
  BY <1>2, <1>3 DEF PromiseNext

LEMMA PromiseKept ==
    ASSUME TypeInv, chain' \in ChainState,
           NEW CONSTANT r \in Request, NEW CONSTANT topics, StepFits(r), PromiseFits(r),
           Standing(topics)
    PROVE  PromiseNext(r, topics)
<1> SUFFICES ASSUME Promises(r), ~r.disturbed, Head(r.topics) \notin topics
             PROVE  /\ r.step = "send" /\ r.then = "ok" => Passes(r.call)'
                    /\ r.step = "ok" => Head(r.topics) \in Valid'
  BY Zenon DEF PromiseNext, PromiseFits
<1>1. Head(r.topics) \in Topic \ topics
  BY HeadTopic, PromiseIsJudged DEF StepFits
<1>2. ASSUME r.step = "send", r.then = "ok"
      PROVE  Passes(r.call)'
  <2>1. Passes(r.call)
    BY <1>2 DEF PromiseFits
  <2>2. r.call.fn = "submitClaim" /\ r.call.topic = Head(r.topics)
    BY <1>2 DEF StepFits
  <2>3. r.call.year \in Nat
    BY DEF Request, CallState
  <2>4. TakesClaim(chain, r.call.topic, r.call.year)
    BY <2>1, <2>2, SubmitIs
  <2>5. TakesClaim(chain', r.call.topic, r.call.year)
    BY <1>1, <2>2, <2>3, <2>4, Zenon DEF Standing
  <2> QED
    BY <2>2, <2>5, SubmitIs
<1>3. ASSUME r.step = "ok"
      PROVE  Head(r.topics) \in Valid'
  <2>1. Head(r.topics) \in Valid
    BY <1>3 DEF PromiseFits
  <2>2. chain \in ChainState
    BY DEF TypeInv
  <2>3. Stands(chain, Head(r.topics))
    BY <1>1, <2>1, <2>2, ValidIs
  <2>4. Stands(chain', Head(r.topics))
    BY <1>1, <2>3, Zenon DEF Standing
  <2> QED
    BY <1>1, <2>4, ValidIsNext
<1> QED
  BY <1>2, <1>3

-----------------------------------------------------------------------------
(* A step of one request                                                   *)
Turned(c, x, topics) ==
    /\ req' \in [Slot -> Request]
    /\ \A d \in Slot : Alike(req'[d], IF d = c THEN x ELSE req[d], topics)

LEMMA PlainTurn ==
    ASSUME TypeInv, NEW c \in Slot, NEW x \in Request, req' = [req EXCEPT ![c] = x]
    PROVE  Turned(c, x, {})
<1>1. req \in [Slot -> Request]
  BY DEF TypeInv
<1>2. req' \in [Slot -> Request]
  BY <1>1
<1>3. \A d \in Slot : req'[d] = IF d = c THEN x ELSE req[d]
  BY <1>1
<1>4. ASSUME NEW d \in Slot
      PROVE  Alike(req'[d], IF d = c THEN x ELSE req[d], {})
  <2>1. PICK r \in Request : r = req'[d]
    BY <1>2
  <2>2. r = IF d = c THEN x ELSE req[d]
    BY <1>3, <2>1
  <2>3. Alike(r, r, {})
    BY DEF Alike, Request
  <2> QED
    BY <2>1, <2>2, <2>3, Zenon
<1> QED
  BY <1>2, <1>4 DEF Turned

LEMMA DisturbTurn ==
    ASSUME TypeInv, NEW c \in Slot, NEW x \in Request, NEW topics,
           req' = Disturb([req EXCEPT ![c] = x], topics)
    PROVE  Turned(c, x, topics)
<1> DEFINE turned == [req EXCEPT ![c] = x]
<1>1. req \in [Slot -> Request]
  BY DEF TypeInv
<1>2. turned \in [Slot -> Request]
  BY <1>1
<1>3. \A d \in Slot : turned[d] = IF d = c THEN x ELSE req[d]
  BY <1>1
<1>4. req' = Disturb(turned, topics)
  OBVIOUS
<1> HIDE DEF turned
<1>5. /\ req' \in [Slot -> Request]
      /\ \A d \in Slot : Alike(req'[d], turned[d], topics)
  BY <1>2, <1>4, DisturbType, Zenon
<1> QED
  BY <1>3, <1>5, Zenon DEF Turned

LEMMA RequestsKept ==
    ASSUME Inv, NEW CONSTANT topics, Effect(topics), NEW CONSTANT c \in Slot,
           NEW CONSTANT x \in Request, Turned(c, x, topics),
           StepFits(x), PromiseNext(x, topics), FetchFits(x.step, x.fetch)'
    PROVE  RequestInv'
<1> SUFFICES ASSUME NEW CONSTANT d \in Slot
             PROVE  /\ StepFits(req'[d])
                    /\ PromiseFits(req[d])'
                    /\ FetchFits(req[d].step, req[d].fetch)'
  BY DEF RequestInv, StepFits, TopicsFit, Promises
<1>1. PICK r : r = IF d = c THEN x ELSE req[d]
  OBVIOUS
<1>2. r \in Request
  BY <1>1 DEF Inv, TypeInv
<1>3. PICK n : n = req'[d]
  OBVIOUS
<1>4. Alike(n, r, topics)
  BY <1>1, <1>3, Zenon DEF Turned
<1>5. StepFits(r) /\ PromiseNext(r, topics) /\ FetchFits(r.step, r.fetch)'
  <2>1. CASE d = c
    <3>1. r = x
      BY <1>1, <2>1
    <3> QED
      BY <3>1, Zenon
  <2>2. CASE d # c
    <3>1. r = req[d]
      BY <1>1, <2>2
    <3>2. StepFits(r) /\ PromiseFits(r) /\ FetchFits(r.step, r.fetch)
      BY <3>1, Zenon DEF Inv, RequestInv
    <3>3. r.fetch \in Fetch
      BY <1>2 DEF Request
    <3>4. TypeInv /\ chain' \in ChainState /\ cache' \in CacheState
          /\ Grows /\ Standing(topics)
      BY Zenon DEF Inv, Effect
    <3>5. FetchFits(r.step, r.fetch)'
      BY <3>2, <3>3, <3>4, FetchKept
    <3>6. PromiseNext(r, topics)
      BY <1>2, <3>2, <3>4, PromiseKept
    <3> QED
      BY <3>2, <3>5, <3>6
  <2> QED
    BY <2>1, <2>2
<1>6. StepFits(n)
  BY <1>4, <1>5, StepKept
<1>7. PromiseFits(n)'
  BY <1>4, <1>5, PromiseAlike
<1>8. FetchFits(n.step, n.fetch)'
  <2>1. n.step = r.step /\ n.fetch = r.fetch
    BY <1>4 DEF Alike
  <2> QED
    BY <1>5, <2>1, Zenon
<1> QED
  BY <1>3, <1>6, <1>7, <1>8, Zenon

(* What a step does to the readers, and leaves alone.                      *)
ReadersFit ==
    /\ get' \in [Source -> Reader]
    /\ ReaderInv'

Rest ==
    /\ who' = who
    /\ enabled' = enabled
    /\ tickets' \in Seq(Nat)

LEMMA ReadersKept ==
    ASSUME Inv, NEW CONSTANT topics, Effect(topics), get' = get
    PROVE  ReadersFit
<1>0. get' \in [Source -> Reader]
  BY DEF Inv, TypeInv
<1> SUFFICES ASSUME NEW CONSTANT s \in Source
             PROVE  FetchFits(get[s].step, get[s].fetch)'
  BY <1>0 DEF ReaderInv, ReadersFit
<1>1. PICK g : g = get[s]
  OBVIOUS
<1>2. g.fetch \in Fetch
  BY <1>1 DEF Inv, TypeInv, Reader
<1>3. FetchFits(g.step, g.fetch)
  BY <1>1, Zenon DEF Inv, ReaderInv
<1>4. TypeInv /\ chain' \in ChainState /\ cache' \in CacheState /\ Grows
  BY Zenon DEF Inv, Effect
<1>5. FetchFits(g.step, g.fetch)'
  BY <1>2, <1>3, <1>4, FetchKept
<1> QED
  BY <1>1, <1>5, Zenon

LEMMA TurnKeepsInv ==
    ASSUME Inv, NEW CONSTANT topics, Effect(topics), NEW CONSTANT c \in Slot,
           NEW CONSTANT x \in Request, Turned(c, x, topics),
           StepFits(x), PromiseNext(x, topics), FetchFits(x.step, x.fetch)',
           ReadersFit, Rest
    PROVE  Inv'
<1>1. RequestInv'
  BY RequestsKept
<1>2. CacheSound'
  BY Zenon DEF Effect
<1>3. TypeInv'
  BY Zenon DEF Inv, TypeInv, Effect, Rest, Turned, ReadersFit
<1> QED
  BY <1>1, <1>2, <1>3 DEF Inv, ReadersFit

(* What a request a step leaves must be, in the world the step starts in.  *)
RequestFits(r) ==
    /\ r \in Request
    /\ StepFits(r)
    /\ PromiseFits(r)
    /\ FetchFits(r.step, r.fetch)

LEMMA EachRequestFits ==
    ASSUME Inv, NEW c \in Slot
    PROVE  RequestFits(req[c])
BY Zenon DEF Inv, TypeInv, RequestInv, RequestFits

LEMMA PlainKeeps ==
    ASSUME Inv, NEW CONSTANT c \in Slot, NEW CONSTANT x, RequestFits(x),
           req' = [req EXCEPT ![c] = x], chain' = chain, cache' = cache, ReadersFit, Rest
    PROVE  Inv'
<1>1. TypeInv /\ CacheSound
  BY DEF Inv
<1>2. Effect({})
  BY <1>1, NoEffect
<1>3. chain' \in ChainState /\ cache' \in CacheState /\ Grows /\ Standing({})
  BY <1>2, Zenon DEF Effect
<1>4. x \in Request /\ StepFits(x) /\ PromiseFits(x) /\ FetchFits(x.step, x.fetch)
  BY DEF RequestFits
<1>5. x.fetch \in Fetch
  BY <1>4 DEF Request
<1>6. Turned(c, x, {})
  BY <1>1, <1>4, PlainTurn
<1>7. PromiseNext(x, {})
  BY <1>1, <1>3, <1>4, PromiseKept
<1>8. FetchFits(x.step, x.fetch)'
  BY <1>1, <1>3, <1>4, <1>5, FetchKept
<1> QED
  BY <1>2, <1>4, <1>6, <1>7, <1>8, TurnKeepsInv

(* Shapes                                                                  *)
LEMMA FinishedFits ==
    ASSUME TypeInv, NEW r \in Request, StepFits(r), NEW answer \in {"ok", "refused"},
           answer = "ok" /\ Promises(r) /\ ~r.disturbed => Head(r.topics) \in Valid
    PROVE  RequestFits(Finished(r, answer))
<1> DEFINE x == Finished(r, answer)
<1>1. /\ x \in Request /\ x.step = answer /\ x.fetch = NotFetching
      /\ Promises(r) => /\ x.kind = r.kind /\ x.topics = r.topics
                        /\ x.disturbed = r.disturbed
      /\ ~Promises(r) => x.kind = "none"
  BY FinishedType
<1>n. NotFetching.object <= cache.object
  BY NotFetchingFits
<1> HIDE DEF x
<1>2. FetchFits(x.step, x.fetch)
  BY <1>1, <1>n DEF FetchFits
<1>3. CASE Promises(r)
  <2>1. /\ x.kind = r.kind /\ x.topics = r.topics /\ x.disturbed = r.disturbed
        /\ Promises(x)
    BY <1>1, <1>3 DEF Promises
  <2>2. StepFits(x)
    BY <1>1, <2>1 DEF StepFits, TopicsFit, PromiseStep
  <2>3. PromiseFits(x)
    BY <1>1, <1>3, <2>1 DEF PromiseFits
  <2> QED
    BY <1>1, <1>2, <2>2, <2>3 DEF RequestFits, x
<1>4. CASE ~Promises(r)
  <2>1. x.kind = "none" /\ ~Promises(x)
    BY <1>1, <1>4 DEF Promises
  <2>2. StepFits(x)
    BY <1>1, <2>1 DEF StepFits, TopicsFit, PromiseStep
  <2>3. PromiseFits(x)
    BY <2>1 DEF PromiseFits
  <2> QED
    BY <1>1, <1>2, <2>2, <2>3 DEF RequestFits, x
<1> QED
  BY <1>3, <1>4

LEMMA StepFitsAt ==
    ASSUME TypeInv, NEW r \in Request, TopicsFit(r), r.fetch.object <= cache.object,
           NEW step \in StepName \ {"logs", "simulate", "send", "ok"},
           step \in {"identity", "created"} => r.kind \in Judged,
           step \in {"latch", "claim", "compliant", "sign"} => Promises(r),
           Promises(r) => step \in PromiseStep
    PROVE  RequestFits([r EXCEPT !.step = step])
<1> DEFINE x == [r EXCEPT !.step = step]
<1>1. /\ x \in Request /\ x.step = step /\ x.kind = r.kind /\ x.topics = r.topics
      /\ x.fetch = r.fetch
  BY StepType
<1> HIDE DEF x
<1>2. StepFits(x)
  BY <1>1 DEF StepFits, TopicsFit, Promises
<1>3. PromiseFits(x)
  BY <1>1 DEF PromiseFits
<1>4. FetchFits(x.step, x.fetch)
  BY <1>1 DEF FetchFits
<1> QED
  BY <1>1, <1>2, <1>3, <1>4 DEF RequestFits, x

LEMMA WritingFits ==
    ASSUME TypeInv, NEW r \in Request, TopicsFit(r), r.fetch.object <= cache.object,
           NEW call \in CallState, call.fn # "none",
           NEW then \in {"none", "ok", "height", "topic", "created", "claim", "compliant"},
           then = "created" => r.kind \in Judged,
           then \in {"claim", "compliant"} => Promises(r),
           then = "topic" => r.kind = "revoke",
           Promises(r) => then \in {"created", "claim", "compliant", "ok"},
           Promises(r) /\ then = "ok" =>
                call.fn = "submitClaim" /\ call.topic = Head(r.topics)
    PROVE  RequestFits(Writing(r, call, then))
<1> DEFINE x == Writing(r, call, then)
<1>1. /\ x \in Request /\ x.step = "simulate" /\ x.kind = r.kind /\ x.topics = r.topics
      /\ x.call = call /\ x.then = then /\ x.fetch = r.fetch
  BY DEF Writing, Request, StepName, PromiseStep
<1>2. StepFits(x)
  BY <1>1 DEF StepFits, TopicsFit, Promises, PromiseStep
<1>3. PromiseFits(x)
  BY <1>1 DEF PromiseFits
<1>4. FetchFits(x.step, x.fetch)
  BY <1>1 DEF FetchFits
<1> QED
  BY <1>1, <1>2, <1>3, <1>4 DEF RequestFits, x

-----------------------------------------------------------------------------
(* The steps of a request that touch nothing else                          *)
Untouched ==
    /\ UNCHANGED <<who, enabled, cache, chain, get>>
    /\ tickets' \in Seq(Nat)

LEMMA UntouchedKeeps ==
    ASSUME Inv, NEW c \in Slot, NEW x, RequestFits(x), req' = [req EXCEPT ![c] = x],
           Untouched
    PROVE  Inv'
<1>1. Effect({})
  BY NoEffect DEF Inv, Untouched
<1>2. ReadersFit
  BY <1>1, ReadersKept DEF Untouched
<1>3. Rest
  BY DEF Rest, Untouched
<1> QED
  BY <1>2, <1>3, PlainKeeps DEF Untouched

LEMMA OtherUntouched ==
    ASSUME Inv, UNCHANGED <<Other, chain>>, UNCHANGED get
    PROVE  Untouched
BY DEF Inv, TypeInv, Untouched, Other

(* What is known of a request before its step.                             *)
LEMMA Before ==
    ASSUME Inv, NEW c \in Slot
    PROVE  LET r == req[c]
           IN  /\ RequestFits(r) /\ r \in Request /\ StepFits(r) /\ TopicsFit(r)
               /\ PromiseFits(r) /\ r.fetch.object <= cache.object
               /\ r.call \in CallState /\ r.topics \in Seq(Topic)
<1>1. RequestFits(req[c])
  BY EachRequestFits
<1>2. /\ req[c] \in Request /\ StepFits(req[c]) /\ PromiseFits(req[c])
      /\ FetchFits(req[c].step, req[c].fetch)
  BY <1>1, Zenon DEF RequestFits
<1>3. req[c].call \in CallState /\ req[c].topics \in Seq(Topic)
  BY <1>2 DEF Request
<1>4. TopicsFit(req[c]) /\ req[c].fetch.object <= cache.object
  BY <1>2, Zenon DEF StepFits, FetchFits
<1> QED
  BY <1>1, <1>2, <1>3, <1>4, Zenon

LEMMA AnswerKeeps ==
    ASSUME Inv, NEW c \in Slot, NEW answer \in {"ok", "refused"}, AnswerWith(c, answer),
           answer = "ok" /\ Promises(req[c]) /\ ~req[c].disturbed
                => Head(req[c].topics) \in Valid,
           Untouched
    PROVE  Inv'
<1>1. PICK r : r = req[c]
  OBVIOUS
<1>2. PICK x : x = Finished(r, answer)
  OBVIOUS
<1>3. r \in Request /\ StepFits(r) /\ TypeInv
  BY <1>1, Before DEF Inv
<1>4. RequestFits(x)
  BY <1>1, <1>2, <1>3, FinishedFits
<1>5. req' = [req EXCEPT ![c] = x]
  BY <1>1, <1>2 DEF AnswerWith
<1> QED
  BY <1>4, <1>5, UntouchedKeeps

LEMMA GotoKeeps ==
    ASSUME Inv, NEW c \in Slot, NEW step \in StepName \ {"logs", "simulate", "send", "ok"},
           step \in {"identity", "created"} => req[c].kind \in Judged,
           step \in {"latch", "claim", "compliant", "sign"} => Promises(req[c]),
           Promises(req[c]) => step \in PromiseStep,
           Goto(c, step), Untouched
    PROVE  Inv'
<1>1. PICK r : r = req[c]
  OBVIOUS
<1>2. PICK x : x = [r EXCEPT !.step = step]
  OBVIOUS
<1>3. r \in Request /\ TopicsFit(r) /\ r.fetch.object <= cache.object /\ TypeInv
  BY <1>1, Before DEF Inv
<1>4. RequestFits(x)
  BY <1>1, <1>2, <1>3, StepFitsAt
<1>5. req' = [req EXCEPT ![c] = x]
  BY <1>1, <1>2 DEF Goto
<1> QED
  BY <1>4, <1>5, UntouchedKeeps

LEMMA WriteKeeps ==
    ASSUME Inv, NEW c \in Slot, NEW fn, NEW t, NEW y, Call(fn, t, y) \in CallState,
           fn # "none",
           NEW then \in {"none", "ok", "height", "topic", "created", "claim", "compliant"},
           then = "created" => req[c].kind \in Judged,
           then \in {"claim", "compliant"} => Promises(req[c]),
           then = "topic" => req[c].kind = "revoke",
           Promises(req[c]) => then \in {"created", "claim", "compliant", "ok"},
           Promises(req[c]) /\ then = "ok" => fn = "submitClaim" /\ t = Head(req[c].topics),
           Write(c, Call(fn, t, y), then), Untouched
    PROVE  Inv'
<1>1. PICK r : r = req[c]
  OBVIOUS
<1>2. PICK call : call = Call(fn, t, y)
  OBVIOUS
<1>3. call \in CallState /\ call.fn = fn /\ call.topic = t
  BY <1>2 DEF Call
<1>4. PICK x : x = Writing(r, call, then)
  OBVIOUS
<1>5. r \in Request /\ TopicsFit(r) /\ r.fetch.object <= cache.object /\ TypeInv
  BY <1>1, Before DEF Inv
<1>6. RequestFits(x)
  BY <1>1, <1>3, <1>4, <1>5, WritingFits
<1>7. req' = [req EXCEPT ![c] = x]
  BY <1>1, <1>2, <1>4 DEF Write
<1> QED
  BY <1>6, <1>7, UntouchedKeeps

LEMMA StepOf ==
    ASSUME Inv, NEW c \in Slot
    PROVE  /\ req[c].step \in {"identity", "created"} => req[c].kind \in Judged
           /\ req[c].step \in {"latch", "claim", "compliant", "sign"} => Promises(req[c])
           /\ Promises(req[c]) => req[c].step \in PromiseStep
           /\ req[c].kind \in Judged => Head(req[c].topics) \in Topic
<1>1. StepFits(req[c]) /\ TopicsFit(req[c]) /\ req[c] \in Request
  BY Before
<1>2. req[c].kind \in Judged => Head(req[c].topics) \in Topic
  BY <1>1, HeadTopic
<1> QED
  BY <1>1, <1>2, Zenon DEF StepFits

LEMMA WithIdentityKeeps ==
    ASSUME Inv, NEW c \in Slot, req[c].kind \in Judged, WithIdentity(c), Untouched
    PROVE  Inv'
<1>1. Head(req[c].topics) \in Topic
  BY StepOf
<1>2. \A fn \in {"open", "close"} : Call(fn, Head(req[c].topics), 0) \in CallState
  BY <1>1 DEF Call, CallState, FnName
<1>3. CASE req[c].kind = "verify"
  <2>1. Goto(c, "latch")
    BY <1>3 DEF WithIdentity
  <2>2. Promises(req[c])
    BY <1>3 DEF Promises
  <2> QED
    BY <2>1, <2>2, GotoKeeps DEF StepName, PromiseStep
<1>4. CASE req[c].kind = "restore"
  <2>1. Write(c, Call("open", Head(req[c].topics), 0), "compliant")
    BY <1>4 DEF WithIdentity, Latch
  <2>2. Promises(req[c])
    BY <1>4 DEF Promises
  <2> QED
    BY <1>2, <2>1, <2>2, WriteKeeps
<1>5. CASE req[c].kind = "refuse"
  <2>1. Write(c, Call("close", Head(req[c].topics), 0), "ok")
    BY <1>5 DEF WithIdentity, Latch
  <2>2. ~Promises(req[c])
    BY <1>5 DEF Promises
  <2> QED
    BY <1>2, <2>1, <2>2, WriteKeeps
<1>6. CASE req[c].kind = "revoke"
  <2>1. Write(c, Call("close", Head(req[c].topics), 0), "topic")
    BY <1>6 DEF WithIdentity, Latch
  <2>2. ~Promises(req[c])
    BY <1>6 DEF Promises
  <2> QED
    BY <1>2, <1>6, <2>1, <2>2, WriteKeeps
<1> QED
  BY <1>3, <1>4, <1>5, <1>6 DEF Judged

LEMMA ReadThrowsKeeps ==
    ASSUME Inv, NEW c \in Slot, ReadThrows(c), UNCHANGED get
    PROVE  Inv'
BY AnswerKeeps, OtherUntouched DEF ReadThrows

LEMMA FindIdentityKeeps ==
    ASSUME Inv, NEW c \in Slot, FindIdentity(c), UNCHANGED get
    PROVE  Inv'
<1>1. Untouched
  BY OtherUntouched DEF FindIdentity
<1>2. req[c].step = "identity" /\ req[c].kind \in Judged
  BY StepOf DEF FindIdentity, Reads, At
<1>3. CASE chain.identity
  <2>1. WithIdentity(c)
    BY <1>3 DEF FindIdentity
  <2> QED
    BY <1>1, <1>2, <2>1, WithIdentityKeeps
<1>4. CASE ~chain.identity /\ req[c].kind = "revoke"
  <2>1. AnswerWith(c, "refused")
    BY <1>4 DEF FindIdentity
  <2> QED
    BY <1>1, <2>1, AnswerKeeps
<1>5. CASE ~chain.identity /\ req[c].kind # "revoke"
  <2>1. Write(c, Call("createIdentity", "kyc", 0), "created")
    BY <1>5 DEF FindIdentity
  <2>2. Call("createIdentity", "kyc", 0) \in CallState
    BY DEF Call, CallState, FnName, Topic
  <2> QED
    BY <1>1, <1>2, <2>1, <2>2, WriteKeeps
<1> QED
  BY <1>3, <1>4, <1>5

LEMMA ReadBackKeeps ==
    ASSUME Inv, NEW c \in Slot, ReadBack(c), UNCHANGED get
    PROVE  Inv'
<1>1. Untouched
  BY OtherUntouched DEF ReadBack
<1>2. req[c].kind \in Judged
  BY StepOf DEF ReadBack, Reads, At
<1>3. CASE chain.identity
  BY <1>1, <1>2, <1>3, WithIdentityKeeps DEF ReadBack
<1>4. CASE ~chain.identity
  BY <1>1, <1>4, AnswerKeeps DEF ReadBack
<1> QED
  BY <1>3, <1>4

LEMMA CheckLatchKeeps ==
    ASSUME Inv, NEW c \in Slot, CheckLatch(c), UNCHANGED get
    PROVE  Inv'
<1>1. Untouched
  BY OtherUntouched DEF CheckLatch
<1>2. Promises(req[c]) /\ req[c].kind \in Judged
  BY StepOf, PromiseIsJudged DEF CheckLatch, Reads, At
<1>3. Head(req[c].topics) \in Topic
  BY <1>2, StepOf
<1>4. CASE chain.latched[Head(req[c].topics)]
  <2>1. Write(c, Call("open", Head(req[c].topics), 0), "claim")
    BY <1>4 DEF CheckLatch, Latch
  <2>2. Call("open", Head(req[c].topics), 0) \in CallState
    BY <1>3 DEF Call, CallState, FnName
  <2> QED
    BY <1>1, <1>2, <2>1, <2>2, WriteKeeps
<1>5. CASE ~chain.latched[Head(req[c].topics)]
  <2>1. Goto(c, "claim")
    BY <1>5 DEF CheckLatch
  <2> QED
    BY <1>1, <1>2, <2>1, GotoKeeps DEF StepName, PromiseStep
<1> QED
  BY <1>4, <1>5

LEMMA CheckClaimKeeps ==
    ASSUME Inv, NEW c \in Slot, CheckClaim(c), UNCHANGED get
    PROVE  Inv'
<1>1. Untouched
  BY OtherUntouched DEF CheckClaim
<1>2. Promises(req[c])
  BY StepOf DEF CheckClaim, Reads, At
<1>3. CASE NeedsClaim(req[c])
  <2>1. Goto(c, "sign")
    BY <1>3 DEF CheckClaim
  <2> QED
    BY <1>1, <1>2, <2>1, GotoKeeps DEF StepName, PromiseStep
<1>4. CASE ~NeedsClaim(req[c])
  <2>1. AnswerWith(c, "ok")
    BY <1>4 DEF CheckClaim
  <2>2. Head(req[c].topics) \in Valid
    <3>1. CASE req[c].kind = "restore"
      <4>1. req[c].topics = <<"kyc">>
        BY <3>1, Before DEF TopicsFit
      <4>2. Head(req[c].topics) = "kyc"
        BY <4>1
      <4> QED
        BY <1>4, <3>1, <4>2 DEF NeedsClaim, IsCompliant
    <3>2. CASE req[c].kind # "restore"
      BY <1>4, <3>2 DEF NeedsClaim
    <3> QED
      BY <3>1, <3>2
  <2> QED
    BY <1>1, <2>1, <2>2, AnswerKeeps
<1> QED
  BY <1>3, <1>4

LEMMA SignKeeps ==
    ASSUME Inv, NEW c \in Slot, Sign(c), UNCHANGED get
    PROVE  Inv'
<1>1. Untouched
  BY OtherUntouched DEF Sign
<1>2. Promises(req[c]) /\ req[c].kind \in Judged
  BY StepOf, PromiseIsJudged DEF Sign, At
<1>3. PICK t \in Topic : t = Head(req[c].topics)
  BY <1>2, StepOf
<1>4. PICK y \in Nat : y = chain.year
  BY DEF Inv, TypeInv, ChainState
<1>5. Call("submitClaim", t, y) \in CallState
  BY DEF Call, CallState, FnName
<1>6. Write(c, Call("submitClaim", t, y), "ok")
  BY <1>3, <1>4 DEF Sign
<1> QED
  BY <1>1, <1>2, <1>3, <1>5, <1>6, WriteKeeps

LEMMA SimulateKeeps ==
    ASSUME Inv, NEW c \in Slot, Simulate(c), UNCHANGED get
    PROVE  Inv'
<1>1. Untouched
  BY OtherUntouched DEF Simulate
<1>2. CASE Passes(req[c].call)
  <2>1. PICK r : r = req[c]
    OBVIOUS
  <2>2. PICK x : x = [r EXCEPT !.step = "send"]
    OBVIOUS
  <2>3. /\ r \in Request /\ StepFits(r) /\ r.fetch.object <= cache.object
        /\ r.step = "simulate" /\ Passes(r.call)
    BY <1>2, <2>1, Before DEF Simulate, At
  <2>4. /\ x \in Request /\ x.step = "send" /\ x.kind = r.kind /\ x.topics = r.topics
        /\ x.call = r.call /\ x.then = r.then /\ x.fetch = r.fetch
    BY <2>2, <2>3 DEF Request, StepName, PromiseStep
  <2>5. StepFits(x)
    BY <2>3, <2>4 DEF StepFits, TopicsFit, Promises, PromiseStep
  <2>6. PromiseFits(x)
    BY <2>3, <2>4, Zenon DEF PromiseFits
  <2>7. FetchFits(x.step, x.fetch)
    BY <2>3, <2>4 DEF FetchFits
  <2>8. RequestFits(x)
    BY <2>4, <2>5, <2>6, <2>7 DEF RequestFits
  <2>9. req' = [req EXCEPT ![c] = x]
    BY <1>2, <2>1, <2>2 DEF Simulate, Goto
  <2> QED
    BY <1>1, <2>8, <2>9, UntouchedKeeps
<1>3. CASE ~Passes(req[c].call)
  BY <1>1, <1>3, AnswerKeeps DEF Simulate
<1> QED
  BY <1>2, <1>3

LEMMA ReadHeightKeeps ==
    ASSUME Inv, NEW c \in Slot, ReadHeight(c), UNCHANGED get
    PROVE  Inv'
<1>1. Untouched
  BY OtherUntouched DEF ReadHeight
<1>2. ~Promises(req[c])
  BY StepOf DEF ReadHeight, At, PromiseStep
<1>3. CASE UpToDate(req[c].fetch, cache, Height)
  BY <1>1, <1>2, <1>3, AnswerKeeps DEF ReadHeight
<1>4. CASE ~UpToDate(req[c].fetch, cache, Height)
  <2>1. PICK r : r = req[c]
    OBVIOUS
  <2>2. PICK f : f = Fetching(r.fetch, cache, Height)
    OBVIOUS
  <2>3. PICK x : x = [r EXCEPT !.step = "logs", !.fetch = f]
    OBVIOUS
  <2>4. /\ r \in Request /\ StepFits(r) /\ r.fetch \in Fetch
        /\ cache \in CacheState /\ Height \in Nat /\ ~Promises(r)
    BY <1>2, <2>1, Before, HeightType DEF Request, Inv, TypeInv
  <2>5. /\ f \in Fetch /\ f.object = r.fetch.object /\ f.from = cache.nextBlock
        /\ f.latest = Height
    BY <2>2, <2>4, FetchingType
  <2>6. r.fetch.object = cache.object /\ ~(Height < cache.nextBlock)
    BY <1>4, <2>1 DEF UpToDate
  <2>7. /\ x \in Request /\ x.step = "logs" /\ x.kind = r.kind /\ x.topics = r.topics
        /\ x.fetch = f
    BY <2>3, <2>4, <2>5 DEF Request, StepName
  <2>8. StepFits(x) /\ PromiseFits(x)
    BY <2>4, <2>7 DEF StepFits, TopicsFit, Promises, PromiseFits
  <2>9. f.object <= cache.object /\ 1 <= f.from /\ f.from <= f.latest /\ f.latest <= Height
    BY <2>4, <2>5, <2>6 DEF Inv, CacheSound, CacheState
  <2>10. FetchFits(x.step, x.fetch)
    BY <2>5, <2>7, <2>9, Zenon DEF Inv, CacheSound, FetchFits
  <2>11. RequestFits(x)
    BY <2>7, <2>8, <2>10 DEF RequestFits
  <2>12. req' = [req EXCEPT ![c].step = "logs", ![c].fetch = Fetching(@, cache, Height)]
    BY <1>4 DEF ReadHeight
  <2>13. req' = [req EXCEPT ![c] = x]
    BY <2>1, <2>2, <2>3, <2>4, <2>12 DEF Inv, TypeInv, Request
  <2> QED
    BY <1>1, <2>11, <2>13, UntouchedKeeps
<1> QED
  BY <1>3, <1>4

LEMMA FileTicketKeeps ==
    ASSUME Inv, NEW c \in Slot, FileTicket(c), UNCHANGED get
    PROVE  Inv'
<1>1. ~Promises(req[c])
  BY StepOf DEF FileTicket, At, PromiseStep
<1>2. req[c].fetch.object \in Nat
  BY Before DEF Request, Fetch
<1>3. tickets' \in Seq(Nat)
  BY <1>2, AppendProperties DEF FileTicket, Inv, TypeInv
<1>4. Untouched
  BY <1>3 DEF Untouched, FileTicket
<1> QED
  BY <1>1, <1>4, AnswerKeeps DEF FileTicket

LEMMA HouseKeeps ==
    ASSUME Inv, NEW c \in Slot, House(c), UNCHANGED get
    PROVE  Inv'
<1>1. Untouched
  BY OtherUntouched DEF House
<1>2. ~Promises(req[c])
  BY StepOf DEF House, At, PromiseStep
<1>3. PICK answer \in {"ok", "refused"} : AnswerWith(c, answer)
  BY DEF House
<1> QED
  BY <1>1, <1>2, <1>3, AnswerKeeps

LEMMA CallFailsKeeps ==
    ASSUME Inv, NEW c \in Slot, CallFails(c), UNCHANGED get
    PROVE  Inv'
<1>1. Untouched
  BY DEF CallFails, Untouched, Inv, TypeInv
<1> QED
  BY <1>1, AnswerKeeps DEF CallFails

-----------------------------------------------------------------------------
(* The steps of a request that move the chain or the cache                 *)
LEMMA FreshKeeps ==
    ASSUME Inv, NEW CONSTANT topics, Effect(topics), NEW CONSTANT c \in Slot,
           NEW CONSTANT x \in Request, Turned(c, x, topics), StepFits(x),
           PromiseNext(x, topics), x.step # "logs", x.fetch.object <= cache.object,
           UNCHANGED <<who, enabled, get>>, tickets' \in Seq(Nat)
    PROVE  Inv'
<1>1. TypeInv /\ cache' \in CacheState /\ Grows
  BY Zenon DEF Inv, Effect
<1>2. x.fetch \in Fetch
  BY DEF Request
<1>3. FetchFits(x.step, x.fetch)'
  BY <1>1, <1>2, FetchFresh
<1>4. ReadersFit /\ Rest
  BY ReadersKept DEF Rest
<1> QED
  BY <1>3, <1>4, TurnKeepsInv

(* A request that promises nothing.                                        *)
LEMMA PlainNext ==
    ASSUME NEW CONSTANT x, NEW CONSTANT topics, ~Promises(x)
    PROVE  PromiseNext(x, topics)
BY Zenon DEF PromiseNext, PromiseFits

LEMMA ReadLogsKeeps ==
    ASSUME Inv, NEW c \in Slot, ReadLogs(c), UNCHANGED get
    PROVE  Inv'
<1>1. PICK r : r = req[c]
  OBVIOUS
<1>2. PICK x : x = Finished(r, "ok")
  OBVIOUS
<1>3. r \in Request /\ StepFits(r) /\ r.step = "logs" /\ r.fetch \in Fetch
  BY <1>1, Before DEF ReadLogs, At, Request
<1>4. ~Promises(r)
  BY <1>1, <1>3, StepOf DEF PromiseStep
<1>5. FetchFits("logs", r.fetch)
  BY <1>1, <1>3, Zenon DEF Inv, RequestInv
<1>6. cache' = Pushed(r.fetch, cache, Height) /\ chain' = chain
  BY <1>1 DEF ReadLogs
<1>7. Effect({})
  BY <1>3, <1>5, <1>6, PushKeeps DEF Inv
<1>8. RequestFits(x)
  BY <1>2, <1>3, <1>4, FinishedFits DEF Inv
<1>9. /\ x \in Request /\ StepFits(x) /\ x.step = "ok" /\ ~Promises(x)
      /\ x.fetch.object <= cache.object
  <2>1. x.step = "ok" /\ x.kind = "none"
    BY <1>2, <1>3, <1>4, FinishedType
  <2> QED
    BY <1>8, <2>1 DEF RequestFits, FetchFits, Promises
<1>10. Turned(c, x, {})
  BY <1>1, <1>2, <1>9, PlainTurn DEF ReadLogs, AnswerWith, Inv
<1>11. PromiseNext(x, {})
  BY <1>9, PlainNext
<1>12. UNCHANGED <<who, enabled, get>> /\ tickets' \in Seq(Nat)
  BY DEF ReadLogs, Inv, TypeInv
<1> QED
  BY <1>7, <1>9, <1>10, <1>11, <1>12, FreshKeeps

LEMMA WarpRequestKeeps ==
    ASSUME Inv, NEW c \in Slot, Warp(c), UNCHANGED get
    PROVE  Inv'
<1>1. PICK r : r = req[c]
  OBVIOUS
<1>2. PICK x : x = Finished(r, "ok")
  OBVIOUS
<1>3. r \in Request /\ StepFits(r) /\ ~Promises(r)
  BY <1>1, Before, StepOf DEF Warp, At, PromiseStep
<1>4. Effect(Topic)
  BY WarpKeeps DEF Warp, Other, Inv
<1>5. RequestFits(x) /\ x.step = "ok" /\ ~Promises(x)
  BY <1>2, <1>3, FinishedFits, FinishedType DEF Inv, Promises
<1>6. x \in Request /\ StepFits(x) /\ x.fetch.object <= cache.object
  BY <1>5 DEF RequestFits, FetchFits
<1>7. Turned(c, x, Topic)
  BY <1>1, <1>2, <1>6, DisturbTurn DEF Warp, Inv
<1>8. PromiseNext(x, Topic)
  BY <1>5, PlainNext
<1>9. UNCHANGED <<who, enabled, get>> /\ tickets' \in Seq(Nat)
  BY DEF Warp, Other, Inv, TypeInv
<1> QED
  BY <1>4, <1>5, <1>6, <1>7, <1>8, <1>9, FreshKeeps

LEMMA WipeRequestKeeps ==
    ASSUME Inv, NEW c \in Slot, Wipe(c), UNCHANGED get
    PROVE  Inv'
<1>1. PICK r : r = req[c]
  OBVIOUS
<1>2. PICK x : x = [r EXCEPT !.step = "redeploy"]
  OBVIOUS
<1>3. /\ r \in Request /\ TopicsFit(r) /\ ~Promises(r)
      /\ r.fetch.object <= cache.object
  BY <1>1, Before, StepOf DEF Wipe, At, PromiseStep
<1>4. Effect(Topic)
  BY WipeKeeps DEF Wipe, Other, Inv
<1>5. RequestFits(x)
  BY <1>2, <1>3, StepFitsAt DEF Inv, StepName
<1>6. x.step = "redeploy" /\ x.kind = r.kind
  BY <1>2, <1>3 DEF Request
<1>7. ~Promises(x)
  BY <1>3, <1>6 DEF Promises
<1>8. x \in Request /\ StepFits(x) /\ x.fetch.object <= cache.object
  BY <1>5 DEF RequestFits, FetchFits
<1>9. Turned(c, x, Topic)
  <2>1. req' = Disturb([req EXCEPT ![c].step = "redeploy"], Topic)
    BY DEF Wipe
  <2>2. [req EXCEPT ![c].step = "redeploy"] = [req EXCEPT ![c] = x]
    BY <1>1, <1>2 DEF Inv, TypeInv
  <2> QED
    BY <1>8, <2>1, <2>2, DisturbTurn DEF Inv
<1>10. PromiseNext(x, Topic)
  BY <1>7, PlainNext
<1>11. UNCHANGED <<who, enabled, get>> /\ tickets' \in Seq(Nat)
  BY DEF Wipe, Other, Inv, TypeInv
<1> QED
  BY <1>4, <1>6, <1>8, <1>9, <1>10, <1>11, FreshKeeps

LEMMA RedeployRequestKeeps ==
    ASSUME Inv, NEW c \in Slot, Redeploy(c), UNCHANGED get
    PROVE  Inv'
<1>1. PICK r : r = req[c]
  OBVIOUS
<1>2. PICK x : x = Finished(r, "ok")
  OBVIOUS
<1>3. r \in Request /\ StepFits(r) /\ ~Promises(r)
  BY <1>1, Before, StepOf DEF Redeploy, At, PromiseStep
<1>4. Effect(Topic)
  BY RedeployKeeps DEF Redeploy, Inv
<1>5. RequestFits(x) /\ x.step = "ok" /\ ~Promises(x)
  BY <1>2, <1>3, FinishedFits, FinishedType DEF Inv, Promises
<1>6. x \in Request /\ StepFits(x) /\ x.fetch.object <= cache.object
  BY <1>5 DEF RequestFits, FetchFits
<1>7. Turned(c, x, Topic)
  BY <1>1, <1>2, <1>6, DisturbTurn DEF Redeploy, Inv
<1>8. PromiseNext(x, Topic)
  BY <1>5, PlainNext
<1>9. UNCHANGED <<who, enabled, get>> /\ tickets' \in Seq(Nat)
  BY DEF Redeploy
<1> QED
  BY <1>4, <1>5, <1>6, <1>7, <1>8, <1>9, FreshKeeps

(* A claim that was taken stands.                                          *)
LEMMA SentClaimStands ==
    ASSUME TypeInv, NEW r \in Request, StepFits(r), PromiseFits(r), r.step = "send",
           Promises(r), ~r.disturbed, r.then = "ok", chain' = After(r.call)
    PROVE  Head(r.topics) \in Valid'
<1>1. /\ r.call.fn = "submitClaim" /\ r.call.topic = Head(r.topics)
      /\ Passes(r.call)
  BY DEF StepFits, PromiseFits
<1>2. r.call \in CallState /\ r.call.topic \in Topic /\ chain \in ChainState
  BY DEF Request, CallState, TypeInv
<1>3. TakesClaim(chain, r.call.topic, r.call.year)
  BY <1>1, SubmitIs
<1>4. chain.deployed
  BY <1>3 DEF TakesClaim, TypeInv
<1>5. chain' = [chain EXCEPT !.signed[r.call.topic] = r.call.year]
  BY <1>1, <1>4, Zenon DEF After
<1>6. /\ chain'.identity = chain.identity
      /\ chain'.signed[r.call.topic] = r.call.year
      /\ chain'.year = chain.year
      /\ chain'.latched = chain.latched
  BY <1>2, <1>5 DEF ChainState
<1>7. r.call.year = chain.year /\ chain.year \in Nat
  BY <1>2, <1>3 DEF TakesClaim, ChainState
<1>8. r.call.year # Never /\ r.call.year \notin 0..(chain.year - 1)
  BY <1>7 DEF Never
<1>9. Stands(chain', r.call.topic)
  BY <1>3, <1>6, <1>8, Zenon DEF Stands, TakesClaim
<1>10. chain' \in ChainState
  BY <1>1, <1>2, AfterType DEF TypeInv
<1> QED
  BY <1>1, <1>2, <1>9, <1>10, ValidIsNext

LEMMA FinishedNext ==
    ASSUME TypeInv, NEW CONSTANT r \in Request, NEW CONSTANT topics,
           NEW CONSTANT x, x = Finished(r, "ok"),
           Promises(r) /\ ~r.disturbed => Head(r.topics) \in Valid'
    PROVE  PromiseNext(x, topics)
<1>1. /\ x.step = "ok"
      /\ Promises(r) => x.kind = r.kind /\ x.topics = r.topics /\ x.disturbed = r.disturbed
      /\ ~Promises(r) => x.kind = "none"
  BY FinishedType
<1>2. CASE ~Promises(r)
  <2>1. ~Promises(x)
    BY <1>1, <1>2 DEF Promises
  <2> QED
    BY <2>1, PlainNext
<1>3. CASE Promises(r)
  <2>1. /\ x.step # "send" /\ x.topics = r.topics /\ x.disturbed = r.disturbed
    BY <1>1, <1>3
  <2>2. PromiseFits(x)'
    BY <1>3, <2>1, Zenon DEF PromiseFits
  <2> QED
    BY <2>2 DEF PromiseNext
<1> QED
  BY <1>2, <1>3

(* Of a request on its way nothing has been promised yet.                  *)
LEMMA MovingNext ==
    ASSUME NEW CONSTANT x, NEW CONSTANT topics, x.step \notin {"send", "ok"}
    PROVE  PromiseNext(x, topics)
<1>1. PromiseFits(x)'
  BY DEF PromiseFits
<1> QED
  BY <1>1 DEF PromiseNext

LEMMA ContinueFits ==
    ASSUME TypeInv, NEW CONSTANT r \in Request, StepFits(r), PromiseFits(r),
           r.step = "send", r.fetch.object <= cache.object, chain' = After(r.call),
           NEW CONSTANT x, x = Continue(r), NEW CONSTANT topics
    PROVE  /\ x \in Request
           /\ StepFits(x)
           /\ x.step # "logs"
           /\ x.fetch.object <= cache.object
           /\ PromiseNext(x, topics)
<1>1. CASE r.then = "height"
  <2>1. x = [r EXCEPT !.step = "height", !.call = NoCall, !.fetch = Captured(cache)]
    BY <1>1 DEF Continue
  <2>2. NoCall \in CallState /\ Captured(cache) \in Fetch
        /\ Captured(cache).object = cache.object /\ cache.object \in Nat
    BY IdleType, CapturedType DEF TypeInv, CacheState
  <2>3. /\ x \in Request /\ x.step = "height" /\ x.kind = r.kind /\ x.topics = r.topics
        /\ x.fetch = Captured(cache)
    BY <2>1, <2>2 DEF Request, StepName
  <2>4. ~Promises(r)
    BY <1>1 DEF StepFits
  <2>5. StepFits(x)
    BY <2>3, <2>4 DEF StepFits, TopicsFit, Promises
  <2>6. PromiseNext(x, topics)
    BY <2>3, MovingNext
  <2> QED
    BY <2>2, <2>3, <2>5, <2>6
<1>2. CASE r.then = "topic" /\ Len(r.topics) > 1
  <2>1. PICK q : q = [r EXCEPT !.topics = Tail(@)]
    OBVIOUS
  <2>2. PICK call : call = Call("close", r.topics[2], 0)
    OBVIOUS
  <2>3. x = Writing(q, call, "topic")
    BY <1>2, <2>1, <2>2 DEF Continue
  <2>4. r.topics \in Seq(Topic) /\ r.kind = "revoke"
    BY <1>2 DEF Request, StepFits
  <2>5. r.topics # <<>>
    <3>1. Len(r.topics) # 0
      BY <1>2, <2>4
    <3> QED
      BY <2>4, <3>1, EmptySeq, Zenon
  <2>6. Tail(r.topics) \in Seq(Topic) /\ Len(Tail(r.topics)) = Len(r.topics) - 1
    BY <2>4, <2>5, HeadTailProperties
  <2>7. Tail(r.topics) # <<>>
    <3>1. Len(r.topics) \in Nat
      BY <2>4
    <3>2. \A n \in Nat : n > 1 => n - 1 # 0
      OBVIOUS
    <3>3. Len(Tail(r.topics)) # 0
      BY <1>2, <2>6, <3>1, <3>2, Zenon
    <3> QED
      BY <2>6, <3>3, EmptySeq, Zenon
  <2>8. r.topics[2] \in Topic
    BY <1>2, <2>4
  <2>9. call \in CallState /\ call.fn = "close"
    BY <2>2, <2>8 DEF Call, CallState, FnName
  <2>10. /\ q \in Request /\ q.kind = "revoke" /\ q.topics = Tail(r.topics)
         /\ q.fetch = r.fetch
    BY <2>1, <2>4, <2>6 DEF Request
  <2>11. TopicsFit(q) /\ ~Promises(q)
    BY <2>7, <2>10, Zenon DEF TopicsFit, Promises
  <2>12. RequestFits(x)
    BY <2>3, <2>9, <2>10, <2>11, WritingFits
  <2>13. x.step = "simulate" /\ x.fetch = r.fetch
    BY <2>3, <2>10 DEF Writing, Request
  <2>14. PromiseNext(x, topics)
    BY <2>13, MovingNext
  <2> QED
    BY <2>12, <2>13, <2>14 DEF RequestFits
<1>3. CASE r.then \in {"created", "claim", "compliant"}
  <2>1. x = [r EXCEPT !.step = r.then, !.call = NoCall]
    BY <1>3 DEF Continue
  <2>2. NoCall \in CallState
    BY IdleType
  <2>3. /\ x \in Request /\ x.step = r.then /\ x.kind = r.kind /\ x.topics = r.topics
        /\ x.fetch = r.fetch
    BY <1>3, <2>1, <2>2 DEF Request, StepName, PromiseStep
  <2>4. /\ r.then = "created" => r.kind \in Judged
        /\ r.then \in {"claim", "compliant"} => Promises(r)
    BY DEF StepFits
  <2>5. StepFits(x)
    BY <1>3, <2>3, <2>4 DEF StepFits, TopicsFit, Promises, PromiseStep
  <2>6. PromiseNext(x, topics)
    BY <1>3, <2>3, MovingNext
  <2> QED
    BY <1>3, <2>3, <2>5, <2>6
<1>4. CASE /\ r.then # "height"
           /\ ~(r.then = "topic" /\ Len(r.topics) > 1)
           /\ r.then \notin {"created", "claim", "compliant"}
  <2>1. x = Finished(r, "ok")
    BY <1>4 DEF Continue
  <2>2. ASSUME Promises(r), ~r.disturbed
        PROVE  Head(r.topics) \in Valid'
    <3>1. r.then = "ok"
      BY <1>4, <2>2 DEF StepFits
    <3> QED
      BY <2>2, <3>1, SentClaimStands
  <2>3. /\ x \in Request /\ x.step = "ok" /\ x.fetch = NotFetching
        /\ Promises(r) => x.kind = r.kind /\ x.topics = r.topics
        /\ ~Promises(r) => x.kind = "none"
    BY <2>1, FinishedType
  <2>4. NotFetching.object <= cache.object
    BY NotFetchingFits
  <2>5. StepFits(x)
    <3>1. CASE Promises(r)
      BY <2>3, <3>1 DEF StepFits, TopicsFit, Promises, PromiseStep
    <3>2. CASE ~Promises(r)
      BY <2>3, <3>2 DEF StepFits, TopicsFit, Promises, PromiseStep
    <3> QED
      BY <3>1, <3>2
  <2>6. PromiseNext(x, topics)
    BY <2>1, <2>2, FinishedNext
  <2> QED
    BY <2>3, <2>4, <2>5, <2>6
<1> QED
  BY <1>1, <1>2, <1>3, <1>4

LEMMA SendKeeps ==
    ASSUME Inv, NEW c \in Slot, Send(c), UNCHANGED get
    PROVE  Inv'
<1>1. PICK r : r = req[c]
  OBVIOUS
<1>2. PICK x : x = Continue(r)
  OBVIOUS
<1>3. PICK topics : topics = ClosedBy(r.call)
  OBVIOUS
<1>4. /\ r \in Request /\ StepFits(r) /\ PromiseFits(r) /\ r.fetch.object <= cache.object
      /\ r.call \in CallState /\ r.step = "send"
  BY <1>1, Before DEF Send, At
<1>5. chain' = After(r.call) /\ cache' = cache
  BY <1>1 DEF Send, Mined, Other
<1>6. r.call.fn # "none"
  BY <1>4 DEF StepFits
<1>7. Effect(topics)
  BY <1>3, <1>4, <1>5, <1>6, CallKeeps DEF Inv
<1>8. /\ x \in Request /\ StepFits(x) /\ x.step # "logs" /\ x.fetch.object <= cache.object
      /\ PromiseNext(x, topics)
  BY <1>2, <1>4, <1>5, ContinueFits DEF Inv
<1>9. req' = Disturb([req EXCEPT ![c] = x], topics)
  BY <1>1, <1>2, <1>3 DEF Send, Mined, ClosedBy
<1>10. Turned(c, x, topics)
  BY <1>8, <1>9, DisturbTurn DEF Inv
<1>11. UNCHANGED <<who, enabled, get>> /\ tickets' \in Seq(Nat)
  BY DEF Send, Other, Inv, TypeInv
<1> QED
  BY <1>7, <1>8, <1>10, <1>11, FreshKeeps

LEMMA ReceiptLostKeeps ==
    ASSUME Inv, NEW c \in Slot, ReceiptLost(c), UNCHANGED get
    PROVE  Inv'
<1>1. PICK r : r = req[c]
  OBVIOUS
<1>2. PICK x : x = Finished(r, "refused")
  OBVIOUS
<1>3. PICK topics : topics = ClosedBy(r.call)
  OBVIOUS
<1>4. /\ r \in Request /\ StepFits(r) /\ r.call \in CallState /\ r.step = "send"
  BY <1>1, Before DEF ReceiptLost, At
<1>5. chain' = After(r.call) /\ cache' = cache
  BY <1>1 DEF ReceiptLost
<1>6. r.call.fn # "none"
  BY <1>4 DEF StepFits
<1>7. Effect(topics)
  BY <1>3, <1>4, <1>5, <1>6, CallKeeps DEF Inv
<1>8. RequestFits(x) /\ x.step = "refused"
  BY <1>2, <1>4, FinishedFits, FinishedType DEF Inv
<1>9. x \in Request /\ StepFits(x) /\ x.fetch.object <= cache.object
  BY <1>8 DEF RequestFits, FetchFits
<1>10. PromiseNext(x, topics)
  BY <1>8, MovingNext
<1>11. req' = Disturb([req EXCEPT ![c] = x], topics)
  BY <1>1, <1>2, <1>3 DEF ReceiptLost, ClosedBy
<1>12. Turned(c, x, topics)
  BY <1>9, <1>11, DisturbTurn DEF Inv
<1>13. UNCHANGED <<who, enabled, get>> /\ tickets' \in Seq(Nat)
  BY DEF ReceiptLost, Inv, TypeInv
<1> QED
  BY <1>7, <1>8, <1>9, <1>10, <1>12, <1>13, FreshKeeps

LEMMA StepKeeps ==
    ASSUME Inv, NEW c \in Slot, Step(c) \/ CallFails(c) \/ ReceiptLost(c), UNCHANGED get
    PROVE  Inv'
BY ReadThrowsKeeps, FindIdentityKeeps, ReadBackKeeps, CheckLatchKeeps, CheckClaimKeeps,
   SignKeeps, SimulateKeeps, SendKeeps, ReadHeightKeeps, ReadLogsKeeps, WarpRequestKeeps,
   WipeRequestKeeps, RedeployRequestKeeps, FileTicketKeeps, HouseKeeps, CallFailsKeeps,
   ReceiptLostKeeps, Zenon DEF Step

-----------------------------------------------------------------------------
(* What the pages and the other clients ask for                            *)
LEMMA IdleFits ==
    ASSUME TypeInv
    PROVE  RequestFits(Idle)
<1>1. /\ Idle \in Request /\ Idle.step = "idle" /\ Idle.kind = "none"
      /\ Idle.fetch = NotFetching /\ NotFetching.object <= cache.object
  BY IdleType, NotFetchingFits
<1>2. StepFits(Idle) /\ PromiseFits(Idle)
  BY <1>1 DEF StepFits, TopicsFit, Promises, PromiseFits
<1>3. FetchFits(Idle.step, Idle.fetch)
  BY <1>1 DEF FetchFits
<1> QED
  BY <1>1, <1>2, <1>3 DEF RequestFits

LEMMA AskKeeps ==
    ASSUME Inv, NEW c \in Slot, NEW kind \in Kind, NEW topics \in Seq(Topic),
           kind \in {"verify", "refuse"} => Len(topics) = 1,
           kind = "revoke" => topics # <<>>,
           kind = "restore" => topics = <<"kyc">>,
           Ask(c, kind, topics), UNCHANGED get
    PROVE  Inv'
<1>1. PICK r : r = [Idle EXCEPT !.kind = kind, !.topics = topics]
  OBVIOUS
<1>2. /\ r \in Request /\ r.kind = kind /\ r.topics = topics /\ r.fetch = NotFetching
      /\ r.step = "idle"
  BY <1>1, IdleType DEF Request
<1>3. TopicsFit(r) /\ r.fetch.object <= cache.object /\ TypeInv
  BY <1>2, NotFetchingFits DEF TopicsFit, Inv
<1>4. PICK x : x = IF enabled THEN FirstStep(r) ELSE [r EXCEPT !.step = "refused"]
  OBVIOUS
<1>5. req' = [req EXCEPT ![c] = x]
  BY <1>1, <1>4 DEF Ask
<1>6. Untouched
  BY DEF Ask, Untouched, Inv, TypeInv
<1>7. RequestFits(x)
  <2>1. CASE ~enabled
    BY <1>2, <1>3, <1>4, <2>1, StepFitsAt DEF StepName, PromiseStep
  <2>2. CASE enabled /\ kind \in PoolAction
    <3>1. PICK call : call = Call(kind, "kyc", 0)
      OBVIOUS
    <3>2. call \in CallState /\ call.fn # "none"
      BY <2>2, <3>1 DEF Call, CallState, FnName, Topic, PoolAction
    <3>3. PICK then : then = IF kind = "swap" THEN "ok" ELSE "height"
      OBVIOUS
    <3>4. x = Writing(r, call, then)
      <4>1. x = FirstStep(r)
        BY <1>4, <2>2
      <4>2. FirstStep(r) = Writing(r, Call(r.kind, "kyc", 0),
                                   IF r.kind = "swap" THEN "ok" ELSE "height")
        BY <1>2, <2>2 DEF FirstStep, PoolAction
      <4> QED
        BY <1>2, <3>1, <3>3, <4>1, <4>2, Zenon
    <3>5. ~Promises(r)
      BY <1>2, <2>2 DEF Promises, PoolAction
    <3> QED
      BY <1>2, <1>3, <3>2, <3>3, <3>4, <3>5, WritingFits
  <2>3. CASE enabled /\ kind \in Judged
    <3>1. x = [r EXCEPT !.step = "identity"]
      BY <1>2, <1>4, <2>3 DEF FirstStep, Judged, PoolAction
    <3> QED
      BY <1>2, <1>3, <2>3, <3>1, StepFitsAt DEF StepName, PromiseStep
  <2>4. CASE enabled /\ kind = "ticket"
    <3>1. PICK f : f = Captured(cache)
      OBVIOUS
    <3>2. x = [r EXCEPT !.step = "ticket", !.fetch = f]
      BY <1>2, <1>4, <2>4, <3>1 DEF FirstStep, PoolAction
    <3>3. f \in Fetch /\ f.object = cache.object /\ cache.object \in Nat
      BY <3>1, CapturedType DEF Inv, TypeInv, CacheState
    <3>4. /\ x \in Request /\ x.step = "ticket" /\ x.kind = "ticket" /\ x.fetch = f
      BY <1>2, <2>4, <3>2, <3>3 DEF Request, StepName, Kind
    <3>5. StepFits(x) /\ PromiseFits(x)
      BY <3>4 DEF StepFits, TopicsFit, Promises, PromiseFits
    <3>6. FetchFits(x.step, x.fetch)
      BY <3>3, <3>4 DEF FetchFits
    <3> QED
      BY <3>4, <3>5, <3>6 DEF RequestFits
  <2>5. CASE enabled /\ kind \in {"warp", "reset", "house"}
    <3>1. x = [r EXCEPT !.step = kind]
      BY <1>2, <1>4, <2>5 DEF FirstStep, PoolAction
    <3>2. ~Promises(r)
      BY <1>2, <2>5 DEF Promises
    <3> QED
      BY <1>2, <1>3, <2>5, <3>1, <3>2, StepFitsAt DEF StepName, Kind
  <2> QED
    BY <2>1, <2>2, <2>3, <2>4, <2>5 DEF Kind, Judged
<1> QED
  BY <1>5, <1>6, <1>7, UntouchedKeeps

LEMMA Lengths ==
    /\ <<>> \in Seq(Topic)
    /\ \A t \in Topic : <<t>> \in Seq(Topic) /\ Len(<<t>>) = 1 /\ <<t>> # <<>>
    /\ <<"kyc", "accredited">> \in Seq(Topic) /\ <<"kyc", "accredited">> # <<>>
BY DEF Topic

LEMMA ActKeeps ==
    ASSUME Inv, NEW k \in Key, NEW kind \in Kind, NEW topics \in Seq(Topic),
           kind \in {"verify", "refuse"} => Len(topics) = 1,
           kind = "revoke" => topics # <<>>,
           kind = "restore" => topics = <<"kyc">>,
           Act(k, kind, topics)
    PROVE  Inv'
<1>1. k \in Slot
  BY ConsoleAssumption
<1> QED
  BY <1>1, AskKeeps DEF Act

LEMMA PageKeeps ==
    ASSUME Inv, \/ MarketsActorCard \/ MarketsWorld
                \/ SubmitTicket \/ Approve \/ OwnerCard \/ ConciergeWorld
    PROVE  Inv'
<1>k. {"actor", "world", "ticket", "pay", "owner"} \subseteq Key
  BY ConsoleAssumption
<1>0. ASSUME NEW kind \in Kind \ {"verify", "refuse", "revoke", "restore"}, NEW k \in Key,
             Act(k, kind, <<>>)
      PROVE  Inv'
  BY <1>0, Lengths, ActKeeps
<1>1. CASE Trade
  <2>1. PICK kind \in PoolAction : Act("actor", kind, <<>>)
    BY <1>1 DEF Trade
  <2>2. kind \in Kind \ {"verify", "refuse", "revoke", "restore"}
    BY DEF Kind, PoolAction
  <2> QED
    BY <1>0, <1>k, <2>1, <2>2
<1>2. CASE Verify
  <2>1. PICK t \in Topic : Act("actor", "verify", <<t>>)
    BY <1>2 DEF Verify
  <2> QED
    BY <1>k, <2>1, Lengths, ActKeeps DEF Kind
<1>3. CASE Revoke
  <2>1. PICK topics \in Seq(Topic) : topics # <<>> /\ Act("actor", "revoke", topics)
    BY <1>3, Lengths, Zenon DEF Revoke
  <2> QED
    BY <1>k, <2>1, ActKeeps DEF Kind
<1>4. CASE SubmitTicket
  BY <1>0, <1>4, <1>k DEF SubmitTicket, Kind
<1>5. CASE Approve
  BY <1>0, <1>5, <1>k DEF Approve, Kind
<1>6. CASE OwnerCard
  <2>1. PICK kind \in {"revoke", "restore"} : Act("owner", kind, <<"kyc">>)
    BY <1>6 DEF OwnerCard
  <2>2. <<"kyc">> \in Seq(Topic) /\ <<"kyc">> # <<>>
    BY DEF Topic
  <2> QED
    BY <1>k, <2>1, <2>2, ActKeeps DEF Kind
<1>7. CASE MarketsWorld \/ ConciergeWorld
  <2>1. PICK kind \in {"warp", "reset", "house"} : Act("world", kind, <<>>)
    BY <1>7 DEF MarketsWorld, ConciergeWorld, OnWorld
  <2> QED
    BY <1>0, <1>k, <2>1 DEF Kind
<1> QED
  BY <1>1, <1>2, <1>3, <1>4, <1>5, <1>6, <1>7 DEF MarketsActorCard

LEMMA PostKeeps ==
    ASSUME Inv, NEW c \in Client, Post(c)
    PROVE  Inv'
<1>1. c \in Slot
  BY ConsoleAssumption
<1>2. PICK post \in Posts : Ask(c, post[1], post[2])
  BY DEF Post
<1>3. PICK kind \in Kind, topics \in Seq(Topic) :
        /\ kind = post[1] /\ topics = post[2]
        /\ kind \in {"verify", "refuse"} => Len(topics) = 1
        /\ kind = "revoke" => topics # <<>>
        /\ kind = "restore" => topics = <<"kyc">>
  BY ConsoleAssumption, Zenon
<1>4. Ask(c, kind, topics) /\ UNCHANGED get
  BY <1>2, <1>3 DEF Post
<1> QED
  BY <1>1, <1>3, <1>4, AskKeeps

LEMMA LeaveKeeps ==
    ASSUME Inv, NEW c \in Client, Leave(c)
    PROVE  Inv'
<1>1. c \in Slot
  BY ConsoleAssumption
<1>2. PICK x : x = Idle
  OBVIOUS
<1>3. RequestFits(x)
  BY <1>2, IdleFits DEF Inv
<1>4. req' = [req EXCEPT ![c] = x]
  BY <1>2 DEF Leave
<1>5. Untouched
  BY DEF Leave, Untouched, Inv, TypeInv
<1> QED
  BY <1>1, <1>3, <1>4, <1>5, UntouchedKeeps

-----------------------------------------------------------------------------
(* What the readers do                                                     *)
LEMMA NoWorldType ==
    NoWorld \in World /\ NotReading \in Reader /\ NotReading.fetch = NotFetching
BY IdleType DEF NoWorld, World, NotReading, Reader

LEMMA OneReader ==
    ASSUME Inv, NEW CONSTANT topics, Effect(topics), NEW CONSTANT s \in Source,
           NEW CONSTANT g \in Reader, get' = [get EXCEPT ![s] = g],
           FetchFits(g.step, g.fetch)'
    PROVE  ReadersFit
<1>1. get \in [Source -> Reader]
  BY DEF Inv, TypeInv
<1>2. get' \in [Source -> Reader]
  BY <1>1
<1> SUFFICES ASSUME NEW CONSTANT z \in Source
             PROVE  FetchFits(get[z].step, get[z].fetch)'
  BY <1>2 DEF ReaderInv, ReadersFit
<1>3. PICK h : h = IF z = s THEN g ELSE get[z]
  OBVIOUS
<1>4. h = get'[z]
  BY <1>1, <1>3
<1>5. FetchFits(h.step, h.fetch)'
  <2>1. CASE z = s
    BY <1>3, <2>1, Zenon
  <2>2. CASE z # s
    <3>1. h = get[z]
      BY <1>3, <2>2
    <3>2. FetchFits(h.step, h.fetch)
      BY <3>1, Zenon DEF Inv, ReaderInv
    <3>3. h.fetch \in Fetch
      BY <1>1, <3>1 DEF Reader
    <3>4. TypeInv /\ chain' \in ChainState /\ cache' \in CacheState /\ Grows
      BY Zenon DEF Inv, Effect
    <3> QED
      BY <3>2, <3>3, <3>4, FetchKept
  <2> QED
    BY <2>1, <2>2
<1> QED
  BY <1>4, <1>5, Zenon

(* No request moves.                                                       *)
LEMMA ReadersKeep ==
    ASSUME Inv, Effect({}), chain' = chain, UNCHANGED <<who, enabled, tickets, req>>, ReadersFit
    PROVE  Inv'
<1>1. PICK c \in Slot : c = "actor"
  BY ConsoleAssumption
<1>2. PICK x : x = req[c]
  OBVIOUS
<1>3. x \in Request /\ StepFits(x) /\ PromiseFits(x) /\ FetchFits(x.step, x.fetch)
  BY <1>2, Before, EachRequestFits DEF RequestFits
<1>4. req' = [req EXCEPT ![c] = x]
  BY <1>2 DEF Inv, TypeInv
<1>5. Turned(c, x, {})
  BY <1>3, <1>4, PlainTurn DEF Inv
<1>6. TypeInv /\ chain' \in ChainState /\ cache' \in CacheState /\ Grows /\ Standing({})
  BY Zenon DEF Inv, Effect
<1>7. PromiseNext(x, {})
  BY <1>3, <1>6, PromiseKept
<1>8. x.fetch \in Fetch
  BY <1>3 DEF Request
<1>9. FetchFits(x.step, x.fetch)'
  BY <1>3, <1>6, <1>8, FetchKept
<1>10. Rest
  BY DEF Rest, Inv, TypeInv
<1> QED
  BY <1>3, <1>5, <1>7, <1>9, <1>10, TurnKeepsInv

LEMMA GetKeeps ==
    ASSUME Inv, NEW s \in Source, NEW g \in Reader, FetchFits(g.step, g.fetch),
           get' = [get EXCEPT ![s] = g],
           UNCHANGED <<who, enabled, chain, cache, tickets, req>>
    PROVE  Inv'
<1>1. Effect({})
  BY NoEffect DEF Inv
<1>2. TypeInv /\ chain' \in ChainState /\ cache' \in CacheState /\ Grows
  BY <1>1, Zenon DEF Inv, Effect
<1>3. g.fetch \in Fetch
  BY DEF Reader
<1>4. FetchFits(g.step, g.fetch)'
  BY <1>2, <1>3, FetchKept
<1>5. ReadersFit
  BY <1>1, <1>4, OneReader
<1> QED
  BY <1>1, <1>5, ReadersKeep

LEMMA StartedFits ==
    ASSUME TypeInv
    PROVE  Started \in Reader /\ FetchFits(Started.step, Started.fetch)
<1>1. PICK step \in {"clock", "off"} : step = IF enabled THEN "clock" ELSE "off"
  OBVIOUS
<1>2. Started = [NotReading EXCEPT !.step = step]
  BY <1>1 DEF Started
<1>3. Started \in Reader /\ Started.step = step /\ Started.fetch = NotFetching
  BY <1>2, NoWorldType DEF Reader
<1> QED
  BY <1>3, NotFetchingFits DEF FetchFits

LEMMA NotReadingFits ==
    ASSUME TypeInv, NEW step \in {"idle", "answer", "error"}, NEW world \in World
    PROVE  /\ [NotReading EXCEPT !.step = step, !.world = world] \in Reader
           /\ [NotReading EXCEPT !.step = step] \in Reader
           /\ \A g \in {[NotReading EXCEPT !.step = step, !.world = world],
                        [NotReading EXCEPT !.step = step]} : FetchFits(g.step, g.fetch)
<1>1. ASSUME NEW g, \/ g = [NotReading EXCEPT !.step = step, !.world = world]
                    \/ g = [NotReading EXCEPT !.step = step]
      PROVE  g \in Reader /\ FetchFits(g.step, g.fetch)
  <2>1. g \in Reader /\ g.step = step /\ g.fetch = NotFetching
    BY <1>1, NoWorldType DEF Reader
  <2> QED
    BY <2>1, NotFetchingFits DEF FetchFits
<1> QED
  BY <1>1

LEMMA PollKeeps ==
    ASSUME Inv, Poll
    PROVE  Inv'
<1>1. PICK g : g = Started
  OBVIOUS
<1>2. g \in Reader /\ FetchFits(g.step, g.fetch)
  BY <1>1, StartedFits DEF Inv
<1>3. get' = [get EXCEPT !["poll"] = g] /\ "poll" \in Source
  BY <1>1 DEF Poll, Source
<1> QED
  BY <1>2, <1>3, GetKeeps DEF Poll, serverVars

LEMMA SettleKeeps ==
    ASSUME Inv, NEW k \in Key, Settle(k)
    PROVE  Inv'
<1>1. PICK g : g = Started
  OBVIOUS
<1>2. g \in Reader /\ FetchFits(g.step, g.fetch)
  BY <1>1, StartedFits DEF Inv
<1>3. get' = [get EXCEPT !["act"] = g] /\ "act" \in Source
  BY <1>1 DEF Settle, Source
<1>4. Effect({})
  BY NoEffect DEF Inv, Settle
<1>5. TypeInv /\ chain' \in ChainState /\ cache' \in CacheState /\ Grows
  BY <1>4, Zenon DEF Inv, Effect
<1>6. g.fetch \in Fetch
  BY <1>2 DEF Reader
<1>7. FetchFits(g.step, g.fetch)'
  BY <1>2, <1>5, <1>6, FetchKept
<1>8. ReadersFit
  BY <1>2, <1>3, <1>4, <1>7, OneReader
<1>9. PICK x : x = Idle
  OBVIOUS
<1>10. RequestFits(x) /\ req' = [req EXCEPT ![k] = x] /\ k \in Slot
  BY <1>9, IdleFits, ConsoleAssumption DEF Inv, Settle
<1>11. Rest
  BY DEF Rest, Settle, Inv, TypeInv
<1> QED
  BY <1>8, <1>10, <1>11, PlainKeeps DEF Settle

LEMMA ContinuesKeeps ==
    ASSUME Inv, NEW s \in Source, NEW g \in Reader, FetchFits(g.step, g.fetch),
           Continues(s, g)
    PROVE  Inv'
BY GetKeeps DEF Continues, serverVars

LEMMA EachReaderFits ==
    ASSUME Inv, NEW s \in Source
    PROVE  /\ get[s] \in Reader
           /\ FetchFits(get[s].step, get[s].fetch)
           /\ get[s].fetch.object <= cache.object
<1>1. get[s] \in Reader /\ FetchFits(get[s].step, get[s].fetch)
  BY Zenon DEF Inv, TypeInv, ReaderInv
<1> QED
  BY <1>1 DEF FetchFits

LEMMA WorldClockKeeps ==
    ASSUME Inv, NEW s \in Source, WorldClock(s)
    PROVE  Inv'
<1>1. PICK r \in Reader : r = get[s]
  BY EachReaderFits
<1>2. /\ Captured(cache) \in Fetch /\ Captured(cache).object = cache.object
      /\ cache.object \in Nat /\ chain.year \in Nat
  BY CapturedType DEF Inv, TypeInv, CacheState, ChainState
<1>3. PICK f \in Fetch : f = Captured(cache) /\ f.object = cache.object
  BY <1>2
<1>4. PICK g : g = [r EXCEPT !.step = "height", !.now = chain.year, !.fetch = f]
  OBVIOUS
<1>5. g \in Reader /\ g.step = "height" /\ g.fetch = f
  BY <1>2, <1>4 DEF Reader
<1>6. FetchFits(g.step, g.fetch)
  BY <1>2, <1>3, <1>5 DEF FetchFits
<1>7. Continues(s, g)
  BY <1>1, <1>3, <1>4 DEF WorldClock
<1> QED
  BY <1>5, <1>6, <1>7, ContinuesKeeps

LEMMA WorldHeightKeeps ==
    ASSUME Inv, NEW s \in Source, WorldHeight(s)
    PROVE  Inv'
<1>1. PICK r \in Reader : r = get[s] /\ r.fetch.object <= cache.object
  BY EachReaderFits
<1>2. r.fetch \in Fetch /\ cache \in CacheState /\ Height \in Nat
  BY HeightType DEF Reader, Inv, TypeInv
<1>3. CASE UpToDate(r.fetch, cache, Height)
  <2>1. PICK g : g = [r EXCEPT !.step = "gate", !.fetch = NotFetching]
    OBVIOUS
  <2>2. g \in Reader /\ g.step = "gate" /\ g.fetch = NotFetching
    BY <2>1, NotFetchingFits DEF Reader, Inv
  <2>3. FetchFits(g.step, g.fetch)
    BY <2>2, NotFetchingFits DEF FetchFits, Inv
  <2>4. Continues(s, g)
    BY <1>1, <1>3, <2>1 DEF WorldHeight
  <2> QED
    BY <2>2, <2>3, <2>4, ContinuesKeeps
<1>4. CASE ~UpToDate(r.fetch, cache, Height)
  <2>1. PICK f : f = Fetching(r.fetch, cache, Height)
    OBVIOUS
  <2>2. PICK g : g = [r EXCEPT !.step = "logs", !.fetch = f]
    OBVIOUS
  <2>3. /\ f \in Fetch /\ f.object = r.fetch.object /\ f.from = cache.nextBlock
        /\ f.latest = Height
    BY <1>2, <2>1, FetchingType
  <2>4. r.fetch.object = cache.object /\ ~(Height < cache.nextBlock)
    BY <1>4 DEF UpToDate
  <2>5. g \in Reader /\ g.step = "logs" /\ g.fetch = f
    BY <2>2, <2>3 DEF Reader
  <2>6. f.object <= cache.object /\ 1 <= f.from /\ f.from <= f.latest /\ f.latest <= Height
    BY <1>1, <1>2, <2>3, <2>4 DEF Inv, CacheSound, CacheState
  <2>7. FetchFits(g.step, g.fetch)
    BY <2>3, <2>5, <2>6, Zenon DEF Inv, CacheSound, FetchFits
  <2>8. Continues(s, [r EXCEPT !.step = "logs", !.fetch = Fetching(@, cache, Height)])
    BY <1>1, <1>4 DEF WorldHeight
  <2>9. Continues(s, g)
    BY <2>1, <2>2, <2>8
  <2> QED
    BY <2>5, <2>7, <2>9, ContinuesKeeps
<1> QED
  BY <1>3, <1>4

LEMMA WorldLogsKeeps ==
    ASSUME Inv, NEW s \in Source, WorldLogs(s)
    PROVE  Inv'
<1>1. PICK r \in Reader : r = get[s]
  BY EachReaderFits
<1>2. r.fetch \in Fetch /\ r.step = "logs"
  BY <1>1 DEF Reader, WorldLogs
<1>3. FetchFits("logs", r.fetch)
  BY <1>1, <1>2, EachReaderFits
<1>4. Effect({})
  BY <1>1, <1>2, <1>3, PushKeeps DEF WorldLogs, Inv
<1>5. PICK g : g = [r EXCEPT !.step = "gate", !.fetch = NotFetching]
  OBVIOUS
<1>6. g \in Reader /\ g.step = "gate" /\ g.fetch = NotFetching
  BY <1>5, NotFetchingFits DEF Reader, Inv
<1>7. TypeInv /\ cache' \in CacheState /\ Grows
  BY <1>4, Zenon DEF Inv, Effect
<1>8. g.fetch \in Fetch /\ g.step # "logs" /\ g.fetch.object <= cache.object
  BY <1>6, <1>7, NotFetchingFits
<1>9. FetchFits(g.step, g.fetch)'
  BY <1>7, <1>8, FetchFresh
<1>10. get' = [get EXCEPT ![s] = g]
  BY <1>1, <1>5 DEF WorldLogs, Inv, TypeInv
<1>11. ReadersFit
  BY <1>4, <1>6, <1>9, <1>10, OneReader
<1> QED
  BY <1>4, <1>11, ReadersKeep DEF WorldLogs

LEMMA ClaimStateType ==
    ASSUME NEW i \in BOOLEAN, NEW t \in Topic, NEW n \in Nat
    PROVE  ClaimState(i, t, n) \in {"UNVERIFIED", "REVOKED", "EXPIRED", "VERIFIED"}
<1>1. CASE ~i \/ chain.signed[t] = Never
  BY <1>1 DEF ClaimState
<1>2. CASE i /\ chain.signed[t] # Never
  BY <1>2 DEF ClaimState
<1> QED
  BY <1>1, <1>2

LEMMA ReadGateKeeps ==
    ASSUME Inv, NEW s \in Source, ReadGate(s)
    PROVE  Inv'
<1>1. PICK r \in Reader : r = get[s] /\ r.fetch.object <= cache.object
  BY EachReaderFits
<1>2. PICK i \in BOOLEAN : i = chain.identity
  BY DEF Inv, TypeInv, ChainState
<1>3. PICK b \in BOOLEAN : b = IsCompliant
  <2>1. IsCompliant \in BOOLEAN
    BY DEF IsCompliant
  <2> QED
    BY <2>1, Zenon
<1>4. PICK g : g = [r EXCEPT !.step = "claims", !.identity = i, !.world.compliant = b]
  OBVIOUS
<1>5. [r.world EXCEPT !.compliant = b] \in World
  BY DEF Reader, World
<1>6. g \in Reader /\ g.step = "claims" /\ g.fetch = r.fetch
  BY <1>4, <1>5 DEF Reader
<1>7. FetchFits(g.step, g.fetch)
  BY <1>1, <1>6 DEF FetchFits
<1>8. Continues(s, g)
  BY <1>1, <1>2, <1>3, <1>4 DEF ReadGate
<1> QED
  BY <1>6, <1>7, <1>8, ContinuesKeeps

LEMMA ReadClaimsKeeps ==
    ASSUME Inv, NEW s \in Source, ReadClaims(s)
    PROVE  Inv'
<1>1. PICK r \in Reader : r = get[s]
  BY EachReaderFits
<1>2. PICK claims : claims = [t \in Topic |-> ClaimState(r.identity, t, r.now)]
  OBVIOUS
<1>3. claims \in [Topic -> {"UNVERIFIED", "REVOKED", "EXPIRED", "VERIFIED"}]
  <2>1. r.identity \in BOOLEAN /\ r.now \in Nat
    BY DEF Reader
  <2> QED
    BY <1>2, <2>1, ClaimStateType
<1>4. PICK feed \in Seq(Nat) : feed = tickets
  BY DEF Inv, TypeInv
<1>5. PICK seen : seen = [r.world EXCEPT !.shown = TRUE, !.tickets = feed, !.claims = claims]
  OBVIOUS
<1>6. seen \in World
  BY <1>3, <1>5 DEF Reader, World
<1>7. PICK g : g = [NotReading EXCEPT !.step = "answer", !.world = seen]
  OBVIOUS
<1>8. g \in Reader /\ FetchFits(g.step, g.fetch)
  BY <1>6, <1>7, NotReadingFits DEF Inv
<1>9. Continues(s, g)
  BY <1>1, <1>2, <1>4, <1>5, <1>7 DEF ReadClaims
<1> QED
  BY <1>8, <1>9, ContinuesKeeps

LEMMA WorldThrowsKeeps ==
    ASSUME Inv, NEW s \in Source, WorldThrows(s)
    PROVE  Inv'
<1>1. PICK g : g = [NotReading EXCEPT !.step = "error"]
  OBVIOUS
<1>2. g \in Reader /\ FetchFits(g.step, g.fetch)
  BY <1>1, NotReadingFits, NoWorldType DEF Inv
<1>3. Continues(s, g)
  BY <1>1 DEF WorldThrows
<1> QED
  BY <1>2, <1>3, ContinuesKeeps

LEMMA WorldFailsKeeps ==
    ASSUME Inv, NEW s \in Source, WorldFails(s)
    PROVE  Inv'
<1>1. PICK g : g = [NotReading EXCEPT !.step = "error"]
  OBVIOUS
<1>2. g \in Reader /\ FetchFits(g.step, g.fetch)
  BY <1>1, NotReadingFits, NoWorldType DEF Inv
<1>3. get' = [get EXCEPT ![s] = g]
  BY <1>1 DEF WorldFails
<1> QED
  BY <1>2, <1>3, GetKeeps DEF WorldFails

LEMMA ShowKeeps ==
    ASSUME Inv, NEW s \in Source, Show(s)
    PROVE  Inv'
<1>1. PICK g : g = NotReading
  OBVIOUS
<1>2. g \in Reader /\ g.step = "idle" /\ g.fetch = NotFetching
  BY <1>1, NoWorldType DEF NotReading
<1>3. FetchFits(g.step, g.fetch)
  BY <1>2, NotFetchingFits DEF FetchFits, Inv
<1>4. get' = [get EXCEPT ![s] = g]
  BY <1>1 DEF Show
<1> QED
  BY <1>2, <1>3, <1>4, GetKeeps DEF Show, serverVars

-----------------------------------------------------------------------------
(* The theorems                                                            *)
LEMMA InvInit == ConsoleInit => Inv
<1> SUFFICES ASSUME ConsoleInit
             PROVE  Inv
  OBVIOUS
<1> USE DEF ConsoleInit, Init
<1>1. who \in Actor
  BY ServerAssumption
<1>2. /\ chain \in ChainState /\ chain.deployed = TRUE /\ Height \in Nat
  BY <1>1, DeployedType, HeightType
<1>3. cache \in CacheState /\ cache.nextBlock = 1 /\ cache.object = 0
  BY DEF NewCache, CacheState
<1>4. tickets \in Seq(Nat)
  OBVIOUS
<1>5. req \in [Slot -> Request] /\ get \in [Source -> Reader]
  BY IdleType, NoWorldType
<1>6. TypeInv
  BY <1>1, <1>2, <1>3, <1>4, <1>5 DEF TypeInv
<1>7. CacheSound
  <2>1. 1..(cache.nextBlock - 1) = {}
    BY <1>3
  <2>2. Covers(cache.nextBlock - 1)
    BY <2>1, Zenon DEF Covers
  <2>3. \A h \in Nat : 1 >= 1 /\ 1 <= h + 1
    OBVIOUS
  <2>4. cache.nextBlock >= 1 /\ cache.nextBlock <= Height + 1
    BY <1>2, <1>3, <2>3, Zenon
  <2> QED
    BY <2>2, <2>4, Zenon DEF CacheSound
<1>8. RequestInv
  <2>1. \A c \in Slot : req[c] = Idle
    OBVIOUS
  <2>2. StepFits(Idle) /\ PromiseFits(Idle) /\ FetchFits(Idle.step, Idle.fetch)
    BY <1>6, IdleFits, Zenon DEF RequestFits
  <2> QED
    BY <2>1, <2>2, Zenon DEF RequestInv
<1>9. ReaderInv
  <2>1. \A s \in Source : get[s] = NotReading
    OBVIOUS
  <2>2. NotReading.step = "idle"
    BY DEF NotReading
  <2>3. FetchFits(NotReading.step, NotReading.fetch)
    BY <1>6, <2>2, NoWorldType, NotFetchingFits DEF FetchFits
  <2> QED
    BY <2>1, <2>3, Zenon DEF ReaderInv
<1> QED
  BY <1>6, <1>7, <1>8, <1>9 DEF Inv

LEMMA InvNext == Inv /\ [ConsoleNext]_vars => Inv'
<1> SUFFICES ASSUME Inv, [ConsoleNext]_vars
             PROVE  Inv'
  OBVIOUS
<1>1. CASE Poll
  BY <1>1, PollKeeps
<1>2. ASSUME NEW s \in Source, ReadWorld(s) \/ WorldFails(s)
      PROVE  Inv'
  BY <1>2, WorldClockKeeps, WorldHeightKeeps, WorldLogsKeeps, ReadGateKeeps, ReadClaimsKeeps,
     WorldThrowsKeeps, ShowKeeps, WorldFailsKeeps, Zenon DEF ReadWorld
<1>3. CASE \/ MarketsActorCard \/ MarketsWorld
           \/ SubmitTicket \/ Approve \/ OwnerCard \/ ConciergeWorld
  BY <1>3, PageKeeps
<1>4. ASSUME NEW c \in Slot, Serve(c) \/ Mishap(c)
      PROVE  Inv'
  BY <1>4, StepKeeps DEF Serve, Mishap
<1>5. ASSUME NEW k \in Key, Settle(k)
      PROVE  Inv'
  BY <1>5, SettleKeeps
<1>6. ASSUME NEW c \in Client, Post(c) \/ Leave(c)
      PROVE  Inv'
  BY <1>6, PostKeeps, LeaveKeeps
<1>7. CASE UNCHANGED vars
  <2>1. PICK s \in Source : s = "poll"
    BY DEF Source
  <2>2. PICK g \in Reader : g = get[s] /\ FetchFits(g.step, g.fetch)
    BY EachReaderFits
  <2>3. get' = [get EXCEPT ![s] = g]
    BY <1>7, <2>2 DEF vars, Inv, TypeInv
  <2> QED
    BY <1>7, <2>2, <2>3, GetKeeps DEF vars, serverVars
<1> QED
  BY <1>1, <1>2, <1>3, <1>4, <1>5, <1>6, <1>7, Zenon DEF ConsoleNext

(* The inductive invariant holds of every behaviour.                       *)
THEOREM InvHolds == ConsoleSpec => []Inv
BY InvInit, InvNext, PTL DEF ConsoleSpec

(* No pool event is missed (refreshLogs, reloadAddresses), for any number  *)
(* of pollers, requests, resets and failing calls: whatever was appended   *)
(* by others since a refresh took its height, the cache was complete up to *)
(* where it asks from, or it holds the object of an earlier world.         *)
THEOREM EventsKept == ConsoleSpec => []NoEventMissed
<1>1. Inv => NoEventMissed
  BY DEF Inv, CacheSound, Covers, NoEventMissed
<1> QED
  BY <1>1, InvHolds, PTL

(* "claim valid" and "compliant again" are true when they are answered     *)
(* (doVerify, doRestoreOwnerKyc), unless the latch was closed, the clock   *)
(* warped or the world reset since the question: a claim the simulation    *)
(* let through is taken when it is mined, other requests notwithstanding.  *)
THEOREM VerifyCorrect == ConsoleSpec => []VerifyMeansVerified
<1>1. Inv => VerifyMeansVerified
  BY DEF Inv, RequestInv, PromiseFits, VerifyMeansVerified
<1> QED
  BY <1>1, InvHolds, PTL
===============================================================================
