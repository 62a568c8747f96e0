----------------------------- MODULE DemoServer -----------------------------
(***************************************************************************)
(* The demo routes of the web server (apps/web/src/app/api/demo) and the   *)
(* local chain they drive, around one actor's wallet and one gated pool.   *)
(* A request is a program of awaits, any number of requests interleave,    *)
(* and all share one process: the cached pool logs and the ticket feed.    *)
(* Every write is simulated, then sent; a write the simulation refuses is  *)
(* the answer, one that reverts once sent goes unnoticed.  A reset wipes   *)
(* the chain, and then redeploys it in one synchronous stretch.            *)
(*                                                                         *)
(* Left out: balances and amounts (an add or an exit is one step of        *)
(* liquidity), the other actors, the reason codes.  A ticket's rails and   *)
(* the treasury's owners are in Concierge; here they read and change       *)
(* nothing but the feed.                                                   *)
(***************************************************************************)
EXTENDS Integers, Sequences, FiniteSets

CONSTANTS
    Who,           \* the actors looked at, of Actor
    Slot,          \* requests in flight: the page's buttons, other clients
    MaxRequests,   \* model bound
    MaxMishaps     \* model bound: failing calls of the chain and redeploys

VARIABLES
    who,       \* the actor, of Who
    enabled,   \* DEMO_MODE
    chain,     \* the local chain, from this actor's side
    cache,     \* state.logCache
    tickets,   \* the ticket feed: for each ticket, the world it was filed in
    req,       \* slot -> request
    asked, mishaps

serverVars == <<who, enabled, chain, cache, tickets, req, asked, mishaps>>

INSTANCE PoolLogs

Topic == {"kyc", "accredited"}

Hook == INSTANCE ComplianceHook WITH PolicyTopics <- {"kyc"}   \* the Deal Room pool

Actor == {"ana", "rui", "concierge"}

ASSUME ServerAssumption ==
    /\ Who \subseteq Actor
    /\ {MaxRequests, MaxMishaps} \subseteq Nat

Never == -1

(* The world DeployAll leaves: an identity for everyone but the agent, and *)
(* a KYC claim on ana's.  A claim is known by the year it was signed in.   *)
Deployed(w) ==
    [deployed |-> TRUE, identity |-> w # "concierge",
     signed |-> [t \in Topic |-> IF w = "ana" /\ t = "kyc" THEN 0 ELSE Never],
     latched |-> [t \in Topic |-> FALSE],
     year |-> 0, events |-> <<>>]

Wiped ==
    [deployed |-> FALSE, identity |-> FALSE,
     signed |-> [t \in Topic |-> Never], latched |-> [t \in Topic |-> FALSE],
     year |-> 0, events |-> <<>>]

Height == Len(chain.events)

(* claimState: what the issuer thinks of a claim at the time given.        *)
ClaimState(identity, t, now) ==
    CASE ~identity \/ chain.signed[t] = Never                  -> "UNVERIFIED"
      [] identity /\ chain.signed[t] # Never /\ chain.latched[t] -> "REVOKED"
      [] identity /\ chain.signed[t] \in 0..(now - 1) /\ ~chain.latched[t] -> "EXPIRED"
      [] OTHER                                                 -> "VERIFIED"

Valid == {t \in Topic : ClaimState(chain.identity, t, chain.year) = "VERIFIED"}

(* isCompliant, with the Deal Room policy.                                 *)
IsCompliant == "kyc" \in Valid

-----------------------------------------------------------------------------
(* Writes.  The latch answers nothing, so on a chain with no contract at   *)
(* its address the call goes through and does nothing.                     *)
Call(f, t, y) == [fn |-> f, topic |-> t, year |-> y]

Passes(call) ==
    CASE call.fn \in {"open", "close"} -> TRUE
      [] call.fn = "createIdentity"    -> chain.deployed /\ ~chain.identity
      [] call.fn = "submitClaim"       -> /\ chain.identity
                                          /\ ~chain.latched[call.topic]
                                          /\ call.year = chain.year
      [] call.fn = "swap"              -> Hook!BeforeSwap(chain.identity, Valid)
      [] call.fn = "add"               -> Hook!BeforeAddLiquidity(chain.identity, Valid)
      [] call.fn = "exit"              -> Position([i \in 1..Height |-> i], chain.events) > 0

After(call) ==
    IF ~Passes(call) \/ ~chain.deployed THEN chain
    ELSE CASE call.fn \in {"open", "close"} ->
                [chain EXCEPT !.latched[call.topic] = call.fn = "close"]
           [] call.fn = "createIdentity" -> [chain EXCEPT !.identity = TRUE]
           [] call.fn = "submitClaim"    -> [chain EXCEPT !.signed[call.topic] = call.year]
           [] OTHER                      -> [chain EXCEPT !.events = Append(@, call.fn)]

-----------------------------------------------------------------------------
(* Requests                                                                *)
PoolAction == {"swap", "add", "exit"}
Kind == PoolAction \cup {"verify", "refuse", "revoke", "restore", "warp", "reset", "ticket", "house"}

NoCall == Call("none", "kyc", 0)

Idle ==
    [step |-> "idle", kind |-> "none", topics |-> <<>>, call |-> NoCall, then |-> "none",
     fetch |-> NotFetching, disturbed |-> FALSE]

Answered(c) == req[c].step \in {"ok", "refused"}

InFlight(c) == req[c].step # "idle" /\ ~Answered(c)

Promises(r) == r.kind \in {"verify", "restore"}

(* Ghost: the promises whose claim others took the standing of meanwhile.  *)
Disturb(requests, topics) ==
    [c \in Slot |-> [requests[c] EXCEPT !.disturbed =
        @ \/ (Promises(requests[c]) /\ Head(requests[c].topics) \in topics)]]

Goto(c, step) == req' = [req EXCEPT ![c].step = step]

(* An answer forgets the awaits behind it.                                 *)
Finished(r, answer) ==
    IF Promises(r)
    THEN [Idle EXCEPT !.step = answer, !.kind = r.kind, !.topics = r.topics,
                      !.disturbed = r.disturbed]
    ELSE [Idle EXCEPT !.step = answer]

AnswerWith(c, answer) == req' = [req EXCEPT ![c] = Finished(@, answer)]

Writing(r, call, then) == [r EXCEPT !.step = "simulate", !.call = call, !.then = then]

Write(c, call, then) == req' = [req EXCEPT ![c] = Writing(@, call, then)]

Latch(c, fn) == Call(fn, Head(req[c].topics), 0)

FirstStep(r) ==
    CASE r.kind \in PoolAction -> Writing(r, Call(r.kind, "kyc", 0),
                                          IF r.kind = "swap" THEN "ok" ELSE "height")
      [] r.kind \in {"verify", "refuse", "revoke", "restore"} -> [r EXCEPT !.step = "identity"]
      [] r.kind = "ticket" -> [r EXCEPT !.step = "ticket", !.fetch = Captured(cache)]
      [] OTHER -> [r EXCEPT !.step = r.kind]

(* POST: without DEMO_MODE every route answers 403.                        *)
Ask(c, kind, topics) ==
    LET r == [Idle EXCEPT !.kind = kind, !.topics = topics]
    IN  /\ req[c].step = "idle"
        /\ asked < MaxRequests
        /\ asked' = asked + 1
        /\ req' = [req EXCEPT ![c] = IF enabled THEN FirstStep(r)
                                     ELSE [r EXCEPT !.step = "refused"]]
        /\ UNCHANGED <<who, enabled, chain, cache, tickets, mishaps>>

Other == <<who, enabled, cache, tickets, asked, mishaps>>

At(c, step) == req[c].step = step

(* A read of a contract the chain does not have throws.                    *)
Reads(c, step) == At(c, step) /\ chain.deployed

ReadThrows(c) ==
    /\ req[c].step \in {"identity", "created", "latch", "claim", "compliant"}
    /\ ~chain.deployed
    /\ AnswerWith(c, "refused")
    /\ UNCHANGED <<Other, chain>>

(* What follows once the identity is known.                                *)
WithIdentity(c) ==
    CASE req[c].kind = "verify"  -> Goto(c, "latch")
      [] req[c].kind = "restore" -> Write(c, Latch(c, "open"), "compliant")
      [] req[c].kind = "refuse"  -> Write(c, Latch(c, "close"), "ok")
      [] req[c].kind = "revoke"  -> Write(c, Latch(c, "close"), "topic")

(* identityOf, alone in a revocation, else as ensureIdentity starts.       *)
FindIdentity(c) ==
    /\ Reads(c, "identity")
    /\ CASE chain.identity -> WithIdentity(c)
         [] ~chain.identity /\ req[c].kind = "revoke" -> AnswerWith(c, "refused")
         [] OTHER -> Write(c, Call("createIdentity", "kyc", 0), "created")
    /\ UNCHANGED <<Other, chain>>

(* ensureIdentity reads back what it created.                              *)
ReadBack(c) ==
    /\ Reads(c, "created")
    /\ IF chain.identity THEN WithIdentity(c) ELSE AnswerWith(c, "refused")
    /\ UNCHANGED <<Other, chain>>

(* doVerify: the latch first, open again if it was closed.                 *)
CheckLatch(c) ==
    /\ Reads(c, "latch")
    /\ IF chain.latched[Head(req[c].topics)]
       THEN Write(c, Latch(c, "open"), "claim")
       ELSE Goto(c, "claim")
    /\ UNCHANGED <<Other, chain>>

(* Fault: the claim is judged by the policy, not by its topic.             *)
NeedsClaimOfPolicy(r) == ~IsCompliant

(* doVerify judges the topic, doRestoreOwnerKyc the policy.                *)
NeedsClaim(r) ==
    IF r.kind = "restore" THEN ~IsCompliant ELSE Head(r.topics) \notin Valid

CheckClaim(c) ==
    /\ Reads(c, "claim") \/ Reads(c, "compliant")
    /\ IF NeedsClaim(req[c]) THEN Goto(c, "sign") ELSE AnswerWith(c, "ok")
    /\ UNCHANGED <<Other, chain>>

(* submitClaim: the clock is read, the claim signed, the write begun.      *)
Sign(c) ==
    /\ At(c, "sign")
    /\ Write(c, Call("submitClaim", Head(req[c].topics), chain.year), "ok")
    /\ UNCHANGED <<Other, chain>>

(* send: simulateContract                                                  *)
Simulate(c) ==
    /\ At(c, "simulate")
    /\ IF Passes(req[c].call) THEN Goto(c, "send") ELSE AnswerWith(c, "refused")
    /\ UNCHANGED <<Other, chain>>

(* What waits behind a write: doRevoke's next topic, doLiquidity's logs.   *)
Continue(r) ==
    CASE r.then = "height" ->
            [r EXCEPT !.step = "height", !.call = NoCall, !.fetch = Captured(cache)]
      [] r.then = "topic" /\ Len(r.topics) > 1 ->
            Writing([r EXCEPT !.topics = Tail(@)], Call("close", r.topics[2], 0), "topic")
      [] r.then \in {"created", "claim", "compliant"} ->
            [r EXCEPT !.step = r.then, !.call = NoCall]
      [] OTHER -> Finished(r, "ok")

Mined(c) ==
    /\ chain' = After(req[c].call)
    /\ req' = Disturb([req EXCEPT ![c] = Continue(@)],
                      IF req[c].call.fn = "close" THEN {req[c].call.topic} ELSE {})

(* send: writeContract and the receipt, which nobody looks at.             *)
Send(c) ==
    /\ At(c, "send")
    /\ Mined(c)
    /\ UNCHANGED Other

(* refreshLogs, after the write of a liquidity request.                    *)
ReadHeight(c) ==
    /\ At(c, "height")
    /\ IF UpToDate(req[c].fetch, cache, Height)
       THEN AnswerWith(c, "ok")
       ELSE req' = [req EXCEPT ![c].step = "logs", ![c].fetch = Fetching(@, cache, Height)]
    /\ UNCHANGED <<Other, chain>>

ReadLogs(c) ==
    /\ At(c, "logs")
    /\ cache' = Pushed(req[c].fetch, cache, Height)
    /\ AnswerWith(c, "ok")
    /\ UNCHANGED <<who, enabled, chain, tickets, asked, mishaps>>

(* timewarp: a claim lives 365 days, the warp is 366.                      *)
Warp(c) ==
    /\ At(c, "warp")
    /\ chain' = [chain EXCEPT !.year = @ + 1]
    /\ req' = Disturb([req EXCEPT ![c] = Finished(@, "ok")], Topic)
    /\ UNCHANGED Other

(* resetWorld: anvil_reset, then everything else.                          *)
Wipe(c) ==
    /\ At(c, "reset")
    /\ chain' = Wiped
    /\ req' = Disturb([req EXCEPT ![c].step = "redeploy"], Topic)
    /\ UNCHANGED Other

Redeploy(c) ==
    /\ At(c, "redeploy")
    /\ chain' = Deployed(who)
    /\ cache' = Reload(cache)
    /\ tickets' = <<>>
    /\ req' = Disturb([req EXCEPT ![c] = Finished(@, "ok")], Topic)
    /\ UNCHANGED <<who, enabled, asked, mishaps>>

(* doTicket ends, however the rails went, by filing the ticket.            *)
FileTicket(c) ==
    /\ At(c, "ticket")
    /\ tickets' = Append(tickets, req[c].fetch.object)
    /\ AnswerWith(c, "ok")
    /\ UNCHANGED <<who, enabled, chain, cache, asked, mishaps>>

(* A write of the treasury's: fund, grant, revoke the mandate, approve.    *)
House(c) ==
    /\ At(c, "house")
    /\ \E answer \in {"ok", "refused"} : AnswerWith(c, answer)
    /\ UNCHANGED <<Other, chain>>

(* A call of the chain fails, or the deployment does: the request ends.    *)
(* A transaction whose receipt never came may have been mined.             *)
CallFails(c) ==
    /\ InFlight(c)
    /\ mishaps < MaxMishaps
    /\ mishaps' = mishaps + 1
    /\ AnswerWith(c, "refused")
    /\ UNCHANGED <<who, enabled, cache, tickets, asked, chain>>

ReceiptLost(c) ==
    /\ At(c, "send")
    /\ mishaps < MaxMishaps
    /\ mishaps' = mishaps + 1
    /\ chain' = After(req[c].call)
    /\ req' = Disturb([req EXCEPT ![c] = Finished(@, "refused")],
                      IF req[c].call.fn = "close" THEN {req[c].call.topic} ELSE {})
    /\ UNCHANGED <<who, enabled, cache, tickets, asked>>

Init ==
    /\ who \in Who
    /\ enabled \in BOOLEAN
    /\ chain = Deployed(who)
    /\ cache = NewCache(0)
    /\ tickets = <<>>
    /\ req = [c \in Slot |-> Idle]
    /\ asked = 0
    /\ mishaps = 0

Step(c) ==
    \/ ReadThrows(c) \/ FindIdentity(c) \/ ReadBack(c) \/ CheckLatch(c) \/ CheckClaim(c)
    \/ Sign(c) \/ Simulate(c) \/ Send(c) \/ ReadHeight(c) \/ ReadLogs(c)
    \/ Warp(c) \/ Wipe(c) \/ Redeploy(c) \/ FileTicket(c) \/ House(c)
=============================================================================
