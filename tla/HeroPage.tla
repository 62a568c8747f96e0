------------------------------ MODULE HeroPage ------------------------------
(***************************************************************************)
(* The guided demo of one browser tab (apps/web/src/app/hero) over the     *)
(* backend that serves it and the chain both write to.  The page keeps     *)
(* React state, a copy of it per wallet in localStorage, and asynchronous  *)
(* operations that end whenever their last await does: a click starts one, *)
(* a reload forgets them all while the backend carries on.  A button is    *)
(* shown and enabled by the page's state alone, never by the chain's.      *)
(*                                                                         *)
(* An operation goes on with what the render it was clicked in knew.  The  *)
(* page's reads may fail, each alone, and then read as empty.  Run bounds  *)
(* how many operations are under way at a time.  The text of errors, the   *)
(* log of hashes and the reputation shown are left out.                    *)
(***************************************************************************)
EXTENDS Integers, Sequences, FiniteSets

CONSTANTS
    Wallet, Agent, Identity, Label, Handler,
    MaxAttempts, MaxInFlight, MintAmount, Score,
    NoIdentity, NoHandler,
    DemoMode, WorldKeys, Refused,
    Pressed,       \* the World buttons pressed, of selfie and document
    Run,           \* model bound: operations under way at one time
    NoWallet, NoLabel, NoAgent,
    MaxMishaps     \* model bound: faults and mishaps

VARIABLES
    identityOfWallet, isIdentity, isAgent, held, latched, identityOf, scoreOf,
    balanceOf, minted, funded, mempool, job, faults,   \* HeroBackend
    page,       \* React state
    storage,    \* localStorage, one entry per wallet
    op,         \* the operations under way
    world,      \* World button: kind -> phase, with the claim it carries
    reading,    \* refreshStatus calls, by what started them
    mishaps     \* reloads and reads that failed

Backend == INSTANCE HeroBackend WITH MaxFaults <- MaxMishaps
Issue   == INSTANCE WorldFlow

chainVars ==
    <<identityOfWallet, isIdentity, isAgent, held, latched, identityOf, scoreOf,
      balanceOf, minted, funded>>
backendVars == <<chainVars, mempool, job, faults>>
pageVars == <<page, storage, op, world, reading, mishaps>>
vars == <<backendVars, pageVars>>

ASSUME PageAssumption ==
    /\ NoIdentity \notin Identity
    /\ NoHandler \notin Handler
    /\ Wallet \cap Agent = {}
    /\ {MaxAttempts, MaxInFlight, MintAmount, Score} \subseteq Nat \ {0}
    /\ MaxMishaps \in Nat
    /\ {DemoMode, WorldKeys} \subseteq BOOLEAN
    /\ Pressed \subseteq Issue!Kind
    /\ Run \cap (Pressed \cup {"effect"}) = {}
    /\ Refused \notin [identity : Identity, topic : Backend!SignedTopic]
    /\ {NoLabel, NoIdentity} \cap (Label \cup Identity) = {}
    /\ NoWallet \notin Wallet
    /\ NoAgent \notin [address : Agent, label : Label]

Key == {"provision", "accredited", "agent", "casa", "casa-retry", "revoke"}

Trigger == {"effect"} \cup Pressed \cup Run

Empty ==
    [wallet |-> NoWallet, label |-> NoLabel, identity |-> NoIdentity, name |-> NoLabel,
     status |-> "NONE", agent |-> NoAgent, registered |-> FALSE,
     casaOk |-> FALSE, busy |-> "none",
     looking |-> {}]   \* wallets whose identity the factory is asked for

Saved(p) == [identity |-> p.identity, name |-> p.name, agent |-> p.agent]

(* What the functions of a render close over.                              *)
View(p) == [wallet |-> p.wallet, identity |-> p.identity, name |-> p.name, agent |-> p.agent]

Quiet ==
    [key |-> "none", step |-> "idle", handler |-> NoHandler, claim |-> Refused,
     seen |-> View(Empty)]

Unpressed == [phase |-> "idle", claim |-> Refused, seen |-> View(Empty)]

-----------------------------------------------------------------------------
(* Fault: a name that reads GREEN is a badge that reads GREEN.             *)
PassportStatusOfName(got) == got.ens

(* readPassportStatus: the name's record and the two claims are read side  *)
(* by side, each when its answer comes; one that fails counts as empty.    *)
PassportStatus(got) ==
    CASE got.ens = "REVOKED"                                     -> "REVOKED"
      [] got.ens # "REVOKED" /\ got.kyc /\ got.accredited         -> "GREEN"
      [] got.ens # "REVOKED" /\ got.kyc /\ ~got.accredited        -> "LIMITED"
      [] OTHER                                                   -> "NONE"

Nothing == [ens |-> "NONE", kyc |-> FALSE, accredited |-> FALSE]

NotReading == [left |-> {}, got |-> Nothing, identity |-> NoIdentity, name |-> NoLabel]

(* refreshStatus, with the identity and the name of the render it is from. *)
Refresh(seen) ==
    IF seen.identity = NoIdentity \/ seen.name = NoLabel
    THEN NotReading
    ELSE [NotReading EXCEPT !.left = DOMAIN Nothing,
                            !.identity = seen.identity, !.name = seen.name]

FieldRead(r, f) ==
    CASE f = "ens" -> Backend!Resolver!ComplianceStatus(<<"person", r.name>>, Backend!Eligible)
      [] f = "kyc" -> Backend!ClaimValid(r.identity, "KYC_VERIFIED")
      [] f = "accredited" -> Backend!ClaimValid(r.identity, "ACCREDITED_INVESTOR")

(* The last of the answers sets the status, whatever was set meanwhile.    *)
Answer(t, f, value) ==
    LET r == [reading[t] EXCEPT !.left = @ \ {f}, !.got[f] = value]
    IN  /\ reading' = [reading EXCEPT ![t] = IF r.left = {} THEN NotReading ELSE r]
        /\ page' = IF r.left = {} THEN [page EXCEPT !.status = PassportStatus(r.got)] ELSE page
        /\ UNCHANGED <<backendVars, storage, op, world>>

Read(t, f) ==
    /\ f \in reading[t].left
    /\ Answer(t, f, FieldRead(reading[t], f))
    /\ UNCHANGED mishaps

ReadFails(t, f) ==
    /\ f \in reading[t].left
    /\ Answer(t, f, Nothing[f])
    /\ mishaps' = mishaps + 1

(* A render with new state: what is remembered of the wallet is written,   *)
(* and a new identity or name refreshes the status.                        *)
Render(p) ==
    /\ page' = p
    /\ storage' = [w \in Wallet |-> IF w = p.wallet THEN Saved(p) ELSE storage[w]]
    /\ reading' = IF p.identity = page.identity /\ p.name = page.name
                  THEN reading
                  ELSE [reading EXCEPT !["effect"] = Refresh(p)]

-----------------------------------------------------------------------------
(* The wallet is there: what was remembered of it is taken over where it   *)
(* says anything, and the factory is asked for its identity.               *)
Connect(w) ==
    /\ page.wallet # w
    /\ LET s == storage[w]
       IN  Render([page EXCEPT
                     !.wallet = w,
                     !.identity = IF s.identity = NoIdentity THEN @ ELSE s.identity,
                     !.name = IF s.name = NoLabel THEN @ ELSE s.name,
                     !.agent = IF s.agent = NoAgent THEN @ ELSE s.agent,
                     !.looking = @ \cup {w}])
    /\ UNCHANGED <<backendVars, op, world, mishaps>>

(* The answer, for a wallet that need not be the page's any more.          *)
LookedUp(w) ==
    /\ w \in page.looking
    /\ Render([page EXCEPT
                 !.identity = IF identityOfWallet[w] = NoIdentity THEN @ ELSE identityOfWallet[w],
                 !.looking = @ \ {w}])
    /\ UNCHANGED <<backendVars, op, world, mishaps>>

LookupFails(w) ==
    /\ w \in page.looking
    /\ page' = [page EXCEPT !.looking = @ \ {w}]
    /\ mishaps' = mishaps + 1
    /\ UNCHANGED <<backendVars, storage, op, world, reading>>

(* The tab is loaded again; nobody listens for the answers any more.       *)
Reload ==
    /\ faults + mishaps < MaxMishaps
    /\ page.wallet # NoWallet
    /\ page' = Empty
    /\ op' = [r \in Run |-> Quiet]
    /\ world' = [kind \in Pressed |-> Unpressed]
    /\ reading' = [t \in Trigger |-> NotReading]
    /\ mishaps' = mishaps + 1
    /\ UNCHANGED <<backendVars, storage>>

-----------------------------------------------------------------------------
(* run: busy names the operation clicked last and is cleared by whichever  *)
(* ends first.                                                             *)
Spare == {r \in Run : op[r].key = "none"}

Clickable(k) == page.busy # k /\ Spare # {}

Began(k, what) ==
    op' = [op EXCEPT ![CHOOSE r \in Spare : TRUE] =
                         [what EXCEPT !.key = k, !.seen = View(page)]]

Ended(r) == op' = [op EXCEPT ![r] = Quiet]

Awaits(h) == [Quiet EXCEPT !.step = "await", !.handler = h]

(* An operation that waits for a refresh before it ends.                   *)
AwaitsRefresh(r) ==
    /\ op' = [op EXCEPT ![r] = [@ EXCEPT !.step = "refresh", !.handler = NoHandler,
                                         !.claim = Refused]]
    /\ reading' = [reading EXCEPT ![r] = Refresh(op[r].seen)]

(* Requests in the backend differ by nothing but what they ask for, so any *)
(* that is not under way will do.                                          *)
Free == {h \in Handler : ~Backend!Busy(h) /\ \A r \in Run : op[r].handler # h}

Request == CHOOSE h \in Free : TRUE

Answered(r) == op[r].step = "await" /\ ~Backend!Busy(op[r].handler)

Done(r) == job[op[r].handler].step = "done"

(* Step 2, shown until there is a name.                                    *)
ClickProvision(l) ==
    /\ page.wallet # NoWallet
    /\ page.name = NoLabel
    /\ Clickable("provision")
    /\ Free # {}
    /\ Backend!StartProvision(Request, page.wallet, l)
    /\ Began("provision", Awaits(Request))
    /\ page' = [page EXCEPT !.label = l, !.busy = "provision"]
    /\ UNCHANGED <<storage, world, reading, mishaps>>

(* Fault: busy is cleared on success only.                                 *)
ProvisionedOrStuck(r) ==
    /\ Answered(r)
    /\ LET j == job[op[r].handler]
       IN  Render(IF Done(r)
                  THEN [page EXCEPT !.identity = j.identity, !.name = j.label, !.busy = "none"]
                  ELSE page)
    /\ Ended(r)
    /\ UNCHANGED <<backendVars, world, mishaps>>

Provisioned(r) ==
    /\ Answered(r)
    /\ LET j == job[op[r].handler]
       IN  Render(IF Done(r)
                  THEN [page EXCEPT !.identity = j.identity, !.name = j.label, !.busy = "none"]
                  ELSE [page EXCEPT !.busy = "none"])
    /\ Ended(r)
    /\ UNCHANGED <<backendVars, world, mishaps>>

(* submitClaim: a wallet without gas is refused by its provider; a call    *)
(* that reverts comes back as a hash like any other.                       *)
ClaimLands(w, c) ==
    IF <<c.identity, c.topic>> \notin latched /\ identityOfWallet[w] = c.identity
    THEN Backend!SubmitClaim(w, c.identity, c.topic)
    ELSE UNCHANGED chainVars

HasGas(w) == w \in funded

(* Step 3, shown while LIMITED, done when GREEN.                           *)
ClickAccredited ==
    /\ page.status = "LIMITED"
    /\ Clickable("accredited")
    /\ LET c == Issue!MockClaim(page.identity, "ACCREDITED_INVESTOR", TRUE)
       IN  /\ c # Refused
           /\ Began("accredited", [Quiet EXCEPT !.step = "submit", !.claim = c])
    /\ page' = [page EXCEPT !.busy = "accredited"]
    /\ UNCHANGED <<backendVars, storage, world, reading, mishaps>>

AccreditedLands(r) ==
    /\ op[r].step = "submit"
    /\ HasGas(op[r].seen.wallet)
    /\ ClaimLands(op[r].seen.wallet, op[r].claim)
    /\ AwaitsRefresh(r)
    /\ UNCHANGED <<mempool, job, faults, page, storage, world, mishaps>>

AccreditedRefused(r) ==
    /\ op[r].step = "submit"
    /\ ~HasGas(op[r].seen.wallet)
    /\ Ended(r)
    /\ page' = [page EXCEPT !.busy = "none"]
    /\ UNCHANGED <<backendVars, storage, world, reading, mishaps>>

Refreshed(r) ==
    /\ op[r].step = "refresh"
    /\ reading[r].left = {}
    /\ Ended(r)
    /\ page' = [page EXCEPT !.busy = "none"]
    /\ UNCHANGED <<backendVars, storage, world, reading, mishaps>>

(* Step 4, shown while GREEN.  The backend refuses a request with no label *)
(* in it.                                                                  *)
ClickAgent ==
    /\ page.status = "GREEN"
    /\ page.agent = NoAgent
    /\ Clickable("agent")
    /\ page.label # NoLabel
    /\ Free # {}
    /\ \E a \in Agent : Backend!StartLinkAgent(Request, a, page.identity, page.label)
    /\ Began("agent", Awaits(Request))
    /\ page' = [page EXCEPT !.busy = "agent"]
    /\ UNCHANGED <<storage, world, reading, mishaps>>

AgentLinked(r) ==
    /\ Answered(r)
    /\ LET j == job[op[r].handler]
       IN  Render(IF Done(r)
                  THEN [page EXCEPT !.agent = [address |-> j.account, label |-> j.label],
                                    !.registered = FALSE, !.busy = "none"]
                  ELSE [page EXCEPT !.busy = "none"])
    /\ Ended(r)
    /\ UNCHANGED <<backendVars, world, mishaps>>

(* The agent's record is read again until it says 1, some ten times; a     *)
(* read that does not say it changes nothing.                              *)
PollAgent ==
    /\ page.agent # NoAgent
    /\ ~page.registered
    /\ Backend!Resolver!Registers(<<"bot", page.agent.label>>,
                                  identityOfWallet[page.agent.address])
    /\ page' = [page EXCEPT !.registered = TRUE]
    /\ UNCHANGED <<backendVars, storage, op, world, reading, mishaps>>

(* Steps 5 and 6: the agent transacts, and once more when revoked.         *)
ClickCasa(k) ==
    /\ page.agent # NoAgent
    /\ k = "casa-retry" => page.casaOk /\ page.status = "REVOKED"
    /\ Clickable(k)
    /\ Began(k, [Quiet EXCEPT !.step = "send"])
    /\ page' = [page EXCEPT !.busy = k]
    /\ UNCHANGED <<backendVars, storage, world, reading, mishaps>>

(* agentTransfer: gas is given by hand and the receipt is not looked at:   *)
(* a transfer that reverts is shown like one that moved the tokens.        *)
TransferLands(r) ==
    /\ op[r].step = "send"
    /\ LET from  == op[r].seen.agent.address
           to    == op[r].seen.wallet
           moves == Backend!MayTransfer(from, to)
       IN  /\ from \in funded
           /\ IF moves THEN Backend!TransferToken(from, to) ELSE UNCHANGED chainVars
    /\ page' = [page EXCEPT !.casaOk = TRUE, !.busy = "none"]
    /\ Ended(r)
    /\ UNCHANGED <<mempool, job, faults, storage, world, reading, mishaps>>

TransferRefused(r) ==
    /\ op[r].step = "send"
    /\ op[r].seen.agent.address \notin funded
    /\ page' = [page EXCEPT !.casaOk = FALSE, !.busy = "none"]
    /\ Ended(r)
    /\ UNCHANGED <<backendVars, storage, world, reading, mishaps>>

(* Step 6, shown once a transfer is.                                       *)
ClickRevoke ==
    /\ page.casaOk
    /\ page.status # "REVOKED"
    /\ Clickable("revoke")
    /\ Issue!MayRevoke
    /\ Free # {}
    /\ Backend!StartRevoke(Request, page.identity)
    /\ Began("revoke", Awaits(Request))
    /\ page' = [page EXCEPT !.busy = "revoke"]
    /\ UNCHANGED <<storage, world, reading, mishaps>>

Revoked(r) ==
    /\ Answered(r)
    /\ IF Done(r)
       THEN AwaitsRefresh(r) /\ UNCHANGED page
       ELSE /\ Ended(r)
            /\ page' = [page EXCEPT !.busy = "none"]
            /\ UNCHANGED reading
    /\ UNCHANGED <<backendVars, storage, world, mishaps>>

(* Outside the page, a holder redeems a token.                             *)
Redeem(a) == Backend!BurnToken(a) /\ UNCHANGED <<mempool, job, faults, pageVars>>

-----------------------------------------------------------------------------
(* HeroWorldButton: request, widget, verify, submit.  A button that is     *)
(* done stays done; one that failed can be pressed again like a new one.   *)
Phase(kind, phase, c) ==
    world' = [world EXCEPT ![kind] = [phase |-> phase, claim |-> c, seen |-> View(page)]]

Reset(kind, phase) == world' = [world EXCEPT ![kind] = [Unpressed EXCEPT !.phase = phase]]

Verified(kind, c) ==
    IF c = Refused THEN Reset(kind, "idle") ELSE Phase(kind, "submitting", c)

ClickWorld(kind) ==
    /\ page.identity # NoIdentity
    /\ page.name # NoLabel
    /\ world[kind].phase = "idle"
    /\ CASE Issue!BuildRequest = "widget" -> Reset(kind, "widget")
         [] Issue!BuildRequest = "mock" ->
              Verified(kind, Issue!WorldClaim(page.identity, kind, Issue!Expected(kind),
                                              FALSE, "KYC_VERIFIED"))
         [] OTHER -> Reset(kind, "idle")
    /\ UNCHANGED <<backendVars, page, storage, op, reading, mishaps>>

(* The widget hands over a result, or is closed, or reports an error.      *)
WidgetResult(kind, credential, attested) ==
    /\ world[kind].phase = "widget"
    /\ Verified(kind, Issue!WorldClaim(page.identity, kind, credential, attested,
                                       "KYC_VERIFIED"))
    /\ UNCHANGED <<backendVars, page, storage, op, reading, mishaps>>

WidgetLeft(kind) ==
    /\ world[kind].phase = "widget"
    /\ Reset(kind, "idle")
    /\ UNCHANGED <<backendVars, page, storage, op, reading, mishaps>>

WorldLands(kind) ==
    /\ world[kind].phase = "submitting"
    /\ LET seen == world[kind].seen
       IN  IF HasGas(seen.wallet)
           THEN /\ ClaimLands(seen.wallet, world[kind].claim)
                /\ Reset(kind, "done")
                /\ reading' = [reading EXCEPT ![kind] = Refresh(seen)]
           ELSE /\ Reset(kind, "idle")
                /\ UNCHANGED <<chainVars, reading>>
    /\ UNCHANGED <<mempool, job, faults, page, storage, op, mishaps>>

-----------------------------------------------------------------------------
Init ==
    /\ Backend!Init
    /\ page = Empty
    /\ storage = [w \in Wallet |-> Saved(Empty)]
    /\ op = [r \in Run |-> Quiet]
    /\ world = [kind \in Pressed |-> Unpressed]
    /\ reading = [t \in Trigger |-> NotReading]
    /\ mishaps = 0

UserStep ==
    \/ \E w \in Wallet : Connect(w)
    \/ Reload
    \/ \E a \in Backend!Account : Redeem(a)
    \/ \E l \in Label : ClickProvision(l)
    \/ ClickAccredited \/ ClickAgent \/ ClickRevoke
    \/ ClickCasa("casa") \/ ClickCasa("casa-retry")
    \/ \E kind \in Pressed :
          \/ ClickWorld(kind)
          \/ \E c \in Issue!Credential, b \in BOOLEAN : WidgetResult(kind, c, b)
          \/ WidgetLeft(kind)

(* What an operation does when its last await has settled.                 *)
OpStep(r) ==
    \/ op[r].key = "provision" /\ Provisioned(r)
    \/ op[r].key = "accredited" /\ (AccreditedLands(r) \/ AccreditedRefused(r) \/ Refreshed(r))
    \/ op[r].key = "agent" /\ AgentLinked(r)
    \/ op[r].key \in {"casa", "casa-retry"} /\ (TransferLands(r) \/ TransferRefused(r))
    \/ op[r].key = "revoke" /\ (Revoked(r) \/ Refreshed(r))

PageStep ==
    \/ \E w \in Wallet : LookedUp(w)
    \/ \E r \in Run : OpStep(r)
    \/ PollAgent
    \/ \E kind \in Pressed : WorldLands(kind)
    \/ \E t \in Trigger, f \in DOMAIN Nothing : Read(t, f)

BackendStep ==
    /\ Backend!Mine \/ \E h \in Handler : Backend!HandlerStep(h)
    /\ UNCHANGED pageVars

Fault ==
    /\ faults + mishaps < MaxMishaps
    /\ \/ \E h \in Handler : Backend!HandlerFault(h) /\ UNCHANGED pageVars
       \/ \E w \in Wallet : LookupFails(w)
       \/ \E t \in Trigger, f \in DOMAIN Nothing : ReadFails(t, f)

Next == UserStep \/ PageStep \/ BackendStep \/ Fault

Spec == Init /\ [][Next]_vars

(* Blocks are mined and promises settle; nobody has to click, or to fail.  *)
FairSpec ==
    /\ Spec
    /\ WF_vars(Backend!Mine /\ UNCHANGED pageVars)
    /\ WF_vars(\E h \in Handler : Backend!HandlerStep(h) /\ UNCHANGED pageVars)
    /\ WF_vars(\E r \in Run : OpStep(r))
    /\ WF_vars(\E t \in Trigger, f \in DOMAIN Nothing : Read(t, f))

-----------------------------------------------------------------------------
TypeOK ==
    /\ Backend!TypeOK
    /\ page.wallet \in Wallet \cup {NoWallet}
    /\ page.identity \in Identity \cup {NoIdentity}
    /\ page.status \in {"NONE", "LIMITED", "GREEN", "REVOKED"}
    /\ page.casaOk \in BOOLEAN
    /\ page.looking \subseteq Wallet
    /\ page.busy # "none" => \E r \in Run : op[r].key = page.busy
    /\ \A r \in Run :
          /\ op[r].key \in Key \cup {"none"}
          /\ op[r].step \in {"idle", "await", "submit", "refresh", "send"}
    /\ \A kind \in Pressed :
          world[kind].phase \in {"idle", "widget", "submitting", "done"}
    /\ faults + mishaps <= MaxMishaps

(* Of the backend that serves the page, while the page reloads, clicks     *)
(* again and starts a second request for what the first is still doing:    *)
(* the identity in an answer, or in a request past its check, is the one   *)
(* the factory knows, and no other was deployed for the wallet             *)
(* (identity.service.ts:87-108, hero.service.ts:117-120).                  *)
AnswersNameTheFactorysIdentity == Backend!AnswersNameTheFactorysIdentity

(* Of the same backend: an agent's tokens are minted once, and once more   *)
(* for each answer the transport lost, never for an attempt that was       *)
(* refused (hero.service.ts:163, 220-248).                                 *)
MintsArePaidFor == Backend!MintsArePaidFor

(* Of the same backend: when link-agent answers, what it never looked at   *)
(* is there, tokens included unless the person was revoked meanwhile       *)
(* (hero.service.ts:132-170).                                              *)
AnsweredAgentIsWhole == Backend!AnsweredAgentIsWhole

(* Of the same backend: the money moment.  A revocation the page is told   *)
(* of is on-chain, and from then on the person and the agent receive       *)
(* nothing and send nothing, whatever was sent before it, clicked          *)
(* meanwhile or retried since; what they hold they may only redeem         *)
(* (revocation.service.ts:113, GatedERC20.sol:20-25, 64-80).               *)
AnsweredRevocationHolds == Backend!AnsweredRevocationHolds

(* The page lets a person delegate when its badge is GREEN, a badge read   *)
(* in pieces, kept through reloads and set by the slowest refresh.  Still, *)
(* in a tab that knows one wallet, every agent ever linked belongs to a    *)
(* person both of whose claims are on-chain, the agent the page shows is   *)
(* linked to the identity it shows, and that identity is the wallet's      *)
(* (hero/page.tsx:59-71, 97-123, 167-177, 396-415).  A second wallet       *)
(* breaks it: the restore effect at 97-113 keeps what the first left.      *)
DelegationIsEarned ==
    /\ \A a \in isAgent : {identityOfWallet[a]} \X Backend!Topic \subseteq held
    /\ page.agent # NoAgent /\ page.identity # NoIdentity =>
          identityOfWallet[page.agent.address] = page.identity
    /\ page.wallet # NoWallet /\ page.identity # NoIdentity =>
          identityOfWallet[page.wallet] = page.identity

(* The page says "Generating" or "Submitting" no longer than something is  *)
(* under way: whatever operation made it busy, clicked over or failed, it  *)
(* becomes free again (hero/page.tsx:125-135).                             *)
BusyClears == page.busy # "none" ~> page.busy = "none"
=============================================================================
