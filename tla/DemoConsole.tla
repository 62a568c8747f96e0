---------------------------- MODULE DemoConsole -----------------------------
(***************************************************************************)
(* The Markets and Concierge consoles of a browser tab (apps/web/src/app/  *)
(* markets, concierge) over the server's demo routes.  The page shows the  *)
(* last world it was answered (useDemoWorld): a loop polls it, and every   *)
(* button reads it again when its request has been answered.  A button is  *)
(* disabled while the request of its group runs, never by what the chain   *)
(* would say.  Reading the world is many reads at many moments: the clock, *)
(* the pool logs, the gate, the claims, the ticket feed.                   *)
(*                                                                         *)
(* Bounds of the model: one actor's card, one refresh after a button at a  *)
(* time.  The log of outcomes, the payments and the positions shown are    *)
(* left out of the view.                                                   *)
(***************************************************************************)
EXTENDS DemoServer

CONSTANTS
    Key,      \* the page's control groups
    Client,   \* other tabs and scripts
    Posts     \* what they post: a kind and its topics

VARIABLES
    tab,    \* the console that is open
    page,   \* useDemoWorld: world, error, off
    get     \* GET /api/demo/world, by what started it

vars == <<serverVars, tab, page, get>>

ASSUME ConsoleAssumption ==
    /\ Key = {"actor", "world", "ticket", "pay", "owner"}
    /\ Key \cap Client = {}
    /\ Slot = Key \cup Client
    /\ \A post \in Posts :
          /\ post[1] \in Kind /\ post[2] \in Seq(Topic)
          /\ post[1] \in {"verify", "refuse"} => Len(post[2]) = 1
          /\ post[1] = "revoke" => post[2] # <<>>
          /\ post[1] = "restore" => post[2] = <<"kyc">>

Source == {"poll", "act"}

NoWorld == [shown |-> FALSE, claims |-> [t \in Topic |-> "UNVERIFIED"], compliant |-> FALSE,
            tickets |-> <<>>]

NotReading == [step |-> "idle", now |-> 0, identity |-> FALSE, fetch |-> NotFetching,
               world |-> NoWorld]

(* What a reader asked at this moment would see.                           *)
Now ==
    [shown |-> TRUE, claims |-> [t \in Topic |-> ClaimState(chain.identity, t, chain.year)],
     compliant |-> IsCompliant, tickets |-> tickets]

-----------------------------------------------------------------------------
(* readWorld, one await after the other                                    *)
Started == [NotReading EXCEPT !.step = IF enabled THEN "clock" ELSE "off"]

(* Fault: a page that met an error stops asking.                           *)
PollDueUntilError == ~page.off /\ ~page.error

(* tick: six seconds after the last answer, unless a 403 was one.          *)
PollDue == ~page.off

Poll ==
    /\ get["poll"].step = "idle"
    /\ PollDue
    /\ get' = [get EXCEPT !["poll"] = Started]
    /\ UNCHANGED <<serverVars, tab, page>>

Continues(s, g) ==
    /\ get' = [get EXCEPT ![s] = g]
    /\ UNCHANGED <<serverVars, tab, page>>

(* chainNow; with the clock there, the object of the logs is taken.        *)
WorldClock(s) ==
    /\ get[s].step = "clock"
    /\ Continues(s, [get[s] EXCEPT !.step = "height", !.now = chain.year,
                                   !.fetch = Captured(cache)])

(* refreshLogs                                                             *)
WorldHeight(s) ==
    /\ get[s].step = "height"
    /\ IF UpToDate(get[s].fetch, cache, Height)
       THEN Continues(s, [get[s] EXCEPT !.step = "gate", !.fetch = NotFetching])
       ELSE Continues(s, [get[s] EXCEPT !.step = "logs", !.fetch = Fetching(@, cache, Height)])

WorldLogs(s) ==
    /\ get[s].step = "logs"
    /\ cache' = Pushed(get[s].fetch, cache, Height)
    /\ get' = [get EXCEPT ![s].step = "gate", ![s].fetch = NotFetching]
    /\ UNCHANGED <<who, enabled, chain, tickets, req, asked, mishaps, tab, page>>

(* actorState, readOwners: the identity and the gate, then the claims with *)
(* the clock read first, then the feed.                                    *)
ReadGate(s) ==
    /\ get[s].step = "gate" /\ chain.deployed
    /\ Continues(s, [get[s] EXCEPT !.step = "claims", !.identity = chain.identity,
                                   !.world.compliant = IsCompliant])

ReadClaims(s) ==
    /\ get[s].step = "claims" /\ chain.deployed
    /\ LET g == get[s]
           seen == [g.world EXCEPT
                      !.shown = TRUE, !.tickets = tickets,
                      !.claims = [t \in Topic |-> ClaimState(g.identity, t, g.now)]]
       IN  Continues(s, [NotReading EXCEPT !.step = "answer", !.world = seen])

WorldThrows(s) ==
    /\ get[s].step \in {"gate", "claims"} /\ ~chain.deployed
    /\ Continues(s, [NotReading EXCEPT !.step = "error"])

WorldFails(s) ==
    /\ get[s].step \in {"clock", "height", "logs", "gate", "claims"}
    /\ mishaps < MaxMishaps
    /\ mishaps' = mishaps + 1
    /\ get' = [get EXCEPT ![s] = [NotReading EXCEPT !.step = "error"]]
    /\ UNCHANGED <<who, enabled, chain, cache, tickets, req, asked, tab, page>>

(* refresh: the answer is shown, an error keeps the last world on screen,  *)
(* a 403 blanks it for good.                                               *)
Show(s) ==
    /\ get[s].step \in {"answer", "error", "off"}
    /\ page' = CASE get[s].step = "answer" ->
                        [page EXCEPT !.world = get[s].world, !.error = FALSE]
                 [] get[s].step = "error" -> [page EXCEPT !.error = TRUE]
                 [] get[s].step = "off" -> [world |-> NoWorld, error |-> TRUE, off |-> TRUE]
    /\ get' = [get EXCEPT ![s] = NotReading]
    /\ UNCHANGED <<serverVars, tab>>

-----------------------------------------------------------------------------
(* The consoles                                                            *)
(* act: one request of a control group at a time.                          *)
Act(k, kind, topics) ==
    /\ page.world.shown
    /\ Ask(k, kind, topics)
    /\ UNCHANGED <<tab, page, get>>

AnyBusy == \E k \in Key : req[k].step # "idle"

Trade == \E kind \in PoolAction : Act("actor", kind, <<>>)

Verify == \E t \in Topic : Act("actor", "verify", <<t>>)

Revoke ==
    \/ \E t \in Topic : Act("actor", "revoke", <<t>>)
    \/ Act("actor", "revoke", <<"kyc", "accredited">>)

(* The card of an actor with an identity row on the page.                  *)
MarketsActorCard ==
    /\ tab = "markets" /\ who # "concierge"
    /\ Trade \/ Verify \/ Revoke

SubmitTicket == tab = "concierge" /\ Act("ticket", "ticket", <<>>)

Approve == tab = "concierge" /\ Act("pay", "house", <<>>)

(* Which button there is, the world on screen decides.                     *)
OwnerCard ==
    /\ tab = "concierge" /\ who = "ana"
    /\ Act("owner", IF page.world.compliant THEN "revoke" ELSE "restore", <<"kyc">>)

OnWorld(kinds) == \E kind \in kinds : Act("world", kind, <<>>)

(* Markets disables its world buttons while one runs.                      *)
MarketsWorld == tab = "markets" /\ OnWorld({"warp", "reset"})

(* Concierge disables them while anything does; it funds the agent, and    *)
(* grants and revokes its mandate.                                         *)
ConciergeWorld ==
    /\ tab = "concierge" /\ ~AnyBusy
    /\ OnWorld({"warp", "reset", "house"})

(* act, finally: the group is free again and the world is read.            *)
Settle(k) ==
    /\ Answered(k)
    /\ get["act"].step = "idle"
    /\ req' = [req EXCEPT ![k] = Idle]
    /\ get' = [get EXCEPT !["act"] = Started]
    /\ UNCHANGED <<who, enabled, chain, cache, tickets, asked, mishaps, tab, page>>

(* Other clients of the routes.                                            *)
Post(c) ==
    /\ \E post \in Posts : Ask(c, post[1], post[2])
    /\ UNCHANGED <<tab, page, get>>

Leave(c) ==
    /\ Answered(c)
    /\ req' = [req EXCEPT ![c] = Idle]
    /\ UNCHANGED <<who, enabled, chain, cache, tickets, asked, mishaps, tab, page, get>>

ConsoleInit ==
    /\ Init
    /\ tab \in IF who = "ana" THEN {"markets", "concierge"} ELSE {"markets"}
    /\ page = [world |-> NoWorld, error |-> FALSE, off |-> FALSE]
    /\ get = [s \in Source |-> NotReading]

Serve(c) == Step(c) /\ UNCHANGED <<tab, page, get>>

Mishap(c) == (CallFails(c) \/ ReceiptLost(c)) /\ UNCHANGED <<tab, page, get>>

ReadWorld(s) ==
    WorldClock(s) \/ WorldHeight(s) \/ WorldLogs(s) \/ ReadGate(s) \/ ReadClaims(s)
        \/ WorldThrows(s) \/ Show(s)

ConsoleNext ==
    \/ Poll
    \/ \E s \in Source : ReadWorld(s) \/ WorldFails(s)
    \/ MarketsActorCard \/ MarketsWorld
    \/ SubmitTicket \/ Approve \/ OwnerCard \/ ConciergeWorld
    \/ \E c \in Slot : Serve(c) \/ Mishap(c)
    \/ \E k \in Key : Settle(k)
    \/ \E c \in Client : Post(c) \/ Leave(c)

ConsoleSpec == ConsoleInit /\ [][ConsoleNext]_vars

(* Node serves what was posted, the node and the browser answer, and the   *)
(* timer of the poll fires; nobody has to press anything.                  *)
ConsoleFairSpec ==
    /\ ConsoleSpec
    /\ WF_vars(Poll)
    /\ \A s \in Source : WF_vars(ReadWorld(s))
    /\ \A c \in Slot : WF_vars(Serve(c))
    /\ \A k \in Key : WF_vars(Settle(k))

-----------------------------------------------------------------------------
(* However refreshes, failures and resets interleave, no pool event of the *)
(* world is skipped: the cache holds the log of every block it will not    *)
(* ask for again, and will ask for every block to come (refreshLogs,       *)
(* reloadAddresses).                                                       *)
NoEventMissed ==
    chain.deployed =>
        /\ cache.nextBlock <= Height + 1
        /\ \A n \in 1..(cache.nextBlock - 1) : \E i \in DOMAIN cache.logs : cache.logs[i] = n

(* "claim valid", says the console when a verification is answered, and    *)
(* "compliant again" of a restored owner: so it is, unless somebody closed *)
(* the latch, warped the clock or reset the world since it was asked.      *)
VerifyMeansVerified ==
    \A c \in Slot :
        /\ Promises(req[c])
        /\ req[c].step = "ok"
        /\ ~req[c].disturbed
        => Head(req[c].topics) \in Valid

(* Once the world stays deployed the page comes to show what the chain and *)
(* the feed say, whatever answers were lost, late or torn on the way.      *)
PageCatchesUp == (enabled /\ <>[]chain.deployed) => <>[](page.world = Now)

(* A position on the page is the one on the chain.  It is not: refreshes   *)
(* that overlap append the same logs.                                      *)
PositionsAreReal ==
    chain.deployed /\ cache.nextBlock = Height + 1 =>
        Position(cache.logs, chain.events) = Position([i \in 1..Height |-> i], chain.events)
=============================================================================
