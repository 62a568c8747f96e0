---------------------------- MODULE HeroBackend ----------------------------
(***************************************************************************)
(* The writes the backend makes for its users with the one agent key       *)
(* (apps/api/src/hero, identity, issuer/revocation) and the chain they go  *)
(* to.  A handler sends its transactions one after another and awaits each *)
(* receipt; several handlers run at a time and share the key.  One action  *)
(* is what happens between two awaits.  The key's account is EIP-7702      *)
(* delegated: the RPC keeps MaxInFlight of its transactions unmined and    *)
(* refuses a further one.  Gas is given by hand, so a transaction that     *)
(* reverts is mined and its receipt looks like any other to the code;      *)
(* createIdentity and setRevoked let the node estimate first.              *)
(*                                                                         *)
(* One issuer is trusted for every topic and its claims outlive the model, *)
(* so a claim is held or not and its latch open or closed.                 *)
(***************************************************************************)
EXTENDS Integers, Sequences, FiniteSets

CONSTANTS
    Wallet, Agent, Identity, Label,
    Handler,       \* requests the backend serves at one time
    MaxAttempts,   \* sendWithRetry's maxAttempts
    MaxInFlight,   \* unmined transactions the RPC keeps for the key
    MaxFaults,     \* model bound: lost answers and late receipts
    MintAmount,    \* AGENT_TOKEN_MINT, in units of what an agent transfers
    Score,
    NoIdentity, NoHandler

Account == Wallet \cup Agent

(* The topics a status is read from, and all the issuer signs for.         *)
Topic == {"KYC_VERIFIED", "ACCREDITED_INVESTOR"}

SignedTopic == Topic \cup {"PROOF_OF_PERSONHOOD"}

(* The person's name, and bot.<label> for the person's agent.              *)
Name == {"person", "bot"} \X Label

VARIABLES
    identityOfWallet, isIdentity, isAgent,   \* IdentityFactory
    held,        \* <<identity, topic>> of the claims stored
    latched,     \* <<identity, topic>> latched by the issuer
    identityOf, scoreOf,                     \* PassportResolver, ScoreRegistry
    balanceOf,                               \* GatedERC20
    minted,      \* what was ever minted to an agent
    funded,      \* accounts with gas of their own
    mempool,     \* the key's unmined transactions, in order of nonce
    job,         \* handler -> the request it serves
    faults       \* faults so far

Factory  == INSTANCE IdentityFactory WITH Wallet <- Account
Resolver == INSTANCE PassportResolver
Token    == INSTANCE GatedERC20

factoryVars == <<identityOfWallet, isIdentity, isAgent>>
claimVars   == <<held, latched>>
nameVars    == <<identityOf, scoreOf>>
tokenVars   == <<balanceOf, minted>>
chainVars   == <<factoryVars, claimVars, nameVars, tokenVars, funded>>
vars        == <<chainVars, mempool, job, faults>>

-----------------------------------------------------------------------------
ClaimValid(id, t) == <<id, t>> \in held \ latched

(* Policy 1, which the token and the names' tenant use: KYC.               *)
Eligible == {id \in Identity : ClaimValid(id, "KYC_VERIFIED")}

EligibleAccount == {a \in Account : identityOfWallet[a] \in Eligible}

(* A wallet or an agent is given an identity once, and an agent only one   *)
(* the factory deployed.                                                   *)
FactoryReverts(tx) ==
    /\ tx.call \in {"createIdentity", "linkAgent"}
    /\ \/ identityOfWallet[tx.account] # NoIdentity
       \/ tx.call = "linkAgent" /\ tx.identity \notin isIdentity

TokenReverts(tx) == tx.call = "mint" /\ tx.account \notin EligibleAccount

(* What a transaction of the key does when it is mined, unless it reverts. *)
(* A new identity has an address of its own; Identity bounds their number. *)
Execute(tx) ==
    \/ /\ tx.call = "createIdentity"
       /\ isIdentity # Identity
       /\ Factory!CreateIdentity(tx.account, CHOOSE id \in Identity \ isIdentity : TRUE)
       /\ UNCHANGED <<claimVars, nameVars, tokenVars, funded>>
    \/ /\ tx.call = "linkAgent"
       /\ Factory!LinkAgent(tx.account, tx.identity)
       /\ UNCHANGED <<claimVars, nameVars, tokenVars, funded>>
    \/ /\ tx.call = "bind"
       /\ Resolver!SetIdentity(tx.name, tx.identity)
       /\ UNCHANGED <<factoryVars, claimVars, tokenVars, funded>>
    \/ /\ tx.call = "setScore"
       /\ Resolver!SetScore(tx.account, Score)
       /\ UNCHANGED <<factoryVars, claimVars, tokenVars, funded>>
    \/ /\ tx.call = "gasDrip"
       /\ funded' = funded \cup {tx.account}
       /\ UNCHANGED <<factoryVars, claimVars, nameVars, tokenVars>>
    \/ /\ tx.call = "mint"
       /\ Token!Mint(tx.account, MintAmount, EligibleAccount)
       /\ minted' = [minted EXCEPT ![tx.account] = @ + MintAmount]
       /\ UNCHANGED <<factoryVars, claimVars, nameVars, funded>>
    \/ /\ tx.call = "setRevoked"
       /\ latched' = latched \cup {<<tx.identity, "KYC_VERIFIED">>}
       /\ UNCHANGED <<factoryVars, held, nameVars, tokenVars, funded>>

Mine ==
    /\ mempool # <<>>
    /\ mempool' = Tail(mempool)
    /\ IF FactoryReverts(Head(mempool)) \/ TokenReverts(Head(mempool))
       THEN UNCHANGED chainVars
       ELSE Execute(Head(mempool))
    /\ UNCHANGED <<job, faults>>

-----------------------------------------------------------------------------
(* The awaited steps of each request, in order.                            *)
Program ==
    [provision |-> <<"check", "createIdentity", "readBack", "gasDrip", "bind">>,
     linkAgent |-> <<"readAgent", "linkAgent", "bind", "setScore", "gasDrip", "mint">>,
     revoke    |-> <<"setRevoked">>]

Sending == {"createIdentity", "gasDrip", "bind", "linkAgent", "setScore", "mint", "setRevoked"}

(* createIdentity and setRevoked are sent once; the rest by sendWithRetry. *)
SentOnce == {"createIdentity", "setRevoked"}

Retried == Sending \ SentOnce

Idle ==
    [call |-> "none", step |-> "done", account |-> NoIdentity, identity |-> NoIdentity,
     label |-> NoIdentity, sent |-> FALSE, tries |-> 0, green |-> FALSE]

Busy(h) == job[h].step \notin {"done", "failed"}

Answered(h, call) == job[h].call = call /\ job[h].step = "done"

At(h, step) == job[h].step = step /\ ~job[h].sent

Following(call, step) ==
    LET steps == Program[call]
        i     == CHOOSE i \in 1..Len(steps) : steps[i] = step
    IN  IF i = Len(steps) THEN "done" ELSE steps[i + 1]

Goto(h, step) ==
    job' = [job EXCEPT ![h].step = step, ![h].sent = FALSE, ![h].tries = 0]

Advance(h) == Goto(h, Following(job[h].call, job[h].step))

Start(h, request) ==
    /\ ~Busy(h)
    /\ job' = [job EXCEPT ![h] = request]
    /\ UNCHANGED <<chainVars, mempool, faults>>

(* POST /hero/provision; a label with nothing left of it is refused.       *)
StartProvision(h, w, l) ==
    Start(h, [Idle EXCEPT !.call = "provision", !.step = "check", !.account = w, !.label = l])

(* The agent's key pair is made for the request.                           *)
Fresh(a) ==
    /\ identityOfWallet[a] = NoIdentity
    /\ \A h \in Handler : Busy(h) => job[h].account # a
    /\ \A i \in 1..Len(mempool) : mempool[i].account # a

(* POST /hero/link-agent.                                                  *)
StartLinkAgent(h, a, id, l) ==
    /\ Fresh(a)
    /\ Start(h, [Idle EXCEPT !.call = "linkAgent", !.step = "readAgent", !.account = a,
                             !.identity = id, !.label = l, !.green = id \in Eligible])

(* POST /issuer/revoke, for an identity.                                   *)
StartRevoke(h, id) ==
    Start(h, [Idle EXCEPT !.call = "revoke", !.step = "setRevoked", !.identity = id])

-----------------------------------------------------------------------------
(* createIdentity asks the factory first, and again when its receipt came. *)
CheckIdentity(h) ==
    /\ At(h, "check")
    /\ LET found == identityOfWallet[job[h].account]
       IN  IF found = NoIdentity
           THEN Goto(h, "createIdentity")
           ELSE job' = [job EXCEPT ![h].step = "gasDrip", ![h].identity = found]
    /\ UNCHANGED <<chainVars, mempool, faults>>

(* Fault: the answer names the identity this request was to deploy.        *)
ReadBackOwn(h) ==
    /\ At(h, "readBack")
    /\ \E id \in Identity :
          job' = [job EXCEPT ![h].step = "gasDrip", ![h].identity = id]
    /\ UNCHANGED <<chainVars, mempool, faults>>

ReadBack(h) ==
    /\ At(h, "readBack")
    /\ LET found == identityOfWallet[job[h].account]
       IN  IF found = NoIdentity
           THEN Goto(h, "failed")
           ELSE job' = [job EXCEPT ![h].step = "gasDrip", ![h].identity = found]
    /\ UNCHANGED <<chainVars, mempool, faults>>

ReadAgent(h) ==
    /\ At(h, "readAgent")
    /\ Goto(h, IF identityOfWallet[job[h].account] = NoIdentity THEN "linkAgent" ELSE "bind")
    /\ UNCHANGED <<chainVars, mempool, faults>>

SkipDrip(h) ==
    /\ At(h, "gasDrip")
    /\ job[h].account \in funded
    /\ Advance(h)
    /\ UNCHANGED <<chainVars, mempool, faults>>

-----------------------------------------------------------------------------
Tx(h, by) ==
    LET j == job[h]
    IN  [call |-> j.step, account |-> j.account, identity |-> j.identity,
         name |-> <<IF j.call = "linkAgent" THEN "bot" ELSE "person", j.label>>, by |-> by]

(* The node's estimation of the transactions sent without a gas limit.     *)
EstimateFails(h) ==
    At(h, "createIdentity") /\ identityOfWallet[job[h].account] # NoIdentity

ReadyToSend(h) ==
    /\ job[h].step \in Sending
    /\ ~job[h].sent
    /\ ~(job[h].step = "gasDrip" /\ job[h].account \in funded)

Accepted(h) == Len(mempool) < MaxInFlight /\ ~EstimateFails(h)

(* The catch of sendWithRetry: an error that names the in-flight limit or  *)
(* the nonce is tried again, the last attempt's is thrown.                 *)
Retry(h) ==
    IF job[h].step \in Retried /\ job[h].tries + 1 < MaxAttempts
    THEN job' = [job EXCEPT ![h].tries = @ + 1]
    ELSE Goto(h, "failed")

Send(h) ==
    /\ ReadyToSend(h)
    /\ Accepted(h)
    /\ mempool' = Append(mempool, Tx(h, h))
    /\ job' = [job EXCEPT ![h].sent = TRUE]
    /\ UNCHANGED <<chainVars, faults>>

SendRefused(h) ==
    /\ ReadyToSend(h)
    /\ ~Accepted(h)
    /\ Retry(h)
    /\ UNCHANGED <<chainVars, mempool, faults>>

(* The transport loses the answer to an accepted transaction and sends it  *)
(* again; the node says it knows the nonce already, which is an error the  *)
(* code tries again, with a new nonce.                                     *)
SendAnswerLost(h) ==
    /\ faults < MaxFaults
    /\ ReadyToSend(h)
    /\ Accepted(h)
    /\ mempool' = Append(mempool, Tx(h, NoHandler))
    /\ Retry(h)
    /\ faults' = faults + 1
    /\ UNCHANGED chainVars

Unmined(h) == \E i \in 1..Len(mempool) : mempool[i].by = h

(* Fault: the loop goes on after a transaction that landed.                *)
ReceiptRetried(h) ==
    /\ job[h].sent
    /\ ~Unmined(h)
    /\ IF job[h].tries + 1 < MaxAttempts
       THEN job' = [job EXCEPT ![h].tries = @ + 1, ![h].sent = FALSE]
       ELSE Advance(h)
    /\ UNCHANGED <<chainVars, mempool, faults>>

(* Fault: the hash is answered before its transaction is mined.            *)
ReceiptAtOnce(h) ==
    /\ job[h].sent
    /\ Advance(h)
    /\ UNCHANGED <<chainVars, mempool, faults>>

Receipt(h) ==
    /\ job[h].sent
    /\ ~Unmined(h)
    /\ Advance(h)
    /\ UNCHANGED <<chainVars, mempool, faults>>

(* waitForTransactionReceipt gives up: nothing matches the retried errors. *)
ReceiptTimeout(h) ==
    /\ faults < MaxFaults
    /\ job[h].sent
    /\ Unmined(h)
    /\ mempool' = [i \in 1..Len(mempool) |->
                     [mempool[i] EXCEPT !.by = IF @ = h THEN NoHandler ELSE @]]
    /\ Goto(h, "failed")
    /\ faults' = faults + 1
    /\ UNCHANGED chainVars

HandlerStep(h) ==
    \/ CheckIdentity(h) \/ ReadBack(h) \/ ReadAgent(h) \/ SkipDrip(h)
    \/ Send(h) \/ SendRefused(h) \/ Receipt(h)

HandlerFault(h) == SendAnswerLost(h) \/ ReceiptTimeout(h)

-----------------------------------------------------------------------------
(* The holders' own transactions.  A person stores a claim the issuer      *)
(* signed for the identity; a closed latch makes the call revert.          *)
SubmitClaim(w, id, t) ==
    /\ w \in Wallet
    /\ identityOfWallet[w] = id
    /\ <<id, t>> \notin latched
    /\ held' = held \cup {<<id, t>>}
    /\ UNCHANGED <<factoryVars, latched, nameVars, tokenVars, funded>>

MayTransfer(a, to) == Token!MayMove(a, to, EligibleAccount) /\ balanceOf[a] >= 1

TransferToken(a, to) ==
    /\ a \in funded
    /\ Token!Transfer(a, to, 1, EligibleAccount)
    /\ UNCHANGED <<factoryVars, claimVars, nameVars, minted, funded>>

BurnToken(a) ==
    /\ a \in funded
    /\ Token!Burn(a, 1)
    /\ UNCHANGED <<factoryVars, claimVars, nameVars, minted, funded>>

Init ==
    /\ Factory!Init
    /\ Resolver!Init
    /\ Token!Init
    /\ held = {}
    /\ latched = {}
    /\ minted = [a \in Agent |-> 0]
    /\ funded = {}
    /\ mempool = <<>>
    /\ job = [h \in Handler |-> Idle]
    /\ faults = 0

-----------------------------------------------------------------------------
Step == {"readAgent", "check", "readBack", "done", "failed"} \cup Sending

TypeOK ==
    /\ identityOfWallet \in [Account -> Identity \cup {NoIdentity}]
    /\ isIdentity \subseteq Identity
    /\ isAgent \subseteq Account
    /\ held \subseteq Identity \X SignedTopic
    /\ latched \subseteq Identity \X Topic
    /\ identityOf \in [Name -> Identity \cup {NoIdentity}]
    /\ scoreOf \in [Agent -> {0, Score}]
    /\ balanceOf \in [Account -> Nat]
    /\ minted \in [Agent -> Nat]
    /\ funded \subseteq Account
    /\ Len(mempool) <= MaxInFlight
    /\ \A h \in Handler : job[h].step \in Step /\ job[h].tries \in 0..(MaxAttempts - 1)
    /\ faults \in 0..MaxFaults

(* Requests for one wallet race: both find no identity and both send       *)
(* createIdentity.  Whatever is refused, reverted, lost or late, the       *)
(* identity a request carries from there on, and the one it answers with,  *)
(* is the one the factory resolves the wallet to, no second one was        *)
(* deployed, and the name it answers with is bound                         *)
(* (identity.service.ts:87-108, hero.service.ts:117-120).                  *)
AnswersNameTheFactorysIdentity ==
    /\ \A h \in Handler :
          job[h].call = "provision" /\ job[h].identity # NoIdentity =>
              job[h].identity = identityOfWallet[job[h].account]
    /\ \A h \in Handler :
          Answered(h, "provision") => /\ job[h].identity # NoIdentity
                                      /\ identityOf[<<"person", job[h].label>>] # NoIdentity
    /\ \A id \in isIdentity : \E w \in Wallet : identityOfWallet[w] = id

(* A transaction sent again lands again, and a second mint is money.  An   *)
(* agent gets one mint, and one more for each answer that was lost on the  *)
(* way, never one for an attempt the node refused                          *)
(* (hero.service.ts:163, 220-248).                                         *)
PendingMints(a) ==
    Cardinality({i \in 1..Len(mempool) : mempool[i].call = "mint" /\ mempool[i].account = a})

MintsArePaidFor ==
    \A a \in Agent : minted[a] + MintAmount * PendingMints(a) <= MintAmount * (1 + faults)

(* A request to link an agent writes to four contracts and an account, and *)
(* looks at none of the outcomes.  When it is answered all the same the    *)
(* agent is whole: linked to the person, scored, with gas, and with tokens *)
(* if the person was eligible all the time (hero.service.ts:132-170).      *)
AnsweredAgentIsWhole ==
    \A h \in Handler :
        Answered(h, "linkAgent") =>
            /\ identityOfWallet[job[h].account] = job[h].identity
            /\ identityOf[<<"bot", job[h].label>>] # NoIdentity
            /\ scoreOf[job[h].account] = Score
            /\ job[h].account \in funded
            /\ job[h].green /\ job[h].identity \in Eligible => minted[job[h].account] > 0

(* A revocation that is answered is on-chain, whatever was lost or late on *)
(* its way, and from then on every account of the person only shrinks, and *)
(* only into nothing: no transfer leaves or reaches it and no mint, sent   *)
(* before the revocation and mined after it, but the holder may redeem     *)
(* (revocation.service.ts:113, GatedERC20.sol:20-25, 64-80).               *)
AnsweredRevocationHolds ==
    [][/\ \A h \in Handler :
             Answered(h, "revoke") => <<job[h].identity, "KYC_VERIFIED">> \in latched
       /\ \A a \in Account :
             <<identityOfWallet[a], "KYC_VERIFIED">> \in latched =>
                 /\ <<identityOfWallet'[a], "KYC_VERIFIED">> \in latched'
                 /\ balanceOf'[a] <= balanceOf[a]
                 /\ balanceOf'[a] < balanceOf[a] =>
                       \A b \in Account : balanceOf'[b] <= balanceOf[b]]_vars
=============================================================================
