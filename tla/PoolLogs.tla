------------------------------ MODULE PoolLogs ------------------------------
(***************************************************************************)
(* The pool events the web server keeps (apps/web/src/lib/demo/chain.ts):  *)
(* an object with the first block not fetched yet and the logs fetched so  *)
(* far, from which every position is summed.  A refresh captures the       *)
(* object, asks the chain for its height, asks for the logs of the blocks  *)
(* in between and appends them: three awaits, and refreshes overlap.  A    *)
(* reload drops the object; a refresh that holds it goes on filling it.    *)
(*                                                                         *)
(* The n-th pool event of a world is the one event of its n-th block;      *)
(* blocks without one are left out.  A log is the number of its block.     *)
(***************************************************************************)
EXTENDS Integers, Sequences

(* The object of the world's n-th reload, at the deployment's block.       *)
NewCache(n) == [object |-> n, nextBlock |-> 1, logs |-> <<>>]

(* reloadAddresses; and its fault, the object outliving the world.         *)
ReloadKeepingLogs(cache) == [cache EXCEPT !.object = @ + 1]

Reload(cache) == NewCache(cache.object + 1)

NotFetching == [object |-> 0, from |-> 0, latest |-> 0]

Captured(cache) == [NotFetching EXCEPT !.object = cache.object]

(* Nothing to fetch, or an object nobody will read again.                  *)
UpToDate(fetch, cache, height) ==
    fetch.object # cache.object \/ height < cache.nextBlock

Fetching(fetch, cache, height) ==
    [fetch EXCEPT !.from = cache.nextBlock, !.latest = height]

(* The logs arrive: those the chain still has of the blocks asked for.     *)
Pushed(fetch, cache, height) ==
    LET last == IF fetch.latest <= height THEN fetch.latest ELSE height
    IN  IF fetch.object # cache.object
        THEN cache
        ELSE [cache EXCEPT
                !.nextBlock = fetch.latest + 1,
                !.logs = @ \o [i \in 1..(last + 1 - fetch.from) |-> fetch.from + i - 1]]

(* aggregateLiquidity: what the adds and exits among the logs come to.     *)
Position(logs, events) ==
    Len(SelectSeq(logs, LAMBDA n : events[n] = "add"))
        - Len(SelectSeq(logs, LAMBDA n : events[n] = "exit"))
=============================================================================
