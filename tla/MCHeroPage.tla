----------------------------- MODULE MCHeroPage -----------------------------
(* The model-checking instance of HeroPage.  Of operations under way, a    *)
(* fault or a mishap, tokens redeemed and an agent's record read, at most  *)
(* two at a time; no action with fairness adds to them, so that no fair    *)
(* behaviour is cut short.                                                 *)
EXTENDS HeroPage, FiniteSetsExt

UnderWay == {r \in Run : op[r].key # "none"}

Redeemed ==
    MapThenSumSet(LAMBDA a : balanceOf[a], Backend!Account) <
        MapThenSumSet(LAMBDA a : minted[a], Agent)

AtOnce ==
    Cardinality(UnderWay) + faults + mishaps
      + (IF Redeemed THEN 1 ELSE 0) + (IF page.registered THEN 1 ELSE 0)

Bounded == AtOnce <= 2
=============================================================================
