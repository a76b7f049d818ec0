---------------------------- MODULE MCTimeWheel ----------------------------
(* Three small wheels in the proportions of the real ones, and delays that  *)
(* start on each of them.                                                   *)
EXTENDS TimeWheel, TLC

MCInterval == <<12, 6, 3>>
MCScales == <<2, 2, 2>>
MCDelays == {2, 3, 7, 13}

Symmetry == Permutations(Timers)
=============================================================================
