---------------------------- MODULE MCUsageLedger ----------------------------
(***************************************************************************)
(* Instances of UsageLedger.  Three records are the fewest of which a pass *)
(* merges two.  The first two fall into one minute and all of them into    *)
(* one hour, so that the minute pass finds an excess of one and the hour   *)
(* pass an excess of two.                                                  *)
(***************************************************************************)
EXTENDS UsageLedger, TLC

MCMinuteOf == [q \in Records |-> IF q <= 2 THEN 1 ELSE 2]
MCHourOf == [q \in Records |-> 1]

\* Cycles of a kind behave alike.
MCSymmetry == Permutations(Syncers) \cup Permutations(Compressors)
=============================================================================
