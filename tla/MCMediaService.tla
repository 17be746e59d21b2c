--------------------------- MODULE MCMediaService ---------------------------
(* Two files of different sizes, and model values for TLC; beside the service *)
(* the intervals that each of its assets keeps. They are explored while the   *)
(* service is at its beginning, so the two do not multiply.                   *)
EXTENDS MediaService, RangeSet, TLC

CONSTANTS k1, k2

MCSize == [k \in Keys |-> IF k = k1 THEN 1 ELSE 2]

MCNext ==
    \/ NoRanges /\ Next /\ UNCHANGED rangeVars
    \/ Init /\ RangeNext /\ UNCHANGED vars

MCInit == Init /\ NoRanges
MCSpec == MCInit /\ [][MCNext]_<<vars, rangeVars>> /\ Fairness
=============================================================================
