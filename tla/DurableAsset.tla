---------------------------- MODULE DurableAsset ----------------------------
(* What managed storage promises the readers of one asset: a block becomes   *)
(* available only once every manifest a restart could find names it, and a   *)
(* restart makes exactly one such manifest available. Availability therefore *)
(* never shrinks while the asset exists, not even across a power loss.       *)
EXTENDS Naturals

CONSTANT NBlocks

Blocks == 0 .. NBlocks - 1

VARIABLES
    avail,  \* blocks readers may be served
    kept    \* the manifests a restart may find

vars == <<avail, kept>>

Init == avail = {} /\ kept = {{}}

\* Change what a restart may find, never below what is already available.
Keep ==
    /\ kept' \in SUBSET SUBSET Blocks /\ kept' # {}
    /\ \A k \in kept' : avail \subseteq k
    /\ UNCHANGED avail

\* Make one block available that every restart would find.
Publish(b) ==
    /\ \A k \in kept : b \in k
    /\ avail' = avail \cup {b}
    /\ UNCHANGED kept

Restart == \E k \in kept : avail' = k /\ kept' = {k}

Next == Keep \/ (\E b \in Blocks : Publish(b)) \/ Restart

Spec == Init /\ [][Next]_vars

\* Nothing a reader was ever promised is taken back.
NeverForgets == [][avail \subseteq avail']_vars
=============================================================================
