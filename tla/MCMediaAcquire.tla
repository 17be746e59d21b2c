--------------------------- MODULE MCMediaAcquire ---------------------------
(* Model values and symmetry for checking MediaAcquire with TLC.             *)
EXTENDS MediaAcquire, TLC

Symmetry == Permutations(Versions) \cup Permutations(Readers)
=============================================================================
