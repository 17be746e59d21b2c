------------------------- MODULE MCPlaybackProgress -------------------------
(* Model values and symmetry for checking PlaybackProgress with TLC.         *)
EXTENDS PlaybackProgress, TLC

Symmetry == Permutations(Sessions)
=============================================================================
