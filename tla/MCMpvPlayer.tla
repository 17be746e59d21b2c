------------------------------ MODULE MCMpvPlayer ------------------------------
\* Model checking of MpvPlayer; the bounds are in MpvPlayer.cfg.
EXTENDS MpvPlayer
=============================================================================
