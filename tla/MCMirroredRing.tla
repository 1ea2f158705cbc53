-------------------------- MODULE MCMirroredRing --------------------------
(* Small instances of MirroredRing: three steps of two values. *)
EXTENDS MirroredRing
=============================================================================
