---------------------------- MODULE MCCoordStore ----------------------------
(* A small instance of CoordStore for TLC. *)
EXTENDS CoordStore, TLC

CONSTANTS ka, kb, kc, r1, r2

MCNever == -10

Alike == Permutations({ka, kb, kc}) \cup Permutations({r1, r2})
=============================================================================
