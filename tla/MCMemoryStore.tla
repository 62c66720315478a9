--------------------------- MODULE MCMemoryStore ----------------------------
(***************************************************************************)
(* MemoryStore for TLC: three callers, two keys.                           *)
(***************************************************************************)
EXTENDS MemoryStore, TLC

CONSTANTS g1, g2, g3, k1, k2

=============================================================================
