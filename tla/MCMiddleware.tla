---------------------------- MODULE MCMiddleware ----------------------------
(***************************************************************************)
(* Middleware for TLC: two request goroutines.                             *)
(***************************************************************************)
EXTENDS Middleware, TLC

CONSTANTS g1, g2

Symmetry == Permutations(Goroutines)

=============================================================================
