--------------------------- MODULE MCXAccelDedup ----------------------------
(***************************************************************************)
(* XAccelDedup for TLC: two goroutines of one instance, one fingerprint,   *)
(* a method that the configuration excludes in lower case and padded, the  *)
(* same method as clients spell it, and one that is checked.               *)
(***************************************************************************)
EXTENDS XAccelDedup, TLC

CONSTANTS g1, g2, c1, k1

OneInstance == [g \in Goroutines |-> c1]

MCshardIndex == [k \in Keys |-> 0]

MCupper == [m \in Texts |-> IF m = "get" THEN "GET"
                               ELSE IF m = " get" THEN " GET" ELSE m]

MCtrim == [m \in Texts |-> IF m = " GET" THEN "GET"
                              ELSE IF m = " get" THEN "get"
                              ELSE IF m = " " THEN "" ELSE m]

=============================================================================
