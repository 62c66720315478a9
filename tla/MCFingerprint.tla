--------------------------- MODULE MCFingerprint ----------------------------
(***************************************************************************)
(* Fingerprint for TLC: two goroutines, three hashers, bodies of up to two *)
(* bytes that are streamed byte by byte.                                   *)
(***************************************************************************)
EXTENDS Fingerprint, TLC

CONSTANTS g1, g2, h1, h2, h3

MCRequests ==
    {[method |-> <<"POST">>, uri |-> <<"/a">>, body |-> <<"x", "y">>],
     [method |-> <<"POST">>, uri |-> <<"/a">>, body |-> <<"x", "z">>],
     [method |-> <<"PUT">>, uri |-> <<"/a">>, body |-> << >>],
     [method |-> <<"PUT">>, uri |-> <<"/a">>, body |-> <<"x">>]}

Symmetry == Permutations(Goroutines) \cup Permutations(Hashers)

=============================================================================
