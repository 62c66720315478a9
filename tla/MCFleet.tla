------------------------------ MODULE MCFleet -------------------------------
(***************************************************************************)
(* Fleet for TLC: one key, whose L1 shard is the only one (keys and shards *)
(* do not interact in IsDuplicate), and goroutines spread over the         *)
(* instances by the configuration.                                         *)
(***************************************************************************)
EXTENDS Fleet, TLC

CONSTANTS g1, g2, c1, c2, k1

\* One goroutine in each of two instances.
TwoInstances == [g \in Goroutines |-> IF g = g1 THEN c1 ELSE c2]

\* All goroutines in one instance.
OneInstance == [g \in Goroutines |-> c1]

Symmetry == Permutations(Goroutines)

\* The two instances of TwoInstances change places, each with its goroutine.
InstanceSymmetry ==
    {g1 :> g2 @@ g2 :> g1 @@ c1 :> c2 @@ c2 :> c1}

MCshardIndex == [k \in Keys |-> 0]

=============================================================================
