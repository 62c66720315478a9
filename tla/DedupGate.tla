------------------------------ MODULE DedupGate -----------------------------
(***************************************************************************)
(* What the Store interface of internal/store/store.go promises of         *)
(* IsDuplicate, with no cache, no network and no map: a key that is free   *)
(* is taken for TTL by exactly one caller, who is told "new"; while it is  *)
(* taken the others are told "duplicate".                                  *)
(*                                                                         *)
(* An implementation may answer "duplicate" from memory instead of asking, *)
(* but only for a caller that came less than Slack after a hold could have *)
(* ended.  It may fail, lose an answer it has already decided on, take a   *)
(* key for a caller that has gone, lose all holds, or lose callers.        *)
(***************************************************************************)
EXTENDS Integers

CONSTANTS
    Callers,  \* concurrent callers of IsDuplicate
    Keys,     \* fingerprint keys
    TTL,      \* how long a key stays taken
    Slack     \* how much longer a memory of it may be trusted

VARIABLES
    clock,
    held,   \* held[k]: until when k is taken, Free when it is not
    made,   \* made[k]: when k was last taken, Free when it never was
    call,   \* call[g]: how far the call of g is
    arg,    \* the key it is about
    since   \* when a caller that is looked up in memory came, else 0

gateVars == <<clock, held, made, call, arg, since>>

Free == -1

NoKey == CHOOSE k \in Keys : TRUE

GateInit ==
    /\ clock = 0
    /\ held = [k \in Keys |-> Free]
    /\ made = [k \in Keys |-> Free]
    /\ call = [g \in Callers |-> "none"]
    /\ arg = [g \in Callers |-> NoKey]
    /\ since = [g \in Callers |-> 0]

Becomes(g, state) == call' = [call EXCEPT ![g] = state]

Held(k) == held[k] # Free /\ clock <= held[k]

Take(k) ==
    /\ ~Held(k)
    /\ held' = [held EXCEPT ![k] = clock + TTL]
    /\ made' = [made EXCEPT ![k] = clock]

-----------------------------------------------------------------------------

\* A caller comes, and its key is first looked up in memory.
Ask(g, k) ==
    /\ call[g] = "none"
    /\ Becomes(g, "asked")
    /\ arg' = [arg EXCEPT ![g] = k]
    /\ since' = [since EXCEPT ![g] = clock]
    /\ UNCHANGED <<clock, held, made>>

\* A caller comes to a store without a memory of its own.
Enter(g, k) ==
    /\ call[g] = "none"
    /\ Becomes(g, "pending")
    /\ arg' = [arg EXCEPT ![g] = k]
    /\ UNCHANGED <<clock, held, made, since>>

\* The answer "duplicate" from memory.
Recall(g) ==
    /\ call[g] = "asked"
    /\ made[arg[g]] # Free
    /\ since[g] < made[arg[g]] + TTL + Slack
    /\ Becomes(g, "duplicate")
    /\ since' = [since EXCEPT ![g] = 0]
    /\ UNCHANGED <<clock, held, made, arg>>

\* Memory knows nothing.
Pass(g) ==
    /\ call[g] = "asked"
    /\ Becomes(g, "pending")
    /\ since' = [since EXCEPT ![g] = 0]
    /\ UNCHANGED <<clock, held, made, arg>>

Claim(g) ==
    /\ call[g] = "pending"
    /\ Take(arg[g])
    /\ Becomes(g, "new")
    /\ UNCHANGED <<clock, arg, since>>

Refuse(g) ==
    /\ call[g] = "pending"
    /\ Held(arg[g])
    /\ Becomes(g, "duplicate")
    /\ UNCHANGED <<clock, held, made, arg, since>>

\* The decision does not reach the caller, for whom it is taken anew.
Mislay(g) ==
    /\ call[g] \in {"new", "duplicate"}
    /\ Becomes(g, "pending")
    /\ UNCHANGED <<clock, held, made, arg, since>>

Fail(g) ==
    /\ call[g] \in {"pending", "new", "duplicate"}
    /\ Becomes(g, "error")
    /\ UNCHANGED <<clock, held, made, arg, since>>

Answer(g) ==
    /\ call[g] \in {"new", "duplicate", "error"}
    /\ Becomes(g, "none")
    /\ arg' = [arg EXCEPT ![g] = NoKey]
    /\ UNCHANGED <<clock, held, made, since>>

-----------------------------------------------------------------------------

\* A key is taken for a caller that has given up.
Orphan(k) == Take(k) /\ UNCHANGED <<clock, call, arg, since>>

\* Every hold is lost.
Wipe ==
    /\ held' = [k \in Keys |-> Free]
    /\ UNCHANGED <<clock, made, call, arg, since>>

\* Some callers are lost.
Crash(S) ==
    /\ call' = [g \in Callers |-> IF g \in S THEN "none" ELSE call[g]]
    /\ arg' = [g \in Callers |-> IF g \in S THEN NoKey ELSE arg[g]]
    /\ since' = [g \in Callers |-> IF g \in S THEN 0 ELSE since[g]]
    /\ UNCHANGED <<clock, held, made>>

Elapse == clock' = clock + 1 /\ UNCHANGED <<held, made, call, arg, since>>

GateNext ==
    \/ \E g \in Callers :
          \/ \E k \in Keys : Ask(g, k) \/ Enter(g, k)
          \/ Recall(g) \/ Pass(g)
          \/ Claim(g) \/ Refuse(g)
          \/ Mislay(g) \/ Fail(g) \/ Answer(g)
    \/ \E k \in Keys : Orphan(k)
    \/ \E S \in SUBSET Callers : Crash(S)
    \/ Wipe \/ Elapse

GateSpec == GateInit /\ [][GateNext]_gateVars

=============================================================================
