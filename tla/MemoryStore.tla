---------------------------- MODULE MemoryStore -----------------------------
(***************************************************************************)
(* The in-memory Store of internal/store/store.go, which stands in for     *)
(* Redis in the unit tests and, with Err set for good, in an instance that *)
(* started without Redis.  Err is read before the mutex is taken, the      *)
(* clock and the map inside it.                                            *)
(*                                                                         *)
(* It implements DedupGate without any slack.                              *)
(***************************************************************************)
EXTENDS Integers

CONSTANTS
    Goroutines,  \* concurrent callers
    Keys,        \* fingerprint keys
    Window,      \* the ttl that callers pass
    MaxTime      \* bound on the clock

ASSUME MemoryAssumptions ==
    /\ Keys # {}
    /\ Window \in Nat \ {0}
    /\ MaxTime \in Nat

VARIABLES
    now,      \* time.Now
    Err,      \* m.Err is set
    data,     \* data[k]: expiresAt of k, Absent when not in the map
    pc,       \* where each caller is
    key,      \* its argument
    dup,      \* the answer it is about to return
    lastBorn  \* history: when k was last created, or Absent

memoryVars == <<now, Err, data, pc, key, dup, lastBorn>>

Absent == -1

Expiry == Nat \cup {Absent}

NoArg == CHOOSE k \in Keys : TRUE

\* Type invariant of the store.
MemoryTypeOK ==
    /\ now \in Nat
    /\ Err \in BOOLEAN
    /\ data \in [Keys -> Expiry]
    /\ pc \in [Goroutines -> {"idle", "called", "locking", "decided", "failed"}]
    /\ key \in [Goroutines -> Keys]
    /\ dup \in [Goroutines -> BOOLEAN]
    /\ lastBorn \in [Keys -> Expiry]

\* NewMemory; initStore sets Err right after it.
MemoryInit ==
    /\ now = 0
    /\ Err \in BOOLEAN
    /\ data = [k \in Keys |-> Absent]
    /\ pc = [g \in Goroutines |-> "idle"]
    /\ key = [g \in Goroutines |-> NoArg]
    /\ dup = [g \in Goroutines |-> FALSE]
    /\ lastBorn = [k \in Keys |-> Absent]

-----------------------------------------------------------------------------

Goto(g, label) == pc' = [pc EXCEPT ![g] = label]

IsDuplicateCall(g, k) ==
    /\ pc[g] = "idle"
    /\ Goto(g, "called")
    /\ key' = [key EXCEPT ![g] = k]
    /\ UNCHANGED <<now, Err, data, dup, lastBorn>>

\* The look at Err, outside the mutex.
CheckErr(g) ==
    /\ pc[g] = "called"
    /\ Goto(g, IF Err THEN "failed" ELSE "locking")
    /\ UNCHANGED <<now, Err, data, key, dup, lastBorn>>

\* Fault variant: the entry is gone at the very tick of its expiry.
ExpiredEarly(k) == data[k] # Absent /\ now >= data[k]

\* now.After(e.expiresAt)
Expired(k) == data[k] # Absent /\ now > data[k]

\* Fault variant: the TTL subtracted from the clock.
CheckAndSetBackwards(g) ==
    LET k == key[g] IN
    /\ pc[g] = "locking"
    /\ dup' = [dup EXCEPT ![g] = data[k] # Absent /\ ~Expired(k)]
    /\ data' = [data EXCEPT ![k] = IF dup'[g] THEN @ ELSE now - Window]
    /\ lastBorn' = [lastBorn EXCEPT ![k] = IF dup'[g] THEN @ ELSE now]
    /\ Goto(g, "decided")
    /\ UNCHANGED <<now, Err, key>>

\* The critical section: an entry that has not expired makes a duplicate, an
\* expired one is replaced.
CheckAndSet(g) ==
    LET k == key[g] IN
    /\ pc[g] = "locking"
    /\ IF data[k] # Absent /\ ~Expired(k)
       THEN /\ dup' = [dup EXCEPT ![g] = TRUE]
            /\ UNCHANGED <<data, lastBorn>>
       ELSE /\ dup' = [dup EXCEPT ![g] = FALSE]
            /\ data' = [data EXCEPT ![k] = now + Window]
            /\ lastBorn' = [lastBorn EXCEPT ![k] = now]
    /\ Goto(g, "decided")
    /\ UNCHANGED <<now, Err, key>>

Return(g) ==
    /\ pc[g] \in {"decided", "failed"}
    /\ Goto(g, "idle")
    /\ key' = [key EXCEPT ![g] = NoArg]
    /\ dup' = [dup EXCEPT ![g] = FALSE]
    /\ UNCHANGED <<now, Err, data, lastBorn>>

\* A test sets or clears Err, which nothing protects, between its calls.
SetErr ==
    /\ \A g \in Goroutines : pc[g] = "idle"
    /\ Err' = ~Err
    /\ UNCHANGED <<now, data, pc, key, dup, lastBorn>>

Tick ==
    /\ now < MaxTime
    /\ now' = now + 1
    /\ UNCHANGED <<Err, data, pc, key, dup, lastBorn>>

MemoryNext ==
    \/ \E g \in Goroutines :
          \/ \E k \in Keys : IsDuplicateCall(g, k)
          \/ CheckErr(g) \/ CheckAndSet(g) \/ Return(g)
    \/ SetErr \/ Tick

MemorySpec == MemoryInit /\ [][MemoryNext]_memoryVars

-----------------------------------------------------------------------------
(* Refinement *)

\* How far the gate thinks the call of g is.
CallState(g) ==
    IF pc[g] = "idle" THEN "none"
    ELSE IF pc[g] = "failed" THEN "error"
    ELSE IF pc[g] # "decided" THEN "pending"
    ELSE IF dup[g] THEN "duplicate" ELSE "new"

Calls == [g \in Goroutines |-> CallState(g)]

Gate == INSTANCE DedupGate WITH
    Callers <- Goroutines,
    TTL <- Window,
    Slack <- 0,
    clock <- now,
    held <- data,
    made <- lastBorn,
    call <- Calls,
    arg <- key,
    since <- [g \in Goroutines |-> 0]

\* The test double makes the same promise as the Redis store it stands in for:
\* one caller takes a free key, for exactly one window, up to and including the
\* tick in which it ends, and nobody else until then.
MemoryImplementsGate == Gate!GateSpec

=============================================================================
