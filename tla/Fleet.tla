------------------------------- MODULE Fleet --------------------------------
(***************************************************************************)
(* The store of CachedStore in service instances that die and come back.   *)
(* An instance that dies (a crash, a kill, os.Exit in main with handlers   *)
(* still running after a drain that timed out) loses its L1 cache, its     *)
(* sweeper and the calls under way; what they have sent to Redis may still *)
(* be executed.  Redis keeps the keys.  The instance that comes back runs  *)
(* initStore and NewCached anew.                                           *)
(*                                                                         *)
(* The fleet as a whole still implements DedupGate.                        *)
(***************************************************************************)
EXTENDS CachedStore

CONSTANT MaxRestarts  \* bound on restarts

ASSUME FleetAssumptions == MaxRestarts \in Nat

VARIABLE restarts

fleetVars == <<storeVars, restarts>>

FleetInit == StoreInit /\ restarts = 0

\* f, with v for the goroutines of instance c.
Reset(f, c, v) == [g \in Goroutines |-> IF cacheOf[g] = c THEN v ELSE f[g]]

\* The commands for k that the goroutines of instance c wait for.
Unexecuted(c, k) == {g \in Goroutines : cacheOf[g] = c /\ pc[g] = "sent" /\ key[g] = k}

\* The calls of instance c are gone; some of their commands stay in flight.
DropCalls(c) ==
    /\ pc' = Reset(pc, c, "idle")
    /\ key' = Reset(key, c, NoArg)
    /\ at' = Reset(at, c, 0)
    /\ attempt' = Reset(attempt, c, 0)
    /\ sent' = Reset(sent, c, 0)
    /\ reply' = Reset(reply, c, "none")
    /\ born' = Reset(born, c, Absent)
    /\ bornEpoch' = Reset(bornEpoch, c, 0)
    /\ late' \in [Keys -> 0..MaxLate]
    /\ \A k \in Keys :
          late'[k] \in late[k]..(late[k] + Cardinality(Unexecuted(c, k)))

\* Instance c dies and starts again, with or without Redis in reach.
Restart(c) ==
    /\ restarts < MaxRestarts
    /\ restarts' = restarts + 1
    /\ DropCalls(c)
    /\ data' = [data EXCEPT ![c] = [k \in Keys |-> Absent]]
    /\ done' = [done EXCEPT ![c] = FALSE]
    /\ sweepPc' = [sweepPc EXCEPT ![c] = "wait"]
    /\ sweepNow' = [sweepNow EXCEPT ![c] = 0]
    /\ sweepIdx' = [sweepIdx EXCEPT ![c] = 0]
    /\ \E b \in {"redis", "failing"} : backend' = [backend EXCEPT ![c] = b]
    /\ UNCHANGED <<now, lenVars, redis, epoch, lastBorn, grants>>

FleetNext ==
    \/ StoreNext /\ UNCHANGED restarts
    \/ \E c \in Caches : Restart(c)

FleetSpec == FleetInit /\ [][FleetNext]_fleetVars

=============================================================================
