------------------------- MODULE MemoryStoreProofs --------------------------
(***************************************************************************)
(* MemoryStore keeps its types and implements DedupGate, for any callers,  *)
(* keys and window.                                                        *)
(***************************************************************************)
EXTENDS MemoryStore, TLAPS

LEMMA NoArgIsKey == NoArg \in Keys
  BY MemoryAssumptions DEF NoArg

\* The store keeps its types: MemoryTypeOK.
THEOREM MemoryTypeCorrect == MemorySpec => []MemoryTypeOK
<1>1. MemoryInit => MemoryTypeOK
  BY NoArgIsKey DEF MemoryInit, MemoryTypeOK, Expiry
<1>2. MemoryTypeOK /\ [MemoryNext]_memoryVars => MemoryTypeOK'
  <2> SUFFICES ASSUME MemoryTypeOK, [MemoryNext]_memoryVars
               PROVE  MemoryTypeOK'
    OBVIOUS
  <2> USE DEF MemoryTypeOK, Goto
  <2>1. ASSUME NEW g \in Goroutines, NEW k \in Keys, IsDuplicateCall(g, k)
        PROVE  MemoryTypeOK'
    BY <2>1 DEF IsDuplicateCall
  <2>2. ASSUME NEW g \in Goroutines, CheckErr(g) PROVE MemoryTypeOK'
    BY <2>2 DEF CheckErr
  <2>3. ASSUME NEW g \in Goroutines, CheckAndSet(g) PROVE MemoryTypeOK'
    <3>1. now \in Expiry /\ now + Window \in Expiry
      BY MemoryAssumptions DEF Expiry
    <3> QED
      BY <2>3, <3>1 DEF CheckAndSet
  <2>4. ASSUME NEW g \in Goroutines, Return(g) PROVE MemoryTypeOK'
    BY <2>4, NoArgIsKey DEF Return
  <2>5. CASE SetErr
    BY <2>5 DEF SetErr
  <2>6. CASE Tick
    BY <2>6 DEF Tick
  <2>7. CASE UNCHANGED memoryVars
    BY <2>7 DEF memoryVars
  <2> QED
    BY <2>1, <2>2, <2>3, <2>4, <2>5, <2>6, <2>7 DEF MemoryNext
<1> QED
  BY <1>1, <1>2, PTL DEF MemorySpec

-----------------------------------------------------------------------------
(* Refinement *)

\* The call of one goroutine moves to another state of the gate.
LEMMA CallMove ==
  ASSUME NEW g \in Goroutines, NEW s, CallState(g)' = s,
         \A h \in Goroutines : h # g => pc'[h] = pc[h] /\ dup'[h] = dup[h]
  PROVE  Calls' = [Calls EXCEPT ![g] = s]
  BY DEF Calls, CallState

\* The critical section takes the key when it is free and refuses it when held.
LEMMA SectionDecides ==
  ASSUME MemoryTypeOK, NEW g \in Goroutines, CheckAndSet(g)
  PROVE  Gate!Claim(g) \/ Gate!Refuse(g)
<1>1. /\ pc[g] = "locking" /\ pc'[g] = "decided" /\ UNCHANGED <<now, key>>
      /\ \A h \in Goroutines : h # g => pc'[h] = pc[h] /\ dup'[h] = dup[h]
  BY DEF CheckAndSet, MemoryTypeOK, Goto
<1>2. Calls[g] = "pending"
  BY <1>1 DEF Calls, CallState
<1>3. now \in Int /\ data[key[g]] \in Int
  BY DEF MemoryTypeOK, Expiry, Absent
<1>4. Gate!Held(key[g]) <=> data[key[g]] # Absent /\ ~Expired(key[g])
  BY <1>3 DEF Gate!Held, Gate!Free, Absent, Expired
<1>5. CASE Gate!Held(key[g])
  <2>1. dup'[g] = TRUE /\ UNCHANGED <<data, lastBorn>>
    BY <1>4, <1>5 DEF CheckAndSet, MemoryTypeOK
  <2>2. Calls' = [Calls EXCEPT ![g] = "duplicate"]
    BY <1>1, <2>1, CallMove DEF CallState
  <2> QED
    BY <1>1, <1>2, <1>5, <2>1, <2>2 DEF Gate!Refuse, Gate!Becomes
<1>6. CASE ~Gate!Held(key[g])
  <2>1. /\ dup'[g] = FALSE
        /\ data' = [data EXCEPT ![key[g]] = now + Window]
        /\ lastBorn' = [lastBorn EXCEPT ![key[g]] = now]
    BY <1>4, <1>6 DEF CheckAndSet, MemoryTypeOK
  <2>2. Calls' = [Calls EXCEPT ![g] = "new"]
    BY <1>1, <2>1, CallMove DEF CallState
  <2> QED
    BY <1>1, <1>2, <1>6, <2>1, <2>2 DEF Gate!Claim, Gate!Take, Gate!Becomes
<1> QED
  BY <1>5, <1>6

\* The unit tests run against a store with the contract of the real one, for any
\* number of callers and keys: MemoryImplementsGate.
THEOREM MemoryRefinesGate == MemorySpec => MemoryImplementsGate
<1>1. MemoryInit => Gate!GateInit
  <2>1. MemoryInit => Calls = [g \in Goroutines |-> "none"]
    BY DEF MemoryInit, Calls, CallState
  <2> QED
    BY <2>1 DEF MemoryInit, Gate!GateInit, Gate!Free, Gate!NoKey, NoArg, Absent
<1>2. MemoryTypeOK /\ [MemoryNext]_memoryVars => [Gate!GateNext]_(Gate!gateVars)
  <2> SUFFICES ASSUME MemoryTypeOK, [MemoryNext]_memoryVars
               PROVE  Gate!GateNext \/ UNCHANGED Gate!gateVars
    OBVIOUS
  <2>1. ASSUME NEW g \in Goroutines, NEW k \in Keys, IsDuplicateCall(g, k)
        PROVE  Gate!Enter(g, k)
    <3>1. Calls' = [Calls EXCEPT ![g] = "pending"]
      BY <2>1, CallMove DEF IsDuplicateCall, MemoryTypeOK, Goto, CallState
    <3> QED
      BY <2>1, <3>1 DEF IsDuplicateCall, Calls, CallState, Gate!Enter, Gate!Becomes
  <2>2. ASSUME NEW g \in Goroutines, CheckErr(g)
        PROVE  Gate!Fail(g) \/ UNCHANGED Gate!gateVars
    <3>1. /\ pc[g] = "called" /\ UNCHANGED <<now, data, key, dup, lastBorn>>
          /\ \A h \in Goroutines : h # g => pc'[h] = pc[h]
          /\ pc'[g] = IF Err THEN "failed" ELSE "locking"
      BY <2>2 DEF CheckErr, MemoryTypeOK, Goto
    <3>2. CASE Err
      <4>1. Calls' = [Calls EXCEPT ![g] = "error"] /\ Calls[g] = "pending"
        BY <3>1, <3>2, CallMove DEF Calls, CallState
      <4> QED
        BY <3>1, <4>1 DEF Gate!Fail, Gate!Becomes
    <3>3. CASE ~Err
      <4>1. Calls' = Calls
        BY <3>1, <3>3 DEF Calls, CallState
      <4> QED
        BY <3>1, <4>1 DEF Gate!gateVars
    <3> QED
      BY <3>2, <3>3
  <2>3. ASSUME NEW g \in Goroutines, Return(g) PROVE Gate!Answer(g)
    <3>1. Calls' = [Calls EXCEPT ![g] = "none"]
      BY <2>3, CallMove DEF Return, MemoryTypeOK, Goto, CallState
    <3> QED
      BY <2>3, <3>1 DEF Return, Calls, CallState, Gate!Answer, Gate!Becomes,
                        NoArg, Gate!NoKey
  <2>4. CASE SetErr
    BY <2>4 DEF SetErr, Calls, CallState, Gate!gateVars
  <2>5. CASE Tick
    <3>1. Calls' = Calls
      BY <2>5 DEF Tick, Calls, CallState
    <3> QED
      BY <2>5, <3>1 DEF Tick, Gate!Elapse, Gate!GateNext
  <2>6. CASE UNCHANGED memoryVars
    BY <2>6 DEF memoryVars, Calls, CallState, Gate!gateVars
  <2> QED
    BY <2>1, <2>2, <2>3, <2>4, <2>5, <2>6, SectionDecides
    DEF MemoryNext, Gate!GateNext
<1> QED
  BY <1>1, <1>2, MemoryTypeCorrect, PTL
  DEF MemorySpec, MemoryImplementsGate, Gate!GateSpec

=============================================================================
