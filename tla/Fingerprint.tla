---------------------------- MODULE Fingerprint -----------------------------
(***************************************************************************)
(* internal/fingerprint/fingerprint.go: the key of a request, hashed with  *)
(* a hasher borrowed from a shared pool, streamed chunk by chunk from a    *)
(* body that may fail half way, or in one piece from a buffered body.      *)
(*                                                                         *)
(* Methods, URIs and bodies are short sequences.  The hasher's state is    *)
(* the sequence written to it, and the digest stands for that sequence:    *)
(* SHA-256, external, is taken to be injective.  sync.Pool is external: it *)
(* hands out a free hasher or a new one, and may drop a free one.          *)
(***************************************************************************)
EXTENDS Integers, Sequences, FiniteSets

CONSTANTS
    Goroutines,
    Symbols,       \* what methods, URIs and bodies are made of
    Requests,      \* records with method, URI and body
    Hashers,       \* hashers that may come to exist
    ChunkLen,      \* bytes that io.Copy moves at once
    MaxBodyBytes   \* cfg.MaxBodyBytes

ASSUME FingerprintAssumptions ==
    /\ Requests \subseteq [method : Seq(Symbols), uri : Seq(Symbols), body : Seq(Symbols)]
    /\ ChunkLen \in Nat \ {0}
    /\ MaxBodyBytes \in Nat

VARIABLES
    pool,     \* hashers in the pool
    fresh,    \* hashers not created yet
    written,  \* what has been written to each hasher since its last Reset
    pc,       \* "idle", "got", "copy", "done", "err"
    req,      \* the request being fingerprinted
    hasher,   \* the hasher the goroutine holds
    pos,      \* bytes of the body copied so far
    result    \* the sequence whose digest is the key

vars == <<pool, fresh, written, pc, req, hasher, pos, result>>

\* hashInto's input: the fields one after the other.
Content(r) == r.method \o r.uri \o r.body

\* Type invariant of the fingerprint code.
TypeOK ==
    /\ pool \subseteq Hashers
    /\ fresh \subseteq Hashers
    /\ pool \cap fresh = {}
    /\ written \in [Hashers -> Seq(Symbols)]
    /\ pc \in [Goroutines -> {"idle", "got", "copy", "done", "err"}]
    /\ req \in [Goroutines -> Requests]
    /\ hasher \in [Goroutines -> Hashers]
    /\ pos \in [Goroutines -> Nat]
    /\ \A g \in Goroutines : pos[g] <= Len(req[g].body)
    /\ result \in [Goroutines -> Seq(Symbols)]

Init ==
    /\ pool = {}
    /\ fresh = Hashers
    /\ written = [h \in Hashers |-> << >>]
    /\ pc = [g \in Goroutines |-> "idle"]
    /\ req \in {[g \in Goroutines |-> r] : r \in Requests}
    /\ hasher \in {[g \in Goroutines |-> h] : h \in Hashers}
    /\ pos = [g \in Goroutines |-> 0]
    /\ result = [g \in Goroutines |-> << >>]

-----------------------------------------------------------------------------

\* hasherPool.Get
Take(h) ==
    /\ h \in pool \cup fresh
    /\ pool' = pool \ {h}
    /\ fresh' = fresh \ {h}

\* StreamingRedisKey: a hasher is borrowed.
StreamGet(g, r, h) ==
    /\ pc[g] = "idle"
    /\ Take(h)
    /\ pc' = [pc EXCEPT ![g] = "got"]
    /\ req' = [req EXCEPT ![g] = r]
    /\ hasher' = [hasher EXCEPT ![g] = h]
    /\ pos' = [pos EXCEPT ![g] = 0]
    /\ UNCHANGED <<written, result>>

\* Fault variant: no Reset.
StreamBeginDirty(g) ==
    /\ pc[g] = "got"
    /\ written' = [written EXCEPT ![hasher[g]] = @ \o req[g].method \o req[g].uri]
    /\ pc' = [pc EXCEPT ![g] = "copy"]
    /\ UNCHANGED <<pool, fresh, req, hasher, pos, result>>

\* streamHashInto: Reset, then the method and the URI.
StreamBegin(g) ==
    /\ pc[g] = "got"
    /\ written' = [written EXCEPT ![hasher[g]] = req[g].method \o req[g].uri]
    /\ pc' = [pc EXCEPT ![g] = "copy"]
    /\ UNCHANGED <<pool, fresh, req, hasher, pos, result>>

\* Where the next chunk of g's body ends.
ChunkEnd(g) ==
    IF pos[g] + ChunkLen < Len(req[g].body) THEN pos[g] + ChunkLen
    ELSE Len(req[g].body)

\* Fault variant: the offset runs past the end of the body.
StreamChunkOverrun(g) ==
    /\ pc[g] = "copy"
    /\ pos[g] < Len(req[g].body)
    /\ written' = [written EXCEPT ![hasher[g]] =
                      @ \o SubSeq(req[g].body, pos[g] + 1, ChunkEnd(g))]
    /\ pos' = [pos EXCEPT ![g] = ChunkEnd(g) + 1]
    /\ UNCHANGED <<pool, fresh, pc, req, hasher, result>>

\* io.Copy moves one chunk of the body into the hasher.
StreamChunk(g) ==
    /\ pc[g] = "copy"
    /\ pos[g] < Len(req[g].body)
    /\ written' = [written EXCEPT ![hasher[g]] =
                      @ \o SubSeq(req[g].body, pos[g] + 1, ChunkEnd(g))]
    /\ pos' = [pos EXCEPT ![g] = ChunkEnd(g)]
    /\ UNCHANGED <<pool, fresh, pc, req, hasher, result>>

\* Reading the body fails: no key; the hasher goes back as it is.
StreamFails(g) ==
    /\ pc[g] = "copy"
    /\ pool' = pool \cup {hasher[g]}
    /\ pc' = [pc EXCEPT ![g] = "err"]
    /\ UNCHANGED <<fresh, written, req, hasher, pos, result>>

\* The body ends: the digest is taken and the hasher goes back.
StreamSum(g) ==
    /\ pc[g] = "copy"
    /\ pos[g] = Len(req[g].body)
    /\ result' = [result EXCEPT ![g] = written[hasher[g]]]
    /\ pool' = pool \cup {hasher[g]}
    /\ pc' = [pc EXCEPT ![g] = "done"]
    /\ UNCHANGED <<fresh, written, req, hasher, pos>>

\* FromHTTP: reading the body into memory fails, before any hasher is borrowed.
FromHTTPFails(g) ==
    /\ pc[g] = "idle"
    /\ pc' = [pc EXCEPT ![g] = "err"]
    /\ UNCHANGED <<pool, fresh, written, req, hasher, pos, result>>

\* RedisKey: FromHTTP has the body in memory, so that hashInto borrows, resets,
\* fills, reads and returns the hasher without waiting.
HashInto(g, r, h) ==
    /\ pc[g] = "idle"
    /\ h \in pool \cup fresh
    /\ pool' = pool \cup {h}
    /\ fresh' = fresh \ {h}
    /\ written' = [written EXCEPT ![h] = Content(r)]
    /\ result' = [result EXCEPT ![g] = written'[h]]
    /\ req' = [req EXCEPT ![g] = r]
    /\ hasher' = [hasher EXCEPT ![g] = h]
    /\ pos' = [pos EXCEPT ![g] = 0]
    /\ pc' = [pc EXCEPT ![g] = "done"]

\* The caller takes the key or the error.
Return(g) ==
    /\ pc[g] \in {"done", "err"}
    /\ pc' = [pc EXCEPT ![g] = "idle"]
    /\ result' = [result EXCEPT ![g] = << >>]
    /\ UNCHANGED <<pool, fresh, written, req, hasher, pos>>

\* The garbage collector empties the pool; a later Get makes a new hasher.
PoolDrop(h) ==
    /\ h \in pool
    /\ pool' = pool \ {h}
    /\ fresh' = fresh \cup {h}
    /\ written' = [written EXCEPT ![h] = << >>]
    /\ UNCHANGED <<pc, req, hasher, pos, result>>

Next ==
    \/ \E g \in Goroutines :
          \/ \E r \in Requests, h \in Hashers : StreamGet(g, r, h) \/ HashInto(g, r, h)
          \/ StreamBegin(g) \/ StreamChunk(g) \/ StreamFails(g) \/ StreamSum(g)
          \/ FromHTTPFails(g) \/ Return(g)
    \/ \E h \in Hashers : PoolDrop(h)

Spec == Init /\ [][Next]_vars

-----------------------------------------------------------------------------
(* Properties *)

\* Whatever the pool hands out, whoever used the hasher before and however that
\* use ended, a key depends on the request alone, and the streamed key is the
\* one that hashing the buffered request would give.
KeyOfRequestOnly ==
    \A g \in Goroutines : pc[g] = "done" =>
        result[g] = req[g].method \o req[g].uri \o req[g].body

\* The part of a body that the README says is hashed: "Body[:MaxBodyBytes]".
Prefix(b) == IF Len(b) <= MaxBodyBytes THEN b ELSE SubSeq(b, 1, MaxBodyBytes)

\* The README's fingerprint is SHA-256( Method | URI+Query | Body[:MaxBodyBytes] ):
\* requests that differ only behind that prefix have the same key.
OnlyPrefixHashed ==
    \A g, h \in Goroutines :
        /\ pc[g] = "done" /\ pc[h] = "done"
        /\ req[g].method = req[h].method
        /\ req[g].uri = req[h].uri
        /\ Prefix(req[g].body) = Prefix(req[h].body)
        => result[g] = result[h]

=============================================================================
