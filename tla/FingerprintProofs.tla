-------------------------- MODULE FingerprintProofs -------------------------
(***************************************************************************)
(* The key is that of the request, for any requests, any number of         *)
(* goroutines and hashers, and any sizes of the chunks.                    *)
(***************************************************************************)
EXTENDS Fingerprint, SequenceTheorems, TLAPS

Holds(g) == pc[g] \in {"got", "copy"}

\* A hasher is in one place: in the pool, not created, or with one goroutine.
Exclusive ==
    \A g \in Goroutines : Holds(g) =>
        /\ hasher[g] \notin pool \cup fresh
        /\ \A h \in Goroutines : Holds(h) /\ hasher[h] = hasher[g] => h = g

\* What has been copied is a prefix of what must be.
Copied ==
    \A g \in Goroutines :
        /\ pc[g] = "got" => pos[g] = 0
        /\ pc[g] = "copy" => written[hasher[g]] =
              (req[g].method \o req[g].uri) \o SubSeq(req[g].body, 1, pos[g])

KeyInv == TypeOK /\ Exclusive /\ Copied /\ KeyOfRequestOnly

-----------------------------------------------------------------------------

LEMMA RequestTypes ==
  ASSUME NEW r \in Requests
  PROVE  /\ r.method \in Seq(Symbols) /\ r.uri \in Seq(Symbols) /\ r.body \in Seq(Symbols)
         /\ r.method \o r.uri \in Seq(Symbols)
         /\ (r.method \o r.uri) \o r.body \in Seq(Symbols)
         /\ Len(r.body) \in Nat
<1>1. r.method \in Seq(Symbols) /\ r.uri \in Seq(Symbols) /\ r.body \in Seq(Symbols)
  BY FingerprintAssumptions
<1>2. r.method \o r.uri \in Seq(Symbols)
  BY <1>1, ConcatProperties
<1> QED
  BY <1>1, <1>2, ConcatProperties, LenProperties

LEMMA PartTypes ==
  ASSUME NEW b \in Seq(Symbols), NEW m \in Nat, NEW n \in Nat, 1 <= m, n <= Len(b)
  PROVE  SubSeq(b, m, n) \in Seq(Symbols)
<1>1. \A i \in m..n : b[i] \in Symbols
  BY ElementOfSeq, LenProperties
<1> QED
  BY <1>1, SubSeqProperties

\* One more chunk.
LEMMA ChunkAppends ==
  ASSUME NEW a \in Seq(Symbols), NEW b \in Seq(Symbols), NEW p \in Nat, NEW q \in Nat,
         p <= q, q <= Len(b)
  PROVE  /\ (a \o SubSeq(b, 1, p)) \o SubSeq(b, p + 1, q) = a \o SubSeq(b, 1, q)
         /\ SubSeq(b, p + 1, q) \in Seq(Symbols)
<1>1. SubSeq(b, 1, p) \in Seq(Symbols) /\ SubSeq(b, p + 1, q) \in Seq(Symbols)
  <2>1. Len(b) \in Nat
    BY LenProperties
  <2> QED
    BY <2>1, PartTypes
<1>2. SubSeq(b, 1, p) \o SubSeq(b, p + 1, q) = SubSeq(b, 1, q)
  BY ConcatAdjacentSubSeq, LenProperties
<1>3. PICK x \in Seq(Symbols), y \in Seq(Symbols) :
         x = SubSeq(b, 1, p) /\ y = SubSeq(b, p + 1, q)
  BY <1>1
<1>4. (a \o x) \o y = a \o (x \o y)
  BY ONLY a \in Seq(Symbols), x \in Seq(Symbols), y \in Seq(Symbols), ConcatAssociative
<1> QED
  BY ONLY <1>1, <1>2, <1>3, <1>4

-----------------------------------------------------------------------------

LEMMA KeyTypes ==
  ASSUME KeyInv
  PROVE  /\ pool \subseteq Hashers /\ fresh \subseteq Hashers /\ pool \cap fresh = {}
         /\ written \in [Hashers -> Seq(Symbols)]
         /\ pc \in [Goroutines -> {"idle", "got", "copy", "done", "err"}]
         /\ req \in [Goroutines -> Requests]
         /\ hasher \in [Goroutines -> Hashers]
         /\ pos \in [Goroutines -> Nat]
         /\ \A g \in Goroutines : pos[g] <= Len(req[g].body)
         /\ result \in [Goroutines -> Seq(Symbols)]
  BY DEF KeyInv, TypeOK

\* StreamGet: the hasher leaves the pool.
LEMMA GetStep ==
  ASSUME KeyInv, NEW g \in Goroutines, NEW r \in Requests, NEW h \in Hashers,
         StreamGet(g, r, h)
  PROVE  KeyInv'
<1>0. Len(r.body) \in Nat
  BY RequestTypes
<1>1. \A k \in Goroutines : k # g =>
         /\ pc'[k] = pc[k] /\ req'[k] = req[k] /\ hasher'[k] = hasher[k] /\ pos'[k] = pos[k]
  BY KeyTypes DEF StreamGet
<1>2. pc'[g] = "got" /\ req'[g] = r /\ hasher'[g] = h /\ pos'[g] = 0
      /\ h \in pool \cup fresh /\ pool' = pool \ {h} /\ fresh' = fresh \ {h}
      /\ written' = written /\ result' = result
  BY KeyTypes DEF StreamGet, Take
<1>3. TypeOK'
  <2>1. /\ pc' \in [Goroutines -> {"idle", "got", "copy", "done", "err"}]
        /\ req' \in [Goroutines -> Requests] /\ hasher' \in [Goroutines -> Hashers]
        /\ pos' \in [Goroutines -> Nat]
    BY KeyTypes DEF StreamGet
  <2>2. \A k \in Goroutines : pos'[k] <= Len(req'[k].body)
    <3> SUFFICES ASSUME NEW k \in Goroutines PROVE pos'[k] <= Len(req'[k].body)
      OBVIOUS
    <3>1. CASE k = g
      BY <1>0, <1>2, <3>1
    <3>2. CASE k # g
      BY <1>1, <3>2, KeyTypes
    <3> QED
      BY <3>1, <3>2
  <2> QED
    BY <1>2, <2>1, <2>2, KeyTypes DEF TypeOK
<1>4. Exclusive'
  BY <1>1, <1>2 DEF KeyInv, Exclusive, Holds
<1>5. Copied'
  <2> SUFFICES ASSUME NEW k \in Goroutines
               PROVE  /\ pc'[k] = "got" => pos'[k] = 0
                      /\ pc'[k] = "copy" => written'[hasher'[k]] =
                            (req'[k].method \o req'[k].uri) \o SubSeq(req'[k].body, 1, pos'[k])
    BY DEF Copied
  <2>1. CASE k = g
    BY <1>2, <2>1
  <2>2. CASE k # g
    BY <1>1, <1>2, <2>2 DEF KeyInv, Copied
  <2> QED
    BY <2>1, <2>2
<1>6. KeyOfRequestOnly'
  BY <1>1, <1>2 DEF KeyInv, KeyOfRequestOnly
<1> QED
  BY <1>3, <1>4, <1>5, <1>6 DEF KeyInv

\* StreamBegin and StreamChunk write to a hasher nobody else holds.
LEMMA WriteStep ==
  ASSUME KeyInv, NEW g \in Goroutines, Holds(g), NEW w \in Seq(Symbols), NEW p \in Nat,
         p <= Len(req[g].body),
         w = (req[g].method \o req[g].uri) \o SubSeq(req[g].body, 1, p),
         pc' = [pc EXCEPT ![g] = "copy"], pos' = [pos EXCEPT ![g] = p],
         written' = [written EXCEPT ![hasher[g]] = w],
         UNCHANGED <<pool, fresh, req, hasher, result>>
  PROVE  KeyInv'
<1>1. \A k \in Goroutines : k # g => pc'[k] = pc[k] /\ pos'[k] = pos[k]
  BY KeyTypes
<1>2. pc'[g] = "copy" /\ pos'[g] = p
  BY KeyTypes
<1>3. TypeOK'
  <2>1. /\ pc' \in [Goroutines -> {"idle", "got", "copy", "done", "err"}]
        /\ written' \in [Hashers -> Seq(Symbols)] /\ pos' \in [Goroutines -> Nat]
    BY KeyTypes
  <2>2. \A k \in Goroutines : pos'[k] <= Len(req'[k].body)
    BY <1>1, <1>2, KeyTypes
  <2> QED
    BY <2>1, <2>2, KeyTypes DEF TypeOK
<1>4. Exclusive'
  BY <1>1, <1>2 DEF KeyInv, Exclusive, Holds
<1>5. ASSUME NEW k \in Goroutines, pc'[k] = "copy"
      PROVE  written'[hasher'[k]]
                = (req'[k].method \o req'[k].uri) \o SubSeq(req'[k].body, 1, pos'[k])
  <2>1. CASE k = g
    BY <1>2, <2>1, KeyTypes
  <2>2. CASE k # g
    <3>1. hasher[k] # hasher[g] /\ pc[k] = "copy" /\ pos'[k] = pos[k]
      BY <1>1, <1>5, <2>2 DEF KeyInv, Exclusive, Holds
    <3>2. written'[hasher[k]] = written[hasher[k]]
      BY <3>1, KeyTypes
    <3> QED
      BY <3>1, <3>2 DEF KeyInv, Copied
  <2> QED
    BY <2>1, <2>2
<1>6. KeyOfRequestOnly' /\ \A k \in Goroutines : pc'[k] = "got" => pos'[k] = 0
  BY <1>1, <1>2 DEF KeyInv, KeyOfRequestOnly, Copied
<1> QED
  BY <1>3, <1>4, <1>5, <1>6 DEF KeyInv, Copied

LEMMA BeginStep ==
  ASSUME KeyInv, NEW g \in Goroutines, StreamBegin(g)
  PROVE  KeyInv'
<1>1. req[g] \in Requests /\ Holds(g) /\ pos[g] = 0
  BY KeyTypes DEF StreamBegin, Holds, KeyInv, Copied
<1>2. PICK w \in Seq(Symbols) : w = req[g].method \o req[g].uri
  BY <1>1, RequestTypes
<1>3. w = w \o SubSeq(req[g].body, 1, 0)
  BY SubSeqEmpty, ConcatEmptySeq
<1>4. 0 \in Nat /\ 0 <= Len(req[g].body)
  BY <1>1, RequestTypes
<1>5. /\ pc' = [pc EXCEPT ![g] = "copy"] /\ pos' = [pos EXCEPT ![g] = 0]
      /\ written' = [written EXCEPT ![hasher[g]] = w]
      /\ UNCHANGED <<pool, fresh, req, hasher, result>>
  BY <1>1, <1>2, KeyTypes DEF StreamBegin
<1>6. w = (req[g].method \o req[g].uri) \o SubSeq(req[g].body, 1, 0)
  BY ONLY <1>2, <1>3
<1> QED
  BY ONLY KeyInv, g \in Goroutines, w \in Seq(Symbols), <1>1, <1>4, <1>5, <1>6, WriteStep

LEMMA ChunkStep ==
  ASSUME KeyInv, NEW g \in Goroutines, StreamChunk(g)
  PROVE  KeyInv'
<1>1. /\ req[g] \in Requests /\ Holds(g) /\ pc[g] = "copy" /\ pos[g] \in Nat
      /\ pos[g] < Len(req[g].body) /\ Len(req[g].body) \in Nat /\ hasher[g] \in Hashers
  BY KeyTypes, RequestTypes DEF StreamChunk, Holds
<1>2. PICK q \in Nat : q = ChunkEnd(g) /\ pos[g] <= q /\ q <= Len(req[g].body)
  <2>1. ChunkLen \in Nat
    BY FingerprintAssumptions
  <2>2. /\ ChunkEnd(g) \in Nat /\ pos[g] <= ChunkEnd(g)
        /\ ChunkEnd(g) <= Len(req[g].body)
    BY ONLY <1>1, <2>1 DEF ChunkEnd
  <2> QED
    BY ONLY <2>2
<1>3. PICK a \in Seq(Symbols), b \in Seq(Symbols) :
         a = req[g].method \o req[g].uri /\ b = req[g].body
  BY <1>1, RequestTypes
<1>4. PICK old \in Seq(Symbols), more \in Seq(Symbols) :
         old = written[hasher[g]] /\ more = SubSeq(b, pos[g] + 1, q)
  BY <1>1, <1>2, <1>3, ChunkAppends, KeyTypes
<1>5. old = a \o SubSeq(b, 1, pos[g])
  BY <1>1, <1>3, <1>4 DEF KeyInv, Copied
<1>6. old \o more = a \o SubSeq(b, 1, q)
  <2>1. pos[g] \in Nat /\ pos[g] <= q /\ q <= Len(b)
    BY <1>1, <1>2, <1>3
  <2>2. (a \o SubSeq(b, 1, pos[g])) \o SubSeq(b, pos[g] + 1, q) = a \o SubSeq(b, 1, q)
    BY ONLY <2>1, a \in Seq(Symbols), b \in Seq(Symbols), q \in Nat, ChunkAppends
  <2> QED
    BY ONLY <1>4, <1>5, <2>2
<1>7. PICK w \in Seq(Symbols) : w = old \o more
  BY ConcatProperties
<1>8. /\ pc' = [pc EXCEPT ![g] = "copy"] /\ pos' = [pos EXCEPT ![g] = q]
      /\ written' = [written EXCEPT ![hasher[g]] = w]
      /\ UNCHANGED <<pool, fresh, req, hasher, result>>
  BY <1>1, <1>2, <1>3, <1>4, <1>7, KeyTypes DEF StreamChunk
<1>9. w = (req[g].method \o req[g].uri) \o SubSeq(req[g].body, 1, q)
  BY ONLY <1>3, <1>6, <1>7
<1> QED
  BY ONLY KeyInv, g \in Goroutines, w \in Seq(Symbols), q \in Nat, <1>1, <1>2, <1>8, <1>9,
     WriteStep

\* The hasher goes back, with a key or without one.
LEMMA GiveBackStep ==
  ASSUME KeyInv, NEW g \in Goroutines, StreamFails(g) \/ StreamSum(g)
  PROVE  KeyInv'
<1>1. /\ req[g] \in Requests /\ pc[g] = "copy" /\ hasher[g] \in Hashers
      /\ hasher[g] \notin fresh
      /\ \A k \in Goroutines : k # g /\ Holds(k) => hasher[k] # hasher[g]
  BY KeyTypes DEF StreamFails, StreamSum, KeyInv, Exclusive, Holds
<1>2. /\ pool' = pool \cup {hasher[g]} /\ pc'[g] \in {"err", "done"}
      /\ UNCHANGED <<fresh, written, req, hasher, pos>>
      /\ \A k \in Goroutines : k # g => pc'[k] = pc[k] /\ result'[k] = result[k]
  BY KeyTypes DEF StreamFails, StreamSum
<1>3. TypeOK'
  <2>1. pc' \in [Goroutines -> {"idle", "got", "copy", "done", "err"}]
    BY KeyTypes DEF StreamFails, StreamSum
  <2>2. result' \in [Goroutines -> Seq(Symbols)]
    BY <1>1, KeyTypes DEF StreamFails, StreamSum
  <2> QED
    BY <1>1, <1>2, <2>1, <2>2, KeyTypes DEF TypeOK
<1>4. Exclusive'
  BY <1>1, <1>2 DEF KeyInv, Exclusive, Holds
<1>5. Copied'
  BY <1>2 DEF KeyInv, Copied
<1>6. ASSUME pc'[g] = "done"
      PROVE  result'[g] = (req[g].method \o req[g].uri) \o req[g].body
  <2>1. StreamSum(g)
    BY <1>6, KeyTypes DEF StreamFails
  <2>2. result'[g] = written[hasher[g]] /\ pos[g] = Len(req[g].body)
    BY <2>1, KeyTypes DEF StreamSum
  <2>3. written[hasher[g]] =
           (req[g].method \o req[g].uri) \o SubSeq(req[g].body, 1, Len(req[g].body))
    BY <1>1, <2>2 DEF KeyInv, Copied
  <2>4. SubSeq(req[g].body, 1, Len(req[g].body)) = req[g].body
    BY <1>1, RequestTypes, SubSeqFull
  <2> QED
    BY ONLY <2>2, <2>3, <2>4
<1>7. KeyOfRequestOnly'
  BY <1>2, <1>6 DEF KeyInv, KeyOfRequestOnly
<1> QED
  BY <1>3, <1>4, <1>5, <1>7 DEF KeyInv

\* A buffered request: nothing is held, and the hasher comes from where no
\* goroutine that streams has one.
LEMMA HashIntoStep ==
  ASSUME KeyInv, NEW g \in Goroutines, NEW r \in Requests, NEW h \in Hashers,
         HashInto(g, r, h)
  PROVE  KeyInv'
<1>0. PICK w \in Seq(Symbols) : w = (r.method \o r.uri) \o r.body
  BY RequestTypes
<1>1. /\ pc'[g] = "done" /\ req'[g] = r /\ hasher'[g] = h /\ pos'[g] = 0
      /\ \A k \in Goroutines : k # g =>
            /\ pc'[k] = pc[k] /\ req'[k] = req[k] /\ hasher'[k] = hasher[k]
            /\ pos'[k] = pos[k] /\ result'[k] = result[k]
  BY KeyTypes DEF HashInto
<1>2. /\ h \in pool \cup fresh /\ pool' = pool \cup {h} /\ fresh' = fresh \ {h}
      /\ written' = [written EXCEPT ![h] = w]
  BY <1>0 DEF HashInto, Content
<1>3. written'[h] = w /\ result' = [result EXCEPT ![g] = w]
  BY <1>2, KeyTypes DEF HashInto
<1>4. TypeOK'
  <2>1. /\ pc' \in [Goroutines -> {"idle", "got", "copy", "done", "err"}]
        /\ req' \in [Goroutines -> Requests] /\ hasher' \in [Goroutines -> Hashers]
        /\ pos' \in [Goroutines -> Nat]
    BY KeyTypes DEF HashInto
  <2>2. written' \in [Hashers -> Seq(Symbols)] /\ result' \in [Goroutines -> Seq(Symbols)]
    BY <1>2, <1>3, KeyTypes
  <2>3. ASSUME NEW k \in Goroutines PROVE pos'[k] <= Len(req'[k].body)
    <3>1. CASE k = g
      <4>1. Len(r.body) \in Nat
        BY RequestTypes
      <4> QED
        BY <1>1, <3>1, <4>1
    <3>2. CASE k # g
      BY <1>1, <3>2, KeyTypes
    <3> QED
      BY <3>1, <3>2
  <2> QED
    BY <1>2, <2>1, <2>2, <2>3, KeyTypes DEF TypeOK
<1>5. \A k \in Goroutines : Holds(k)' => k # g /\ Holds(k) /\ hasher[k] # h
  BY <1>1, <1>2 DEF KeyInv, Exclusive, Holds
<1>6. Exclusive'
  BY <1>1, <1>2, <1>5 DEF KeyInv, Exclusive, Holds
<1>7. Copied'
  <2> SUFFICES ASSUME NEW k \in Goroutines, Holds(k)'
               PROVE  /\ pc'[k] = "got" => pos'[k] = 0
                      /\ pc'[k] = "copy" => written'[hasher'[k]] =
                            (req'[k].method \o req'[k].uri) \o SubSeq(req'[k].body, 1, pos'[k])
    BY DEF Copied, Holds
  <2>1. k # g /\ hasher'[k] = hasher[k] /\ hasher[k] # h
    BY <1>1, <1>5
  <2>2. written'[hasher[k]] = written[hasher[k]]
    BY <1>2, <2>1, KeyTypes
  <2> QED
    BY <1>1, <2>1, <2>2 DEF KeyInv, Copied
<1>8. KeyOfRequestOnly'
  <2>1. result'[g] = w
    BY <1>3, KeyTypes
  <2> QED
    BY <1>0, <1>1, <2>1 DEF KeyInv, KeyOfRequestOnly
<1> QED
  BY <1>4, <1>6, <1>7, <1>8 DEF KeyInv

\* The caller takes its answer, or the collector a hasher that nobody holds.
LEMMA RestStep ==
  ASSUME KeyInv,
         \/ \E g \in Goroutines : FromHTTPFails(g) \/ Return(g)
         \/ \E h \in Hashers : PoolDrop(h)
  PROVE  KeyInv'
<1>1. CASE \E g \in Goroutines : FromHTTPFails(g) \/ Return(g)
  <2>1. PICK g \in Goroutines : FromHTTPFails(g) \/ Return(g)
    BY <1>1
  <2>2. /\ pc'[g] \in {"idle", "err"} /\ UNCHANGED <<pool, fresh, written, req, hasher, pos>>
        /\ \A k \in Goroutines : k # g => pc'[k] = pc[k] /\ result'[k] = result[k]
    BY <2>1, KeyTypes DEF FromHTTPFails, Return
  <2>3. /\ pc' \in [Goroutines -> {"idle", "got", "copy", "done", "err"}]
        /\ result' \in [Goroutines -> Seq(Symbols)]
    <3>1. CASE FromHTTPFails(g)
      BY <3>1, KeyTypes DEF FromHTTPFails
    <3>2. CASE Return(g)
      BY <3>2, KeyTypes DEF Return
    <3> QED
      BY <2>1, <3>1, <3>2
  <2>4. TypeOK'
    BY <2>2, <2>3, KeyTypes DEF TypeOK
  <2>5. Exclusive'
    BY <2>2 DEF KeyInv, Exclusive, Holds
  <2>6. Copied' /\ KeyOfRequestOnly'
    BY <2>2 DEF KeyInv, Copied, KeyOfRequestOnly
  <2> QED
    BY <2>4, <2>5, <2>6 DEF KeyInv
<1>2. CASE \E h \in Hashers : PoolDrop(h)
  <2>1. PICK h \in Hashers : PoolDrop(h)
    BY <1>2
  <2>2. /\ h \in pool /\ pool' = pool \ {h} /\ fresh' = fresh \cup {h}
        /\ UNCHANGED <<pc, req, hasher, pos, result>>
        /\ \A k \in Hashers : k # h => written'[k] = written[k]
    BY <2>1, KeyTypes DEF PoolDrop
  <2>3. written' \in [Hashers -> Seq(Symbols)]
    BY <2>1, KeyTypes DEF PoolDrop
  <2>4. TypeOK'
    BY <2>2, <2>3, KeyTypes DEF TypeOK
  <2>5. Exclusive'
    BY <2>2 DEF KeyInv, Exclusive, Holds
  <2>6. \A g \in Goroutines : pc[g] = "copy" => written'[hasher[g]] = written[hasher[g]]
    BY <2>2, KeyTypes DEF KeyInv, Exclusive, Holds
  <2>7. Copied' /\ KeyOfRequestOnly'
    BY <2>2, <2>6 DEF KeyInv, Copied, KeyOfRequestOnly
  <2> QED
    BY <2>4, <2>5, <2>7 DEF KeyInv
<1> QED
  BY <1>1, <1>2

-----------------------------------------------------------------------------

LEMMA KeyInvariant == Spec => []KeyInv
<1>1. Init => KeyInv
  <2> SUFFICES ASSUME Init PROVE KeyInv
    OBVIOUS
  <2>1. /\ req \in [Goroutines -> Requests] /\ hasher \in [Goroutines -> Hashers]
        /\ pc = [g \in Goroutines |-> "idle"] /\ pos = [g \in Goroutines |-> 0]
        /\ pool = {} /\ fresh = Hashers
    BY DEF Init
  <2>2. written \in [Hashers -> Seq(Symbols)] /\ result \in [Goroutines -> Seq(Symbols)]
    BY EmptySeq DEF Init
  <2>3. \A g \in Goroutines : pos[g] <= Len(req[g].body)
    BY <2>1, RequestTypes
  <2>4. TypeOK
    BY <2>1, <2>2, <2>3 DEF TypeOK
  <2> QED
    BY <2>1, <2>4 DEF KeyInv, Exclusive, Holds, Copied, KeyOfRequestOnly
<1>2. KeyInv /\ [Next]_vars => KeyInv'
  <2> SUFFICES ASSUME KeyInv, [Next]_vars PROVE KeyInv'
    OBVIOUS
  <2>1. CASE UNCHANGED vars
    BY <2>1 DEF vars, KeyInv, TypeOK, Exclusive, Holds, Copied, KeyOfRequestOnly
  <2>2. CASE Next
    BY ONLY KeyInv, <2>2, GetStep, BeginStep, ChunkStep, GiveBackStep, HashIntoStep, RestStep
    DEF Next
  <2> QED
    BY <2>1, <2>2
<1> QED
  BY <1>1, <1>2, PTL DEF Spec

\* The fingerprint code's variables keep their types: TypeOK.
THEOREM FingerprintTypeCorrect == Spec => []TypeOK
  BY KeyInvariant, PTL DEF KeyInv

\* A key depends on the request alone, whoever used the pooled hasher before:
\* KeyOfRequestOnly.
THEOREM FingerprintOfRequest == Spec => []KeyOfRequestOnly
  BY KeyInvariant, PTL DEF KeyInv

=============================================================================
