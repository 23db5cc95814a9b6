--------------------------- MODULE Firestore_proofs ---------------------------
(* What a read of the document store can return, and what the server may do  *)
(* with the queues.                                                          *)
EXTENDS Firestore, OrderLemmas, SequenceTheorems

(***************************************************************************)
(* A read on device d returns what the device has queued for the document, *)
(* if it has queued anything.                                              *)
(***************************************************************************)
LEMMA LocalIsOwn ==
  ASSUME NEW d \in Devices, NEW k \in DocIds, NEW W, pending[d] \in Seq(W),
         WritesTo(pending[d], k) # {}
  PROVE  \E i \in 1..Len(pending[d]) :
            pending[d][i].key = k /\ Local(d, k) = pending[d][i].value
<1> DEFINE q == pending[d]
           S == WritesTo(q, k)
<1>1. Len(q) \in Nat /\ S \in SUBSET (1..Len(q))
  BY DEF WritesTo
<1>2. \E m \in S : \A j \in S : j <= m
  <2> HIDE DEF S, q
  <2> QED BY <1>1, HasGreatest DEF S, q
<1>3. LastWriteTo(q, k) \in S
  BY <1>2 DEF LastWriteTo
<1>4. Local(d, k) = q[LastWriteTo(q, k)].value
  BY DEF Local
<1> QED BY <1>3, <1>4 DEF WritesTo

(***************************************************************************)
(* A read on device d returns the server's document, or what one of the    *)
(* device's own queued writes to that document contains.                   *)
(***************************************************************************)
LEMMA LocalIsServerOrOwn ==
  ASSUME NEW d \in Devices, NEW k \in DocIds, NEW W, pending[d] \in Seq(W)
  PROVE  \/ Local(d, k) = server[k]
         \/ \E i \in 1..Len(pending[d]) :
               pending[d][i].key = k /\ Local(d, k) = pending[d][i].value
<1>1. CASE WritesTo(pending[d], k) = {}
  BY <1>1 DEF Local
<1>2. CASE WritesTo(pending[d], k) # {}
  BY <1>2, LocalIsOwn
<1> QED BY <1>1, <1>2

(***************************************************************************)
(* What the server stores is one of the writes queued.                     *)
(***************************************************************************)
LEMMA StoresQueued ==
  ASSUME NEW W, pending \in [Devices -> Seq(W)], AppliedOK, NEW d \in Devices, Store(d)
  PROVE  /\ applied[d] \in Nat
         /\ applied'[d] = applied[d] + 1
         /\ \E i \in 1..Len(pending[d]) :
              /\ i = applied'[d]
              /\ pending[d][i] \in W
              /\ server' = [server EXCEPT ![pending[d][i].key] = pending[d][i].value]
<1>1. /\ applied \in [Devices -> Nat] /\ applied[d] \in Nat
      /\ pending[d] \in Seq(W) /\ Len(pending[d]) \in Nat
      /\ applied[d] < Len(pending[d])
  BY DEF AppliedOK, Store, Unstored
<1>2. applied'[d] = applied[d] + 1
  BY <1>1 DEF Store
<1>3. PICK i \in 1..Len(pending[d]) : i = applied[d] + 1
  BY <1>1
<1>4. pending[d][i] \in W
  BY <1>1
<1>5. server' = [server EXCEPT ![pending[d][i].key] = pending[d][i].value]
  BY <1>3 DEF Store
<1> QED BY <1>1, <1>2, <1>3, <1>4, <1>5

(***************************************************************************)
(* The server does not run ahead of a queue: when writes are added, when   *)
(* one is stored, when one is answered and when a connection is lost.      *)
(***************************************************************************)
LEMMA AppliedSame ==
  ASSUME AppliedOK, applied' = applied,
         \A d \in Devices : Len(pending[d]) \in Nat /\ Len(pending'[d]) \in Nat
                            /\ Len(pending[d]) <= Len(pending'[d])
  PROVE  AppliedOK'
<1>1. applied' \in [Devices -> Nat]
  BY DEF AppliedOK
<1>2. ASSUME NEW d \in Devices PROVE applied'[d] <= Len(pending'[d])
  <2>1. applied[d] \in Nat /\ applied[d] <= Len(pending[d])
    BY DEF AppliedOK
  <2> QED BY <2>1
<1> QED BY <1>1, <1>2 DEF AppliedOK

LEMMA AppliedStored ==
  ASSUME AppliedOK, NEW d \in Devices, Store(d), pending' = pending,
         \A c \in Devices : Len(pending[c]) \in Nat
  PROVE  AppliedOK'
<1>1. applied \in [Devices -> Nat] /\ applied[d] + 1 \in Nat
  BY DEF AppliedOK
<1>2. applied' \in [Devices -> Nat]
  BY <1>1 DEF Store
<1>3. ASSUME NEW c \in Devices PROVE applied'[c] <= Len(pending'[c])
  <2>1. CASE c = d
    <3>1. applied'[c] = applied[d] + 1 /\ applied[d] < Len(pending[d])
      BY <1>1, <2>1 DEF Store, Unstored
    <3>2. applied[d] \in Nat /\ Len(pending[d]) \in Nat
      BY <1>1
    <3> QED BY <2>1, <3>1, <3>2
  <2>2. CASE c # d
    BY <1>1, <2>2 DEF Store, AppliedOK
  <2> QED BY <2>1, <2>2
<1> QED BY <1>2, <1>3 DEF AppliedOK

LEMMA AppliedAnswered ==
  ASSUME AppliedOK, NEW d \in Devices, AnswerRead(d) \/ RefusalRead(d),
         Len(pending[d]) \in Nat, Len(pending'[d]) = Len(pending[d]) - 1,
         \A c \in Devices : c # d => Len(pending'[c]) = Len(pending[c])
  PROVE  AppliedOK'
<1>1. applied \in [Devices -> Nat] /\ applied[d] \in Nat /\ applied[d] <= Len(pending[d])
  BY DEF AppliedOK
<1>2. PICK n \in Nat : applied' = [applied EXCEPT ![d] = n] /\ n <= Len(pending'[d])
  <2>1. CASE AnswerRead(d)
    <3>1. applied' = [applied EXCEPT ![d] = applied[d] - 1] /\ applied[d] > 0
      BY <2>1 DEF AnswerRead
    <3>2. applied[d] - 1 \in Nat /\ applied[d] - 1 <= Len(pending'[d])
      BY <1>1, <3>1
    <3> QED BY <3>1, <3>2
  <2>2. CASE RefusalRead(d)
    <3>1. applied' = [applied EXCEPT ![d] = 0] /\ applied[d] < Len(pending[d])
      BY <2>2 DEF RefusalRead, Lost, Unstored
    <3>2. 0 <= Len(pending'[d])
      BY <1>1, <3>1
    <3> QED BY <3>1, <3>2
  <2> QED BY <2>1, <2>2
<1>3. applied' \in [Devices -> Nat]
  BY <1>1, <1>2
<1>4. ASSUME NEW c \in Devices PROVE applied'[c] <= Len(pending'[c])
  BY <1>1, <1>2 DEF AppliedOK
<1> QED BY <1>3, <1>4 DEF AppliedOK

LEMMA AppliedLost ==
  ASSUME AppliedOK, NEW d \in Devices, Lost(d),
         \A c \in Devices : Len(pending[c]) \in Nat /\ Len(pending'[c]) = Len(pending[c])
  PROVE  AppliedOK'
<1>1. applied' \in [Devices -> Nat]
  BY DEF AppliedOK, Lost
<1>2. ASSUME NEW c \in Devices PROVE applied'[c] <= Len(pending'[c])
  <2>1. applied'[c] = 0 \/ applied'[c] = applied[c]
    BY DEF AppliedOK, Lost
  <2>2. applied[c] <= Len(pending[c]) /\ applied[c] \in Nat
    BY DEF AppliedOK
  <2> QED BY <2>1, <2>2
<1> QED BY <1>1, <1>2 DEF AppliedOK

(***************************************************************************)
(* A device reads its own writes.                                          *)
(***************************************************************************)

\* The write that a read shows.
IsLatest(q, k, i) == i \in WritesTo(q, k) /\ \A j \in WritesTo(q, k) : j <= i

LEMMA LatestExists ==
  ASSUME NEW W, NEW q \in Seq(W), NEW k, WritesTo(q, k) # {}
  PROVE  \E i \in 1..Len(q) : IsLatest(q, k, i)
<1>1. Len(q) \in Nat /\ WritesTo(q, k) \in SUBSET (1..Len(q))
  BY DEF WritesTo
<1>2. \E m \in WritesTo(q, k) : \A j \in WritesTo(q, k) : j <= m
  BY <1>1, HasGreatest
<1> QED BY <1>2 DEF IsLatest, WritesTo

LEMMA LatestIsRead ==
  ASSUME NEW q, NEW k, NEW i, IsLatest(q, k, i), WritesTo(q, k) \in SUBSET Nat
  PROVE  LastWriteTo(q, k) = i
<1>1. \A m \in WritesTo(q, k) : (\A j \in WritesTo(q, k) : j <= m) => m = i
  BY DEF IsLatest
<1> QED BY <1>1 DEF LastWriteTo, IsLatest

\* What d reads, for any of its queues and for the server's document.
ReadsAs(q, document, k, value) ==
  \/ WritesTo(q, k) = {} /\ value = document
  \/ \E i \in 1..Len(q) : IsLatest(q, k, i) /\ value = q[i].value

LEMMA LocalReads ==
  ASSUME NEW W, NEW q \in Seq(W), NEW k, NEW document, NEW value
  PROVE  ReadsAs(q, document, k, value) <=>
           value = IF WritesTo(q, k) = {} THEN document ELSE q[LastWriteTo(q, k)].value
<1>1. WritesTo(q, k) \in SUBSET Nat
  BY DEF WritesTo
<1>2. CASE WritesTo(q, k) = {}
  BY <1>2 DEF ReadsAs, IsLatest
<1>3. CASE WritesTo(q, k) # {}
  <2>1. PICK i \in 1..Len(q) : IsLatest(q, k, i)
    BY <1>3, LatestExists
  <2>2. LastWriteTo(q, k) = i /\ \A j \in 1..Len(q) : IsLatest(q, k, j) => j = i
    <3>1. \A j \in 1..Len(q) : IsLatest(q, k, j) => LastWriteTo(q, k) = j
      BY <1>1, LatestIsRead
    <3> QED BY <2>1, <3>1
  <2> QED BY <1>3, <2>1, <2>2 DEF ReadsAs
<1> QED BY <1>2, <1>3

\* While an answer to a write of k is to come, the server holds the last of
\* those it has stored.
SentIsServed(d, k) == \A i \in 1..Len(pending[d]) :
  /\ i <= applied[d] /\ pending[d][i].key = k
  /\ \A j \in 1..Len(pending[d]) : j <= applied[d] /\ pending[d][j].key = k => j <= i
  => server[k] = pending[d][i].value

StoreServes(d, k, V, Writes) ==
  /\ pending \in [Devices -> Seq(Writes)]
  /\ server \in [DocIds -> V]
  /\ AppliedOK
  /\ SentIsServed(d, k)

\* One more write: of document k, or of another.
LEMMA EnqueueReads ==
  ASSUME NEW W, NEW q \in Seq(W), NEW w \in W, NEW k, NEW document, NEW value,
         NEW r, r = Append(q, w), ReadsAs(q, document, k, value)
  PROVE  /\ w.key = k => ReadsAs(r, document, k, w.value)
         /\ w.key # k => ReadsAs(r, document, k, value)
<1>1. Len(q) \in Nat /\ Len(r) = Len(q) + 1 /\ r[Len(r)] = w
      /\ \A j \in 1..Len(q) : r[j] = q[j]
  OBVIOUS
<1>2. CASE w.key = k
  <2>1. IsLatest(r, k, Len(r))
    BY <1>1, <1>2 DEF IsLatest, WritesTo
  <2>2. Len(r) \in 1..Len(r)
    BY <1>1
  <2> QED BY <1>1, <1>2, <2>1, <2>2 DEF ReadsAs
<1>3. CASE w.key # k
  <2>1. WritesTo(r, k) = WritesTo(q, k)
    <3>1. \A j \in 1..Len(r) : j \in 1..Len(q) \/ j = Len(r)
      BY <1>1
    <3>2. \A j \in 1..Len(q) : j \in 1..Len(r)
      BY <1>1
    <3> QED BY <1>1, <1>3, <3>1, <3>2 DEF WritesTo
  <2>2. CASE WritesTo(q, k) = {} /\ value = document
    BY <1>3, <2>1, <2>2 DEF ReadsAs
  <2>3. CASE \E i \in 1..Len(q) : IsLatest(q, k, i) /\ value = q[i].value
    <3>1. PICK i \in 1..Len(q) : IsLatest(q, k, i) /\ value = q[i].value
      BY <2>3
    <3>2. i \in 1..Len(r) /\ IsLatest(r, k, i) /\ value = r[i].value
      BY <1>1, <2>1, <3>1 DEF IsLatest
    <3> QED BY <1>3, <3>2 DEF ReadsAs
  <2> QED BY <2>2, <2>3 DEF ReadsAs
<1> QED BY <1>2, <1>3

\* The oldest write is answered, and if it was the only one of document k the
\* server holds it.
LEMMA TailReads ==
  ASSUME NEW W, NEW q \in Seq(W), q # <<>>, NEW k, NEW document, NEW value,
         NEW r, r = Tail(q), ReadsAs(q, document, k, value),
         q[1].key = k /\ (\A j \in 1..Len(q) : q[j].key = k => j = 1)
           => document = q[1].value
  PROVE  ReadsAs(r, document, k, value)
<1>1. Len(q) \in Nat /\ Len(q) # 0 /\ Len(r) = Len(q) - 1
      /\ \A j \in 1..(Len(q) - 1) : r[j] = q[j + 1]
  OBVIOUS
<1>2. \A j \in 1..Len(r) : j + 1 \in 1..Len(q) /\ r[j] = q[j + 1]
  BY <1>1
<1>3. CASE WritesTo(q, k) = {} /\ value = document
  <2>1. WritesTo(r, k) = {}
    BY <1>2, <1>3 DEF WritesTo
  <2> QED BY <1>3, <2>1 DEF ReadsAs
<1>4. CASE \E i \in 1..Len(q) : IsLatest(q, k, i) /\ value = q[i].value
  <2>1. PICK i \in 1..Len(q) : IsLatest(q, k, i) /\ value = q[i].value
    BY <1>4
  <2>2. q[i].key = k /\ \A j \in 1..Len(q) : q[j].key = k => j <= i
    BY <2>1 DEF IsLatest, WritesTo
  <2>3. CASE i = 1
    <3>1. \A j \in 1..Len(q) : q[j].key = k => j = 1
      BY <1>1, <2>2, <2>3
    <3>2. document = value
      BY <2>1, <2>2, <2>3, <3>1
    <3>3. WritesTo(r, k) = {}
      <4>1. ASSUME NEW j \in 1..Len(r), r[j].key = k PROVE FALSE
        <5>1. j + 1 = 1
          BY <1>2, <3>1, <4>1
        <5> QED BY <1>1, <5>1
      <4> QED BY <4>1 DEF WritesTo
    <3> QED BY <3>2, <3>3 DEF ReadsAs
  <2>4. CASE i # 1
    <3>1. i - 1 \in 1..Len(r) /\ r[i - 1] = q[i]
      BY <1>1, <2>4
    <3>2. \A j \in 1..Len(r) : r[j].key = k => j <= i - 1
      <4> SUFFICES ASSUME NEW j \in 1..Len(r), r[j].key = k PROVE j <= i - 1
        OBVIOUS
      <4>1. j + 1 <= i
        BY <1>2, <2>2
      <4> QED BY <1>1, <4>1
    <3>3. IsLatest(r, k, i - 1)
      BY <2>2, <3>1, <3>2 DEF IsLatest, WritesTo
    <3> QED BY <2>1, <3>1, <3>3 DEF ReadsAs
  <2> QED BY <2>3, <2>4
<1> QED BY <1>3, <1>4 DEF ReadsAs

\* What d reads, in terms of its queue.
LEMMA ReadsQueue ==
  ASSUME NEW d \in Devices, NEW k, NEW Writes, pending \in [Devices -> Seq(Writes)], NEW value
  PROVE  ReadsAs(pending[d], server[k], k, value) <=> value = Local(d, k)
<1>1. PICK q \in Seq(Writes) : q = pending[d]
  OBVIOUS
<1> QED BY <1>1, LocalReads DEF Local

\* A step of the store, seen from d and document k.
LEMMA StepReads ==
  ASSUME NEW d \in Devices, NEW k \in DocIds, NEW V, NEW Writes,
         \A w \in Writes : w.key \in DocIds /\ w.value \in V,
         StoreServes(d, k, V, Writes), SoleWriter(d, k), StoreNext(Writes)
  PROVE  /\ StoreServes(d, k, V, Writes)'
         /\ \/ Local(d, k)' = Local(d, k)
            \/ WritesAndReads(d, k)
            \/ RefusalRead(d) /\ Taken(d)
<1>1. PICK q \in Seq(Writes) : q = pending[d]
  BY DEF StoreServes
<1>2. PICK v : v = Local(d, k)
  OBVIOUS
<1>3. ReadsAs(q, server[k], k, v) /\ Len(q) \in Nat
  <2>1. pending \in [Devices -> Seq(Writes)]
    BY DEF StoreServes
  <2>2. ReadsAs(pending[d], server[k], k, v)
    BY <1>2, <2>1, ReadsQueue
  <2>3. Len(q) \in Nat
    OBVIOUS
  <2> QED BY <1>1, <2>2, <2>3
<1>4. PICK n \in Nat : n = applied[d] /\ n <= Len(q)
  BY <1>1 DEF StoreServes, AppliedOK
<1>5. \A i \in 1..Len(q) :
        /\ i <= n /\ q[i].key = k
        /\ \A j \in 1..Len(q) : j <= n /\ q[j].key = k => j <= i
        => server[k] = q[i].value
  BY <1>1, <1>4 DEF StoreServes, SentIsServed
<1>6. /\ pending \in [Devices -> Seq(Writes)] /\ server \in [DocIds -> V] /\ AppliedOK
      /\ \A c \in Devices : pending[c] \in Seq(Writes) /\ Len(pending[c]) \in Nat
  BY DEF StoreServes
\* What is to be shown of the step.
<1> DEFINE Shown == \/ Local(d, k)' = Local(d, k)
                    \/ WritesAndReads(d, k)
                    \/ RefusalRead(d) /\ Taken(d)
<1>7. PICK c \in Devices :
        \/ \E w \in Writes : Enqueue(c, w) /\ UNCHANGED <<server, applied>>
        \/ Store(c) /\ UNCHANGED pending
        \/ AnswerRead(c) /\ Taken(c) /\ UNCHANGED server
        \/ RefusalRead(c) /\ Taken(c) /\ UNCHANGED server
        \/ Lost(c) /\ UNCHANGED <<server, pending>>
  BY DEF StoreNext
<1>8. CASE \E w \in Writes : Enqueue(c, w) /\ UNCHANGED <<server, applied>>
  <2>1. PICK w \in Writes : Enqueue(c, w) /\ UNCHANGED <<server, applied>>
    BY <1>8
  <2>2. PICK r \in Seq(Writes) : r = Append(pending[c], w)
    <3>1. pending[c] \in Seq(Writes)
      BY <1>6
    <3> QED BY <3>1, AppendProperties
  <2>3. /\ pending' = [pending EXCEPT ![c] = r]
        /\ Len(r) = Len(pending[c]) + 1 /\ r[Len(r)] = w
        /\ \A j \in 1..Len(pending[c]) : r[j] = pending[c][j]
    BY <1>6, <2>1, <2>2 DEF Enqueue
  <2>4. pending' \in [Devices -> Seq(Writes)] /\ pending'[c] = r
        /\ \A e \in Devices : e # c => pending'[e] = pending[e]
    BY <1>6, <2>3
  <2>5. AppliedOK'
    <3>1. \A e \in Devices : Len(pending[e]) \in Nat /\ Len(pending'[e]) \in Nat
                              /\ Len(pending[e]) <= Len(pending'[e])
      BY <1>6, <2>3, <2>4
    <3> QED BY <1>6, <2>1, <3>1, AppliedSame
  <2>6. CASE c = d
    <3>1. \A i \in 1..Len(r) : i <= n => i \in 1..Len(q) /\ r[i] = q[i]
      BY <1>1, <1>3, <1>4, <2>3, <2>6
    <3>2. \A j \in 1..Len(q) : j \in 1..Len(r)
      BY <1>1, <1>3, <2>3, <2>6
    <3>3. ASSUME NEW i \in 1..Len(r), i <= n, r[i].key = k,
                 \A j \in 1..Len(r) : j <= n /\ r[j].key = k => j <= i
          PROVE  server'[k] = r[i].value
      <4>1. \A j \in 1..Len(q) : j <= n /\ q[j].key = k => j <= i
        BY <3>1, <3>2, <3>3
      <4>2. i \in 1..Len(q) /\ r[i] = q[i]
        BY <3>1, <3>3
      <4>3. server[k] = q[i].value
        BY <1>5, <3>3, <4>1, <4>2
      <4> QED BY <2>1, <4>2, <4>3
    <3>4. SentIsServed(d, k)'
      BY <1>4, <2>1, <2>4, <2>6, <3>3 DEF SentIsServed
    <3>5. StoreServes(d, k, V, Writes)'
      BY <1>6, <2>1, <2>4, <2>5, <3>4 DEF StoreServes
    <3>6. /\ w.key = k => ReadsAs(r, server[k], k, w.value)
          /\ w.key # k => ReadsAs(r, server[k], k, v)
      BY <1>1, <1>3, <2>2, <2>6, EnqueueReads
    <3>7. \A value : ReadsAs(r, server[k], k, value) <=>
             value = IF WritesTo(r, k) = {} THEN server[k] ELSE r[LastWriteTo(r, k)].value
      BY LocalReads
    <3>8. Local(d, k)' = IF WritesTo(r, k) = {} THEN server[k] ELSE r[LastWriteTo(r, k)].value
      BY <2>1, <2>4, <2>6 DEF Local, WritesTo, LastWriteTo
    <3>9. CASE w.key = k
      BY <1>1, <2>3, <2>4, <2>6, <3>5, <3>6, <3>7, <3>8, <3>9 DEF WritesAndReads
    <3>10. CASE w.key # k
      BY <1>2, <3>5, <3>6, <3>7, <3>8, <3>10
    <3> QED BY <3>9, <3>10
  <2>7. CASE c # d
    <3>1. pending'[d] = q
      BY <1>1, <2>4, <2>7
    <3>2. SentIsServed(d, k)'
      BY <1>1, <2>1, <3>1 DEF SentIsServed, StoreServes
    <3>3. Local(d, k)' = Local(d, k)
      BY <1>1, <2>1, <3>1 DEF Local, WritesTo, LastWriteTo
    <3> QED BY <1>6, <2>1, <2>4, <2>5, <3>2, <3>3 DEF StoreServes
  <2> QED BY <2>6, <2>7
<1>9. CASE Store(c) /\ UNCHANGED pending
  <2>1. PICK i \in 1..Len(pending[c]) :
          /\ i = applied'[c] /\ applied'[c] = applied[c] + 1 /\ applied[c] \in Nat
          /\ pending[c][i] \in Writes
          /\ server' = [server EXCEPT ![pending[c][i].key] = pending[c][i].value]
    BY <1>6, <1>9, StoresQueued
  <2>2. PICK w \in Writes : w = pending[c][i] /\ server' = [server EXCEPT ![w.key] = w.value]
    BY <2>1
  <2>3. w.key \in DocIds /\ w.value \in V
    OBVIOUS
  <2>4. server' \in [DocIds -> V]
        /\ server'[k] = IF k = w.key THEN w.value ELSE server[k]
    BY <1>6, <2>2, <2>3
  <2>5. AppliedOK'
    BY <1>6, <1>9, AppliedStored
  <2>6. pending' \in [Devices -> Seq(Writes)]
    BY <1>6, <1>9
  <2>7. CASE c = d
    <3>1. applied'[d] = n + 1 /\ i = n + 1 /\ q[i] = w
      BY <1>1, <1>4, <2>1, <2>2, <2>7
    <3>2. ASSUME NEW m \in 1..Len(q), m <= n + 1, q[m].key = k,
                 \A j \in 1..Len(q) : j <= n + 1 /\ q[j].key = k => j <= m
          PROVE  server'[k] = q[m].value
      <4>1. CASE m = n + 1
        BY <2>4, <3>1, <3>2, <4>1
      <4>2. CASE m # n + 1
        <5>1. m <= n
          BY <3>2, <4>2
        <5>2. \A j \in 1..Len(q) : j <= n /\ q[j].key = k => j <= m
          BY <3>2
        <5>3. server[k] = q[m].value
          BY <1>5, <3>2, <5>1, <5>2
        <5>4. i \in 1..Len(q) /\ i <= n + 1 /\ ~(i <= m)
          BY <1>1, <2>7, <3>1, <5>1
        <5>5. w.key # k
          BY <3>1, <3>2, <5>4
        <5> QED BY <2>4, <5>3, <5>5
      <4> QED BY <4>1, <4>2
    <3>3. SentIsServed(d, k)'
      BY <1>1, <1>9, <3>1, <3>2 DEF SentIsServed
    <3>4. Local(d, k)' = Local(d, k)
      <4>1. CASE WritesTo(q, k) = {}
        <5>1. w.key # k
          BY <1>1, <2>7, <3>1, <4>1 DEF WritesTo
        <5> QED BY <1>1, <1>9, <2>4, <4>1, <5>1 DEF Local, WritesTo
      <4>2. CASE WritesTo(q, k) # {}
        BY <1>1, <1>9, <4>2 DEF Local, WritesTo, LastWriteTo
      <4> QED BY <4>1, <4>2
    <3> QED BY <2>4, <2>5, <2>6, <3>3, <3>4 DEF StoreServes
  <2>8. CASE c # d
    <3>1. w.key # k
      BY <2>1, <2>2, <2>8 DEF SoleWriter, WritesTo
    <3>2. server'[k] = server[k] /\ applied'[d] = n
      BY <1>4, <1>6, <1>9, <2>4, <2>8, <3>1 DEF Store, AppliedOK
    <3>3. SentIsServed(d, k)'
      BY <1>1, <1>4, <1>5, <1>9, <3>2 DEF SentIsServed
    <3>4. Local(d, k)' = Local(d, k)
      BY <1>9, <3>2 DEF Local, WritesTo, LastWriteTo
    <3> QED BY <2>4, <2>5, <2>6, <3>3, <3>4 DEF StoreServes
  <2> QED BY <2>7, <2>8
<1>10. CASE (AnswerRead(c) \/ RefusalRead(c)) /\ Taken(c) /\ UNCHANGED server
  <2>1. pending[c] # <<>>
    <3>1. applied[c] \in Nat /\ applied[c] <= Len(pending[c])
      BY <1>6 DEF AppliedOK
    <3>2. Len(pending[c]) > 0
      BY <1>6, <1>10, <3>1 DEF AnswerRead, RefusalRead, Unstored
    <3> QED BY <3>2
  <2>2. PICK r \in Seq(Writes) : r = Tail(pending[c])
    <3>1. pending[c] \in Seq(Writes)
      BY <1>6
    <3> QED BY <2>1, <3>1, HeadTailProperties
  <2>3. Len(r) = Len(pending[c]) - 1 /\ \A j \in 1..Len(r) : r[j] = pending[c][j + 1]
    BY <1>6, <2>1, <2>2
  <2>4. pending' \in [Devices -> Seq(Writes)] /\ pending'[c] = r
        /\ \A e \in Devices : e # c => pending'[e] = pending[e]
    BY <1>6, <1>10, <2>2 DEF Taken, Rest
  <2>5. AppliedOK'
    BY <1>6, <1>10, <2>3, <2>4, AppliedAnswered
  <2>6. CASE c # d
    <3>1. pending'[d] = q /\ applied'[d] = n
      BY <1>1, <1>4, <1>6, <1>10, <2>4, <2>6 DEF AnswerRead, RefusalRead, Lost, AppliedOK
    <3>2. SentIsServed(d, k)'
      BY <1>5, <1>10, <3>1 DEF SentIsServed
    <3>3. Local(d, k)' = Local(d, k)
      BY <1>1, <1>10, <3>1 DEF Local, WritesTo, LastWriteTo
    <3> QED BY <1>6, <1>10, <2>4, <2>5, <3>2, <3>3 DEF StoreServes
  <2>7. CASE c = d /\ RefusalRead(c)
    <3>1. applied'[d] = 0
      BY <1>6, <2>7 DEF RefusalRead, Lost, AppliedOK
    <3>2. SentIsServed(d, k)'
      BY <2>3, <2>4, <2>7, <3>1 DEF SentIsServed
    <3> QED BY <1>6, <1>10, <2>4, <2>5, <2>7, <3>2 DEF StoreServes
  <2>8. CASE c = d /\ AnswerRead(c)
    <3>1. applied'[d] = n - 1 /\ n > 0
      BY <1>4, <1>6, <2>8 DEF AnswerRead, AppliedOK
    <3>2. \A j \in 1..Len(r) : j + 1 \in 1..Len(q) /\ r[j] = q[j + 1]
      BY <1>1, <1>3, <2>3, <2>8
    <3>3. ASSUME NEW m \in 1..Len(r), m <= n - 1, r[m].key = k,
                 \A j \in 1..Len(r) : j <= n - 1 /\ r[j].key = k => j <= m
          PROVE  server'[k] = r[m].value
      <4>1. m + 1 \in 1..Len(q) /\ m + 1 <= n /\ q[m + 1].key = k /\ r[m] = q[m + 1]
        BY <3>2, <3>3
      <4>2. ASSUME NEW j \in 1..Len(q), j <= n, q[j].key = k PROVE j <= m + 1
        <5>1. CASE j = 1
          BY <3>3, <5>1
        <5>2. CASE j # 1
          <6>1. j - 1 \in 1..Len(r) /\ (j - 1) + 1 = j /\ j - 1 <= n - 1
            BY <1>1, <1>3, <2>3, <2>8, <4>2, <5>2
          <6>2. r[j - 1].key = k
            BY <3>2, <4>2, <6>1
          <6>3. j - 1 <= m
            BY <3>3, <6>1, <6>2
          <6> QED BY <6>3
        <5> QED BY <5>1, <5>2
      <4>3. server[k] = q[m + 1].value
        BY <1>5, <4>1, <4>2
      <4> QED BY <1>10, <4>1, <4>3
    <3>4. SentIsServed(d, k)'
      BY <2>4, <2>8, <3>1, <3>3 DEF SentIsServed
    <3>5. q # <<>> /\ r = Tail(q)
      BY <1>1, <2>1, <2>2, <2>8
    <3>6. q[1].key = k /\ (\A j \in 1..Len(q) : q[j].key = k => j = 1) => server[k] = q[1].value
      <4>1. 1 \in 1..Len(q) /\ 1 <= n
        BY <1>3, <1>4, <3>1
      <4> QED BY <1>5, <4>1
    <3>7. ReadsAs(r, server[k], k, v)
      BY <1>3, <3>5, <3>6, TailReads
    <3>8. v = IF WritesTo(r, k) = {} THEN server[k] ELSE r[LastWriteTo(r, k)].value
      BY <3>7, LocalReads
    <3>9. Local(d, k)' = IF WritesTo(r, k) = {} THEN server[k] ELSE r[LastWriteTo(r, k)].value
      BY <1>10, <2>4, <2>8 DEF Local, WritesTo, LastWriteTo
    <3>10. Local(d, k)' = Local(d, k)
      BY <1>2, <3>8, <3>9
    <3> QED BY <1>6, <1>10, <2>4, <2>5, <3>4, <3>10 DEF StoreServes
  <2> QED BY <1>10, <2>6, <2>7, <2>8
<1>11. CASE Lost(c) /\ UNCHANGED <<server, pending>>
  <2>1. AppliedOK'
    <3>1. \A e \in Devices : Len(pending[e]) \in Nat /\ Len(pending'[e]) = Len(pending[e])
      BY <1>6, <1>11
    <3> QED BY <1>6, <1>11, <3>1, AppliedLost
  <2>2. applied'[d] = n \/ applied'[d] = 0
    BY <1>4, <1>6, <1>11 DEF Lost, AppliedOK
  <2>3. SentIsServed(d, k)'
    BY <1>1, <1>5, <1>11, <2>2 DEF SentIsServed
  <2>4. Local(d, k)' = Local(d, k)
    BY <1>11 DEF Local, WritesTo, LastWriteTo
  <2> QED BY <1>6, <1>11, <2>1, <2>3, <2>4 DEF StoreServes
<1> QED BY <1>7, <1>8, <1>9, <1>10, <1>11

LEMMA StartServes ==
  ASSUME NEW V, NEW documents \in [DocIds -> V], NEW Writes, NEW d \in Devices, NEW k \in DocIds,
         StoreInit(documents)
  PROVE  StoreServes(d, k, V, Writes)
<1>1. \A c \in Devices : pending[c] = <<>> /\ applied[c] = 0 /\ Len(pending[c]) = 0
  BY DEF StoreInit
<1>2. AppliedOK
  BY <1>1 DEF StoreInit, AppliedOK
<1>3. SentIsServed(d, k)
  BY <1>1 DEF SentIsServed
<1>4. pending \in [Devices -> Seq(Writes)]
  BY DEF StoreInit
<1> QED BY <1>2, <1>3, <1>4 DEF StoreInit, StoreServes

LEMMA StutterServes ==
  ASSUME NEW V, NEW Writes, NEW d, NEW k, StoreServes(d, k, V, Writes), UNCHANGED store
  PROVE  StoreServes(d, k, V, Writes)'
BY DEF store, StoreServes, AppliedOK, SentIsServed

(***************************************************************************)
(* What the app takes for granted of Firestore when it reads a document    *)
(* that only it writes, such as its user's: it finds what it has written,  *)
(* and keeps finding it while the writes of its queue are stored, answered *)
(* and, after a lost connection, stored once more.  Only a refusal takes a *)
(* write back.                                                             *)
(***************************************************************************)
THEOREM ReadYourWrites ==
  ASSUME NEW V, NEW documents \in [DocIds -> V], NEW Writes,
         \A w \in Writes : w.key \in DocIds /\ w.value \in V,
         NEW d \in Devices, NEW k \in DocIds
  PROVE  StoreInit(documents) /\ [][StoreNext(Writes)]_store /\ []SoleWriter(d, k)
           => ReadsStay(d, k)
<1> DEFINE Stays == \/ Local(d, k)' = Local(d, k)
                    \/ WritesAndReads(d, k)
                    \/ RefusalRead(d) /\ Taken(d)
           Serves == StoreServes(d, k, V, Writes)
           Sole == SoleWriter(d, k)
           Step == StoreNext(Writes)
           Start == StoreInit(documents)
<1>1. Start => Serves
  BY StartServes
<1>2. Serves /\ Sole /\ [Step]_store => Serves'
  BY StepReads, StutterServes
<1>3. Serves /\ Sole /\ [Step]_store => [Stays]_store
  BY StepReads
<1> HIDE DEF Stays, Serves, Sole, Step, Start
<1>4. Start /\ [][Step]_store /\ []Sole => [][Stays]_store
  BY <1>1, <1>2, <1>3, PTL
<1> QED BY <1>4 DEF Stays, Serves, Sole, Step, Start, ReadsStay
===============================================================================
