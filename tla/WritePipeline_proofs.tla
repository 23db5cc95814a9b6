------------------------- MODULE WritePipeline_proofs -------------------------
(***************************************************************************)
(* Proofs about WritePipeline, for any users, documents, length of the     *)
(* pipeline and number of writes.                                          *)
(***************************************************************************)
EXTENDS WritePipeline, OrderLemmas, SequenceTheorems

(***************************************************************************)
(* Sequences.                                                              *)
(***************************************************************************)
LEMMA Lengths ==
  ASSUME NEW S, NEW s \in Seq(S)
  PROVE  Len(s) \in Nat /\ (s # <<>> => Len(s) > 0) /\ (Len(s) > 0 => s # <<>>)
<1>1. Len(s) \in Nat /\ (s # <<>> => Len(s) \in Nat \ {0})
  BY EmptySeq
<1>2. Len(<<>>) = 0
  BY EmptySeq
<1> QED BY <1>1, <1>2

LEMMA FirstIsHead ==
  ASSUME NEW S, NEW s \in Seq(S), s # <<>>
  PROVE  s[1] = Head(s) /\ Head(s) \in S /\ Tail(s) \in Seq(S)
         /\ Len(Tail(s)) = Len(s) - 1
         /\ \A i \in 1..(Len(s) - 1) : Tail(s)[i] = s[i + 1]
<1>1. s[1] = Head(s)
  OBVIOUS
<1> QED BY <1>1, HeadTailProperties

LEMMA HeadOfConcat ==
  ASSUME NEW S, NEW r \in Seq(S), NEW s \in Seq(S), r # <<>>
  PROVE  /\ r \o s \in Seq(S) /\ r \o s # <<>>
         /\ Head(r \o s) = Head(r) /\ Tail(r \o s) = Tail(r) \o s
<1>1. /\ r \o s \in Seq(S) /\ Len(r \o s) = Len(r) + Len(s)
      /\ \A i \in 1..(Len(r) + Len(s)) :
           (r \o s)[i] = IF i <= Len(r) THEN r[i] ELSE s[i - Len(r)]
  BY ConcatProperties
<1>2. Len(r) \in Nat /\ Len(r) > 0 /\ Len(s) \in Nat
  BY Lengths
<1>3. PICK t \in Seq(S) : t = r \o s
  BY <1>1
<1>4. t # <<>>
  BY <1>1, <1>2, <1>3, Lengths
<1>5. Head(t) = Head(r)
  <2>1. t[1] = r[1]
    BY <1>1, <1>2, <1>3
  <2> QED BY <2>1, <1>4, FirstIsHead
<1>6. PICK u \in Seq(S) : u = Tail(r)
  BY FirstIsHead
<1>7. Len(u) = Len(r) - 1 /\ \A i \in 1..(Len(r) - 1) : u[i] = r[i + 1]
  BY <1>6, FirstIsHead
<1>8. /\ u \o s \in Seq(S) /\ Len(u \o s) = Len(u) + Len(s)
      /\ \A i \in 1..(Len(u) + Len(s)) :
           (u \o s)[i] = IF i <= Len(u) THEN u[i] ELSE s[i - Len(u)]
  BY ConcatProperties
<1>9. PICK v \in Seq(S) : v = u \o s
  BY <1>8
<1>10. PICK w \in Seq(S) : w = Tail(t)
  BY <1>4, FirstIsHead
<1>11. Len(w) = Len(t) - 1 /\ \A i \in 1..(Len(t) - 1) : w[i] = t[i + 1]
  BY <1>4, <1>10, FirstIsHead
<1>12. Len(w) = Len(v)
  BY <1>1, <1>2, <1>3, <1>7, <1>8, <1>9, <1>11
<1>13. ASSUME NEW i \in 1..Len(w) PROVE w[i] = v[i]
  <2>1. i \in Int /\ 1 <= i /\ i <= Len(r) + Len(s) - 1 /\ i + 1 \in 1..(Len(r) + Len(s))
    BY <1>1, <1>2, <1>3, <1>11
  <2>2. w[i] = t[i + 1]
    BY <1>1, <1>2, <1>3, <1>11, <2>1
  <2>3. CASE i + 1 <= Len(r)
    <3>1. t[i + 1] = r[i + 1]
      BY <1>1, <1>3, <2>1, <2>3
    <3>2. v[i] = u[i] /\ u[i] = r[i + 1]
      BY <1>2, <1>7, <1>8, <1>9, <2>1, <2>3
    <3> QED BY <2>2, <3>1, <3>2
  <2>4. CASE ~(i + 1 <= Len(r))
    <3>1. t[i + 1] = s[i + 1 - Len(r)]
      BY <1>1, <1>3, <2>1, <2>4
    <3>2. v[i] = s[i - Len(u)]
      BY <1>2, <1>7, <1>8, <1>9, <2>1, <2>4
    <3>3. i - Len(u) = i + 1 - Len(r)
      BY <1>2, <1>7, <2>1
    <3> QED BY <2>2, <3>1, <3>2, <3>3
  <2> QED BY <2>3, <2>4
<1>14. w = v
  BY <1>12, <1>13, SeqEqual
<1> QED BY <1>1, <1>3, <1>4, <1>5, <1>6, <1>9, <1>10, <1>14

\* Moving the head of the second sequence to the end of the first.
LEMMA HeadMoved ==
  ASSUME NEW S, NEW r \in Seq(S), NEW s \in Seq(S), s # <<>>
  PROVE  Append(r, Head(s)) \in Seq(S) /\ Append(r, Head(s)) \o Tail(s) = r \o s
<1>1. PICK e \in S : e = Head(s)
  BY FirstIsHead
<1>2. PICK t \in Seq(S) : t = Tail(s)
  BY FirstIsHead
<1>3. /\ Append(r, e) \in Seq(S) /\ Append(r, e) = r \o <<e>>
  BY AppendProperties, AppendIsConcat
<1>4. <<e>> \in Seq(S)
  OBVIOUS
<1>5. (r \o <<e>>) \o t = r \o (<<e>> \o t)
  BY <1>4, ConcatAssociative
<1>6. <<e>> \o t = s
  <2>1. Len(s) \in Nat /\ Len(s) > 0 /\ 1 \in 1..Len(s) /\ Len(s) \in 1..Len(s)
    BY Lengths
  <2>2. SubSeq(s, 1, Len(s)) = <<s[1]>> \o SubSeq(s, 2, Len(s))
    BY <2>1, SubSeqRecursiveFirst
  <2>3. SubSeq(s, 1, Len(s)) = s /\ Tail(s) = SubSeq(s, 2, Len(s)) /\ s[1] = Head(s)
    BY SubSeqFull, TailIsSubSeq, FirstIsHead
  <2> QED BY <1>1, <1>2, <2>2, <2>3
<1> QED BY <1>1, <1>2, <1>3, <1>5, <1>6

\* A part of a sequence that is the whole of another one.
LEMMA ConcatIsSingle ==
  ASSUME NEW S, NEW r \in Seq(S), NEW s \in Seq(S), NEW e, r \o s = <<e>>, r # <<>>
  PROVE  Tail(r) = <<>> /\ s = <<>> /\ Head(r) = e
<1>1. Tail(r) \o s = Tail(<<e>>) /\ Head(r) = Head(<<e>>)
  <2>1. PICK q : q = r \o s
    OBVIOUS
  <2>2. Tail(r) \o s = Tail(q) /\ Head(r) = Head(q)
    BY <2>1, HeadOfConcat
  <2> QED BY <2>1, <2>2
<1>2. Tail(<<e>>) = <<>> /\ Head(<<e>>) = e
  OBVIOUS
<1>3. PICK t \in Seq(S) : t = Tail(r)
  BY FirstIsHead
<1>4. t \o s = <<>>
  BY <1>1, <1>2, <1>3
<1> QED BY <1>1, <1>2, <1>3, <1>4, ConcatEqualIffEmpty

(***************************************************************************)
(* Queues: their first batches, the ones that the pipeline holds, and the  *)
(* ones it takes in next.                                                  *)
(***************************************************************************)
Increasing(q) == \A i \in 1..Len(q) : \A j \in 1..(i - 1) : q[j].id < q[i].id

PortionLength(q) == IF Len(q) < Window THEN Len(q) ELSE Window

Portion(q) == SubSeq(q, 1, PortionLength(q))

LEMMA BatchFields ==
  ASSUME NEW q \in Seq(Batches), NEW i \in 1..Len(q)
  PROVE  /\ q[i] \in Batches
         /\ q[i].id \in Values /\ q[i].key \in Keys /\ q[i].value \in Values
<1>1. q[i] \in Batches
  BY ElementOfSeq
<1> QED BY <1>1 DEF Batches

LEMMA PortionLengths ==
  ASSUME NEW q \in Seq(Batches)
  PROVE  /\ PortionLength(q) \in 0..Len(q) /\ PortionLength(q) <= Window
         /\ q # <<>> => PortionLength(q) >= 1
         /\ Portion(q) \in Seq(Batches) /\ Len(Portion(q)) = PortionLength(q)
         /\ \A i \in 1..PortionLength(q) : Portion(q)[i] = q[i]
<1>1. Len(q) \in Nat /\ (q # <<>> => Len(q) > 0)
  BY Lengths
<1>2. /\ PortionLength(q) \in 0..Len(q) /\ PortionLength(q) <= Window
      /\ q # <<>> => PortionLength(q) >= 1
  BY <1>1, WindowAssumption DEF PortionLength
<1>3. PICK n \in 0..Len(q) : n = PortionLength(q)
  BY <1>2
<1>4. \A i \in 1..n : q[i] \in Batches
  BY <1>1, <1>3, ElementOfSeq
<1>5. /\ SubSeq(q, 1, n) \in Seq(Batches)
      /\ Len(SubSeq(q, 1, n)) = IF 1 <= n THEN n - 1 + 1 ELSE 0
      /\ \A i \in 1..(n - 1 + 1) : SubSeq(q, 1, n)[i] = q[1 + i - 1]
  <2>1. 1 \in Int /\ n \in Int
    BY <1>1
  <2> QED BY <1>4, <2>1, SubSeqProperties
<1>6. Len(SubSeq(q, 1, n)) = n /\ \A i \in 1..n : SubSeq(q, 1, n)[i] = q[i]
  BY <1>1, <1>5
<1> QED BY <1>2, <1>3, <1>5, <1>6 DEF Portion

\* The pipeline is empty only when the queue is, starts with the queue's oldest
\* batch, and is without it a head of the rest of the queue.
LEMMA PortionParts ==
  ASSUME NEW q \in Seq(Batches)
  PROVE  /\ Portion(<<>>) = <<>>
         /\ (Portion(q) = <<>>) <=> (q = <<>>)
         /\ Portion(q) # <<>> => Head(Portion(q)) = Head(q)
         /\ Portion(q) # <<>> => \E k \in 0..Len(Tail(q)) :
               k <= Window /\ Tail(Portion(q)) = SubSeq(Tail(q), 1, k)
<1>1. /\ PortionLength(q) \in 0..Len(q) /\ PortionLength(q) <= Window
      /\ q # <<>> => PortionLength(q) >= 1
      /\ Portion(q) \in Seq(Batches) /\ Len(Portion(q)) = PortionLength(q)
  BY PortionLengths
<1>2. Len(q) \in Nat /\ Window \in Nat /\ Window >= 1
  BY Lengths, WindowAssumption
<1>3. Portion(<<>>) = <<>>
  <2>1. Len(<<>>) = 0
    BY EmptySeq
  <2>2. PortionLength(<<>>) = 0
    BY <2>1, <1>2 DEF PortionLength
  <2>3. SubSeq(<<>>, 1, 0) = <<>>
    BY SubSeqEmpty
  <2> QED BY <2>2, <2>3 DEF Portion
<1>4. Portion(q) = <<>> => q = <<>>
  BY <1>1, EmptySeq
<1>5. ASSUME Portion(q) # <<>>
      PROVE  /\ Head(Portion(q)) = Head(q)
             /\ \E k \in 0..Len(Tail(q)) :
                   k <= Window /\ Tail(Portion(q)) = SubSeq(Tail(q), 1, k)
  <2>1. q # <<>>
    BY <1>3, <1>5
  <2>2. Len(q) > 0
    BY <2>1, Lengths
  <2>3. PICK n \in 1..Len(q) : n = PortionLength(q)
    BY <1>1, <1>2, <2>1
  <2>4. /\ Head(SubSeq(q, 1, n)) = q[1]
        /\ Tail(SubSeq(q, 1, n)) = SubSeq(q, 2, n)
    <3>1. 1 \in 1..Len(q)
      BY <1>2, <2>2
    <3>2. /\ Head(SubSeq(q, 1, n)) = q[1]
          /\ Tail(SubSeq(q, 1, n)) = SubSeq(q, 1 + 1, n)
      BY <3>1, <2>3, HeadTailOfSubSeq
    <3> QED BY <3>2
  <2>5. Head(Portion(q)) = Head(q)
    BY <2>1, <2>3, <2>4, FirstIsHead DEF Portion
  <2>6. PICK t \in Seq(Batches) : t = Tail(q)
    BY <2>1, FirstIsHead
  <2>7. Len(t) = Len(q) - 1 /\ \A i \in 1..(Len(q) - 1) : t[i] = q[i + 1]
    BY <2>1, <2>6, FirstIsHead
  <2>8. \A i \in 1..(n - 1) : t[i] \in Batches
    BY <1>2, <2>3, <2>7, ElementOfSeq
  <2>9. PICK w : w = SubSeq(t, 1, n - 1)
    OBVIOUS
  <2>10. /\ w \in Seq(Batches)
         /\ Len(w) = IF 1 <= n - 1 THEN n - 1 - 1 + 1 ELSE 0
         /\ \A i \in 1..(n - 1 - 1 + 1) : w[i] = t[1 + i - 1]
    <3>1. 1 \in Int /\ n - 1 \in Int
      BY <2>3
    <3> QED BY <2>8, <2>9, <3>1, SubSeqProperties
  <2>11. Len(w) = n - 1 /\ \A i \in 1..(n - 1) : w[i] = q[i + 1]
    <3>1. Len(w) = n - 1
      BY <2>3, <2>10
    <3>2. \A i \in 1..(n - 1) : w[i] = t[i]
      BY <2>3, <2>10
    <3>3. \A i \in 1..(n - 1) : i \in 1..(Len(q) - 1)
      BY <1>2, <2>3
    <3> QED BY <3>1, <3>2, <3>3, <2>7
  <2>12. PICK x : x = SubSeq(q, 2, n)
    OBVIOUS
  <2>13. /\ x \in Seq(Batches)
         /\ Len(x) = IF 2 <= n THEN n - 2 + 1 ELSE 0
         /\ \A i \in 1..(n - 2 + 1) : x[i] = q[2 + i - 1]
    <3>1. 2 \in Int /\ n \in Int /\ \A i \in 2..n : q[i] \in Batches
      BY <1>2, <2>3, ElementOfSeq
    <3> QED BY <2>12, <3>1, SubSeqProperties
  <2>14. Len(x) = n - 1 /\ \A i \in 1..(n - 1) : x[i] = q[i + 1]
    <3>1. Len(x) = n - 1
      BY <2>3, <2>13
    <3>2. \A i \in 1..(n - 1) : i \in 1..(n - 2 + 1) /\ 2 + i - 1 = i + 1
      BY <2>3
    <3> QED BY <3>1, <3>2, <2>13
  <2>15. x = w
    <3>1. \A i \in 1..Len(x) : x[i] = w[i]
      BY <2>11, <2>14
    <3> QED BY <3>1, <2>10, <2>11, <2>13, <2>14, SeqEqual
  <2>16. n - 1 \in 0..Len(t) /\ n - 1 <= Window
    BY <1>1, <1>2, <2>3, <2>7
  <2>17. Tail(Portion(q)) = SubSeq(t, 1, n - 1)
    BY <2>3, <2>4, <2>9, <2>12, <2>15 DEF Portion
  <2> QED BY <2>5, <2>6, <2>16, <2>17
<1> QED BY <1>3, <1>4, <1>5

\* What FillWritePipeline adds to a head of the queue makes it the portion.
LEMMA BatchesAdded ==
  ASSUME NEW q \in Seq(Batches), Increasing(q),
         NEW k \in 0..Len(q), k <= Window, NEW p, p = SubSeq(q, 1, k)
  PROVE  /\ p \in Seq(Batches)
         /\ NewBatches(q, p) \in Seq(Batches)
         /\ p \o NewBatches(q, p) = Portion(q)
<1>1. Len(q) \in Nat /\ Window \in Nat /\ Window >= 1
  BY Lengths, WindowAssumption
<1>2. p \in Seq(Batches) /\ Len(p) = k /\ \A i \in 1..k : p[i] = q[i]
  <2>1. 1 \in Int /\ k \in Int /\ \A i \in 1..k : q[i] \in Batches
    BY <1>1, ElementOfSeq
  <2>2. /\ p \in Seq(Batches) /\ Len(p) = IF 1 <= k THEN k - 1 + 1 ELSE 0
        /\ \A i \in 1..(k - 1 + 1) : p[i] = q[1 + i - 1]
    BY <2>1, SubSeqProperties
  <2>3. Len(p) = k
    BY <2>2
  <2>4. \A i \in 1..k : p[i] = q[i]
    BY <2>2
  <2> QED BY <2>2, <2>3, <2>4
<1>3. p # <<>> <=> k > 0
  BY <1>2, Lengths
<1> DEFINE Good(n) == \A i \in 1..Len(q) : i <= n <=> p # <<>> /\ q[i].id <= p[Len(p)].id
<1>4. Good(k)
  <2> SUFFICES ASSUME NEW i \in 1..Len(q)
               PROVE  i <= k <=> p # <<>> /\ q[i].id <= p[Len(p)].id
    OBVIOUS
  <2>1. CASE k = 0
    BY <2>1, <1>1, <1>3
  <2>2. CASE k > 0
    <3>1. p[Len(p)] = q[k] /\ k \in 1..Len(q)
      BY <1>2, <2>2
    <3>2. q[i].id \in Values /\ q[k].id \in Values
      BY <3>1, BatchFields
    <3>3. CASE i < k
      <4>1. i \in 1..(k - 1)
        BY <1>1, <3>3
      <4>2. q[i].id < q[k].id
        BY <3>1, <4>1 DEF Increasing
      <4> QED BY <1>3, <2>2, <3>1, <3>2, <3>3, <4>2 DEF Values
    <3>4. CASE i = k
      BY <1>3, <2>2, <3>1, <3>2, <3>4 DEF Values
    <3>5. CASE i > k
      <4>1. k \in 1..(i - 1)
        BY <1>1, <2>2, <3>5
      <4>2. q[k].id < q[i].id
        BY <4>1 DEF Increasing
      <4> QED BY <1>3, <2>2, <3>1, <3>2, <3>5, <4>2, MaxWritesAssumption DEF Values
    <3> QED BY <1>1, <3>3, <3>4, <3>5
  <2> QED BY <2>1, <2>2
<1>5. ASSUME NEW n \in 0..Len(q), Good(n) PROVE n = k
  <2>1. \A i \in 1..Len(q) : i <= n <=> i <= k
    BY <1>4, <1>5
  <2>2. ~(n < k)
    <3>1. k > 0 => k \in 1..Len(q)
      BY <1>1
    <3> HIDE DEF Good
    <3> QED BY <2>1, <3>1, <1>1
  <2>3. ~(k < n)
    <3>1. n > 0 => n \in 1..Len(q)
      BY <1>1
    <3> HIDE DEF Good
    <3> QED BY <2>1, <3>1, <1>1
  <2> HIDE DEF Good
  <2> QED BY <2>2, <2>3, <1>1
<1>6. Passed(q, p) = k
  <2>1. Passed(q, p) = CHOOSE n \in 0..Len(q) : Good(n)
    BY DEF Passed
  <2> HIDE DEF Good
  <2>2. \E n \in 0..Len(q) : Good(n)
    BY <1>4
  <2>3. \A n \in 0..Len(q) : Good(n) => n = k
    BY <1>5
  <2> QED BY <2>1, <2>2, <2>3
<1>7. PICK m \in k..Len(q) : m = PortionLength(q)
  <2>1. PortionLength(q) \in k..Len(q)
    BY <1>1 DEF PortionLength
  <2> QED BY <2>1
<1>8. NewBatches(q, p) = SubSeq(q, k + 1, m)
  <2>1. k + Window - Len(p) = Window
    BY <1>1, <1>2
  <2> QED BY <1>6, <1>7, <2>1 DEF NewBatches, PortionLength
<1>9. SubSeq(q, 1, k) \o SubSeq(q, k + 1, m) = SubSeq(q, 1, m)
  <2>1. 1 \in 1..(Len(q) + 1) /\ k \in (1 - 1)..Len(q)
    BY <1>1
  <2> QED BY <2>1, <1>7, ConcatAdjacentSubSeq
<1>10. NewBatches(q, p) \in Seq(Batches)
  <2>1. k + 1 \in Int /\ m \in Int /\ \A i \in (k + 1)..m : q[i] \in Batches
    BY <1>1, <1>7, ElementOfSeq
  <2>2. PICK l \in Int : l = k + 1
    BY <2>1
  <2>3. SubSeq(q, l, m) \in Seq(Batches)
    BY <2>1, <2>2, SubSeqProperties
  <2> QED BY <1>8, <2>2, <2>3
<1>11. p \o NewBatches(q, p) = Portion(q)
  BY <1>7, <1>8, <1>9 DEF Portion
<1> QED BY <1>2, <1>10, <1>11

\* A queue that has grown still has its portion as a head.
LEMMA PortionOfLonger ==
  ASSUME NEW q \in Seq(Batches), NEW b \in Batches
  PROVE  /\ Append(q, b) \in Seq(Batches)
         /\ PortionLength(q) \in 0..Len(Append(q, b))
         /\ Portion(q) = SubSeq(Append(q, b), 1, PortionLength(q))
<1>1. /\ Append(q, b) = q \o <<b>> /\ Append(q, b) \in Seq(Batches)
      /\ Len(Append(q, b)) = Len(q) + 1 /\ <<b>> \in Seq(Batches)
  BY AppendIsConcat, AppendProperties
<1>2. Len(q) \in Nat
  BY Lengths
<1>3. PICK m \in 0..Len(q) : m = PortionLength(q)
  BY PortionLengths
<1>4. m \in 0..Len(Append(q, b))
  BY <1>1, <1>2
<1>5. SubSeq(q, 1, m) = SubSeq(q \o <<b>>, 1, m)
  <2>1. CASE m = 0
    BY <2>1, SubSeqEmpty
  <2>2. CASE m > 0
    <3>1. 1 \in 1..Len(q) /\ m \in 1..Len(q)
      BY <1>2, <2>2
    <3> QED BY <1>1, <3>1, SubSeqOfConcat1
  <2> QED BY <2>1, <2>2
<1> QED BY <1>1, <1>3, <1>4, <1>5 DEF Portion

\* Taking the oldest batch's row out of a queue leaves the rest of it.
LEMMA WithoutHead ==
  ASSUME NEW q \in Seq(Batches), Increasing(q), q # <<>>
  PROVE  Without(q, Head(q)) = Tail(q)
<1>1. Len(q) \in Nat /\ Len(q) > 0 /\ q[1] = Head(q) /\ 1 \in 1..Len(q)
  BY Lengths, FirstIsHead
<1>2. ASSUME NEW j \in 1..Len(q), q[j].id = Head(q).id PROVE j = 1
  <2>1. j # 1 => 1 \in 1..(j - 1)
    BY <1>1
  <2>2. j # 1 => q[1].id < q[j].id
    BY <2>1 DEF Increasing
  <2>3. q[1].id \in Values
    BY <1>1, BatchFields
  <2> QED BY <1>1, <1>2, <2>2, <2>3 DEF Values
<1>3. (CHOOSE j \in 1..Len(q) : q[j].id = Head(q).id) = 1
  BY <1>1, <1>2
<1>4. Without(q, Head(q)) = SubSeq(q, 1, 1 - 1) \o SubSeq(q, 1 + 1, Len(q))
  BY <1>3 DEF Without
<1>5. SubSeq(q, 1, 1 - 1) = <<>>
  BY SubSeqEmpty
<1>6. SubSeq(q, 1 + 1, Len(q)) = Tail(q)
  BY TailIsSubSeq
<1>7. PICK t \in Seq(Batches) : t = Tail(q)
  BY FirstIsHead
<1>8. <<>> \o t = t
  BY ConcatEmptySeq
<1> QED BY <1>4, <1>5, <1>6, <1>7, <1>8

\* The ids of what is left increase too, and of a queue that has grown by a
\* batch of a greater id.
LEMMA TailIncreases ==
  ASSUME NEW q \in Seq(Batches), Increasing(q), q # <<>>
  PROVE  Increasing(Tail(q))
<1>1. PICK t \in Seq(Batches) : t = Tail(q)
  BY FirstIsHead
<1>2. Len(t) = Len(q) - 1 /\ \A i \in 1..(Len(q) - 1) : t[i] = q[i + 1]
  BY <1>1, FirstIsHead
<1>3. Len(q) \in Nat
  BY Lengths
<1>4. ASSUME NEW i \in 1..Len(t), NEW j \in 1..(i - 1) PROVE t[j].id < t[i].id
  <2>1. i + 1 \in 1..Len(q) /\ j + 1 \in 1..((i + 1) - 1) /\ j \in 1..(Len(q) - 1)
        /\ i \in 1..(Len(q) - 1)
    BY <1>2, <1>3
  <2>2. q[j + 1].id < q[i + 1].id
    BY <2>1 DEF Increasing
  <2> QED BY <1>2, <2>1, <2>2
<1> QED BY <1>1, <1>4 DEF Increasing

LEMMA AppendIncreases ==
  ASSUME NEW q \in Seq(Batches), Increasing(q), NEW b \in Batches,
         \A i \in 1..Len(q) : q[i].id < b.id
  PROVE  Increasing(Append(q, b))
<1>1. PICK t \in Seq(Batches) : t = Append(q, b)
  BY AppendProperties
<1>2. /\ Len(t) = Len(q) + 1 /\ t[Len(q) + 1] = b
      /\ \A i \in 1..Len(q) : t[i] = q[i]
  BY <1>1, AppendProperties
<1>3. Len(q) \in Nat
  BY Lengths
<1>4. ASSUME NEW i \in 1..Len(t), NEW j \in 1..(i - 1) PROVE t[j].id < t[i].id
  <2>1. CASE i = Len(q) + 1
    <3>1. j \in 1..Len(q)
      BY <1>3, <2>1
    <3> QED BY <1>2, <2>1, <3>1
  <2>2. CASE i # Len(q) + 1
    <3>1. i \in 1..Len(q) /\ j \in 1..Len(q)
      BY <1>2, <1>3, <2>2
    <3>2. q[j].id < q[i].id
      BY <3>1 DEF Increasing
    <3> QED BY <1>2, <3>1, <3>2
  <2> QED BY <2>1, <2>2
<1> QED BY <1>1, <1>4 DEF Increasing

(***************************************************************************)
(* The invariant in three parts: what is under way, what is on the disk    *)
(* and waits for it, and the history.                                      *)
(***************************************************************************)
Requests == Batches \cup {Hello}

LinkOK ==
  /\ pipeline \in Seq(Batches)
  /\ stream \in StreamStates
  /\ shaken \in BOOLEAN /\ idle \in BOOLEAN
  /\ sent \in Seq(Requests) /\ replies \in Seq(Requests)
  /\ status \in {"none", "refused"}
  /\ PipelineTracksQueue /\ AnswersMatchPipeline /\ StreamNeeded

QueuesOK ==
  /\ user \in Users
  /\ rows \in [Users -> Seq(Batches)]
  /\ nextId \in 1..(MaxWrites + 1)
  /\ callbacks \in [Users -> SUBSET [id : Values, value : Values]]
  /\ made \in 0..MaxWrites
  /\ CallbacksMatch /\ IdsIncrease /\ NoneAhead

HistoryOK ==
  /\ server \in [Keys -> 0..MaxWrites]
  /\ wrote \in [Users -> [Keys -> SUBSET (1..made)]]
  /\ acked \subseteq 1..made /\ failed \subseteq 1..made
  /\ stored \subseteq 1..made /\ refused \subseteq 1..made
  /\ AckedIsStored /\ NothingLost /\ RepliesStored /\ RefusedIsNext

LEMMA Associative ==
  \A r, s, t \in Seq(Requests) : r \o (s \o t) = (r \o s) \o t
<1> SUFFICES ASSUME NEW r \in Seq(Requests), NEW s \in Seq(Requests),
                    NEW t \in Seq(Requests)
             PROVE  r \o (s \o t) = (r \o s) \o t
  OBVIOUS
<1> QED BY ConcatAssociative

LEMMA Parts == FlowOK <=> LinkOK /\ QueuesOK /\ HistoryOK
  BY DEF FlowOK, TypeOK, LinkOK, QueuesOK, HistoryOK, Requests

LEMMA PartsNext == FlowOK' <=> LinkOK' /\ QueuesOK' /\ HistoryOK'
  BY DEF FlowOK, TypeOK, LinkOK, QueuesOK, HistoryOK, Requests

LEMMA QueueFacts ==
  ASSUME QueuesOK
  PROVE  /\ rows[user] \in Seq(Batches) /\ Increasing(rows[user])
         /\ \A i \in 1..Len(rows[user]) : rows[user][i].id < nextId
         /\ \A u \in Users : rows[u] \in Seq(Batches) /\ Increasing(rows[u])
  BY DEF QueuesOK, IdsIncrease, Increasing

LEMMA PipelineIsPortion ==
  PipelineTracksQueue <=> pipeline = Portion(rows[user])
  BY DEF PipelineTracksQueue, Portion, PortionLength

LEMMA PipelineIsPortionNext ==
  PipelineTracksQueue' <=> pipeline' = Portion(rows'[user'])
  BY DEF PipelineTracksQueue, Portion, PortionLength

(***************************************************************************)
(* What an answer and a refusal are about.                                 *)
(***************************************************************************)

\* A batch of the pipeline is one of the user's rows, of a write that was made.
LEMMA OfThePipeline ==
  ASSUME LinkOK, QueuesOK, NEW i \in 1..Len(pipeline)
  PROVE  i \in 1..Len(rows[user]) /\ pipeline[i] = rows[user][i]
         /\ pipeline[i].value \in 1..made /\ pipeline[i].key \in Keys
<1>1. PICK q \in Seq(Batches) : q = rows[user]
  BY QueueFacts
<1>2. pipeline = Portion(q)
  BY <1>1, PipelineIsPortion DEF LinkOK
<1>3. /\ PortionLength(q) \in 0..Len(q) /\ Len(pipeline) = PortionLength(q)
      /\ \A j \in 1..PortionLength(q) : pipeline[j] = q[j]
  BY <1>2, PortionLengths
<1>4. i \in 1..Len(q) /\ pipeline[i] = q[i]
  BY <1>3, Lengths
<1>5. q[i].value <= made /\ q[i].value \in Values /\ q[i].key \in Keys
  <2>1. q[i].value <= made
    BY <1>1, <1>4 DEF QueuesOK, NoneAhead
  <2> QED BY <1>4, <2>1, BatchFields
<1>6. made \in Nat /\ pipeline[i].value \in 1..made
  BY <1>4, <1>5, MaxWritesAssumption DEF QueuesOK, Values
<1> QED BY <1>1, <1>4, <1>5, <1>6

\* The first batch of the pipeline is the oldest row.
LEMMA FirstOfThePipeline ==
  ASSUME LinkOK, QueuesOK, pipeline # <<>>
  PROVE  /\ rows[user] # <<>> /\ Head(pipeline) = Head(rows[user])
         /\ Head(pipeline) \in Batches /\ Head(pipeline).value \in 1..made
         /\ Without(rows[user], Head(pipeline)) = Tail(rows[user])
         /\ \E k \in 0..Len(Tail(rows[user])) :
               k <= Window /\ Tail(pipeline) = SubSeq(Tail(rows[user]), 1, k)
<1>1. PICK q \in Seq(Batches) : q = rows[user]
  BY QueueFacts
<1>2. pipeline = Portion(q) /\ Increasing(q) /\ pipeline \in Seq(Batches)
  BY <1>1, PipelineIsPortion, QueueFacts DEF LinkOK
<1>3. q # <<>> /\ Head(pipeline) = Head(q)
  BY <1>2, PortionParts
<1>4. \E k \in 0..Len(Tail(q)) : k <= Window /\ Tail(pipeline) = SubSeq(Tail(q), 1, k)
  BY <1>2, PortionParts
<1>5. Without(q, Head(q)) = Tail(q)
  BY <1>2, <1>3, WithoutHead
<1>6. Head(pipeline) \in Batches /\ pipeline[1] = Head(pipeline)
  BY <1>2, FirstIsHead
<1>7. 1 \in 1..Len(pipeline)
  BY <1>2, Lengths
<1>8. Head(pipeline).value \in 1..made
  BY <1>6, <1>7, OfThePipeline
<1> QED BY <1>1, <1>3, <1>4, <1>5, <1>6, <1>8

\* An answer read after the handshake is the first batch's, whose write the
\* server has stored.
LEMMA AnswerIsFirsts ==
  ASSUME FlowOK, shaken, replies # <<>>
  PROVE  /\ pipeline # <<>> /\ Head(pipeline) = Head(replies)
         /\ Head(pipeline).value \in stored
         /\ Tail(replies) \in Seq(Requests)
         /\ Tail(replies) \o sent = Tail(pipeline)
<1>1. LinkOK /\ QueuesOK /\ HistoryOK
  BY Parts
<1>2. replies \in Seq(Requests) /\ sent \in Seq(Requests) /\ replies \o sent = pipeline
  BY <1>1 DEF LinkOK, AnswersMatchPipeline
<1>3. /\ replies \o sent # <<>> /\ Head(replies \o sent) = Head(replies)
      /\ Tail(replies \o sent) = Tail(replies) \o sent
  BY <1>2, HeadOfConcat
<1>4. pipeline # <<>> /\ Head(pipeline) = Head(replies)
      /\ Tail(pipeline) = Tail(replies) \o sent
  BY <1>2, <1>3
<1>5. Head(pipeline) \in Batches
  BY <1>1, <1>4, FirstOfThePipeline
<1>6. replies[1] = Head(replies) /\ 1 \in 1..Len(replies) /\ Tail(replies) \in Seq(Requests)
  BY <1>2, FirstIsHead, Lengths
<1>7. replies[1] # Hello
  BY <1>4, <1>5, <1>6, HelloAssumption
<1>8. Head(pipeline).value \in stored
  BY <1>1, <1>4, <1>6, <1>7 DEF HistoryOK, RepliesStored
<1> QED BY <1>4, <1>6, <1>8

\* What the server has not taken, but for the handshake, is of the pipeline.
LEMMA RequestIsPipelines ==
  ASSUME FlowOK, sent # <<>>, Head(sent) # Hello
  PROVE  /\ shaken /\ pipeline # <<>>
         /\ Head(sent) \in Batches /\ Head(sent).value \in 1..made
         /\ replies = <<>> => Head(pipeline) = Head(sent)
<1>1. LinkOK /\ QueuesOK
  BY Parts
<1>2. replies \in Seq(Requests) /\ sent \in Seq(Requests) /\ shaken \in BOOLEAN
  BY <1>1 DEF LinkOK
<1>3. /\ replies \o sent \in Seq(Requests)
      /\ Len(replies \o sent) = Len(replies) + Len(sent)
      /\ \A i \in 1..(Len(replies) + Len(sent)) :
           (replies \o sent)[i] = IF i <= Len(replies) THEN replies[i]
                                                       ELSE sent[i - Len(replies)]
  BY <1>2, ConcatProperties
<1>4. Len(replies) \in Nat /\ Len(sent) \in Nat /\ Len(sent) > 0 /\ sent[1] = Head(sent)
  BY <1>2, Lengths, FirstIsHead
<1>5. PICK n \in Nat : n = Len(replies) + 1
  BY <1>4
<1>6. n \in 1..Len(replies \o sent) /\ (replies \o sent)[n] = Head(sent)
  <2>1. n \in 1..(Len(replies) + Len(sent)) /\ ~(n <= Len(replies)) /\ n - Len(replies) = 1
    BY <1>4, <1>5
  <2> QED BY <1>3, <1>4, <2>1
<1>7. shaken
  <2> SUFFICES ASSUME ~shaken PROVE FALSE
    BY <1>2
  <2>1. replies \o sent = <<Hello>> \/ replies \o sent = <<>>
    BY <1>1 DEF LinkOK, AnswersMatchPipeline
  <2>2. Len(replies \o sent) > 0
    BY <1>3, <1>4
  <2>3. Len(<<>>) = 0 /\ Len(<<Hello>>) = 1 /\ <<Hello>>[1] = Hello
    BY EmptySeq
  <2>4. replies \o sent = <<Hello>>
    BY <2>1, <2>2, <2>3
  <2>5. n = 1
    BY <1>5, <1>6, <2>3, <2>4
  <2> QED BY <1>6, <2>3, <2>4, <2>5
<1>8. pipeline = replies \o sent
  BY <1>1, <1>7 DEF LinkOK, AnswersMatchPipeline
<1>9. /\ pipeline \in Seq(Batches) /\ n \in 1..Len(pipeline) /\ pipeline[n] = Head(sent)
  BY <1>1, <1>6, <1>8 DEF LinkOK
<1>10. Head(sent) \in Batches /\ Head(sent).value \in 1..made
  BY <1>1, <1>9, ElementOfSeq, OfThePipeline
<1>11. pipeline # <<>>
  BY <1>5, <1>9, Lengths
<1>12. replies = <<>> => Head(pipeline) = Head(sent)
  BY <1>2, <1>8, ConcatEmptySeq
<1> QED BY <1>7, <1>10, <1>11, <1>12

\* When the stream has ended with a refusal, the first batch of the pipeline is
\* one the server has refused, or has stored and answered.
LEMMA RefusedIsSettled ==
  ASSUME FlowOK, status = "refused"
  PROVE  pipeline # <<>> /\ Head(pipeline).value \in stored \cup refused
<1>1. LinkOK /\ HistoryOK
  BY Parts
<1>2. shaken /\ sent # <<>>
  BY <1>1 DEF LinkOK, StreamNeeded
<1>3. CASE replies # <<>>
  BY <1>2, <1>3, AnswerIsFirsts
<1>4. CASE replies = <<>>
  <2>1. replies \o sent = pipeline /\ sent \in Seq(Requests) /\ pipeline \in Seq(Batches)
    BY <1>1, <1>2 DEF LinkOK, AnswersMatchPipeline
  <2>2. pipeline = sent
    BY <1>4, <2>1, ConcatEmptySeq
  <2> QED BY <1>1, <1>2, <2>2 DEF HistoryOK, RefusedIsNext
<1> QED BY <1>3, <1>4

(***************************************************************************)
(* Filling the pipeline.                                                   *)
(***************************************************************************)

\* On the stream as it is: from the pipeline p, of which the answers r are
\* unread and the requests sent are not taken.
LEMMA FilledOnStream ==
  ASSUME LinkOK, NEW q \in Seq(Batches), Increasing(q), NEW k \in 0..Len(q),
         k <= Window, NEW p, p = SubSeq(q, 1, k), NEW r \in Seq(Requests),
         shaken => r \o sent = p,
         ~shaken => r = replies,
         idle => shaken /\ p = <<>>,
         shaken \/ q # <<>>,
         FillWritePipeline(q, p, stream),
         replies' = r, shaken' = shaken, status' = status,
         rows'[user'] = q
  PROVE  LinkOK' /\ (status = "refused" => Head(sent') = Head(sent))
<1>1. /\ stream \in StreamStates /\ shaken \in BOOLEAN /\ idle \in BOOLEAN
      /\ sent \in Seq(Requests) /\ replies \in Seq(Requests)
      /\ status \in {"none", "refused"}
      /\ AnswersMatchPipeline /\ StreamNeeded
  BY DEF LinkOK
<1>2. PICK new \in Seq(Batches) : new = NewBatches(q, p)
  BY BatchesAdded
<1>3. p \in Seq(Batches) /\ p \o new = Portion(q) /\ Portion(q) \in Seq(Batches)
  <2>1. p \in Seq(Batches) /\ p \o NewBatches(q, p) = Portion(q)
    BY BatchesAdded
  <2> QED BY <1>2, <2>1, PortionLengths
<1>4. new \in Seq(Requests) /\ sent \o new \in Seq(Requests)
  <2>1. new \in Seq(Requests)
    BY <1>2, SeqMonotonic DEF Requests
  <2> QED BY <1>1, <2>1, ConcatProperties
<1>5. /\ pipeline' = p \o new
      /\ sent' = IF stream = "open" /\ shaken THEN sent \o new
                   ELSE IF stream = "open" THEN sent ELSE <<>>
      /\ stream' = IF ~IsStarted(stream) /\ p \o new # <<>>
                     THEN Started(stream) ELSE stream
      /\ idle' = \/ stream = "open" /\ p \o new = <<>>
                 \/ idle /\ stream = "open" /\ ~(shaken /\ new # <<>>)
  BY <1>2 DEF FillWritePipeline
<1>6. pipeline' \in Seq(Batches) /\ PipelineTracksQueue'
  BY <1>3, <1>5, PipelineIsPortionNext
<1>7. sent' \in Seq(Requests) /\ replies' \in Seq(Requests)
  BY <1>1, <1>4, <1>5, EmptySeq
<1>8. shaken => stream = "open"
  BY <1>1 DEF StreamNeeded
<1>9. stream = "open" => stream' = "open"
  BY <1>5 DEF IsStarted
<1>10. stream # "open" => stream' # "open"
  BY <1>5 DEF Started
<1>11. AnswersMatchPipeline'
  <2>1. CASE shaken
    <3>1. sent' = sent \o new
      BY <1>5, <1>8, <2>1
    <3>2. r \o (sent \o new) = (r \o sent) \o new
      <4>1. r \in Seq(Requests) /\ sent \in Seq(Requests) /\ new \in Seq(Requests)
        BY <1>1, <1>4
      <4> QED BY <4>1, Associative, Zenon
    <3>3. r \o (sent \o new) = p \o new
      BY <2>1, <3>2
    <3>4. replies' \o sent' = pipeline' /\ shaken'
      BY <1>5, <2>1, <3>1, <3>3
    <3> QED BY <3>4 DEF AnswersMatchPipeline
  <2>2. CASE ~shaken
    <3>1. r \o sent = IF stream = "open" THEN <<Hello>> ELSE <<>>
      BY <1>1, <2>2 DEF AnswersMatchPipeline
    <3>2. CASE stream = "open"
      BY <1>5, <1>9, <2>2, <3>1, <3>2 DEF AnswersMatchPipeline
    <3>3. CASE stream # "open"
      <4>1. sent' = <<>> /\ r \o sent = <<>>
        BY <1>5, <3>1, <3>3
      <4>2. r = <<>>
        BY <1>1, <4>1, ConcatEqualIffEmpty
      <4>3. r \o <<>> = r
        BY ConcatEmptySeq
      <4> QED BY <1>10, <2>2, <3>3, <4>1, <4>2, <4>3 DEF AnswersMatchPipeline
    <3> QED BY <3>2, <3>3
  <2> QED BY <1>1, <2>1, <2>2
<1>12. status = "refused" => sent' # <<>> /\ Head(sent') = Head(sent)
  <2> SUFFICES ASSUME status = "refused" PROVE sent' # <<>> /\ Head(sent') = Head(sent)
    OBVIOUS
  <2>1. shaken /\ sent # <<>>
    BY <1>1 DEF StreamNeeded
  <2>2. sent' = sent \o new
    BY <1>5, <1>8, <2>1
  <2> QED BY <1>1, <1>4, <2>1, <2>2, HeadOfConcat
<1>13. idle' => stream' = "open" /\ shaken' /\ pipeline' = <<>>
  <2> SUFFICES ASSUME idle' PROVE stream' = "open" /\ shaken' /\ pipeline' = <<>>
    OBVIOUS
  <2>1. stream' = "open"
    BY <1>5, <1>9
  <2>2. CASE p \o new = <<>>
    <3>1. q = <<>>
      BY <1>3, <2>2, PortionParts
    <3> QED BY <1>5, <2>1, <2>2, <3>1
  <2>3. CASE p \o new # <<>>
    <3>1. idle /\ ~(shaken /\ new # <<>>)
      BY <1>5, <2>3
    <3>2. shaken /\ p = <<>> /\ new = <<>>
      BY <3>1
    <3>3. p \o new = <<>>
      BY <1>3, <3>2, ConcatEmptySeq
    <3> QED BY <2>3, <3>3
  <2> QED BY <2>2, <2>3
<1>14. StreamNeeded'
  <2>1. pipeline' # <<>> => IsStarted(stream')
    BY <1>5 DEF IsStarted, Started
  <2>2. status' = "refused" => shaken' /\ sent' # <<>>
    BY <1>1, <1>12 DEF StreamNeeded
  <2> QED BY <1>8, <1>9, <1>13, <2>1, <2>2 DEF StreamNeeded
<1>15. stream' \in StreamStates /\ shaken' \in BOOLEAN /\ idle' \in BOOLEAN
       /\ status' \in {"none", "refused"}
  <2>1. stream' \in StreamStates
    BY <1>1, <1>5 DEF Started, StreamStates
  <2> QED BY <1>1, <1>5, <2>1
<1>16. LinkOK'
  BY <1>6, <1>7, <1>11, <1>14, <1>15 DEF LinkOK
<1> QED BY <1>12, <1>16

\* After the connection has gone.
LEMMA FilledAgain ==
  ASSUME NEW q \in Seq(Batches), Increasing(q), NEW k \in 0..Len(q),
         k <= Window, NEW p, p = SubSeq(q, 1, k),
         Disconnected, FillWritePipeline(q, p, "initial"), rows'[user'] = q
  PROVE  LinkOK' /\ replies' = <<>> /\ status' = "none" /\ shaken' = FALSE
<1>1. PICK new \in Seq(Batches) : new = NewBatches(q, p)
  BY BatchesAdded
<1>2. p \in Seq(Batches) /\ p \o new = Portion(q) /\ Portion(q) \in Seq(Batches)
  <2>1. p \in Seq(Batches) /\ p \o NewBatches(q, p) = Portion(q)
    BY BatchesAdded
  <2> QED BY <1>1, <2>1, PortionLengths
<1>3. /\ pipeline' = p \o new /\ sent' = <<>>
      /\ stream' = IF p \o new # <<>> THEN "starting" ELSE "initial"
      /\ idle' = FALSE
  BY <1>1 DEF FillWritePipeline, IsStarted, Started
<1>4. replies' = <<>> /\ status' = "none" /\ shaken' = FALSE
  BY DEF Disconnected
<1>5. pipeline' \in Seq(Batches) /\ PipelineTracksQueue'
  BY <1>2, <1>3, PipelineIsPortionNext
<1>6. AnswersMatchPipeline'
  <2>1. <<>> \o <<>> = <<>>
    BY EmptySeq, ConcatEmptySeq
  <2> QED BY <1>3, <1>4, <2>1 DEF AnswersMatchPipeline
<1>7. StreamNeeded'
  BY <1>3, <1>4 DEF StreamNeeded, IsStarted
<1>8. /\ sent' \in Seq(Requests) /\ replies' \in Seq(Requests)
      /\ stream' \in StreamStates
  BY <1>3, <1>4, EmptySeq DEF StreamStates
<1> QED BY <1>3, <1>4, <1>5, <1>6, <1>7, <1>8 DEF LinkOK

LEMMA Reconnected ==
  ASSUME NEW q \in Seq(Batches), Increasing(q), Reconnect(q), rows'[user'] = q
  PROVE  LinkOK' /\ replies' = <<>> /\ status' = "none" /\ shaken' = FALSE
<1>1. SubSeq(q, 1, 0) = <<>> /\ 0 \in 0..Len(q) /\ 0 <= Window
  BY SubSeqEmpty, Lengths, WindowAssumption
<1>2. Disconnected /\ FillWritePipeline(q, <<>>, "initial")
  BY DEF Reconnect
<1>3. PICK p : p = SubSeq(q, 1, 0)
  OBVIOUS
<1>4. FillWritePipeline(q, p, "initial")
  BY <1>1, <1>2, <1>3
<1> QED BY <1>1, <1>2, <1>3, <1>4, FilledAgain

(***************************************************************************)
(* A write.                                                                *)
(***************************************************************************)
LEMMA BatchWritten ==
  ASSUME FlowOK, NEW key \in Keys, Write(key)
  PROVE  \E b \in Batches :
            /\ b.id = nextId /\ b.value = made + 1 /\ b.key = key
            /\ \A i \in 1..Len(rows[user]) : rows[user][i].id < b.id
            /\ rows' = [rows EXCEPT ![user] = Append(@, b)]
            /\ callbacks' = [callbacks EXCEPT ![user] = WithCallback(@, b.id, b.value)]
            /\ FillWritePipeline(Append(rows[user], b), pipeline, stream)
<1>1. QueuesOK
  BY Parts
<1>2. PICK b : b = [id |-> nextId, key |-> key, value |-> made + 1]
  OBVIOUS
<1>3. nextId \in Values /\ made + 1 \in Values
  <2>1. nextId \in 1..(MaxWrites + 1) /\ nextId <= made + 1 /\ made \in 0..MaxWrites
    BY <1>1 DEF QueuesOK, NoneAhead
  <2>2. made < MaxWrites
    BY DEF Write
  <2> QED BY <2>1, <2>2, MaxWritesAssumption DEF Values
<1>4. b \in Batches /\ b.id = nextId /\ b.value = made + 1 /\ b.key = key
  BY <1>2, <1>3 DEF Batches
<1>5. \A i \in 1..Len(rows[user]) : rows[user][i].id < b.id
  BY <1>1, <1>4, QueueFacts
<1>6. /\ rows' = [rows EXCEPT ![user] = Append(@, b)]
      /\ callbacks' = [callbacks EXCEPT ![user] = WithCallback(@, b.id, b.value)]
      /\ FillWritePipeline(Append(rows[user], b), pipeline, stream)
  BY <1>2, <1>4, Zenon DEF Write
<1> QED BY <1>4, <1>5, <1>6

LEMMA WriteKeepsLink ==
  ASSUME FlowOK, NEW key \in Keys, Write(key)
  PROVE  LinkOK' /\ (status = "refused" => Head(sent') = Head(sent))
<1>1. LinkOK /\ QueuesOK
  BY Parts
<1>2. PICK b \in Batches :
         /\ \A i \in 1..Len(rows[user]) : rows[user][i].id < b.id
         /\ rows' = [rows EXCEPT ![user] = Append(@, b)]
         /\ FillWritePipeline(Append(rows[user], b), pipeline, stream)
  BY BatchWritten
<1>3. /\ user' = user /\ shaken' = shaken /\ replies' = replies /\ status' = status
  BY DEF Write
<1>4. PICK q \in Seq(Batches) : q = rows[user] /\ Increasing(q)
  BY <1>1, QueueFacts
<1>5. PICK r \in Seq(Batches) : r = Append(q, b)
  BY AppendProperties
<1>6. Increasing(r) /\ r # <<>>
  BY <1>2, <1>4, <1>5, AppendIncreases, AppendProperties
<1>7. PICK k \in 0..Len(r) : k <= Window /\ pipeline = SubSeq(r, 1, k)
  <2>1. pipeline = Portion(q)
    BY <1>1, <1>4, PipelineIsPortion DEF LinkOK
  <2>2. PortionLength(q) \in 0..Len(r) /\ Portion(q) = SubSeq(r, 1, PortionLength(q))
    BY <1>5, PortionOfLonger
  <2>3. PortionLength(q) <= Window
    BY PortionLengths
  <2> QED BY <2>1, <2>2, <2>3
<1>8. rows'[user'] = r
  BY <1>1, <1>2, <1>3, <1>4, <1>5 DEF QueuesOK
<1>9. PICK p : p = pipeline
  OBVIOUS
<1>10. PICK x \in Seq(Requests) : x = replies
  BY <1>1 DEF LinkOK
<1>11. shaken => x \o sent = p
  BY <1>1, <1>9, <1>10 DEF LinkOK, AnswersMatchPipeline
<1>12. idle => shaken /\ p = <<>>
  BY <1>1, <1>9 DEF LinkOK, StreamNeeded
<1>13. FillWritePipeline(r, p, stream)
  BY <1>2, <1>4, <1>5, <1>9
<1> QED
  BY <1>1, <1>3, <1>6, <1>7, <1>8, <1>9, <1>10, <1>11, <1>12, <1>13, FilledOnStream

LEMMA WriteKeepsQueues ==
  ASSUME FlowOK, NEW key \in Keys, Write(key)
  PROVE  QueuesOK'
<1>1. QueuesOK
  BY Parts
<1>2. PICK b \in Batches :
         /\ b.id = nextId /\ b.value = made + 1
         /\ \A i \in 1..Len(rows[user]) : rows[user][i].id < b.id
         /\ rows' = [rows EXCEPT ![user] = Append(@, b)]
         /\ callbacks' = [callbacks EXCEPT ![user] = WithCallback(@, b.id, b.value)]
  BY BatchWritten
<1>3. user' = user /\ nextId' = nextId + 1 /\ made' = made + 1 /\ made < MaxWrites
  BY DEF Write
<1>4. /\ user \in Users /\ rows \in [Users -> Seq(Batches)]
      /\ nextId \in 1..(MaxWrites + 1) /\ made \in 0..MaxWrites /\ nextId <= made + 1
      /\ callbacks \in [Users -> SUBSET [id : Values, value : Values]]
  BY <1>1 DEF QueuesOK, NoneAhead
<1>5. b.id \in Values /\ b.value \in Values
  BY DEF Batches
<1>6. PICK q \in Seq(Batches) : q = rows[user] /\ Increasing(q)
  BY <1>1, QueueFacts
<1>7. PICK r \in Seq(Batches) : r = Append(q, b)
  BY AppendProperties
<1>8. /\ Len(r) = Len(q) + 1 /\ r[Len(q) + 1] = b /\ \A i \in 1..Len(q) : r[i] = q[i]
  BY <1>7, AppendProperties
<1>9. Len(q) \in Nat
  BY Lengths
<1>10. rows'[user] = r /\ \A u \in Users : u # user => rows'[u] = rows[u]
  BY <1>2, <1>4, <1>6, <1>7
<1>11. rows' \in [Users -> Seq(Batches)]
  BY <1>2, <1>4, <1>6, <1>7
<1>12. made' \in 0..MaxWrites /\ nextId' \in 1..(MaxWrites + 1) /\ nextId' <= made' + 1
  BY <1>3, <1>4, MaxWritesAssumption
<1>13. PICK c : c = [id |-> b.id, value |-> b.value]
  OBVIOUS
<1>14. \A u \in Users : \A x \in callbacks'[u] : x \in callbacks[u] \/ (u = user /\ x = c)
  BY <1>2, <1>4, <1>13 DEF WithCallback
<1>15. callbacks' \in [Users -> SUBSET [id : Values, value : Values]]
  <2>1. c \in [id : Values, value : Values]
    BY <1>5, <1>13
  <2>2. WithCallback(callbacks[user], b.id, b.value)
           \in SUBSET [id : Values, value : Values]
    BY <1>4, <1>13, <2>1 DEF WithCallback
  <2> QED BY <1>2, <1>4, <2>2
<1>16. CallbacksMatch'
  <2> SUFFICES ASSUME NEW u \in Users, NEW x \in callbacks'[u]
               PROVE  \E i \in 1..Len(rows'[u]) :
                         rows'[u][i].id = x.id /\ rows'[u][i].value = x.value
    BY DEF CallbacksMatch
  <2>1. CASE x \in callbacks[u]
    <3>1. PICK i \in 1..Len(rows[u]) : rows[u][i].id = x.id /\ rows[u][i].value = x.value
      BY <1>1, <2>1 DEF QueuesOK, CallbacksMatch
    <3>2. CASE u # user
      BY <1>10, <3>1, <3>2
    <3>3. CASE u = user
      <4>1. i \in 1..Len(r) /\ r[i] = q[i]
        BY <1>6, <1>8, <1>9, <3>1, <3>3
      <4> QED BY <1>6, <1>10, <3>1, <3>3, <4>1
    <3> QED BY <3>2, <3>3
  <2>2. CASE u = user /\ x = c
    <3>1. Len(q) + 1 \in 1..Len(r)
      BY <1>8, <1>9
    <3> QED BY <1>8, <1>10, <1>13, <2>2, <3>1
  <2> QED BY <1>14, <2>1, <2>2
<1>17. \A u \in Users : Increasing(rows'[u])
  <2> SUFFICES ASSUME NEW u \in Users PROVE Increasing(rows'[u])
    OBVIOUS
  <2>1. CASE u = user
    <3>1. Increasing(r)
      BY <1>2, <1>6, <1>7, AppendIncreases
    <3> QED BY <1>10, <2>1, <3>1
  <2>2. CASE u # user
    BY <1>1, <1>10, <2>2, QueueFacts
  <2> QED BY <2>1, <2>2
<1>18. \A i \in 1..Len(r) : r[i].id < nextId + 1
  <2> SUFFICES ASSUME NEW i \in 1..Len(r) PROVE r[i].id < nextId + 1
    OBVIOUS
  <2>1. CASE i = Len(q) + 1
    BY <1>2, <1>4, <1>8, <2>1
  <2>2. CASE i # Len(q) + 1
    <3>1. i \in 1..Len(q) /\ r[i] = q[i]
      BY <1>8, <1>9, <2>2
    <3>2. q[i].id < nextId /\ q[i].id \in Values
      BY <1>2, <1>6, <3>1, BatchFields
    <3> QED BY <1>4, <3>1, <3>2, MaxWritesAssumption DEF Values
  <2> QED BY <2>1, <2>2
<1>19. IdsIncrease'
  BY <1>3, <1>10, <1>17, <1>18 DEF IdsIncrease, Increasing
<1>20. NoneAhead'
  <2> SUFFICES ASSUME NEW u \in Users, NEW i \in 1..Len(rows'[u])
               PROVE  rows'[u][i].id <= made' /\ rows'[u][i].value <= made'
    BY <1>12 DEF NoneAhead
  <2>1. \A v \in Users : \A j \in 1..Len(rows[v]) :
           /\ rows[v][j].id <= made /\ rows[v][j].value <= made
           /\ rows[v][j].id \in Values /\ rows[v][j].value \in Values
    BY <1>1, <1>4, BatchFields DEF QueuesOK, NoneAhead
  <2>2. CASE u # user
    <3>1. /\ rows'[u][i].id <= made /\ rows'[u][i].value <= made
          /\ rows'[u][i].id \in Values /\ rows'[u][i].value \in Values
      BY <1>10, <2>1, <2>2
    <3> QED BY <1>3, <1>4, <3>1 DEF Values
  <2>3. CASE u = user /\ i = Len(q) + 1
    BY <1>2, <1>3, <1>4, <1>8, <1>10, <2>3
  <2>4. CASE u = user /\ i # Len(q) + 1
    <3>1. i \in 1..Len(q) /\ rows'[u][i] = q[i]
      BY <1>8, <1>9, <1>10, <2>4
    <3>2. /\ q[i].id <= made /\ q[i].value <= made
          /\ q[i].id \in Values /\ q[i].value \in Values
      BY <1>4, <1>6, <2>1, <3>1
    <3> QED BY <1>3, <1>4, <3>1, <3>2 DEF Values
  <2> QED BY <2>2, <2>3, <2>4
<1> QED BY <1>3, <1>4, <1>11, <1>12, <1>15, <1>16, <1>19, <1>20 DEF QueuesOK

LEMMA WriteKeepsHistory ==
  ASSUME FlowOK, NEW key \in Keys, Write(key)
  PROVE  HistoryOK'
<1>1. LinkOK /\ QueuesOK /\ HistoryOK
  BY Parts
<1>2. PICK b \in Batches :
         b.value = made + 1 /\ rows' = [rows EXCEPT ![user] = Append(@, b)]
  BY BatchWritten
<1>3. /\ made' = made + 1 /\ replies' = replies /\ status' = status
      /\ UNCHANGED <<server, acked, failed, stored, refused>>
  BY DEF Write
<1>4. made \in 0..MaxWrites
  BY <1>1 DEF QueuesOK
<1>5. /\ acked' \subseteq 1..made' /\ failed' \subseteq 1..made'
      /\ stored' \subseteq 1..made' /\ refused' \subseteq 1..made'
  <2>1. 1..made \subseteq 1..(made + 1)
    BY <1>4
  <2>2. /\ acked \subseteq 1..made /\ failed \subseteq 1..made
        /\ stored \subseteq 1..made /\ refused \subseteq 1..made
    BY <1>1 DEF HistoryOK
  <2>3. PICK upto : upto = 1..(made + 1)
    OBVIOUS
  <2>4. /\ acked \subseteq upto /\ failed \subseteq upto
        /\ stored \subseteq upto /\ refused \subseteq upto
    BY <2>1, <2>2, <2>3
  <2> QED BY <1>3, <2>3, <2>4
<1>9. wrote' \in [Users -> [Keys -> SUBSET (1..made')]]
  <2>1. PICK upto : upto = 1..(made + 1)
    OBVIOUS
  <2>2. 1..made \subseteq upto /\ made + 1 \in upto
    BY <1>4, <2>1
  <2>3. wrote \in [Users -> [Keys -> SUBSET upto]]
    BY <1>1, <2>2 DEF HistoryOK
  <2>4. wrote' = [wrote EXCEPT ![user][key] = @ \cup {made + 1}]
    BY DEF Write
  <2>5. wrote' \in [Users -> [Keys -> SUBSET upto]]
    BY <2>2, <2>3, <2>4
  <2> QED BY <1>3, <2>1, <2>5
<1>6. NothingLost'
  <2> SUFFICES ASSUME NEW v \in 1..made'
               PROVE  \/ v \in stored \cup refused
                      \/ \E u \in Users : \E i \in 1..Len(rows'[u]) : rows'[u][i].value = v
    BY <1>3 DEF NothingLost
  <2>1. PICK q \in Seq(Batches) : q = rows[user]
    BY <1>1, QueueFacts
  <2>2. PICK r \in Seq(Batches) : r = Append(q, b)
    BY AppendProperties
  <2>3. /\ Len(r) = Len(q) + 1 /\ r[Len(q) + 1] = b /\ \A i \in 1..Len(q) : r[i] = q[i]
    BY <2>2, AppendProperties
  <2>4. Len(q) \in Nat
    BY Lengths
  <2>5. user \in Users /\ rows'[user] = r /\ \A u \in Users : u # user => rows'[u] = rows[u]
    BY <1>1, <1>2, <2>1, <2>2 DEF QueuesOK
  <2>6. CASE v = made + 1
    <3>1. Len(q) + 1 \in 1..Len(r)
      BY <2>3, <2>4
    <3> QED BY <1>2, <2>3, <2>5, <2>6, <3>1
  <2>7. CASE v # made + 1
    <3>1. v \in 1..made
      BY <1>3, <1>4, <2>7
    <3>2. CASE v \in stored \cup refused
      BY <3>2
    <3>3. CASE v \notin stored \cup refused
      <4>1. PICK u \in Users : \E i \in 1..Len(rows[u]) : rows[u][i].value = v
        BY <1>1, <3>1, <3>3 DEF HistoryOK, NothingLost
      <4>2. PICK i \in 1..Len(rows[u]) : rows[u][i].value = v
        BY <4>1
      <4>3. i \in 1..Len(rows'[u]) /\ rows'[u][i].value = v
        <5>1. CASE u = user
          BY <2>1, <2>3, <2>4, <2>5, <4>2, <5>1
        <5>2. CASE u # user
          BY <2>5, <4>2, <5>2
        <5> QED BY <5>1, <5>2
      <4> QED BY <4>3
    <3> QED BY <3>2, <3>3
  <2> QED BY <2>6, <2>7
<1>7. AckedIsStored' /\ RepliesStored'
  BY <1>1, <1>3 DEF HistoryOK, AckedIsStored, RepliesStored
<1>8. RefusedIsNext'
  BY <1>1, <1>3, WriteKeepsLink DEF HistoryOK, RefusedIsNext
<1> QED BY <1>1, <1>3, <1>5, <1>6, <1>7, <1>8, <1>9 DEF HistoryOK

(***************************************************************************)
(* The oldest row is taken out.                                            *)
(***************************************************************************)
LEMMA RowsLeft ==
  ASSUME QueuesOK, rows[user] # <<>>, rows' = [rows EXCEPT ![user] = Tail(@)]
  PROVE  /\ rows' \in [Users -> Seq(Batches)]
         /\ \A u \in Users : Increasing(rows'[u])
         /\ \A u \in Users : u # user => rows'[u] = rows[u]
         /\ rows'[user] = Tail(rows[user])
         /\ Len(rows[user]) \in Nat /\ Len(rows'[user]) = Len(rows[user]) - 1
         /\ \A i \in 1..Len(rows'[user]) :
               i + 1 \in 1..Len(rows[user]) /\ rows'[user][i] = rows[user][i + 1]
<1>1. PICK q \in Seq(Batches) : q = rows[user] /\ Increasing(q)
  BY QueueFacts
<1>2. PICK t \in Seq(Batches) : t = Tail(q)
  BY <1>1, FirstIsHead
<1>3. Increasing(t)
  BY <1>1, <1>2, TailIncreases
<1>4. Len(q) \in Nat /\ Len(t) = Len(q) - 1 /\ \A i \in 1..(Len(q) - 1) : t[i] = q[i + 1]
  BY <1>1, <1>2, FirstIsHead, Lengths
<1>5. \A i \in 1..Len(t) : i + 1 \in 1..Len(q) /\ t[i] = q[i + 1]
  BY <1>4
<1>6. user \in Users /\ rows \in [Users -> Seq(Batches)]
  BY DEF QueuesOK
<1>7. rows' = [rows EXCEPT ![user] = t]
  BY <1>1, <1>2
<1>8. rows' \in [Users -> Seq(Batches)] /\ rows'[user] = t
      /\ \A u \in Users : u # user => rows'[u] = rows[u]
  BY <1>6, <1>7
<1>9. \A u \in Users : Increasing(rows'[u])
  BY <1>3, <1>8, QueueFacts
<1> QED BY <1>1, <1>2, <1>4, <1>5, <1>8, <1>9

\* Every row that is left was there, and all but the oldest are left.
LEMMA RowsLeftWere ==
  ASSUME QueuesOK, rows[user] # <<>>, rows' = [rows EXCEPT ![user] = Tail(@)]
  PROVE  /\ \A u \in Users : \A i \in 1..Len(rows'[u]) :
               \E j \in 1..Len(rows[u]) : rows'[u][i] = rows[u][j]
         /\ \A u \in Users : \A j \in 1..Len(rows[u]) :
               \/ \E i \in 1..Len(rows'[u]) : rows'[u][i] = rows[u][j]
               \/ u = user /\ rows[u][j] = Head(rows[user])
<1>1. /\ \A u \in Users : u # user => rows'[u] = rows[u]
      /\ Len(rows[user]) \in Nat /\ Len(rows'[user]) = Len(rows[user]) - 1
      /\ \A i \in 1..Len(rows'[user]) :
            i + 1 \in 1..Len(rows[user]) /\ rows'[user][i] = rows[user][i + 1]
  BY RowsLeft
<1>2. rows[user][1] = Head(rows[user])
  BY QueueFacts, FirstIsHead
<1>3. ASSUME NEW u \in Users, NEW i \in 1..Len(rows'[u])
      PROVE  \E j \in 1..Len(rows[u]) : rows'[u][i] = rows[u][j]
  <2>1. CASE u = user
    BY <1>1, <2>1
  <2>2. CASE u # user
    BY <1>1, <2>2
  <2> QED BY <2>1, <2>2
<1>4. ASSUME NEW u \in Users, NEW j \in 1..Len(rows[u])
      PROVE  \/ \E i \in 1..Len(rows'[u]) : rows'[u][i] = rows[u][j]
             \/ u = user /\ rows[u][j] = Head(rows[user])
  <2>1. CASE u # user
    BY <1>1, <2>1
  <2>2. CASE u = user /\ j = 1
    BY <1>2, <2>2
  <2>3. CASE u = user /\ j # 1
    <3>1. j - 1 \in 1..Len(rows'[user]) /\ (j - 1) + 1 = j
      BY <1>1, <2>3
    <3>2. rows'[user][j - 1] = rows[user][j]
      BY <1>1, <3>1
    <3> QED BY <2>3, <3>1, <3>2
  <2> QED BY <2>1, <2>2, <2>3
<1> QED BY <1>3, <1>4

LEMMA NothingLostByTaking ==
  ASSUME QueuesOK, NothingLost, rows[user] # <<>>,
         rows' = [rows EXCEPT ![user] = Tail(@)], made' = made,
         stored' = stored, refused' = refused,
         Head(rows[user]).value \in stored \cup refused
  PROVE  NothingLost'
<1> SUFFICES ASSUME NEW v \in 1..made, v \notin stored \cup refused
             PROVE  \E u \in Users : \E i \in 1..Len(rows'[u]) : rows'[u][i].value = v
  BY DEF NothingLost
<1>1. PICK u \in Users : \E j \in 1..Len(rows[u]) : rows[u][j].value = v
  BY DEF NothingLost
<1>2. PICK j \in 1..Len(rows[u]) : rows[u][j].value = v
  BY <1>1
<1>3. ~(u = user /\ rows[u][j] = Head(rows[user]))
  BY <1>2
<1>4. \E i \in 1..Len(rows'[u]) : rows'[u][i] = rows[u][j]
  BY <1>3, RowsLeftWere
<1> QED BY <1>2, <1>4

\* The ids of the rows that are left, whoever is signed in next.
LEMMA IdsOfRowsLeft ==
  ASSUME QueuesOK, rows[user] # <<>>, rows' = [rows EXCEPT ![user] = Tail(@)],
         made' = made
  PROVE  \A u \in Users : \A i \in 1..Len(rows'[u]) :
            /\ rows'[u][i].id <= made' /\ rows'[u][i].value <= made'
            /\ u = user => rows'[u][i].id < nextId
<1> SUFFICES ASSUME NEW u \in Users, NEW i \in 1..Len(rows'[u])
             PROVE  /\ rows'[u][i].id <= made /\ rows'[u][i].value <= made
                    /\ u = user => rows'[u][i].id < nextId
  OBVIOUS
<1>1. PICK j \in 1..Len(rows[u]) : rows'[u][i] = rows[u][j]
  BY RowsLeftWere
<1>2. rows[u][j].id <= made /\ rows[u][j].value <= made
  BY DEF QueuesOK, NoneAhead
<1>3. u = user => rows[u][j].id < nextId
  BY QueueFacts
<1> QED BY <1>1, <1>2, <1>3

(***************************************************************************)
(* The callbacks.                                                          *)
(***************************************************************************)

\* The callbacks of the oldest row's batch wait for its write.
LEMMA ToldOfTheOldest ==
  ASSUME QueuesOK, rows[user] # <<>>
  PROVE  Told(Head(rows[user])) \subseteq {Head(rows[user]).value}
<1>1. PICK q \in Seq(Batches) : q = rows[user] /\ Increasing(q)
  BY QueueFacts
<1>2. q[1] = Head(q) /\ 1 \in 1..Len(q) /\ Len(q) \in Nat
  BY <1>1, FirstIsHead, Lengths
<1>3. ASSUME NEW c \in Waiting(Head(q)) PROVE c.value = Head(q).value
  <2>1. c \in callbacks[user] /\ c.id = Head(q).id
    BY DEF Waiting
  <2>2. PICK i \in 1..Len(q) : q[i].id = c.id /\ q[i].value = c.value
    BY <1>1, <2>1 DEF QueuesOK, CallbacksMatch
  <2>3. i # 1 => 1 \in 1..(i - 1)
    BY <1>2
  <2>4. i # 1 => q[1].id < q[i].id
    BY <1>1, <2>3 DEF Increasing
  <2>5. q[1].id \in Values
    BY <1>2, BatchFields
  <2>6. i = 1
    BY <1>2, <2>1, <2>2, <2>4, <2>5 DEF Values
  <2> QED BY <1>2, <2>2, <2>6
<1> QED BY <1>1, <1>3 DEF Told

LEMMA CallbacksLeft ==
  ASSUME QueuesOK, rows[user] # <<>>, rows' = [rows EXCEPT ![user] = Tail(@)],
         Notified(Head(rows[user]))
  PROVE  /\ callbacks' \in [Users -> SUBSET [id : Values, value : Values]]
         /\ CallbacksMatch'
<1>1. /\ user \in Users /\ CallbacksMatch
      /\ callbacks \in [Users -> SUBSET [id : Values, value : Values]]
  BY DEF QueuesOK
<1>2. PICK w : w = Waiting(Head(rows[user]))
  OBVIOUS
<1>3. callbacks' = [callbacks EXCEPT ![user] = @ \ w]
  BY <1>2 DEF Notified
<1>4. callbacks' \in [Users -> SUBSET [id : Values, value : Values]]
  BY <1>1, <1>3
<1>5. \A u \in Users : \A c \in callbacks'[u] :
         c \in callbacks[u] /\ (u = user => c \notin w)
  BY <1>1, <1>3
<1>6. ASSUME NEW u \in Users, NEW c \in callbacks'[u]
      PROVE  \E i \in 1..Len(rows'[u]) :
                rows'[u][i].id = c.id /\ rows'[u][i].value = c.value
  <2>1. PICK j \in 1..Len(rows[u]) : rows[u][j].id = c.id /\ rows[u][j].value = c.value
    BY <1>1, <1>5 DEF CallbacksMatch
  <2>2. ~(u = user /\ rows[u][j] = Head(rows[user]))
    BY <1>2, <1>5, <2>1 DEF Waiting
  <2>3. PICK i \in 1..Len(rows'[u]) : rows'[u][i] = rows[u][j]
    BY <2>2, RowsLeftWere
  <2> QED BY <2>1, <2>3
<1> QED BY <1>4, <1>6 DEF CallbacksMatch

(***************************************************************************)
(* The next id of a user who signs in.                                     *)
(***************************************************************************)
LEMMA NextIdLoaded ==
  ASSUME NEW disk \in [Users -> Seq(Batches)], NEW n \in 0..MaxWrites,
         \A u \in Users : \A i \in 1..Len(disk[u]) : disk[u][i].id <= n
  PROVE  /\ LoadedId(disk) \in 1..(MaxWrites + 1) /\ LoadedId(disk) <= n + 1
         /\ \A u \in Users : \A i \in 1..Len(disk[u]) : disk[u][i].id < LoadedId(disk)
<1>1. PICK ids : ids = UNION {IdsIn(disk[u]) : u \in Users}
  OBVIOUS
<1>2. n \in Nat /\ n <= MaxWrites /\ MaxWrites \in Nat
  BY MaxWritesAssumption
<1>3. \A u \in Users : \A i \in 1..Len(disk[u]) : disk[u][i].id \in ids
  BY <1>1 DEF IdsIn
<1>4. \A u \in Users : \A i \in 1..Len(disk[u]) : disk[u][i].id \in Values
  BY BatchFields
<1>5. ids \in SUBSET (1..n)
  <2>1. \A id \in ids : \E u \in Users : \E i \in 1..Len(disk[u]) : id = disk[u][i].id
    BY <1>1 DEF IdsIn
  <2>2. \A u \in Users : \A i \in 1..Len(disk[u]) : disk[u][i].id \in 1..n
    BY <1>2, <1>4 DEF Values
  <2> QED BY <2>1, <2>2
<1> DEFINE Next_(m) == (\A id \in ids : id < m) /\ (m = 1 \/ m - 1 \in ids)
<1>6. LoadedId(disk) = CHOOSE m \in 1..(MaxWrites + 1) : Next_(m)
  BY <1>1 DEF LoadedId
<1>7. \E m \in 1..(MaxWrites + 1) : Next_(m)
  <2>1. CASE ids = {}
    <3>1. 1 \in 1..(MaxWrites + 1) /\ Next_(1)
      BY <1>2, <2>1
    <3> QED BY <3>1
  <2>2. CASE ids # {}
    <3>1. PICK g \in ids : \A id \in ids : id <= g
      BY <1>2, <1>5, <2>2, HasGreatest
    <3>2. g \in 1..n /\ \A id \in ids : id \in 1..n
      BY <1>5
    <3>3. \A id \in ids : id < g + 1
      BY <3>1, <3>2
    <3>4. g + 1 \in 1..(MaxWrites + 1) /\ (g + 1) - 1 = g
      BY <1>2, <3>2
    <3>5. Next_(g + 1)
      BY <3>1, <3>3, <3>4
    <3> QED
      <4> HIDE DEF Next_
      <4> QED BY <3>4, <3>5
  <2> QED BY <2>1, <2>2
<1>8. LoadedId(disk) \in 1..(MaxWrites + 1) /\ Next_(LoadedId(disk))
  <2> HIDE DEF Next_
  <2> QED BY <1>6, <1>7
<1>9. LoadedId(disk) <= n + 1
  BY <1>2, <1>5, <1>8
<1> QED BY <1>3, <1>8, <1>9

(***************************************************************************)
(* What a step leaves alone.                                               *)
(***************************************************************************)
LEMMA QueuesKept ==
  ASSUME QueuesOK, UNCHANGED <<user, rows, nextId, callbacks, made>>
  PROVE  QueuesOK'
BY DEF QueuesOK, CallbacksMatch, IdsIncrease, NoneAhead

LEMMA HistoryKept ==
  ASSUME HistoryOK, UNCHANGED <<rows, server, history>>, RepliesStored', RefusedIsNext'
  PROVE  HistoryOK'
BY DEF HistoryOK, AckedIsStored, NothingLost, history

\* With the connection, the answers and the refusal are gone.
LEMMA HistoryWithoutAnswers ==
  ASSUME replies' = <<>>, status' = "none"
  PROVE  RepliesStored' /\ RefusedIsNext'
<1>1. Len(<<>>) = 0
  BY EmptySeq
<1> QED BY <1>1 DEF RepliesStored, RefusedIsNext

LEMMA FirstAnswerOff ==
  ASSUME LinkOK, RepliesStored, replies # <<>>, replies' = Tail(replies),
         stored' = stored
  PROVE  RepliesStored'
<1>1. PICK r \in Seq(Requests) : r = replies
  BY DEF LinkOK
<1>2. PICK t \in Seq(Requests) : t = Tail(r)
  BY <1>1, FirstIsHead
<1>3. Len(r) \in Nat /\ Len(t) = Len(r) - 1 /\ \A i \in 1..(Len(r) - 1) : t[i] = r[i + 1]
  BY <1>1, <1>2, FirstIsHead, Lengths
<1>4. \A i \in 1..Len(t) : i + 1 \in 1..Len(r) /\ t[i] = r[i + 1]
  BY <1>3
<1> QED BY <1>1, <1>2, <1>4 DEF RepliesStored

(***************************************************************************)
(* An answer.                                                              *)
(***************************************************************************)
LEMMA OldestAnswered ==
  ASSUME FlowOK, shaken, replies # <<>>
  PROVE  /\ rows[user] # <<>> /\ Head(pipeline) = Head(rows[user])
         /\ Without(rows[user], Head(pipeline)) = Tail(rows[user])
         /\ Head(rows[user]).value \in stored
         /\ Told(Head(pipeline)) \subseteq stored
<1>1. LinkOK /\ QueuesOK
  BY Parts
<1>2. pipeline # <<>> /\ Head(pipeline).value \in stored
  BY AnswerIsFirsts
<1>3. /\ rows[user] # <<>> /\ Head(pipeline) = Head(rows[user])
      /\ Without(rows[user], Head(pipeline)) = Tail(rows[user])
  BY <1>1, <1>2, FirstOfThePipeline
<1>4. Told(Head(rows[user])) \subseteq {Head(rows[user]).value}
  BY <1>1, <1>3, ToldOfTheOldest
<1> QED BY <1>2, <1>3, <1>4

LEMMA ResultReadKeepsLink ==
  ASSUME FlowOK, ResultRead
  PROVE  LinkOK' /\ (status = "refused" => Head(sent') = Head(sent))
<1>1. LinkOK /\ QueuesOK
  BY Parts
<1>2. replies # <<>> /\ shaken
  BY DEF ResultRead
<1>3. /\ rows[user] # <<>>
      /\ Without(rows[user], Head(pipeline)) = Tail(rows[user])
  BY <1>2, OldestAnswered
<1>4. /\ rows' = [rows EXCEPT ![user] = Tail(@)]
      /\ FillWritePipeline(Tail(rows[user]), Tail(pipeline), stream)
      /\ replies' = Tail(replies)
      /\ user' = user /\ shaken' = shaken /\ status' = status
  BY <1>3 DEF ResultRead
<1>5. pipeline # <<>> /\ Tail(replies) \in Seq(Requests)
      /\ Tail(replies) \o sent = Tail(pipeline)
  BY <1>2, AnswerIsFirsts
<1>6. /\ rows' \in [Users -> Seq(Batches)] /\ \A u \in Users : Increasing(rows'[u])
      /\ rows'[user] = Tail(rows[user])
  BY <1>1, <1>3, <1>4, RowsLeft
<1>7. PICK q \in Seq(Batches) : q = Tail(rows[user]) /\ Increasing(q)
  BY <1>1, <1>6 DEF QueuesOK
<1>8. PICK k \in 0..Len(q) : k <= Window /\ Tail(pipeline) = SubSeq(q, 1, k)
  BY <1>1, <1>5, <1>7, FirstOfThePipeline
<1>9. PICK p : p = Tail(pipeline)
  OBVIOUS
<1>10. PICK r \in Seq(Requests) : r = Tail(replies)
  BY <1>5
<1>11. r \o sent = p
  BY <1>5, <1>9, <1>10
<1>12. ~idle
  BY <1>1, <1>5 DEF LinkOK, StreamNeeded
<1>13. FillWritePipeline(q, p, stream) /\ replies' = r /\ rows'[user'] = q
  BY <1>4, <1>6, <1>7, <1>9, <1>10
<1> QED
  BY <1>1, <1>2, <1>4, <1>7, <1>8, <1>9, <1>11, <1>12, <1>13, FilledOnStream

\* The batch of the first row is out, its callbacks are told.
LEMMA TakingKeepsQueues ==
  ASSUME QueuesOK, rows[user] # <<>>, rows' = [rows EXCEPT ![user] = Tail(@)],
         Notified(Head(rows[user])), UNCHANGED <<user, nextId, made>>
  PROVE  QueuesOK'
<1>1. /\ rows' \in [Users -> Seq(Batches)] /\ \A u \in Users : Increasing(rows'[u])
  BY RowsLeft
<1>2. \A u \in Users : \A i \in 1..Len(rows'[u]) :
         /\ rows'[u][i].id <= made' /\ rows'[u][i].value <= made'
         /\ u = user => rows'[u][i].id < nextId
  BY IdsOfRowsLeft
<1>3. callbacks' \in [Users -> SUBSET [id : Values, value : Values]] /\ CallbacksMatch'
  BY CallbacksLeft
<1>4. IdsIncrease' /\ NoneAhead'
  BY <1>1, <1>2 DEF IdsIncrease, NoneAhead, Increasing, QueuesOK
<1> QED BY <1>1, <1>3, <1>4 DEF QueuesOK

LEMMA ResultReadKeepsQueues ==
  ASSUME FlowOK, ResultRead
  PROVE  QueuesOK'
<1>1. LinkOK /\ QueuesOK
  BY Parts
<1>2. replies # <<>> /\ shaken
  BY DEF ResultRead
<1>3. /\ rows[user] # <<>> /\ Head(pipeline) = Head(rows[user])
      /\ Without(rows[user], Head(pipeline)) = Tail(rows[user])
  BY <1>2, OldestAnswered
<1>4. /\ rows' = [rows EXCEPT ![user] = Tail(@)] /\ Notified(Head(rows[user]))
      /\ UNCHANGED <<user, nextId, made>>
  BY <1>3 DEF ResultRead
<1> QED BY <1>1, <1>3, <1>4, TakingKeepsQueues

LEMMA ResultReadKeepsHistory ==
  ASSUME FlowOK, ResultRead
  PROVE  HistoryOK'
<1>1. LinkOK /\ QueuesOK /\ HistoryOK
  BY Parts
<1>2. replies # <<>> /\ shaken
  BY DEF ResultRead
<1>3. /\ rows[user] # <<>> /\ Head(pipeline) = Head(rows[user])
      /\ Without(rows[user], Head(pipeline)) = Tail(rows[user])
      /\ Head(rows[user]).value \in stored /\ Told(Head(pipeline)) \subseteq stored
  BY <1>2, OldestAnswered
<1>4. /\ rows' = [rows EXCEPT ![user] = Tail(@)]
      /\ replies' = Tail(replies) /\ acked' = acked \cup Told(Head(pipeline))
      /\ UNCHANGED <<user, status, server, made, wrote, failed, stored, refused>>
  BY <1>3 DEF ResultRead
<1>5. NothingLost'
  BY <1>1, <1>3, <1>4, NothingLostByTaking DEF HistoryOK
<1>6. RepliesStored'
  BY <1>1, <1>2, <1>4, FirstAnswerOff DEF HistoryOK
<1>7. RefusedIsNext'
  BY <1>1, <1>4, ResultReadKeepsLink DEF HistoryOK, RefusedIsNext
<1>8. AckedIsStored' /\ acked' \subseteq 1..made'
  BY <1>1, <1>3, <1>4 DEF HistoryOK, AckedIsStored
<1> QED BY <1>1, <1>4, <1>5, <1>6, <1>7, <1>8 DEF HistoryOK

(***************************************************************************)
(* A refusal.                                                              *)
(***************************************************************************)
LEMMA OldestSettled ==
  ASSUME FlowOK, status = "refused"
  PROVE  /\ rows[user] # <<>> /\ Head(pipeline) = Head(rows[user])
         /\ Without(rows[user], Head(pipeline)) = Tail(rows[user])
         /\ Head(rows[user]).value \in stored \cup refused
         /\ Told(Head(pipeline)) \subseteq stored \cup refused
         /\ \E k \in 0..Len(Tail(rows[user])) :
               k <= Window /\ Tail(pipeline) = SubSeq(Tail(rows[user]), 1, k)
<1>1. LinkOK /\ QueuesOK
  BY Parts
<1>2. pipeline # <<>> /\ Head(pipeline).value \in stored \cup refused
  BY RefusedIsSettled
<1>3. /\ rows[user] # <<>> /\ Head(pipeline) = Head(rows[user])
      /\ Without(rows[user], Head(pipeline)) = Tail(rows[user])
      /\ \E k \in 0..Len(Tail(rows[user])) :
            k <= Window /\ Tail(pipeline) = SubSeq(Tail(rows[user]), 1, k)
  BY <1>1, <1>2, FirstOfThePipeline
<1>4. Told(Head(rows[user])) \subseteq {Head(rows[user]).value}
  BY <1>1, <1>3, ToldOfTheOldest
<1>5. Head(rows[user]).value \in stored \cup refused
  BY <1>2, <1>3
<1>6. Told(Head(pipeline)) \subseteq stored \cup refused
  BY <1>3, <1>4, <1>5
<1> QED BY <1>3, <1>5, <1>6

LEMMA RefusalReadKeeps ==
  ASSUME FlowOK, RefusalRead
  PROVE  LinkOK' /\ QueuesOK' /\ HistoryOK'
<1>1. LinkOK /\ QueuesOK /\ HistoryOK
  BY Parts
<1>2. status = "refused"
  BY DEF RefusalRead
<1>3. /\ rows[user] # <<>> /\ Head(pipeline) = Head(rows[user])
      /\ Without(rows[user], Head(pipeline)) = Tail(rows[user])
      /\ Head(rows[user]).value \in stored \cup refused
      /\ Told(Head(pipeline)) \subseteq stored \cup refused
  BY <1>2, OldestSettled
<1>4. /\ rows' = [rows EXCEPT ![user] = Tail(@)] /\ Notified(Head(rows[user]))
      /\ failed' = failed \cup Told(Head(pipeline))
      /\ Disconnected /\ FillWritePipeline(Tail(rows[user]), Tail(pipeline), "initial")
      /\ UNCHANGED <<user, nextId, server, made, wrote, acked, stored, refused>>
  BY <1>3 DEF RefusalRead
<1>5. /\ rows' \in [Users -> Seq(Batches)] /\ \A u \in Users : Increasing(rows'[u])
      /\ rows'[user] = Tail(rows[user])
  BY <1>1, <1>3, <1>4, RowsLeft
<1>6. PICK q \in Seq(Batches) : q = Tail(rows[user]) /\ Increasing(q)
  BY <1>1, <1>5 DEF QueuesOK
<1>7. PICK k \in 0..Len(q) : k <= Window /\ Tail(pipeline) = SubSeq(q, 1, k)
  BY <1>2, <1>6, OldestSettled
<1>8. PICK p : p = Tail(pipeline)
  OBVIOUS
<1>9. FillWritePipeline(q, p, "initial") /\ rows'[user'] = q /\ p = SubSeq(q, 1, k)
  BY <1>4, <1>5, <1>6, <1>7, <1>8
<1>10. LinkOK' /\ replies' = <<>> /\ status' = "none"
  BY <1>4, <1>6, <1>7, <1>9, FilledAgain
<1>11. QueuesOK'
  BY <1>1, <1>3, <1>4, TakingKeepsQueues
<1>12. NothingLost'
  BY <1>1, <1>3, <1>4, NothingLostByTaking DEF HistoryOK
<1>13. RepliesStored' /\ RefusedIsNext'
  BY <1>10, HistoryWithoutAnswers
<1>14. failed' \subseteq 1..made' /\ AckedIsStored'
  BY <1>1, <1>3, <1>4 DEF HistoryOK, AckedIsStored
<1>15. HistoryOK'
  BY <1>1, <1>4, <1>12, <1>13, <1>14 DEF HistoryOK
<1> QED BY <1>10, <1>11, <1>15

(***************************************************************************)
(* The stream opens, ends and waits.                                       *)
(***************************************************************************)
LEMMA StreamOpensKeeps ==
  ASSUME FlowOK, StreamOpens
  PROVE  LinkOK' /\ QueuesOK' /\ HistoryOK'
<1>1. LinkOK /\ QueuesOK /\ HistoryOK
  BY Parts
<1>2. /\ stream = "starting" /\ stream' = "open" /\ sent' = <<Hello>>
      /\ UNCHANGED <<user, rows, nextId, callbacks, pipeline, shaken, idle, replies,
                     status, server, history, made>>
  BY DEF StreamOpens, history
<1>3. ~shaken /\ ~idle /\ status # "refused"
  BY <1>1, <1>2 DEF LinkOK, StreamNeeded
<1>4. replies \o sent = <<>> /\ replies \in Seq(Requests) /\ sent \in Seq(Requests)
  BY <1>1, <1>2, <1>3 DEF LinkOK, AnswersMatchPipeline
<1>5. replies = <<>>
  BY <1>4, ConcatEqualIffEmpty
<1>6. <<Hello>> \in Seq(Requests)
  BY DEF Requests
<1>7. <<>> \o <<Hello>> = <<Hello>>
  BY <1>6, ConcatEmptySeq
<1>8. AnswersMatchPipeline'
  BY <1>2, <1>3, <1>5, <1>7 DEF AnswersMatchPipeline
<1>9. StreamNeeded'
  BY <1>2, <1>3 DEF StreamNeeded, IsStarted
<1>10. PipelineTracksQueue'
  BY <1>1, <1>2 DEF LinkOK, PipelineTracksQueue
<1>11. LinkOK'
  BY <1>1, <1>2, <1>6, <1>8, <1>9, <1>10 DEF LinkOK, StreamStates
<1>12. RepliesStored' /\ RefusedIsNext'
  BY <1>1, <1>2, <1>3 DEF HistoryOK, RepliesStored, RefusedIsNext, history
<1> QED BY <1>1, <1>2, <1>11, <1>12, QueuesKept, HistoryKept

LEMMA HandshakeAnsweredKeeps ==
  ASSUME FlowOK, HandshakeAnswered
  PROVE  LinkOK' /\ QueuesOK' /\ HistoryOK'
<1>1. LinkOK /\ QueuesOK /\ HistoryOK
  BY Parts
<1>2. /\ replies # <<>> /\ ~shaken /\ replies' = Tail(replies) /\ shaken' = TRUE
      /\ sent' = sent \o pipeline
      /\ UNCHANGED <<user, rows, nextId, callbacks, pipeline, stream, idle, status,
                     server, history, made>>
  BY DEF HandshakeAnswered, history
<1>3. /\ replies \in Seq(Requests) /\ sent \in Seq(Requests)
      /\ pipeline \in Seq(Batches) /\ ~idle /\ status # "refused"
      /\ replies \o sent = IF stream = "open" THEN <<Hello>> ELSE <<>>
  BY <1>1, <1>2 DEF LinkOK, AnswersMatchPipeline, StreamNeeded
<1>4. replies \o sent # <<>>
  BY <1>2, <1>3, ConcatEqualIffEmpty
<1>5. stream = "open" /\ replies \o sent = <<Hello>>
  BY <1>3, <1>4
<1>6. Tail(replies) = <<>> /\ sent = <<>>
  BY <1>2, <1>3, <1>5, ConcatIsSingle
<1>7. PICK p \in Seq(Batches) : p = pipeline
  BY <1>3
<1>8. <<>> \o p = p /\ p \in Seq(Requests)
  <2>1. p \in Seq(Requests)
    BY SeqMonotonic DEF Requests
  <2> QED BY <2>1, ConcatEmptySeq
<1>9. sent' = p /\ replies' = <<>>
  BY <1>2, <1>6, <1>7, <1>8
<1>10. AnswersMatchPipeline'
  BY <1>2, <1>7, <1>8, <1>9 DEF AnswersMatchPipeline
<1>11. StreamNeeded'
  BY <1>2, <1>3, <1>5 DEF StreamNeeded, IsStarted
<1>12. PipelineTracksQueue'
  BY <1>1, <1>2 DEF LinkOK, PipelineTracksQueue
<1>13. replies' \in Seq(Requests)
  BY <1>9, EmptySeq
<1>14. LinkOK'
  BY <1>1, <1>2, <1>8, <1>9, <1>10, <1>11, <1>12, <1>13 DEF LinkOK
<1>15. RepliesStored' /\ RefusedIsNext'
  <2>1. stored' = stored
    BY <1>2 DEF history
  <2>2. RepliesStored'
    BY <1>1, <1>2, <2>1, FirstAnswerOff DEF HistoryOK
  <2> QED BY <1>2, <1>3, <2>2 DEF RefusedIsNext
<1> QED BY <1>1, <1>2, <1>14, <1>15, QueuesKept, HistoryKept

\* The stream is closed, with nothing under way, and the pipeline is kept.
LEMMA ClosedKeeps ==
  ASSUME FlowOK, Disconnected, sent' = <<>>, idle' = FALSE,
         stream' \in StreamStates, stream' # "open",
         pipeline # <<>> => IsStarted(stream'),
         UNCHANGED <<user, rows, nextId, callbacks, pipeline, server, history>>
  PROVE  LinkOK' /\ QueuesOK' /\ HistoryOK'
<1>1. LinkOK /\ QueuesOK /\ HistoryOK
  BY Parts
<1>2. replies' = <<>> /\ status' = "none" /\ shaken' = FALSE
  BY DEF Disconnected
<1>3. <<>> \o <<>> = <<>> /\ <<>> \in Seq(Requests)
  BY EmptySeq, ConcatEmptySeq
<1>4. AnswersMatchPipeline' /\ StreamNeeded'
  BY <1>2, <1>3 DEF AnswersMatchPipeline, StreamNeeded
<1>5. PipelineTracksQueue'
  BY <1>1 DEF LinkOK, PipelineTracksQueue
<1>6. LinkOK'
  BY <1>1, <1>2, <1>3, <1>4, <1>5 DEF LinkOK
<1>7. RepliesStored' /\ RefusedIsNext'
  BY <1>2, HistoryWithoutAnswers
<1>8. QueuesOK'
  BY <1>1, QueuesKept DEF history
<1> QED BY <1>1, <1>6, <1>7, <1>8, HistoryKept

LEMMA StreamFailsKeeps ==
  ASSUME FlowOK, StreamFails
  PROVE  LinkOK' /\ QueuesOK' /\ HistoryOK'
<1>1. stream' \in StreamStates /\ stream' # "open" /\ (pipeline # <<>> => IsStarted(stream'))
  BY DEF StreamFails, Started, IsStarted, StreamStates
<1> QED BY <1>1, ClosedKeeps DEF StreamFails

LEMMA IdleTimeoutKeeps ==
  ASSUME FlowOK, IdleTimeout
  PROVE  LinkOK' /\ QueuesOK' /\ HistoryOK'
<1>1. pipeline = <<>>
  BY Parts DEF IdleTimeout, LinkOK, StreamNeeded
<1>2. stream' \in StreamStates /\ stream' # "open"
  BY DEF IdleTimeout, StreamStates
<1> QED BY <1>1, <1>2, ClosedKeeps DEF IdleTimeout

LEMMA BackoffElapsedKeeps ==
  ASSUME FlowOK, BackoffElapsed
  PROVE  LinkOK' /\ QueuesOK' /\ HistoryOK'
<1>1. LinkOK /\ QueuesOK /\ HistoryOK
  BY Parts
<1>2. /\ stream = "backoff" /\ stream' = "starting"
      /\ UNCHANGED <<user, rows, nextId, callbacks, pipeline, shaken, idle, sent,
                     replies, status, server, history, made>>
  BY DEF BackoffElapsed, history, link
<1>3. AnswersMatchPipeline' /\ StreamNeeded' /\ PipelineTracksQueue'
  BY <1>1, <1>2
  DEF LinkOK, AnswersMatchPipeline, StreamNeeded, IsStarted, PipelineTracksQueue
<1>4. LinkOK'
  BY <1>1, <1>2, <1>3 DEF LinkOK, StreamStates
<1>5. RepliesStored' /\ RefusedIsNext'
  BY <1>1, <1>2 DEF HistoryOK, RepliesStored, RefusedIsNext, history
<1> QED BY <1>1, <1>2, <1>4, <1>5, QueuesKept, HistoryKept

(***************************************************************************)
(* The network restarts, the user changes, and the app.                    *)
(***************************************************************************)
LEMMA ConnectivityChangeKeeps ==
  ASSUME FlowOK, ConnectivityChange
  PROVE  LinkOK' /\ QueuesOK' /\ HistoryOK'
<1>1. LinkOK /\ QueuesOK /\ HistoryOK
  BY Parts
<1>2. /\ Reconnect(rows[user])
      /\ UNCHANGED <<user, rows, nextId, callbacks, server, history, made>>
  BY DEF ConnectivityChange, history
<1>3. PICK q \in Seq(Batches) : q = rows[user] /\ Increasing(q)
  BY <1>1, QueueFacts
<1>4. LinkOK' /\ replies' = <<>> /\ status' = "none"
  BY <1>2, <1>3, Reconnected
<1>5. RepliesStored' /\ RefusedIsNext'
  BY <1>4, HistoryWithoutAnswers
<1> QED BY <1>1, <1>2, <1>4, <1>5, QueuesKept, HistoryKept

LEMMA CredentialChangeKeeps ==
  ASSUME FlowOK, NEW u \in Users, CredentialChange(u)
  PROVE  LinkOK' /\ QueuesOK' /\ HistoryOK'
<1>1. LinkOK /\ QueuesOK /\ HistoryOK
  BY Parts
<1>2. /\ user' = u /\ nextId' = (IF u = user THEN nextId ELSE LoadedId(rows))
      /\ Reconnect(rows[u])
      /\ UNCHANGED <<rows, callbacks, server, history, made>>
  BY DEF CredentialChange, history
<1>3. PICK q \in Seq(Batches) : q = rows[u] /\ Increasing(q)
  BY <1>1, QueueFacts
<1>4. LinkOK' /\ replies' = <<>> /\ status' = "none"
  <2>1. rows'[user'] = q /\ Reconnect(q)
    BY <1>2, <1>3
  <2> QED BY <1>3, <2>1, Reconnected
<1>5. RepliesStored' /\ RefusedIsNext'
  BY <1>4, HistoryWithoutAnswers
<1>6. /\ rows \in [Users -> Seq(Batches)] /\ made \in 0..MaxWrites
      /\ nextId \in 1..(MaxWrites + 1) /\ nextId <= made + 1
      /\ \A v \in Users : \A i \in 1..Len(rows[v]) :
            rows[v][i].id <= made /\ rows[v][i].value <= made
  BY <1>1 DEF QueuesOK, NoneAhead
<1>7. /\ LoadedId(rows) \in 1..(MaxWrites + 1) /\ LoadedId(rows) <= made + 1
      /\ \A v \in Users : \A i \in 1..Len(rows[v]) : rows[v][i].id < LoadedId(rows)
  BY <1>6, NextIdLoaded
<1>8. /\ nextId' \in 1..(MaxWrites + 1) /\ nextId' <= made + 1
      /\ \A i \in 1..Len(rows[u]) : rows[u][i].id < nextId'
  <2>1. CASE u = user
    BY <1>1, <1>2, <1>6, <2>1, QueueFacts
  <2>2. CASE u # user
    BY <1>2, <1>7, <2>2
  <2> QED BY <2>1, <2>2
<1>9. IdsIncrease' /\ NoneAhead' /\ CallbacksMatch'
  BY <1>1, <1>2, <1>6, <1>8 DEF QueuesOK, IdsIncrease, NoneAhead, CallbacksMatch
<1>10. QueuesOK'
  BY <1>1, <1>2, <1>8, <1>9 DEF QueuesOK
<1> QED BY <1>1, <1>2, <1>4, <1>5, <1>10, HistoryKept

\* Whatever was on the disk when the app died.
LEMMA LaunchedKeeps ==
  ASSUME NEW u \in Users, rows' \in [Users -> Seq(Batches)], made' \in 0..MaxWrites,
         \A v \in Users : Increasing(rows'[v]),
         \A v \in Users : \A i \in 1..Len(rows'[v]) :
            rows'[v][i].id <= made' /\ rows'[v][i].value <= made',
         Launched(rows', u)
  PROVE  LinkOK' /\ QueuesOK' /\ RepliesStored' /\ RefusedIsNext'
<1>1. PICK d \in [Users -> Seq(Batches)] : d = rows'
  OBVIOUS
<1>2. PICK n \in 0..MaxWrites : n = made'
  OBVIOUS
<1>3. /\ \A v \in Users : Increasing(d[v])
      /\ \A v \in Users : \A i \in 1..Len(d[v]) : d[v][i].id <= n /\ d[v][i].value <= n
  BY <1>1, <1>2
<1>4. /\ user' = u /\ nextId' = LoadedId(d) /\ callbacks' = [v \in Users |-> {}]
      /\ Reconnect(d[u])
  BY <1>1 DEF Launched
<1>5. PICK q \in Seq(Batches) : q = d[u] /\ Increasing(q)
  BY <1>3
<1>6. LinkOK' /\ replies' = <<>> /\ status' = "none"
  <2>1. rows'[user'] = q /\ Reconnect(q)
    BY <1>1, <1>4, <1>5
  <2> QED BY <1>5, <2>1, Reconnected
<1>7. RepliesStored' /\ RefusedIsNext'
  BY <1>6, HistoryWithoutAnswers
<1>8. /\ LoadedId(d) \in 1..(MaxWrites + 1) /\ LoadedId(d) <= n + 1
      /\ \A v \in Users : \A i \in 1..Len(d[v]) : d[v][i].id < LoadedId(d)
  BY <1>3, NextIdLoaded
<1>9. IdsIncrease' /\ NoneAhead'
  BY <1>1, <1>2, <1>3, <1>4, <1>8 DEF IdsIncrease, NoneAhead, Increasing
<1>10. CallbacksMatch' /\ callbacks' \in [Users -> SUBSET [id : Values, value : Values]]
  BY <1>4 DEF CallbacksMatch
<1>11. QueuesOK'
  BY <1>1, <1>2, <1>4, <1>8, <1>9, <1>10 DEF QueuesOK
<1> QED BY <1>6, <1>7, <1>11

\* The disk as it is.
LEMMA LaunchedFromRows ==
  ASSUME FlowOK, NEW u \in Users, Launched(rows, u), rows' = rows, made' = made
  PROVE  LinkOK' /\ QueuesOK' /\ RepliesStored' /\ RefusedIsNext'
<1>1. QueuesOK
  BY Parts
<1>2. /\ rows' \in [Users -> Seq(Batches)] /\ made' \in 0..MaxWrites
      /\ \A v \in Users : Increasing(rows'[v])
      /\ \A v \in Users : \A i \in 1..Len(rows'[v]) :
            rows'[v][i].id <= made' /\ rows'[v][i].value <= made'
  BY <1>1, QueueFacts DEF QueuesOK, NoneAhead
<1> QED BY <1>2, LaunchedKeeps

LEMMA RelaunchKeeps ==
  ASSUME FlowOK, NEW u \in Users, Relaunch(u)
  PROVE  LinkOK' /\ QueuesOK' /\ HistoryOK'
<1>1. Launched(rows, u) /\ UNCHANGED <<rows, server, history, made>>
  BY DEF Relaunch, history
<1>2. LinkOK' /\ QueuesOK' /\ RepliesStored' /\ RefusedIsNext'
  BY <1>1, LaunchedFromRows
<1> QED BY <1>1, <1>2, Parts, HistoryKept

LEMMA DiesAcknowledgingKeeps ==
  ASSUME FlowOK, NEW u \in Users, DiesAcknowledging(u)
  PROVE  LinkOK' /\ QueuesOK' /\ HistoryOK'
<1>1. HistoryOK
  BY Parts
<1>2. /\ replies # <<>> /\ shaken /\ acked' = acked \cup Told(Head(pipeline))
      /\ Launched(rows, u)
      /\ UNCHANGED <<rows, server, made, wrote, failed, stored, refused>>
  BY DEF DiesAcknowledging
<1>3. LinkOK' /\ QueuesOK' /\ RepliesStored' /\ RefusedIsNext'
  BY <1>2, LaunchedFromRows
<1>4. Told(Head(pipeline)) \subseteq stored
  BY <1>2, OldestAnswered
<1>5. AckedIsStored' /\ acked' \subseteq 1..made' /\ NothingLost'
  BY <1>1, <1>2, <1>4 DEF HistoryOK, AckedIsStored, NothingLost
<1>6. HistoryOK'
  BY <1>1, <1>2, <1>3, <1>5 DEF HistoryOK
<1> QED BY <1>3, <1>6

LEMMA DiesRejectingKeeps ==
  ASSUME FlowOK, NEW u \in Users, DiesRejecting(u)
  PROVE  LinkOK' /\ QueuesOK' /\ HistoryOK'
<1>1. QueuesOK /\ HistoryOK
  BY Parts
<1>2. status = "refused"
  BY DEF DiesRejecting
<1>3. /\ rows[user] # <<>> /\ Without(rows[user], Head(pipeline)) = Tail(rows[user])
      /\ Head(rows[user]).value \in stored \cup refused
  BY <1>2, OldestSettled
<1>4. /\ rows' = [rows EXCEPT ![user] = Tail(@)] /\ Launched(rows', u)
      /\ UNCHANGED <<server, made, wrote, acked, failed, stored, refused>>
  BY <1>3 DEF DiesRejecting, history
<1>5. rows' \in [Users -> Seq(Batches)] /\ \A v \in Users : Increasing(rows'[v])
  BY <1>1, <1>3, <1>4, RowsLeft
<1>6. \A v \in Users : \A i \in 1..Len(rows'[v]) :
         rows'[v][i].id <= made' /\ rows'[v][i].value <= made'
  BY <1>1, <1>3, <1>4, IdsOfRowsLeft
<1>7. made' \in 0..MaxWrites
  BY <1>1, <1>4 DEF QueuesOK
<1>8. LinkOK' /\ QueuesOK' /\ RepliesStored' /\ RefusedIsNext'
  BY <1>4, <1>5, <1>6, <1>7, LaunchedKeeps
<1>9. NothingLost'
  BY <1>1, <1>3, <1>4, NothingLostByTaking DEF HistoryOK
<1>10. HistoryOK'
  BY <1>1, <1>4, <1>8, <1>9 DEF HistoryOK, AckedIsStored
<1> QED BY <1>8, <1>10

(***************************************************************************)
(* The server.                                                             *)
(***************************************************************************)

\* It answers the first request.
LEMMA AnsweredKeepsLink ==
  ASSUME FlowOK, Taking, sent' = Tail(sent), replies' = Append(replies, Head(sent)),
         UNCHANGED <<user, rows, pipeline, stream, shaken, idle, status>>
  PROVE  LinkOK' /\ RefusedIsNext'
<1>1. LinkOK
  BY Parts
<1>2. status = "none" /\ sent # <<>>
  BY DEF Taking
<1>3. PICK x \in Seq(Requests) : x = sent
  BY <1>1 DEF LinkOK
<1>4. PICK r \in Seq(Requests) : r = replies
  BY <1>1 DEF LinkOK
<1>5. Append(r, Head(x)) \in Seq(Requests) /\ Append(r, Head(x)) \o Tail(x) = r \o x
      /\ Tail(x) \in Seq(Requests)
  BY <1>2, <1>3, HeadMoved, FirstIsHead
<1>6. replies' \o sent' = replies \o sent
  BY <1>3, <1>4, <1>5
<1>7. AnswersMatchPipeline' /\ StreamNeeded' /\ PipelineTracksQueue'
  BY <1>1, <1>2, <1>6
  DEF LinkOK, AnswersMatchPipeline, StreamNeeded, PipelineTracksQueue
<1>8. LinkOK'
  BY <1>1, <1>3, <1>4, <1>5, <1>7 DEF LinkOK
<1> QED BY <1>2, <1>8 DEF RefusedIsNext

\* The answers are of writes the server has stored, the last of them too.
LEMMA LastAnswerOn ==
  ASSUME LinkOK, RepliesStored, sent # <<>>, replies' = Append(replies, Head(sent)),
         stored \subseteq stored', Head(sent) # Hello => Head(sent).value \in stored'
  PROVE  RepliesStored'
<1>1. PICK r \in Seq(Requests) : r = replies
  BY DEF LinkOK
<1>2. PICK e \in Requests : e = Head(sent)
  BY FirstIsHead DEF LinkOK
<1>3. PICK t \in Seq(Requests) : t = Append(r, e)
  BY AppendProperties
<1>4. /\ Len(t) = Len(r) + 1 /\ t[Len(r) + 1] = e /\ \A i \in 1..Len(r) : t[i] = r[i]
  BY <1>3, AppendProperties
<1>5. Len(r) \in Nat
  BY Lengths
<1>6. ASSUME NEW i \in 1..Len(t), t[i] # Hello PROVE t[i].value \in stored'
  <2>1. CASE i = Len(r) + 1
    BY <1>2, <1>4, <1>6, <2>1
  <2>2. CASE i # Len(r) + 1
    <3>1. i \in 1..Len(r) /\ t[i] = r[i]
      BY <1>4, <1>5, <2>2
    <3> QED BY <1>1, <1>6, <3>1 DEF RepliesStored
  <2> QED BY <2>1, <2>2
<1> QED BY <1>1, <1>2, <1>3, <1>6 DEF RepliesStored

LEMMA ServerGreetsKeeps ==
  ASSUME FlowOK, ServerGreets
  PROVE  LinkOK' /\ QueuesOK' /\ HistoryOK'
<1>1. LinkOK /\ QueuesOK /\ HistoryOK
  BY Parts
<1>2. /\ Taking /\ Head(sent) = Hello /\ sent' = Tail(sent)
      /\ replies' = Append(replies, Head(sent))
      /\ UNCHANGED <<user, rows, nextId, callbacks, pipeline, stream, shaken, idle,
                     status, server, history, made, wrote, stored>>
  BY DEF ServerGreets, history
<1>3. LinkOK' /\ RefusedIsNext'
  BY <1>2, AnsweredKeepsLink
<1>4. RepliesStored'
  BY <1>1, <1>2, LastAnswerOn DEF HistoryOK, Taking
<1> QED BY <1>1, <1>2, <1>3, <1>4, QueuesKept, HistoryKept

LEMMA ServerStoresKeeps ==
  ASSUME FlowOK, ServerStores
  PROVE  LinkOK' /\ QueuesOK' /\ HistoryOK'
<1>1. LinkOK /\ QueuesOK /\ HistoryOK
  BY Parts
<1>2. /\ Taking /\ Head(sent) # Hello /\ sent' = Tail(sent)
      /\ replies' = Append(replies, Head(sent))
      /\ server' = [server EXCEPT ![Head(sent).key] = Head(sent).value]
      /\ stored' = stored \cup {Head(sent).value}
      /\ UNCHANGED <<user, rows, nextId, callbacks, pipeline, stream, shaken, idle,
                     status, made, wrote, acked, failed, refused>>
  BY DEF ServerStores
<1>3. LinkOK' /\ RefusedIsNext'
  BY <1>2, AnsweredKeepsLink
<1>4. RepliesStored'
  BY <1>1, <1>2, LastAnswerOn DEF HistoryOK, Taking
<1>5. Head(sent).value \in 1..made
  BY <1>2, RequestIsPipelines DEF Taking
<1>6. made \in 0..MaxWrites
  BY <1>1 DEF QueuesOK
<1>7. server' \in [Keys -> 0..MaxWrites] /\ stored' \subseteq 1..made'
  <2>1. Head(sent).value \in 0..MaxWrites
    BY <1>5, <1>6, MaxWritesAssumption
  <2> QED BY <1>1, <1>2, <1>5, <2>1 DEF HistoryOK
<1>8. AckedIsStored' /\ NothingLost'
  BY <1>1, <1>2 DEF HistoryOK, AckedIsStored, NothingLost
<1>9. HistoryOK'
  BY <1>1, <1>2, <1>3, <1>4, <1>7, <1>8 DEF HistoryOK
<1> QED BY <1>1, <1>2, <1>3, <1>9, QueuesKept

LEMMA ServerRefusesKeeps ==
  ASSUME FlowOK, ServerRefuses
  PROVE  LinkOK' /\ QueuesOK' /\ HistoryOK'
<1>1. LinkOK /\ QueuesOK /\ HistoryOK
  BY Parts
<1>2. /\ sent # <<>> /\ Head(sent) # Hello /\ status' = "refused"
      /\ refused' = refused \cup {Head(sent).value}
      /\ UNCHANGED <<user, rows, nextId, callbacks, pipeline, stream, shaken, idle,
                     sent, replies, server, made, wrote, acked, failed, stored>>
  BY DEF ServerRefuses, Taking
<1>3. shaken /\ Head(sent).value \in 1..made
  BY <1>2, RequestIsPipelines
<1>4. AnswersMatchPipeline' /\ StreamNeeded' /\ PipelineTracksQueue'
  BY <1>1, <1>2, <1>3
  DEF LinkOK, AnswersMatchPipeline, StreamNeeded, PipelineTracksQueue
<1>5. LinkOK'
  BY <1>1, <1>2, <1>4 DEF LinkOK
<1>6. RepliesStored' /\ RefusedIsNext' /\ AckedIsStored' /\ NothingLost'
  BY <1>1, <1>2 DEF HistoryOK, RepliesStored, RefusedIsNext, AckedIsStored, NothingLost
<1>7. HistoryOK'
  BY <1>1, <1>2, <1>3, <1>6 DEF HistoryOK
<1> QED BY <1>1, <1>2, <1>5, <1>7, QueuesKept

(***************************************************************************)
(* The invariant.                                                          *)
(***************************************************************************)
LEMMA InitOK == Init => FlowOK
<1> SUFFICES ASSUME Init PROVE LinkOK /\ QueuesOK /\ HistoryOK
  BY Parts
<1>1. Len(<<>>) = 0 /\ <<>> \in Seq(Batches) /\ <<>> \in Seq(Requests) /\ <<>> \o <<>> = <<>>
  BY EmptySeq, ConcatEmptySeq
<1>2. rows = [u \in Users |-> <<>>] /\ user \in Users /\ made = 0
  BY DEF Init
<1>3. rows \in [Users -> Seq(Batches)] /\ rows[user] = <<>>
  BY <1>1, <1>2
<1>4. PipelineTracksQueue
  BY <1>3, PortionParts, PipelineIsPortion, EmptySeq DEF Init
<1>5. LinkOK
  BY <1>1, <1>4 DEF Init, LinkOK, AnswersMatchPipeline, StreamNeeded, StreamStates
<1>6. \A u \in Users : Len(rows[u]) = 0
  BY <1>1, <1>2
<1>7. CallbacksMatch /\ IdsIncrease /\ NoneAhead
  BY <1>6 DEF Init, CallbacksMatch, IdsIncrease, NoneAhead
<1>8. nextId \in 1..(MaxWrites + 1) /\ made \in 0..MaxWrites
  BY MaxWritesAssumption DEF Init
<1>9. callbacks \in [Users -> SUBSET [id : Values, value : Values]]
  BY DEF Init
<1>10. QueuesOK
  BY <1>2, <1>3, <1>7, <1>8, <1>9 DEF QueuesOK
<1>11. server \in [Keys -> 0..MaxWrites]
  BY MaxWritesAssumption DEF Init
<1>12. AckedIsStored /\ NothingLost /\ RepliesStored /\ RefusedIsNext
  BY <1>1 DEF Init, AckedIsStored, NothingLost, RepliesStored, RefusedIsNext
<1>13. HistoryOK
  BY <1>11, <1>12 DEF Init, HistoryOK
<1> QED BY <1>5, <1>10, <1>13

LEMMA StepOK == FlowOK /\ [Next]_vars => FlowOK'
<1> SUFFICES ASSUME FlowOK, [Next]_vars PROVE LinkOK' /\ QueuesOK' /\ HistoryOK'
  BY PartsNext
<1>1. ASSUME NEW key \in Keys, Write(key) PROVE LinkOK' /\ QueuesOK' /\ HistoryOK'
  BY <1>1, WriteKeepsLink, WriteKeepsQueues, WriteKeepsHistory
<1>2. CASE StreamOpens
  BY <1>2, StreamOpensKeeps
<1>3. CASE HandshakeAnswered
  BY <1>3, HandshakeAnsweredKeeps
<1>4. CASE ResultRead
  BY <1>4, ResultReadKeepsLink, ResultReadKeepsQueues, ResultReadKeepsHistory
<1>5. CASE RefusalRead
  BY <1>5, RefusalReadKeeps
<1>6. CASE BackoffElapsed
  BY <1>6, BackoffElapsedKeeps
<1>7. CASE IdleTimeout
  BY <1>7, IdleTimeoutKeeps
<1>8. CASE ServerGreets
  BY <1>8, ServerGreetsKeeps
<1>9. CASE ServerStores
  BY <1>9, ServerStoresKeeps
<1>10. CASE ServerRefuses
  BY <1>10, ServerRefusesKeeps
<1>11. CASE StreamFails
  BY <1>11, StreamFailsKeeps
<1>12. CASE ConnectivityChange
  BY <1>12, ConnectivityChangeKeeps
<1>13. ASSUME NEW u \in Users,
              CredentialChange(u) \/ Relaunch(u) \/ DiesAcknowledging(u) \/ DiesRejecting(u)
       PROVE  LinkOK' /\ QueuesOK' /\ HistoryOK'
  BY <1>13, CredentialChangeKeeps, RelaunchKeeps, DiesAcknowledgingKeeps, DiesRejectingKeeps
<1>14. CASE UNCHANGED vars
  <2>1. UNCHANGED vars
    BY <1>14
  <2>2. LinkOK /\ QueuesOK /\ HistoryOK
    BY Parts
  <2>3. LinkOK'
    BY <2>1, <2>2
    DEF vars, LinkOK, PipelineTracksQueue, AnswersMatchPipeline, StreamNeeded
  <2>4. QueuesOK'
    BY <2>1, <2>2, QueuesKept DEF vars
  <2>5. HistoryOK'
    BY <2>1, <2>2, HistoryKept DEF vars, history, HistoryOK, RepliesStored, RefusedIsNext
  <2> QED BY <2>3, <2>4, <2>5
<1> QED
  BY <1>1, <1>2, <1>3, <1>4, <1>5, <1>6, <1>7, <1>8, <1>9, <1>10, <1>11, <1>12, <1>13,
     <1>14
  DEF Next, Client, Server, Fault

\* The next request is the first row past the ones that are stored.
LEMMA NextRequest ==
  ASSUME FlowOK, shaken, sent # <<>>
  PROVE  /\ Len(replies) \in Nat /\ Len(replies) + 1 \in 1..Len(rows[user])
         /\ rows[user][Len(replies) + 1] = Head(sent)
         /\ Head(sent) \in Batches /\ Head(sent) # Hello
<1>1. LinkOK /\ QueuesOK
  BY Parts
<1>2. replies \in Seq(Requests) /\ sent \in Seq(Requests) /\ pipeline \in Seq(Batches)
      /\ replies \o sent = pipeline
  BY <1>1 DEF LinkOK, AnswersMatchPipeline
<1>3. /\ Len(replies \o sent) = Len(replies) + Len(sent)
      /\ \A i \in 1..(Len(replies) + Len(sent)) :
           (replies \o sent)[i] = IF i <= Len(replies) THEN replies[i]
                                                       ELSE sent[i - Len(replies)]
  BY <1>2, ConcatProperties
<1>4. Len(replies) \in Nat /\ Len(sent) \in Nat /\ Len(sent) > 0 /\ sent[1] = Head(sent)
  BY <1>2, Lengths, FirstIsHead
<1>5. PICK n \in Nat : n = Len(replies) + 1
  BY <1>4
<1>6. n \in 1..Len(pipeline) /\ pipeline[n] = Head(sent)
  <2>1. n \in 1..(Len(replies) + Len(sent)) /\ ~(n <= Len(replies)) /\ n - Len(replies) = 1
    BY <1>4, <1>5
  <2> QED BY <1>2, <1>3, <1>4, <2>1
<1>7. n \in 1..Len(rows[user]) /\ pipeline[n] = rows[user][n]
  BY <1>1, <1>6, OfThePipeline
<1>8. Head(sent) \in Batches
  BY <1>2, <1>6, ElementOfSeq
<1> QED BY <1>4, <1>5, <1>6, <1>7, <1>8, HelloAssumption

(***************************************************************************)
(* The order of the writes: what a step must leave alone, or do, to keep   *)
(* OrderOK.                                                                *)
(***************************************************************************)
LEMMA Numbers ==
  ASSUME FlowOK
  PROVE  /\ user \in Users /\ made \in Nat /\ rows \in [Users -> Seq(Batches)]
         /\ \A u \in Users, k \in Keys : wrote[u][k] \subseteq 1..made
         /\ acked \subseteq 1..made /\ stored \subseteq 1..made
         /\ server \in [Keys -> Nat]
         /\ \A u \in Users : \A i \in 1..Len(rows[u]) :
               /\ rows[u][i] \in Batches /\ rows[u][i].key \in Keys
               /\ rows[u][i].value \in 1..made
<1>1. QueuesOK /\ HistoryOK
  BY Parts
<1>2. user \in Users /\ made \in Nat /\ rows \in [Users -> Seq(Batches)]
  BY <1>1, MaxWritesAssumption DEF QueuesOK
<1>3. wrote \in [Users -> [Keys -> SUBSET (1..made)]]
  BY <1>1 DEF HistoryOK
<1>4. server \in [Keys -> Nat]
  <2>1. 0..MaxWrites \subseteq Nat
    BY MaxWritesAssumption
  <2>2. server \in [Keys -> 0..MaxWrites]
    BY <1>1 DEF HistoryOK
  <2> QED BY <2>1, <2>2
<1>5. ASSUME NEW u \in Users, NEW i \in 1..Len(rows[u])
      PROVE  /\ rows[u][i] \in Batches /\ rows[u][i].key \in Keys
             /\ rows[u][i].value \in 1..made
  <2>1. PICK q \in Seq(Batches) : q = rows[u]
    BY <1>2
  <2>2. q[i] \in Batches /\ q[i].key \in Keys /\ q[i].value \in Values
    BY <2>1, BatchFields
  <2>3. q[i].value <= made
    BY <1>1, <2>1 DEF QueuesOK, NoneAhead
  <2> QED BY <1>2, <2>1, <2>2, <2>3, MaxWritesAssumption DEF Values
<1>6. acked \subseteq 1..made /\ stored \subseteq 1..made
  BY <1>1 DEF HistoryOK
<1> QED BY <1>2, <1>3, <1>4, <1>5, <1>6

\* A write in a queue is of the queue's user and of its row's document only,
\* and the writes increase along the queue.
LEMMA AuthorOfRow ==
  ASSUME QueueIsLatest, WroteOnce, NEW t \in Users, NEW i \in 1..Len(rows[t]),
         rows[t][i].key \in Keys
  PROVE  /\ rows[t][i].value \in wrote[t][rows[t][i].key]
         /\ \A u \in Users, k \in Keys :
               rows[t][i].value \in wrote[u][k] => u = t /\ k = rows[t][i].key
  BY DEF QueueIsLatest, WroteOnce

LEMMA RowsIncrease ==
  ASSUME FlowOK, QueueIsLatest, NEW u \in Users,
         NEW i \in 1..Len(rows[u]), NEW j \in 1..Len(rows[u]), j <= i
  PROVE  rows[u][j].value <= rows[u][i].value
<1>1. rows[u][i].value \in Int /\ rows[u][j].value \in Int
  BY Numbers
<1>2. CASE j = i
  BY <1>1, <1>2
<1>3. CASE j # i
  <2>1. j \in 1..(i - 1)
    BY <1>3
  <2> QED BY <1>1, <2>1 DEF QueueIsLatest
<1> QED BY <1>2, <1>3

\* The oldest row of the signed-in user, and that its document holds it or,
\* if not, a later write of that user or another's.
Oldest == Head(rows[user])

OldestThere ==
  /\ rows[user] # <<>>
  /\ server[Oldest.key] \in wrote[user][Oldest.key] =>
        Oldest.value <= server[Oldest.key]

LEMMA OldestIsFirst ==
  ASSUME FlowOK, rows[user] # <<>>
  PROVE  1 \in 1..Len(rows[user]) /\ rows[user][1] = Oldest /\ Oldest \in Batches
         /\ Oldest.key \in Keys /\ Oldest.value \in 1..made
<1>1. PICK q \in Seq(Batches) : q = rows[user]
  BY Parts, QueueFacts
<1>2. 1 \in 1..Len(q) /\ q[1] = Head(q)
  BY <1>1, FirstIsHead, Lengths
<1>3. rows[user][1] \in Batches /\ rows[user][1].key \in Keys
      /\ rows[user][1].value \in 1..made
  BY <1>1, <1>2, Numbers
<1> QED BY <1>1, <1>2, <1>3 DEF Oldest

\* The rows a step leaves: all of them, or all but the signed-in user's oldest.
OldestOut ==
  rows[user] # <<>> /\ rows' = [rows EXCEPT ![user] = Tail(@)]

LEMMA LeftOnTop ==
  ASSUME FlowOK, OldestOut
  PROVE  /\ \A u \in Users : u # user => rows'[u] = rows[u]
         /\ Len(rows[user]) \in Nat /\ Len(rows'[user]) = Len(rows[user]) - 1
         /\ \A i \in 1..Len(rows'[user]) :
               i + 1 \in 1..Len(rows[user]) /\ rows'[user][i] = rows[user][i + 1]
<1>1. QueuesOK /\ rows[user] # <<>> /\ rows' = [rows EXCEPT ![user] = Tail(@)]
  BY Parts DEF OldestOut
<1> QED BY <1>1, RowsLeft

LEMMA QueueStaysLatest ==
  ASSUME FlowOK, QueueIsLatest, wrote' = wrote, rows' = rows \/ OldestOut
  PROVE  QueueIsLatest'
<1>1. CASE rows' = rows
  BY <1>1 DEF QueueIsLatest, Queued
<1>2. CASE OldestOut
  <2>1. /\ QueuesOK /\ rows[user] # <<>> /\ rows' = [rows EXCEPT ![user] = Tail(@)]
    BY <1>2, Parts DEF OldestOut
  <2>2. /\ \A u \in Users : u # user => rows'[u] = rows[u]
        /\ Len(rows[user]) \in Nat /\ Len(rows'[user]) = Len(rows[user]) - 1
        /\ \A i \in 1..Len(rows'[user]) :
              i + 1 \in 1..Len(rows[user]) /\ rows'[user][i] = rows[user][i + 1]
    BY <1>2, LeftOnTop
  <2>3. /\ \A u \in Users : \A i \in 1..Len(rows'[u]) :
              \E j \in 1..Len(rows[u]) : rows'[u][i] = rows[u][j]
        /\ \A u \in Users : \A j \in 1..Len(rows[u]) :
              \/ \E i \in 1..Len(rows'[u]) : rows'[u][i] = rows[u][j]
              \/ u = user /\ rows[u][j] = Head(rows[user])
    BY <2>1, RowsLeftWere
  <2>4. ASSUME NEW u \in Users, NEW i \in 1..Len(rows'[u])
        PROVE  rows'[u][i].value \in wrote[u][rows'[u][i].key]
    BY <2>3 DEF QueueIsLatest
  <2>5. ASSUME NEW u \in Users, NEW i \in 1..Len(rows'[u]), NEW j \in 1..(i - 1)
        PROVE  rows'[u][j].value < rows'[u][i].value
    <3>1. CASE u # user
      BY <2>2, <3>1 DEF QueueIsLatest
    <3>2. CASE u = user
      <4>1. j \in 1..Len(rows'[user]) /\ j + 1 \in 1..((i + 1) - 1)
        BY <2>2, <3>2
      <4>2. i + 1 \in 1..Len(rows[user]) /\ rows'[user][i] = rows[user][i + 1]
            /\ rows'[user][j] = rows[user][j + 1]
        BY <2>2, <3>2, <4>1
      <4>3. rows[user][j + 1].value < rows[user][i + 1].value
        BY <2>1, <4>1, <4>2 DEF QueueIsLatest, QueuesOK
      <4> QED BY <3>2, <4>2, <4>3
    <3> QED BY <3>1, <3>2
  <2>6. ASSUME NEW u \in Users, NEW k \in Keys, NEW v \in wrote[u][k],
               NEW i \in 1..Len(rows'[u]), rows'[u][i].value <= v
        PROVE  \E m \in 1..Len(rows'[u]) : rows'[u][m].value = v
    <3>1. PICK j \in 1..Len(rows[u]) :
             rows'[u][i] = rows[u][j] /\ (u = user => j = i + 1 /\ i \in Nat)
      <4>1. CASE u = user
        BY <2>2, <4>1
      <4>2. CASE u # user
        BY <2>2, <4>2
      <4> QED BY <4>1, <4>2
    <3>2. PICK m \in 1..Len(rows[u]) : rows[u][m].value = v
      BY <2>6, <3>1 DEF QueueIsLatest, Queued
    <3>3. ~(u = user /\ rows[u][m] = Head(rows[user]))
      <4> SUFFICES ASSUME u = user, rows[u][m] = Head(rows[user]) PROVE FALSE
        OBVIOUS
      <4>1. 1 \in 1..Len(rows[user]) /\ rows[user][1] = Head(rows[user])
        BY <2>1, OldestIsFirst DEF Oldest
      <4>2. 1 \in 1..(j - 1) /\ rows[user][1].value = v
        <5>1. j = i + 1 /\ i \in Nat /\ 1 <= i
          BY <3>1
        <5> QED BY <3>2, <4>1, <5>1
      <4>3. rows[user][1].value < rows[user][j].value
        BY <2>1, <3>1, <4>2 DEF QueueIsLatest, QueuesOK
      <4>4. rows[user][1].value \in Int /\ rows[user][j].value \in Int
        BY <3>1, <4>1, Numbers
      <4> QED BY <2>6, <3>1, <4>2, <4>3, <4>4
    <3>4. \E n \in 1..Len(rows'[u]) : rows'[u][n] = rows[u][m]
      BY <2>3, <3>3
    <3> QED BY <3>2, <3>4
  <2> QED BY <2>4, <2>5, <2>6 DEF QueueIsLatest, Queued
<1> QED BY <1>1, <1>2

\* What is told while the server keeps its documents.  The oldest row may go
\* and its handler be told when its document holds it; it may also go when the
\* server has refused it.
LEMMA TellingKeepsOrder ==
  ASSUME FlowOK, OrderOK, UnreadIsThere',
         rows' = rows \/ (OldestOut /\ (OldestThere \/ Oldest.value \in refused)),
         wrote' = wrote, server' = server, stored' = stored, refused \subseteq refused',
         acked' = acked \/ (OldestThere /\ acked' \subseteq acked \cup {Oldest.value})
  PROVE  OrderOK'
<1>1. /\ QueueIsLatest /\ WroteOnce /\ AckedIsFirst /\ AckedStays /\ OlderIsForNow
  BY DEF OrderOK
<1>2. QueueIsLatest'
  BY <1>1, QueueStaysLatest
<1>3. WroteOnce'
  BY <1>1 DEF WroteOnce
<1>4. ASSUME rows[user] # <<>>
      PROVE  /\ Oldest.value \in wrote[user][Oldest.key] /\ Oldest.key \in Keys
             /\ \A u \in Users, k \in Keys :
                   Oldest.value \in wrote[u][k] => u = user /\ k = Oldest.key
  <2>1. 1 \in 1..Len(rows[user]) /\ rows[user][1] = Oldest /\ Oldest.key \in Keys
    BY <1>4, OldestIsFirst
  <2> QED BY <1>1, <2>1, Numbers, AuthorOfRow
<1>5. \A u \in Users : \A i \in 1..Len(rows'[u]) :
         \E j \in 1..Len(rows[u]) : rows'[u][i] = rows[u][j]
  <2>1. CASE rows' = rows
    BY <2>1
  <2>2. CASE OldestOut
    BY <2>2, Parts, RowsLeftWere DEF OldestOut
  <2> QED BY <2>1, <2>2
<1>6. AckedIsFirst'
  <2>1. ASSUME NEW u \in Users, NEW k \in Keys, NEW v \in acked' \cap wrote[u][k],
               NEW i \in 1..Len(rows'[u])
        PROVE  v <= rows'[u][i].value
    <3>1. PICK j \in 1..Len(rows[u]) : rows'[u][i] = rows[u][j]
      BY <1>5
    <3>2. CASE v \in acked
      BY <1>1, <3>1, <3>2 DEF AckedIsFirst
    <3>3. CASE v \notin acked
      <4>1. rows[user] # <<>> /\ v = Oldest.value
        BY <3>3 DEF OldestThere
      <4>2. u = user
        BY <1>4, <4>1
      <4>3. 1 \in 1..Len(rows[user]) /\ rows[user][1] = Oldest
        BY <4>1, OldestIsFirst
      <4>4. Oldest.value <= rows[user][j].value
        <5>1. j \in 1..Len(rows[user]) /\ 1 <= j
          BY <4>2
        <5> QED BY <1>1, <4>3, <5>1, RowsIncrease, Numbers
      <4> QED BY <3>1, <4>1, <4>2, <4>4
    <3> QED BY <3>2, <3>3
  <2> QED BY <1>1, <2>1 DEF AckedIsFirst
<1>7. AckedStays'
  <2>1. ASSUME NEW u \in Users, NEW k \in Keys, server[k] \in wrote[u][k],
               NEW v \in acked' \cap wrote[u][k]
        PROVE  v <= server[k]
    <3>1. CASE v \in acked
      BY <1>1, <2>1, <3>1 DEF AckedStays
    <3>2. CASE v \notin acked
      <4>1. OldestThere /\ rows[user] # <<>> /\ v = Oldest.value
        BY <3>2 DEF OldestThere
      <4>2. u = user /\ k = Oldest.key
        BY <1>4, <4>1
      <4> QED BY <2>1, <4>1, <4>2 DEF OldestThere
    <3> QED BY <3>1, <3>2
  <2> QED BY <2>1 DEF AckedStays
<1>8. OlderIsForNow'
  <2>1. ASSUME NEW u \in Users, NEW k \in Keys, server[k] \in wrote[u][k],
               NEW v \in stored \cap wrote[u][k], ~(v <= server[k]), v \notin refused'
        PROVE  \E m \in 1..Len(rows'[u]) : rows'[u][m].value = v
    <3>1. PICK m \in 1..Len(rows[u]) : rows[u][m].value = v
      BY <1>1, <2>1 DEF OlderIsForNow, Queued
    <3>2. CASE rows' = rows
      BY <3>1, <3>2
    <3>3. CASE OldestOut /\ (OldestThere \/ Oldest.value \in refused)
      <4>1. ~(u = user /\ rows[u][m] = Oldest)
        <5> SUFFICES ASSUME u = user, rows[u][m] = Oldest PROVE FALSE
          OBVIOUS
        <5>1. rows[user] # <<>> /\ v = Oldest.value /\ Oldest.value \notin refused
          BY <2>1, <3>1, <3>3 DEF OldestOut
        <5>2. OldestThere /\ k = Oldest.key
          BY <1>4, <2>1, <3>3, <5>1
        <5> QED BY <2>1, <5>1, <5>2 DEF OldestThere
      <4>2. \E n \in 1..Len(rows'[u]) : rows'[u][n] = rows[u][m]
        BY <3>3, <4>1, Parts, RowsLeftWere DEF OldestOut, Oldest
      <4> QED BY <3>1, <4>2
    <3> QED BY <3>2, <3>3
  <2> QED BY <2>1 DEF OlderIsForNow, Queued
<1> QED BY <1>2, <1>3, <1>6, <1>7, <1>8 DEF OrderOK

\* The answers a step leaves: none, or old ones and the handshake's.
LEMMA UnreadLost ==
  ASSUME replies' = <<>>
  PROVE  UnreadIsThere'
<1>1. Len(<<>>) = 0
  BY EmptySeq
<1> QED BY <1>1 DEF UnreadIsThere

LEMMA UnreadKept ==
  ASSUME UnreadIsThere, UNCHANGED <<user, server, wrote>>,
         \A i \in 1..Len(replies') :
            replies'[i] = Hello \/ \E j \in 1..Len(replies) : replies'[i] = replies[j]
  PROVE  UnreadIsThere'
  BY DEF UnreadIsThere

LEMMA UnreadButOne ==
  ASSUME FlowOK, UnreadIsThere, UNCHANGED <<user, server, wrote>>,
         replies # <<>>, replies' = Tail(replies)
  PROVE  UnreadIsThere'
<1>1. PICK r \in Seq(Requests) : r = replies
  BY Parts DEF LinkOK
<1>2. PICK t \in Seq(Requests) : t = Tail(r)
  BY <1>1, FirstIsHead
<1>3. Len(r) \in Nat /\ Len(t) = Len(r) - 1 /\ \A i \in 1..(Len(r) - 1) : t[i] = r[i + 1]
  BY <1>1, <1>2, FirstIsHead, Lengths
<1>4. \A i \in 1..Len(t) : i + 1 \in 1..Len(r) /\ t[i] = r[i + 1]
  BY <1>3
<1>5. \A i \in 1..Len(replies') : \E j \in 1..Len(replies) : replies'[i] = replies[j]
  BY <1>1, <1>2, <1>4
<1> QED BY <1>5, UnreadKept

LEMMA UnreadAndHello ==
  ASSUME FlowOK, UnreadIsThere, UNCHANGED <<user, server, wrote>>,
         replies' = Append(replies, Hello)
  PROVE  UnreadIsThere'
<1>1. PICK r \in Seq(Requests) : r = replies
  BY Parts DEF LinkOK
<1>2. PICK t \in Seq(Requests) : t = Append(r, Hello)
  BY AppendProperties DEF Requests
<1>3. /\ Len(t) = Len(r) + 1 /\ t[Len(r) + 1] = Hello /\ \A i \in 1..Len(r) : t[i] = r[i]
  BY <1>2, AppendProperties DEF Requests
<1>4. \A i \in 1..Len(t) : i \in 1..Len(r) \/ i = Len(r) + 1
  BY <1>3, Lengths
<1>5. \A i \in 1..Len(replies') :
         replies'[i] = Hello \/ \E j \in 1..Len(replies) : replies'[i] = replies[j]
  BY <1>1, <1>2, <1>3, <1>4
<1> QED BY <1>5, UnreadKept

\* The answers under way are of the first rows, in their order.
LEMMA UnreadIsRow ==
  ASSUME FlowOK, NEW i \in 1..Len(replies), replies[i] # Hello
  PROVE  shaken /\ i \in 1..Len(rows[user]) /\ replies[i] = rows[user][i]
<1>1. LinkOK /\ QueuesOK
  BY Parts
<1>2. PICK r \in Seq(Requests) : r = replies
  BY <1>1 DEF LinkOK
<1>3. PICK s \in Seq(Requests) : s = sent
  BY <1>1 DEF LinkOK
<1>4. /\ Len(r \o s) = Len(r) + Len(s)
      /\ \A j \in 1..(Len(r) + Len(s)) :
           (r \o s)[j] = IF j <= Len(r) THEN r[j] ELSE s[j - Len(r)]
  BY ConcatProperties
<1>5. Len(r) \in Nat /\ Len(s) \in Nat
  BY Lengths
<1>6. PICK p : p = r \o s
  OBVIOUS
<1>7. i \in 1..Len(p) /\ p[i] = r[i]
  BY <1>2, <1>4, <1>5, <1>6
<1>8. p = IF shaken THEN pipeline ELSE IF stream = "open" THEN <<Hello>> ELSE <<>>
  BY <1>1, <1>2, <1>3, <1>6 DEF LinkOK, AnswersMatchPipeline
<1>9. shaken
  <2>1. Len(<<>>) = 0 /\ Len(<<Hello>>) = 1 /\ <<Hello>>[1] = Hello
    BY EmptySeq
  <2> SUFFICES ASSUME ~shaken PROVE FALSE
    OBVIOUS
  <2>2. CASE stream = "open"
    <3>1. p = <<Hello>> /\ i = 1
      BY <1>7, <1>8, <2>1, <2>2
    <3> QED BY <1>2, <1>7, <2>1, <3>1
  <2>3. CASE stream # "open"
    BY <1>7, <1>8, <2>1, <2>3
  <2> QED BY <2>2, <2>3
<1>10. pipeline = p
  BY <1>8, <1>9
<1> QED BY <1>1, <1>2, <1>7, <1>9, <1>10, OfThePipeline

\* An answer on its way, and a refusal, are of the oldest row.
LEMMA OldestIsThere ==
  ASSUME FlowOK, UnreadIsThere, shaken, replies # <<>>
  PROVE  OldestThere
<1>1. rows[user] # <<>> /\ Head(pipeline) = Oldest
  BY OldestAnswered DEF Oldest
<1>2. Head(pipeline) = Head(replies)
  BY AnswerIsFirsts
<1>3. Oldest \in Batches
  BY <1>1, OldestIsFirst
<1>4. PICK r \in Seq(Requests) : r = replies
  BY Parts DEF LinkOK
<1>5. r[1] = Head(r) /\ 1 \in 1..Len(r)
  BY <1>4, FirstIsHead, Lengths
<1>6. replies[1] = Oldest /\ 1 \in 1..Len(replies) /\ Oldest # Hello
  BY <1>1, <1>2, <1>3, <1>4, <1>5, HelloAssumption
<1> QED BY <1>1, <1>6 DEF UnreadIsThere, OldestThere

LEMMA OldestThereOrRefused ==
  ASSUME FlowOK, UnreadIsThere, status = "refused"
  PROVE  OldestThere \/ Oldest.value \in refused
<1>1. LinkOK /\ HistoryOK
  BY Parts
<1>2. shaken /\ sent # <<>>
  BY <1>1 DEF LinkOK, StreamNeeded
<1>3. CASE replies # <<>>
  BY <1>2, <1>3, OldestIsThere
<1>4. CASE replies = <<>>
  <2>1. Head(sent) # Hello
    BY <1>2, NextRequest
  <2>2. Head(pipeline) = Head(sent)
    BY <1>2, <1>4, <2>1, RequestIsPipelines
  <2>3. Head(pipeline) = Oldest
    BY OldestSettled DEF Oldest
  <2> QED BY <1>1, <2>2, <2>3 DEF HistoryOK, RefusedIsNext
<1> QED BY <1>3, <1>4
(***************************************************************************)
(* A write is the latest of all.                                           *)
(***************************************************************************)
WroteOneMore(key) ==
  /\ made + 1 \in wrote'[user][key]
  /\ \A u \in Users, k \in Keys :
        /\ wrote[u][k] \subseteq wrote'[u][k]
        /\ \A v \in wrote'[u][k] :
              v \in wrote[u][k] \/ (u = user /\ k = key /\ v = made + 1)

LEMMA LatestWritten ==
  ASSUME FlowOK, NEW key \in Keys, Write(key)
  PROVE  /\ \A u \in Users : \A i \in 1..Len(rows[u]) :
               i \in 1..Len(rows'[u]) /\ rows'[u][i] = rows[u][i]
         /\ \A u \in Users : \A i \in 1..Len(rows'[u]) :
               \/ i \in 1..Len(rows[u])
               \/ /\ u = user /\ i = Len(rows[user]) + 1
                  /\ rows'[u][i].value = made + 1 /\ rows'[u][i].key = key
         /\ Len(rows[user]) + 1 \in 1..Len(rows'[user])
         /\ rows'[user][Len(rows[user]) + 1].value = made + 1
         /\ Len(rows[user]) \in Nat
         /\ WroteOneMore(key)
<1>1. PICK b \in Batches : /\ b.value = made + 1 /\ b.key = key
                           /\ rows' = [rows EXCEPT ![user] = Append(@, b)]
  BY BatchWritten
<1>2. PICK q \in Seq(Batches) : q = rows[user]
  BY Numbers
<1>3. PICK r \in Seq(Batches) : r = Append(q, b)
  BY AppendProperties
<1>4. /\ Len(r) = Len(q) + 1 /\ r[Len(q) + 1] = b /\ \A i \in 1..Len(q) : r[i] = q[i]
      /\ Len(q) \in Nat
  BY <1>3, AppendProperties, Lengths
<1>5. user \in Users /\ rows'[user] = r /\ \A u \in Users : u # user => rows'[u] = rows[u]
  BY <1>1, <1>2, <1>3, Numbers
<1>6. \A i \in 1..Len(r) : i \in 1..Len(q) \/ i = Len(q) + 1
  BY <1>4
<1>7. \A i \in 1..Len(q) : i \in 1..Len(r)
  BY <1>4
<1>8. Len(q) + 1 \in 1..Len(r)
  BY <1>4
<1>9. WroteOneMore(key)
  <2>1. wrote' = [wrote EXCEPT ![user][key] = @ \cup {made + 1}]
    BY DEF Write
  <2>2. wrote \in [Users -> [Keys -> SUBSET (1..made)]]
    BY Parts DEF HistoryOK
  <2>3. \A u \in Users, k \in Keys : wrote'[u][k] =
           IF u = user /\ k = key THEN wrote[u][k] \cup {made + 1} ELSE wrote[u][k]
    BY <2>1, <2>2
  <2>4. user \in Users
    BY Numbers
  <2>5. /\ wrote'[user][key] = wrote[user][key] \cup {made + 1}
        /\ \A u \in Users, k \in Keys :
              ~(u = user /\ k = key) => wrote'[u][k] = wrote[u][k]
    BY <2>3, <2>4
  <2>6. made + 1 \in wrote'[user][key]
    BY <2>5
  <2>7. ASSUME NEW u \in Users, NEW k \in Keys
        PROVE  /\ wrote[u][k] \subseteq wrote'[u][k]
               /\ \A v \in wrote'[u][k] :
                     v \in wrote[u][k] \/ (u = user /\ k = key /\ v = made + 1)
    <3>1. CASE u = user /\ k = key
      BY <2>5, <3>1
    <3>2. CASE ~(u = user /\ k = key)
      BY <2>5, <3>2
    <3> QED BY <3>1, <3>2
  <2> QED BY <2>6, <2>7 DEF WroteOneMore
<1>10. ASSUME NEW u \in Users, NEW i \in 1..Len(rows[u])
       PROVE  i \in 1..Len(rows'[u]) /\ rows'[u][i] = rows[u][i]
  BY <1>2, <1>4, <1>5, <1>7
<1>11. ASSUME NEW u \in Users, NEW i \in 1..Len(rows'[u])
       PROVE  \/ i \in 1..Len(rows[u])
              \/ /\ u = user /\ i = Len(rows[user]) + 1
                 /\ rows'[u][i].value = made + 1 /\ rows'[u][i].key = key
  BY <1>1, <1>2, <1>4, <1>5, <1>6
<1> QED BY <1>1, <1>2, <1>4, <1>5, <1>8, <1>9, <1>10, <1>11

LEMMA WriteKeepsLatest ==
  ASSUME FlowOK, QueueIsLatest, NEW key \in Keys, Write(key)
  PROVE  QueueIsLatest'
<1>0. /\ made + 1 \in wrote'[user][key]
      /\ \A u \in Users, k \in Keys :
            /\ wrote[u][k] \subseteq wrote'[u][k]
            /\ \A v \in wrote'[u][k] :
                  v \in wrote[u][k] \/ (u = user /\ k = key /\ v = made + 1)
  <2>1. WroteOneMore(key)
    BY LatestWritten
  <2> QED BY <2>1 DEF WroteOneMore
<1>1. /\ \A u \in Users : \A i \in 1..Len(rows[u]) :
            i \in 1..Len(rows'[u]) /\ rows'[u][i] = rows[u][i]
      /\ \A u \in Users : \A i \in 1..Len(rows'[u]) :
            \/ i \in 1..Len(rows[u])
            \/ /\ u = user /\ i = Len(rows[user]) + 1
               /\ rows'[u][i].value = made + 1 /\ rows'[u][i].key = key
      /\ Len(rows[user]) + 1 \in 1..Len(rows'[user])
      /\ rows'[user][Len(rows[user]) + 1].value = made + 1
      /\ Len(rows[user]) \in Nat
  BY LatestWritten
<1>2. /\ user \in Users /\ made \in Nat
      /\ \A u \in Users, k \in Keys : \A v \in wrote[u][k] : v \in Nat /\ v <= made
      /\ \A u \in Users : \A i \in 1..Len(rows[u]) :
            /\ rows[u][i].key \in Keys
            /\ rows[u][i].value \in Nat /\ rows[u][i].value <= made
  <2>1. \A u \in Users, k \in Keys : wrote[u][k] \subseteq 1..made
    BY Numbers
  <2>2. \A u \in Users : \A i \in 1..Len(rows[u]) : rows[u][i].value \in 1..made
    BY Numbers
  <2>3. made \in Nat /\ \A v \in 1..made : v \in Nat /\ v <= made
    BY Numbers
  <2> QED BY <2>1, <2>2, <2>3, Numbers
<1>3. ASSUME NEW u \in Users, NEW i \in 1..Len(rows'[u])
      PROVE  rows'[u][i].value \in wrote'[u][rows'[u][i].key]
  <2>1. CASE i \in 1..Len(rows[u])
    <3>1. rows'[u][i] = rows[u][i] /\ rows[u][i].key \in Keys
      BY <1>1, <1>2, <2>1
    <3>2. rows[u][i].value \in wrote[u][rows[u][i].key]
      BY <2>1 DEF QueueIsLatest
    <3> QED BY <1>0, <3>1, <3>2
  <2>2. CASE i \notin 1..Len(rows[u])
    BY <1>0, <1>1, <2>2
  <2> QED BY <2>1, <2>2
<1>4. ASSUME NEW u \in Users, NEW i \in 1..Len(rows'[u]), NEW j \in 1..(i - 1)
      PROVE  rows'[u][j].value < rows'[u][i].value
  <2>1. CASE i \in 1..Len(rows[u])
    <3>1. /\ rows'[u][i] = rows[u][i]
          /\ j \in 1..Len(rows[u]) => rows'[u][j] = rows[u][j]
      BY <1>1, <2>1
    <3>2. Len(rows[u]) \in Nat
      BY Numbers, Lengths
    <3>3. j \in 1..Len(rows[u])
      BY <2>1, <3>2
    <3>4. rows[u][j].value < rows[u][i].value
      BY <2>1 DEF QueueIsLatest
    <3> QED BY <3>1, <3>3, <3>4
  <2>2. CASE i \notin 1..Len(rows[u])
    <3>1. u = user /\ i = Len(rows[user]) + 1 /\ rows'[u][i].value = made + 1
      BY <1>1, <2>2
    <3>2. j \in 1..Len(rows[u])
      BY <1>1, <3>1
    <3>3. rows'[u][j].value \in Nat /\ rows'[u][j].value <= made
      BY <1>1, <1>2, <3>2
    <3> QED BY <1>2, <3>1, <3>3
  <2> QED BY <2>1, <2>2
<1>5. ASSUME NEW u \in Users, NEW k \in Keys, NEW v \in wrote'[u][k],
             NEW i \in 1..Len(rows'[u]), rows'[u][i].value <= v
      PROVE  \E m \in 1..Len(rows'[u]) : rows'[u][m].value = v
  <2>1. CASE v \in wrote[u][k]
    <3>1. v \in Nat /\ v <= made
      BY <1>2, <2>1
    <3>2. i \in 1..Len(rows[u])
      BY <1>1, <1>2, <1>5, <3>1
    <3>3. rows[u][i].value <= v
      BY <1>1, <1>5, <3>2
    <3>4. PICK m \in 1..Len(rows[u]) : rows[u][m].value = v
      BY <2>1, <3>2, <3>3 DEF QueueIsLatest, Queued
    <3> QED BY <1>1, <3>4
  <2>2. CASE v \notin wrote[u][k]
    <3>1. u = user /\ v = made + 1
      BY <1>0, <2>2
    <3> QED BY <1>1, <3>1
  <2> QED BY <2>1, <2>2
<1> QED BY <1>3, <1>4, <1>5 DEF QueueIsLatest, Queued

LEMMA WriteKeepsOrder ==
  ASSUME FlowOK, OrderOK, NEW key \in Keys, Write(key)
  PROVE  OrderOK'
<1>1. /\ QueueIsLatest /\ WroteOnce /\ AckedIsFirst /\ UnreadIsThere
      /\ AckedStays /\ OlderIsForNow
  BY DEF OrderOK
<1>2. PICK new : new = made + 1
  OBVIOUS
<1>3. /\ \A u \in Users : \A i \in 1..Len(rows[u]) :
            i \in 1..Len(rows'[u]) /\ rows'[u][i] = rows[u][i]
      /\ \A u \in Users : \A i \in 1..Len(rows'[u]) :
            i \in 1..Len(rows[u]) \/ rows'[u][i].value = new
  BY <1>2, LatestWritten
<1>4. /\ \A u \in Users, k \in Keys : new \notin wrote[u][k]
      /\ \A v \in acked \cup stored : v \in Nat /\ v < new
      /\ \A k \in Keys : server[k] # new
      /\ \A u \in Users : \A i \in 1..Len(rows[u]) : rows[u][i].key \in Keys
  <2>1. made \in Nat /\ new \notin 1..made /\ new # 0
    BY <1>2, Numbers
  <2>2. \A v \in 1..made : v \in Nat /\ v < new
    BY <1>2, Numbers
  <2>3. \A u \in Users, k \in Keys : new \notin wrote[u][k]
    BY <2>1, Numbers
  <2>4. \A v \in acked \cup stored : v \in 1..made
    BY Numbers
  <2>5. \A k \in Keys : server[k] = 0 \/ server[k] \in stored
    BY <1>1 DEF AckedIsFirst
  <2>6. \A k \in Keys : server[k] # new
    BY <2>1, <2>4, <2>5
  <2> QED BY <2>2, <2>3, <2>4, <2>6, Numbers
<1>5. UNCHANGED <<user, replies, server, acked, stored, refused>>
  BY DEF Write
<1>6. \A u \in Users, k \in Keys : \A v \in wrote'[u][k] :
         v \in wrote[u][k] \/ (u = user /\ k = key /\ v = new)
  <2>1. WroteOneMore(key)
    BY LatestWritten
  <2> QED BY <1>2, <2>1 DEF WroteOneMore
<1>7. WroteOnce'
  <2> SUFFICES ASSUME NEW t \in Users, NEW u \in Users, NEW k \in Keys, NEW l \in Keys,
                      NEW v, v \in wrote'[t][k], v \in wrote'[u][l]
               PROVE  t = u /\ k = l
    BY DEF WroteOnce
  <2>1. CASE v = new
    BY <1>4, <1>6, <2>1
  <2>2. CASE v # new
    BY <1>1, <1>6, <2>2 DEF WroteOnce
  <2> QED BY <2>1, <2>2
<1>8. AckedIsFirst'
  <2>1. ASSUME NEW u \in Users, NEW k \in Keys, NEW v \in acked \cap wrote'[u][k],
               NEW i \in 1..Len(rows'[u])
        PROVE  v <= rows'[u][i].value
    <3>1. v \in Nat /\ v < new /\ v # new
      BY <1>4
    <3>2. v \in wrote[u][k]
      BY <1>6, <3>1
    <3>3. CASE i \in 1..Len(rows[u])
      BY <1>1, <1>3, <3>2, <3>3 DEF AckedIsFirst
    <3>4. CASE i \notin 1..Len(rows[u])
      <4>1. rows'[u][i].value = new /\ new \in Nat
        BY <1>2, <1>3, <3>4, Numbers
      <4> QED BY <3>1, <4>1
    <3> QED BY <3>3, <3>4
  <2> QED BY <1>1, <1>5, <2>1 DEF AckedIsFirst
<1>9. UnreadIsThere'
  <2>1. ASSUME NEW i \in 1..Len(replies), replies[i] # Hello,
               server[replies[i].key] \in wrote'[user][replies[i].key]
        PROVE  replies[i].value <= server[replies[i].key]
    <3>1. replies[i].key \in Keys
      BY <2>1, UnreadIsRow, Numbers
    <3>2. server[replies[i].key] \in wrote[user][replies[i].key]
      BY <1>4, <1>6, <2>1, <3>1, Numbers
    <3> QED BY <1>1, <2>1, <3>2 DEF UnreadIsThere
  <2> QED BY <1>5, <2>1 DEF UnreadIsThere
<1>10. AckedStays'
  <2>1. ASSUME NEW u \in Users, NEW k \in Keys, server[k] \in wrote'[u][k],
               NEW v \in acked \cap wrote'[u][k]
        PROVE  v <= server[k]
    <3>1. server[k] # new /\ v # new
      BY <1>4, <2>1
    <3>2. server[k] \in wrote[u][k] /\ v \in wrote[u][k]
      BY <1>6, <2>1, <3>1
    <3> QED BY <1>1, <3>2 DEF AckedStays
  <2> QED BY <1>5, <2>1 DEF AckedStays
<1>11. OlderIsForNow'
  <2>1. ASSUME NEW u \in Users, NEW k \in Keys, server[k] \in wrote'[u][k],
               NEW v \in stored \cap wrote'[u][k], ~(v <= server[k]), v \notin refused
        PROVE  \E m \in 1..Len(rows'[u]) : rows'[u][m].value = v
    <3>1. server[k] # new /\ v # new
      BY <1>4, <2>1
    <3>2. server[k] \in wrote[u][k] /\ v \in wrote[u][k]
      BY <1>6, <2>1, <3>1
    <3>3. PICK m \in 1..Len(rows[u]) : rows[u][m].value = v
      BY <1>1, <2>1, <3>2 DEF OlderIsForNow, Queued
    <3> QED BY <1>3, <3>3
  <2> QED BY <1>5, <2>1 DEF OlderIsForNow, Queued
<1>12. QueueIsLatest'
  BY <1>1, WriteKeepsLatest
<1> QED BY <1>7, <1>8, <1>9, <1>10, <1>11, <1>12 DEF OrderOK

(***************************************************************************)
(* The server stores a write: all of its user's that handlers were told of *)
(* are before it, and all that were made after it are queued.              *)
(***************************************************************************)
LEMMA ServerStoresKeepsOrder ==
  ASSUME FlowOK, OrderOK, ServerStores
  PROVE  OrderOK'
<1>1. /\ QueueIsLatest /\ WroteOnce /\ AckedIsFirst /\ UnreadIsThere
      /\ AckedStays /\ OlderIsForNow
  BY DEF OrderOK
<1>2. /\ Taking /\ Head(sent) # Hello
      /\ server' = [server EXCEPT ![Head(sent).key] = Head(sent).value]
      /\ stored' = stored \cup {Head(sent).value}
      /\ replies' = Append(replies, Head(sent))
      /\ UNCHANGED <<user, rows, wrote, acked, refused>>
  BY DEF ServerStores
<1>3. shaken /\ sent # <<>>
  BY <1>2, RequestIsPipelines DEF Taking
<1>4. PICK n \in 1..Len(rows[user]) :
         n = Len(replies) + 1 /\ rows[user][n] = Head(sent) /\ Len(replies) \in Nat
  BY <1>3, NextRequest
<1>5. PICK b : b = Head(sent)
  OBVIOUS
<1>6. b \in Batches /\ b.key \in Keys /\ b.value \in Nat /\ user \in Users
  BY <1>4, <1>5, Numbers
<1>7. /\ b.value \in wrote[user][b.key]
      /\ \A u \in Users, k \in Keys : b.value \in wrote[u][k] => u = user /\ k = b.key
  BY <1>1, <1>4, <1>5, <1>6, AuthorOfRow
<1>8. /\ server'[b.key] = b.value
      /\ \A k \in Keys : k # b.key => server'[k] = server[k]
  BY <1>2, <1>5, <1>6, Numbers
<1>9. QueueIsLatest' /\ WroteOnce'
  BY <1>1, <1>2 DEF QueueIsLatest, Queued, WroteOnce
<1>10. AckedIsFirst'
  <2>1. \A k \in Keys : server'[k] = 0 \/ server'[k] \in stored'
    BY <1>1, <1>2, <1>5, <1>8 DEF AckedIsFirst
  <2> QED BY <1>1, <1>2, <2>1 DEF AckedIsFirst
<1>11. UnreadIsThere'
  <2>1. PICK r \in Seq(Requests) : r = replies
    BY Parts DEF LinkOK
  <2>2. PICK t \in Seq(Requests) : t = Append(r, b)
    BY <1>6, AppendProperties DEF Requests
  <2>3. /\ Len(t) = Len(r) + 1 /\ t[Len(r) + 1] = b /\ \A i \in 1..Len(r) : t[i] = r[i]
    BY <1>6, <2>2, AppendProperties DEF Requests
  <2>4. ASSUME NEW i \in 1..Len(t), t[i] # Hello,
               server'[t[i].key] \in wrote[user][t[i].key]
        PROVE  t[i].value <= server'[t[i].key]
    <3>1. CASE i = Len(r) + 1
      BY <1>6, <1>8, <2>3, <3>1
    <3>2. CASE i # Len(r) + 1
      <4>1. i \in 1..Len(replies) /\ t[i] = replies[i] /\ i <= n
        BY <1>4, <2>1, <2>3, <3>2
      <4>2. i \in 1..Len(rows[user]) /\ t[i] = rows[user][i]
        BY <2>4, <4>1, UnreadIsRow
      <4>3. CASE t[i].key = b.key
        BY <1>1, <1>4, <1>5, <1>6, <1>8, <4>1, <4>2, <4>3, RowsIncrease
      <4>4. CASE t[i].key # b.key
        <5>1. t[i].key \in Keys
          BY <1>6, <4>2, Numbers
        <5>2. server'[t[i].key] = server[t[i].key]
          BY <1>8, <4>4, <5>1
        <5> QED BY <1>1, <2>4, <4>1, <5>2 DEF UnreadIsThere
      <4> QED BY <4>3, <4>4
    <3> QED BY <3>1, <3>2
  <2>5. replies' = t
    BY <1>2, <1>5, <2>1, <2>2
  <2> QED BY <1>2, <2>4, <2>5 DEF UnreadIsThere
<1>12. AckedStays'
  <2>1. ASSUME NEW u \in Users, NEW k \in Keys, server'[k] \in wrote[u][k],
               NEW v \in acked \cap wrote[u][k]
        PROVE  v <= server'[k]
    <3>1. CASE k = b.key
      BY <1>1, <1>4, <1>5, <1>7, <1>8, <2>1, <3>1 DEF AckedIsFirst
    <3>2. CASE k # b.key
      BY <1>1, <1>8, <2>1, <3>2 DEF AckedStays
    <3> QED BY <3>1, <3>2
  <2> QED BY <1>2, <2>1 DEF AckedStays
<1>13. OlderIsForNow'
  <2>1. ASSUME NEW u \in Users, NEW k \in Keys, server'[k] \in wrote[u][k],
               NEW v \in stored' \cap wrote[u][k], ~(v <= server'[k]), v \notin refused
        PROVE  Queued(u, v)
    <3>1. CASE k = b.key
      <4>1. u = user /\ server'[k] = b.value
        BY <1>7, <1>8, <2>1, <3>1
      <4>2. v \in Nat
        <5>1. wrote[u][k] \subseteq 1..made
          BY Numbers
        <5>2. \A x \in 1..made : x \in Nat
          OBVIOUS
        <5> QED BY <5>1, <5>2
      <4>3. b.value <= v
        BY <1>6, <2>1, <4>1, <4>2
      <4> QED BY <1>1, <1>4, <1>5, <4>1, <4>3 DEF QueueIsLatest
    <3>2. CASE k # b.key
      <4>1. v \in stored
        BY <1>2, <1>5, <1>7, <3>2
      <4> QED BY <1>1, <1>8, <2>1, <3>2, <4>1 DEF OlderIsForNow
    <3> QED BY <3>1, <3>2
  <2> QED BY <1>2, <2>1 DEF OlderIsForNow, Queued
<1> QED BY <1>9, <1>10, <1>11, <1>12, <1>13 DEF OrderOK

(***************************************************************************)
(* The other steps.                                                        *)
(***************************************************************************)
LEMMA ResultReadKeepsOrder ==
  ASSUME FlowOK, OrderOK, ResultRead
  PROVE  OrderOK'
<1>1. /\ shaken /\ replies # <<>> /\ replies' = Tail(replies)
      /\ rows' = [rows EXCEPT ![user] = Without(@, Head(pipeline))]
      /\ acked' = acked \cup Told(Head(pipeline))
      /\ UNCHANGED <<user, server, wrote, stored, refused>>
  BY DEF ResultRead
<1>2. /\ rows[user] # <<>> /\ Head(pipeline) = Oldest
      /\ Without(rows[user], Head(pipeline)) = Tail(rows[user])
  BY <1>1, OldestAnswered DEF Oldest
<1>3. UnreadIsThere /\ OldestThere
  BY <1>1, OldestIsThere DEF OrderOK
<1>4. UnreadIsThere'
  BY <1>1, <1>3, UnreadButOne
<1>5. OldestOut
  BY <1>1, <1>2 DEF OldestOut
<1>6. acked' \subseteq acked \cup {Oldest.value}
  BY <1>1, <1>2, Parts, ToldOfTheOldest DEF Oldest
<1> QED BY <1>1, <1>3, <1>4, <1>5, <1>6, TellingKeepsOrder

\* The refused write goes, whether its handler is told or the app dies first.
LEMMA RefusedKeepsOrder ==
  ASSUME FlowOK, OrderOK, status = "refused", replies' = <<>>,
         rows' = [rows EXCEPT ![user] = Without(@, Head(pipeline))],
         UNCHANGED <<server, wrote, acked, stored, refused>>
  PROVE  OrderOK'
<1>1. rows[user] # <<>> /\ Without(rows[user], Head(pipeline)) = Tail(rows[user])
  BY OldestSettled
<1>2. OldestThere \/ Oldest.value \in refused
  BY OldestThereOrRefused DEF OrderOK
<1>3. OldestOut
  BY <1>1 DEF OldestOut
<1> QED BY <1>2, <1>3, UnreadLost, TellingKeepsOrder

\* The answers are lost, and nothing else of the order changes.
LEMMA LosingKeepsOrder ==
  ASSUME FlowOK, OrderOK, replies' = <<>>,
         UNCHANGED <<rows, server, wrote, acked, stored, refused>>
  PROVE  OrderOK'
  BY UnreadLost, TellingKeepsOrder DEF OldestOut

\* Between NotifyUser and RemoveMutationBatch the write is told of and queued.
LEMMA DiesAcknowledgingKeepsOrder ==
  ASSUME FlowOK, OrderOK, NEW u \in Users, DiesAcknowledging(u)
  PROVE  OrderOK'
<1>1. /\ shaken /\ replies # <<>> /\ replies' = <<>>
      /\ acked' = acked \cup Told(Head(pipeline))
      /\ UNCHANGED <<rows, server, wrote, stored, refused>>
  BY DEF DiesAcknowledging, Launched, Reconnect, Disconnected
<1>2. rows[user] # <<>> /\ Head(pipeline) = Oldest
  BY <1>1, OldestAnswered DEF Oldest
<1>3. OldestThere
  BY <1>1, OldestIsThere DEF OrderOK
<1>4. acked' \subseteq acked \cup {Oldest.value}
  BY <1>1, <1>2, Parts, ToldOfTheOldest DEF Oldest
<1> QED BY <1>1, <1>3, <1>4, UnreadLost, TellingKeepsOrder

LEMMA QuietKeepsOrder ==
  ASSUME FlowOK, OrderOK, UnreadIsThere', refused \subseteq refused',
         UNCHANGED <<rows, server, wrote, acked, stored>>
  PROVE  OrderOK'
  BY TellingKeepsOrder DEF OldestOut

LEMMA OrderStep == FlowOK /\ OrderOK /\ [Next]_vars => OrderOK'
<1> SUFFICES ASSUME FlowOK, OrderOK, [Next]_vars PROVE OrderOK'
  OBVIOUS
<1>1. ASSUME NEW key \in Keys, Write(key) PROVE OrderOK'
  BY <1>1, WriteKeepsOrder
<1>2. CASE StreamOpens \/ BackoffElapsed \/ ServerRefuses \/ UNCHANGED vars
  <2>1. /\ UNCHANGED <<user, replies, rows, server, wrote, acked, stored>>
        /\ refused \subseteq refused'
    BY <1>2 DEF StreamOpens, BackoffElapsed, ServerRefuses, vars, history, link
  <2>2. UnreadIsThere'
    BY <2>1 DEF OrderOK, UnreadIsThere
  <2> QED BY <2>1, <2>2, QuietKeepsOrder
<1>3. CASE HandshakeAnswered
  <2>1. /\ replies # <<>> /\ replies' = Tail(replies)
        /\ UNCHANGED <<user, rows, server, wrote, acked, stored, refused>>
    BY <1>3 DEF HandshakeAnswered, history
  <2>2. UnreadIsThere'
    BY <2>1, UnreadButOne DEF OrderOK
  <2> QED BY <2>1, <2>2, QuietKeepsOrder
<1>4. CASE ServerGreets
  <2>1. /\ replies' = Append(replies, Hello)
        /\ UNCHANGED <<user, rows, server, wrote, acked, stored, refused>>
    BY <1>4 DEF ServerGreets, history
  <2>2. UnreadIsThere'
    BY <2>1, UnreadAndHello DEF OrderOK
  <2> QED BY <2>1, <2>2, QuietKeepsOrder
<1>5. CASE ResultRead
  BY <1>5, ResultReadKeepsOrder
<1>6. CASE RefusalRead
  <2>1. /\ status = "refused" /\ replies' = <<>>
        /\ rows' = [rows EXCEPT ![user] = Without(@, Head(pipeline))]
        /\ UNCHANGED <<server, wrote, acked, stored, refused>>
    BY <1>6 DEF RefusalRead, Disconnected
  <2> QED BY <2>1, RefusedKeepsOrder
<1>7. CASE ServerStores
  BY <1>7, ServerStoresKeepsOrder
<1>8. CASE IdleTimeout \/ StreamFails \/ ConnectivityChange
  <2>1. replies' = <<>> /\ UNCHANGED <<rows, server, wrote, acked, stored, refused>>
    BY <1>8
    DEF IdleTimeout, StreamFails, ConnectivityChange, Reconnect, Disconnected, history
  <2> QED BY <2>1, LosingKeepsOrder
<1>9. ASSUME NEW u \in Users, CredentialChange(u) \/ Relaunch(u) PROVE OrderOK'
  <2>1. replies' = <<>> /\ UNCHANGED <<rows, server, wrote, acked, stored, refused>>
    BY <1>9
    DEF CredentialChange, Relaunch, Launched, Reconnect, Disconnected, history
  <2> QED BY <2>1, LosingKeepsOrder
<1>10. ASSUME NEW u \in Users, DiesAcknowledging(u) PROVE OrderOK'
  BY <1>10, DiesAcknowledgingKeepsOrder
<1>11. ASSUME NEW u \in Users, DiesRejecting(u) PROVE OrderOK'
  <2>1. /\ status = "refused" /\ replies' = <<>>
        /\ rows' = [rows EXCEPT ![user] = Without(@, Head(pipeline))]
        /\ UNCHANGED <<server, wrote, acked, stored, refused>>
    BY <1>11 DEF DiesRejecting, Launched, Reconnect, Disconnected, history
  <2> QED BY <2>1, RefusedKeepsOrder
<1> QED
  BY <1>1, <1>2, <1>3, <1>4, <1>5, <1>6, <1>7, <1>8, <1>9, <1>10, <1>11
  DEF Next, Client, Server, Fault

LEMMA OrderInit == Init => OrderOK
<1> SUFFICES ASSUME Init PROVE OrderOK
  OBVIOUS
<1>1. Len(<<>>) = 0
  BY EmptySeq
<1>2. /\ \A u \in Users : Len(rows[u]) = 0
      /\ \A u \in Users, k \in Keys : wrote[u][k] = {}
      /\ \A k \in Keys : server[k] = 0
      /\ Len(replies) = 0
  BY <1>1 DEF Init
<1>3. QueueIsLatest /\ WroteOnce /\ AckedIsFirst
  BY <1>2 DEF QueueIsLatest, WroteOnce, AckedIsFirst
<1>4. UnreadIsThere /\ AckedStays /\ OlderIsForNow
  BY <1>2 DEF UnreadIsThere, AckedStays, OlderIsForNow
<1> QED BY <1>3, <1>4 DEF OrderOK

LEMMA IInvStep == IInv /\ [Next]_vars => IInv'
  BY StepOK, OrderStep DEF IInv

\* The queue, the pipeline, the stream and the history agree at every step
\* (LocalStore, SyncEngine, RemoteStore, Stream).
THEOREM PipelineSound == Spec => []IInv
<1>1. Init => IInv
  BY InitOK, OrderInit DEF IInv
<1>2. IInv /\ [Next]_vars => IInv'
  BY IInvStep
<1> QED BY <1>1, <1>2, PTL DEF Spec

\* Every variable stays within its type.
THEOREM PipelineTypes == Spec => []TypeOK
<1>1. IInv => TypeOK
  BY DEF IInv, FlowOK
<1> QED BY <1>1, PipelineSound, PTL

\* FillWritePipeline, whatever has refilled the pipeline, leaves it at the head
\* of the signed-in user's queue.
THEOREM PipelineAtTheHead == Spec => []PipelineTracksQueue
<1>1. IInv => PipelineTracksQueue
  BY DEF IInv, FlowOK
<1> QED BY <1>1, PipelineSound, PTL

\* OnWriteStreamMutationResult, which takes an answer to be the first batch's,
\* is right to.
THEOREM AnswersAreTheFirsts == Spec => []AnswersMatchPipeline
<1>1. IInv => AnswersMatchPipeline
  BY DEF IInv, FlowOK
<1> QED BY <1>1, PipelineSound, PTL

\* OnWriteStreamClose and the others leave no stream stopped that is needed.
THEOREM NeededIsStarted == Spec => []StreamNeeded
<1>1. IInv => StreamNeeded
  BY DEF IInv, FlowOK
<1> QED BY <1>1, PipelineSound, PTL

\* The ids that LoadNextBatchIdFromDb starts from keep each queue in order.
THEOREM IdsInOrder == Spec => []IdsIncrease
<1>1. IInv => IdsIncrease
  BY DEF IInv, FlowOK
<1> QED BY <1>1, PipelineSound, PTL

\* NotifyUser finds under a batch's id the handler of that batch's write.
THEOREM CallbacksOfTheirWrites == Spec => []CallbacksMatch
<1>1. IInv => CallbacksMatch
  BY DEF IInv, FlowOK
<1> QED BY <1>1, PipelineSound, PTL

\* A handler is told of success only when the server has the write.
THEOREM SuccessIsStored == Spec => []AckedIsStored
<1>1. IInv => AckedIsStored
  BY DEF IInv, FlowOK
<1> QED BY <1>1, PipelineSound, PTL

\* AcknowledgeBatch and RejectBatch remove no batch the server has not settled.
THEOREM NoWriteLost == Spec => []NothingLost
<1>1. IInv => NothingLost
  BY DEF IInv, FlowOK
<1> QED BY <1>1, PipelineSound, PTL

\* What a handler has been told is stored (NotifyUser), the writes sent again
\* by StartWriteStream and AddToWritePipeline do not undo with an older one.
THEOREM ToldStays == Spec => []AckedStays
<1>1. IInv => AckedStays
  BY DEF IInv, OrderOK
<1> QED BY <1>1, PipelineSound, PTL

\* After a failure the queue is sent again from its oldest write on: what that
\* takes back is still queued, to be sent again itself.
THEOREM NewerIsComing == Spec => []OlderIsForNow
<1>1. IInv => OlderIsForNow
  BY DEF IInv, OrderOK
<1> QED BY <1>1, PipelineSound, PTL

\* Of a user who has nothing queued, no document holds an older write than the
\* latest of that user's which the server has not refused: what the queue has
\* sent again has caught up by the time it is empty.
SettledOnLatest ==
  \A u \in Users, k \in Keys : rows[u] = <<>> /\ server[k] \in wrote[u][k] =>
     \A v \in wrote[u][k] : v <= server[k] \/ v \in refused

LEMMA SettledIfSound == IInv => SettledOnLatest
<1> SUFFICES ASSUME FlowOK, OrderOK, NEW u \in Users, NEW k \in Keys,
                    rows[u] = <<>>, server[k] \in wrote[u][k],
                    NEW v \in wrote[u][k], v \notin refused
             PROVE  v <= server[k]
  BY DEF IInv, SettledOnLatest
<1>1. ~Queued(u, v)
  <2>1. Len(<<>>) = 0
    BY EmptySeq
  <2> QED BY <2>1 DEF Queued
<1>2. v \in 1..made
  BY Numbers
<1>3. CASE v \in stored
  BY <1>1, <1>3 DEF OrderOK, OlderIsForNow
<1>4. CASE \E t \in Users : \E i \in 1..Len(rows[t]) : rows[t][i].value = v
  <2>1. PICK t \in Users : \E i \in 1..Len(rows[t]) : rows[t][i].value = v
    BY <1>4
  <2>2. PICK i \in 1..Len(rows[t]) : rows[t][i].value = v
    BY <2>1
  <2>3. rows[t][i].key \in Keys
    BY Numbers
  <2>4. u = t
    BY <2>2, <2>3, AuthorOfRow DEF OrderOK
  <2> QED BY <1>1, <2>2, <2>4 DEF Queued
<1> QED BY <1>2, <1>3, <1>4 DEF FlowOK, NothingLost

\* Once WriteMutations, FillWritePipeline and RemoveMutationBatch have emptied a
\* user's queue, whatever was lost, sent again or refused on the way, the user's
\* documents hold the user's latest writes.
THEOREM EmptyQueueSettles == Spec => []SettledOnLatest
  BY SettledIfSound, PipelineSound, PTL

(***************************************************************************)
(* The pipeline implements the store.                                      *)
(***************************************************************************)

\* How many writes of each user are stored without their answers being read.
Applied == [u \in Users |-> IF u = user /\ shaken THEN Len(replies) ELSE 0]

NoneApplied == [u \in Users |-> 0]

LEMMA AppliedHere ==
  ASSUME user \in Users
  PROVE  /\ shaken => Applied[user] = Len(replies)
         /\ ~shaken => Applied = NoneApplied
         /\ [Applied EXCEPT ![user] = 0] = NoneApplied
  BY DEF Applied, NoneApplied

LEMMA AppliedReset ==
  ASSUME shaken' = FALSE
  PROVE  Applied' = NoneApplied
  BY DEF Applied, NoneApplied

\* The steps of the store, on the pipeline's variables.
LEMMA Enqueues ==
  ASSUME NEW d \in Users, NEW b \in Batches, rows' = [rows EXCEPT ![d] = Append(@, b)],
         UNCHANGED <<server, Applied>>
  PROVE  Store!StoreNext(Batches)
BY DEF Store!StoreNext, Store!Enqueue, Applied

LEMMA Stores ==
  ASSUME NEW d \in Users, Applied[d] < Len(rows[d]),
         server' = [server EXCEPT ![rows[d][Applied[d] + 1].key] =
                                     rows[d][Applied[d] + 1].value],
         Applied' = [Applied EXCEPT ![d] = @ + 1],
         UNCHANGED rows
  PROVE  Store!StoreNext(Batches)
BY DEF Store!StoreNext, Store!Store, Store!Unstored, Applied

LEMMA ReadsAnswer ==
  ASSUME NEW d \in Users, Applied[d] > 0, Applied' = [Applied EXCEPT ![d] = @ - 1],
         rows' = [rows EXCEPT ![d] = Tail(@)], UNCHANGED server
  PROVE  Store!StoreNext(Batches)
BY DEF Store!StoreNext, Store!AnswerRead, Store!Taken, Store!Rest, Applied

LEMMA ReadsRefusal ==
  ASSUME NEW d \in Users, Applied[d] < Len(rows[d]),
         Applied' = [Applied EXCEPT ![d] = 0],
         rows' = [rows EXCEPT ![d] = Tail(@)], UNCHANGED server
  PROVE  Store!StoreNext(Batches)
BY DEF Store!StoreNext, Store!RefusalRead, Store!Unstored, Store!Lost, Store!Taken,
       Store!Rest, Applied

LEMMA Loses ==
  ASSUME NEW d \in Users, Applied' = [Applied EXCEPT ![d] = 0],
         UNCHANGED <<server, rows>>
  PROVE  Store!StoreNext(Batches)
BY DEF Store!StoreNext, Store!Lost, Applied

LEMMA StoreStutters ==
  ASSUME UNCHANGED <<server, rows, Applied>>
  PROVE  UNCHANGED Store!store
  BY DEF Store!store, Applied

\* Whatever breaks the connection loses the answers.
LEMMA BrokenIsLost ==
  ASSUME FlowOK, shaken' = FALSE, UNCHANGED <<server, rows>>
  PROVE  Store!StoreNext(Batches)
<1>1. user \in Users
  BY DEF FlowOK, TypeOK
<1>2. Applied' = [Applied EXCEPT ![user] = 0]
  BY <1>1, AppliedHere, AppliedReset
<1> QED BY <1>1, <1>2, Loses

\* A refusal takes the first write off, and breaks the connection.
LEMMA RefusedIsTaken ==
  ASSUME FlowOK, status = "refused", shaken' = FALSE, server' = server,
         rows' = [rows EXCEPT ![user] = Without(@, Head(pipeline))]
  PROVE  Store!StoreNext(Batches)
<1>1. LinkOK /\ QueuesOK
  BY Parts
<1>2. user \in Users /\ rows \in [Users -> Seq(Batches)]
  BY <1>1 DEF QueuesOK
<1>3. shaken /\ sent # <<>>
  BY <1>1 DEF LinkOK, StreamNeeded
<1>4. Applied[user] < Len(rows[user])
  <2>1. Len(replies) \in Nat /\ Len(replies) + 1 \in 1..Len(rows[user])
    BY <1>3, NextRequest
  <2>2. Len(rows[user]) \in Nat
    BY <1>2, Lengths
  <2> QED BY <1>2, <1>3, <2>1, <2>2, AppliedHere
<1>5. Applied' = [Applied EXCEPT ![user] = 0]
  BY <1>2, AppliedHere, AppliedReset
<1>6. rows' = [rows EXCEPT ![user] = Tail(@)]
  BY OldestSettled
<1> QED BY <1>2, <1>4, <1>5, <1>6, ReadsRefusal

LEMMA WriteIsEnqueued ==
  ASSUME FlowOK, NEW key \in Keys, Write(key)
  PROVE  Store!StoreNext(Batches)
<1>1. user \in Users
  BY DEF FlowOK, TypeOK
<1>2. PICK b \in Batches : rows' = [rows EXCEPT ![user] = Append(@, b)]
  BY BatchWritten
<1>3. UNCHANGED <<server, Applied>>
  BY DEF Write, Applied
<1> QED BY <1>1, <1>2, <1>3, Enqueues

LEMMA ResultIsRead ==
  ASSUME FlowOK, ResultRead
  PROVE  Store!StoreNext(Batches)
<1>1. LinkOK /\ QueuesOK
  BY Parts
<1>2. user \in Users /\ replies \in Seq(Requests)
  BY <1>1 DEF QueuesOK, LinkOK
<1>3. /\ replies # <<>> /\ shaken /\ replies' = Tail(replies)
      /\ UNCHANGED <<user, shaken, server>>
      /\ rows' = [rows EXCEPT ![user] = Without(@, Head(pipeline))]
  BY DEF ResultRead
<1>4. rows' = [rows EXCEPT ![user] = Tail(@)]
  BY <1>3, OldestAnswered
<1>5. Len(replies) \in Nat /\ Len(replies) > 0 /\ Len(Tail(replies)) = Len(replies) - 1
  BY <1>2, <1>3, Lengths, FirstIsHead
<1>6. Applied[user] = Len(replies)
  BY <1>2, <1>3, AppliedHere
<1>7. Applied' = [Applied EXCEPT ![user] = @ - 1]
  BY <1>2, <1>3, <1>5 DEF Applied
<1> QED BY <1>2, <1>3, <1>4, <1>5, <1>6, <1>7, ReadsAnswer

LEMMA RequestIsStored ==
  ASSUME FlowOK, ServerStores
  PROVE  Store!StoreNext(Batches)
<1>1. LinkOK /\ QueuesOK
  BY Parts
<1>2. user \in Users /\ replies \in Seq(Requests) /\ sent \in Seq(Requests)
      /\ rows \in [Users -> Seq(Batches)]
  BY <1>1 DEF QueuesOK, LinkOK
<1>3. /\ sent # <<>> /\ Head(sent) # Hello /\ replies' = Append(replies, Head(sent))
      /\ server' = [server EXCEPT ![Head(sent).key] = Head(sent).value]
      /\ UNCHANGED <<user, shaken, rows>>
  BY DEF ServerStores, Taking
<1>4. shaken
  BY <1>3, RequestIsPipelines
<1>5. /\ Len(replies) \in Nat /\ Len(replies) + 1 \in 1..Len(rows[user])
      /\ rows[user][Len(replies) + 1] = Head(sent) /\ Head(sent) \in Requests
  BY <1>3, <1>4, NextRequest DEF Requests
<1>6. Len(Append(replies, Head(sent))) = Len(replies) + 1
  BY <1>2, <1>5, AppendProperties
<1>7. Applied[user] = Len(replies)
  BY <1>2, <1>4, AppliedHere
<1>8. Applied' = [Applied EXCEPT ![user] = @ + 1]
  BY <1>2, <1>3, <1>4, <1>6 DEF Applied
<1>9. Applied[user] < Len(rows[user])
  BY <1>2, <1>5, <1>7, Lengths
<1>10. server' = [server EXCEPT ![rows[user][Applied[user] + 1].key] =
                                   rows[user][Applied[user] + 1].value]
  BY <1>3, <1>5, <1>7
<1> QED BY <1>2, <1>3, <1>8, <1>9, <1>10, Stores

LEMMA GreetingIsNothing ==
  ASSUME FlowOK, ServerGreets \/ HandshakeAnswered
  PROVE  UNCHANGED Store!store
<1>1. user \in Users /\ shaken \in BOOLEAN
  BY DEF FlowOK, TypeOK
<1>2. UNCHANGED <<server, rows, user>>
  BY DEF ServerGreets, HandshakeAnswered
<1>3. ~shaken
  <2>1. ServerGreets => sent # <<>> /\ Head(sent) = Hello
    BY DEF ServerGreets, Taking
  <2> QED BY <1>1, <2>1, NextRequest DEF HandshakeAnswered
<1>4. Applied = NoneApplied
  BY <1>1, <1>3, AppliedHere
<1>5. Applied' = NoneApplied
  <2>1. CASE ServerGreets
    <3>1. shaken' = FALSE
      BY <1>1, <1>3, <2>1 DEF ServerGreets
    <3> QED BY <3>1, AppliedReset
  <2>2. CASE HandshakeAnswered
    <3>1. LinkOK /\ replies # <<>> /\ replies' = Tail(replies)
      BY <2>2, Parts DEF HandshakeAnswered
    <3>2. /\ replies \in Seq(Requests) /\ sent \in Seq(Requests)
          /\ (replies \o sent = <<Hello>> \/ replies \o sent = <<>>)
      BY <1>3, <3>1 DEF LinkOK, AnswersMatchPipeline
    <3>3. replies \o sent # <<>>
      BY <3>1, <3>2, ConcatEqualIffEmpty
    <3>4. replies' = <<>>
      BY <3>1, <3>2, <3>3, ConcatIsSingle
    <3>5. Len(replies') = 0
      BY <3>4, EmptySeq
    <3> QED BY <3>5 DEF Applied, NoneApplied
  <2> QED BY <2>1, <2>2
<1> QED BY <1>2, <1>4, <1>5, StoreStutters

LEMMA StoreStep ==
  FlowOK /\ [Next]_vars => [Store!StoreNext(Batches)]_Store!store
<1> SUFFICES ASSUME FlowOK, [Next]_vars
             PROVE  Store!StoreNext(Batches) \/ UNCHANGED Store!store
  OBVIOUS
<1>1. ASSUME NEW key \in Keys, Write(key) PROVE Store!StoreNext(Batches)
  BY <1>1, WriteIsEnqueued
<1>2. CASE StreamOpens \/ BackoffElapsed \/ ServerRefuses \/ UNCHANGED vars
  <2>1. UNCHANGED <<server, rows, user, shaken, replies>>
    BY <1>2 DEF StreamOpens, BackoffElapsed, ServerRefuses, vars, link
  <2> QED BY <2>1, StoreStutters DEF Applied
<1>3. CASE HandshakeAnswered \/ ServerGreets
  BY <1>3, GreetingIsNothing
<1>4. CASE ResultRead
  BY <1>4, ResultIsRead
<1>5. CASE RefusalRead
  <2>1. /\ status = "refused" /\ shaken' = FALSE /\ server' = server
        /\ rows' = [rows EXCEPT ![user] = Without(@, Head(pipeline))]
    BY <1>5 DEF RefusalRead, Disconnected
  <2> QED BY <2>1, RefusedIsTaken
<1>6. CASE ServerStores
  BY <1>6, RequestIsStored
<1>7. CASE IdleTimeout \/ StreamFails \/ ConnectivityChange
  <2>1. shaken' = FALSE /\ UNCHANGED <<server, rows>>
    BY <1>7 DEF IdleTimeout, StreamFails, ConnectivityChange, Reconnect, Disconnected
  <2> QED BY <2>1, BrokenIsLost
<1>8. ASSUME NEW u \in Users, CredentialChange(u) \/ Relaunch(u) \/ DiesAcknowledging(u)
      PROVE  Store!StoreNext(Batches)
  <2>1. shaken' = FALSE /\ UNCHANGED <<server, rows>>
    BY <1>8
    DEF CredentialChange, Relaunch, DiesAcknowledging, Launched, Reconnect, Disconnected
  <2> QED BY <2>1, BrokenIsLost
<1>9. ASSUME NEW u \in Users, DiesRejecting(u) PROVE Store!StoreNext(Batches)
  <2>1. /\ status = "refused" /\ shaken' = FALSE /\ server' = server
        /\ rows' = [rows EXCEPT ![user] = Without(@, Head(pipeline))]
    BY <1>9 DEF DiesRejecting, Launched, Reconnect, Disconnected
  <2> QED BY <2>1, RefusedIsTaken
<1> QED
  BY <1>1, <1>2, <1>3, <1>4, <1>5, <1>6, <1>7, <1>8, <1>9 DEF Next, Client, Server, Fault

\* What the SDK does with the writes of a phone is what the app's modules take
\* its store to do: each user's writes reach the server in order, a broken
\* connection takes the unread answers with it, and a refusal the first write.
THEOREM PipelineIsAStore == Spec => ImplementsStore
<1>1. Init => Store!StoreInit([k \in Keys |-> 0])
  BY DEF Init, Store!StoreInit
<1>2. Init => FlowOK
  BY InitOK
<1>3. FlowOK /\ [Next]_vars => FlowOK'
  BY StepOK
<1>4. FlowOK /\ [Next]_vars => [Store!StoreNext(Batches)]_Store!store
  BY StoreStep
<1> QED BY <1>1, <1>2, <1>3, <1>4, PTL DEF Spec, ImplementsStore

(***************************************************************************)
(* What the users of a phone may take for granted when they read.          *)
(***************************************************************************)
Served == INSTANCE Firestore_proofs WITH
    Devices <- Users, DocIds <- Keys, MaxPending <- MaxWrites,
    pending <- rows, applied <- Applied

\* A user reads a document as the user has last written it, though writes are
\* stored, answered and sent again, the app is killed and the phone changes
\* hands, as long as nobody else has that document queued; only a write of the
\* user's that the server refuses changes it back.
THEOREM PhoneReadsItsWrites ==
  ASSUME NEW u \in Users, NEW k \in Keys
  PROVE  Spec /\ []Store!SoleWriter(u, k) => Store!ReadsStay(u, k)
<1> DEFINE Stays == \/ Store!Local(u, k)' = Store!Local(u, k)
                    \/ Store!WritesAndReads(u, k)
                    \/ Store!RefusalRead(u) /\ Store!Taken(u)
           Serves == Served!StoreServes(u, k, 0..MaxWrites, Batches)
           Sole == Store!SoleWriter(u, k)
           Step == Store!StoreNext(Batches)
           Start == Store!StoreInit([l \in Keys |-> 0])
<1>1. Start => Serves
  <2>1. [l \in Keys |-> 0] \in [Keys -> 0..MaxWrites]
    BY MaxWritesAssumption
  <2>2. Start => Served!StoreInit([l \in Keys |-> 0])
    BY DEF Store!StoreInit, Served!StoreInit, Applied
  <2> QED BY <2>1, <2>2, Served!StartServes, MaxWritesAssumption
<1>2. Serves /\ UNCHANGED Store!store => Serves'
  BY MaxWritesAssumption, Served!StutterServes DEF Store!store, Served!store, Applied
<1>3. Serves /\ Sole /\ Step => Serves' /\ Stays
  <2>1. \A w \in Batches : w.key \in Keys /\ w.value \in 0..MaxWrites
    BY MaxWritesAssumption DEF Batches, Values
  <2>2. Sole => Served!SoleWriter(u, k)
    BY DEF Store!SoleWriter, Served!SoleWriter, Store!WritesTo, Served!WritesTo
  <2>3. Step => Served!StoreNext(Batches)
    BY DEF Store!StoreNext, Served!StoreNext, Applied,
           Store!Enqueue, Store!Store, Store!Unstored, Store!AnswerRead, Store!Taken,
           Store!Rest, Store!RefusalRead, Store!Lost,
           Served!Enqueue, Served!Store, Served!Unstored, Served!AnswerRead, Served!Taken,
           Served!Rest, Served!RefusalRead, Served!Lost
  <2>4. \/ Served!Local(u, k)' = Served!Local(u, k)
        \/ Served!WritesAndReads(u, k)
        \/ Served!RefusalRead(u) /\ Served!Taken(u)
        => Stays
    BY DEF Applied, Store!Local, Served!Local, Store!LastWriteTo, Served!LastWriteTo,
           Store!WritesTo, Served!WritesTo, Store!WritesAndReads, Served!WritesAndReads,
           Store!RefusalRead, Store!Unstored, Store!Lost, Store!Taken, Store!Rest,
           Served!RefusalRead, Served!Unstored, Served!Lost, Served!Taken, Served!Rest
  <2> QED BY <2>1, <2>2, <2>3, <2>4, MaxWritesAssumption, Served!StepReads
<1>4. Serves /\ Sole /\ [Step]_Store!store => Serves'
  BY <1>2, <1>3
<1>5. Serves /\ Sole /\ [Step]_Store!store => [Stays]_Store!store
  BY <1>3
<1>6. Spec => Start /\ [][Step]_Store!store
  BY PipelineIsAStore DEF ImplementsStore
<1> HIDE DEF Stays, Serves, Sole, Step, Start
<1>7. Start /\ [][Step]_Store!store /\ []Sole => [][Stays]_Store!store
  BY <1>1, <1>4, <1>5, PTL
<1> QED BY <1>6, <1>7 DEF Stays, Serves, Sole, Step, Start, Store!ReadsStay

===============================================================================
