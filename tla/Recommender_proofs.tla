------------------------- MODULE Recommender_proofs -------------------------
(***************************************************************************)
(* Proofs about Recommender, for any books, popular books, users and       *)
(* bounds.                                                                 *)
(***************************************************************************)
EXTENDS Recommender, SequenceTheorems, TLAPS

(***************************************************************************)
(* Sequences.                                                              *)
(***************************************************************************)
LEMMA SeqParts ==
  ASSUME NEW S, NEW s \in Seq(S)
  PROVE  /\ Len(s) \in Nat /\ DOMAIN s = 1..Len(s)
         /\ \A i \in 1..Len(s) : s[i] \in S /\ s[i] \in Range(s)
         /\ \A x \in Range(s) : \E i \in 1..Len(s) : x = s[i]
BY LenProperties, ElementOfSeq DEF Range

LEMMA Removed ==
  ASSUME NEW S, NEW s \in Seq(S), NEW i \in 1..Len(s)
  PROVE  /\ RemoveAt(s, i) \in Seq(S)
         /\ \A x \in Range(RemoveAt(s, i)) : x \in Range(s)
         /\ \A x \in Range(s) : x # s[i] => x \in Range(RemoveAt(s, i))
<1>1. Len(s) \in Nat /\ \A j \in 1..Len(s) : s[j] \in S
  BY SeqParts
<1>2. PICK before : before = SubSeq(s, 1, i - 1)
  OBVIOUS
<1>3. PICK after : after = SubSeq(s, i + 1, Len(s))
  OBVIOUS
<1>4. /\ before \in Seq(S) /\ Len(before) = i - 1
      /\ \A j \in 1..(i - 1) : before[j] = s[j]
  BY <1>1, <1>2
<1>5. /\ after \in Seq(S) /\ Len(after) = Len(s) - i
      /\ \A j \in 1..(Len(s) - i) : after[j] = s[i + j]
  BY <1>1, <1>3
<1>6. PICK r : r = before \o after
  OBVIOUS
<1>7. /\ r \in Seq(S) /\ Len(r) = (i - 1) + (Len(s) - i)
      /\ \A j \in 1..((i - 1) + (Len(s) - i)) :
           r[j] = IF j <= i - 1 THEN before[j] ELSE after[j - (i - 1)]
  <2>1. /\ r \in Seq(S) /\ Len(r) = Len(before) + Len(after)
        /\ \A j \in 1..(Len(before) + Len(after)) :
             r[j] = IF j <= Len(before) THEN before[j] ELSE after[j - Len(before)]
    BY <1>4, <1>5, <1>6, ConcatProperties
  <2> QED BY <1>4, <1>5, <2>1
<1>8. Len(r) = Len(s) - 1
  BY <1>1, <1>7
<1>9. ASSUME NEW j \in 1..(i - 1) PROVE r[j] = s[j]
  <2>1. j \in 1..((i - 1) + (Len(s) - i)) /\ j <= i - 1
    BY <1>1
  <2> QED BY <1>4, <1>7, <2>1
<1>10. \A j \in i..(Len(s) - 1) : r[j] = s[j + 1]
  <2> SUFFICES ASSUME NEW j \in i..(Len(s) - 1) PROVE r[j] = s[j + 1]
    OBVIOUS
  <2>1. r[j] = after[j - (i - 1)]
    BY <1>1, <1>7
  <2>2. j - (i - 1) \in 1..(Len(s) - i) /\ i + (j - (i - 1)) = j + 1
    BY <1>1
  <2> QED BY <1>5, <2>1, <2>2
<1>11. ASSUME NEW j \in 1..Len(r) PROVE r[j] \in Range(s)
  <2>1. CASE j < i
    <3>1. j \in 1..(i - 1) /\ j \in 1..Len(s)
      BY <1>1, <1>8, <2>1
    <3> QED BY <1>9, <3>1, SeqParts
  <2>2. CASE ~(j < i)
    <3>1. j \in i..(Len(s) - 1) /\ j + 1 \in 1..Len(s)
      BY <1>1, <1>8, <2>2
    <3> QED BY <1>10, <3>1, SeqParts
  <2> QED BY <2>1, <2>2
<1>12. ASSUME NEW j \in 1..Len(s), s[j] # s[i] PROVE s[j] \in Range(r)
  <2>1. CASE j < i
    <3>1. j \in 1..(i - 1) /\ j \in 1..Len(r)
      BY <1>1, <1>8, <2>1
    <3> QED BY <1>7, <1>9, <3>1, SeqParts
  <2>2. CASE j > i
    <3>1. j - 1 \in i..(Len(s) - 1) /\ j - 1 \in 1..Len(r) /\ (j - 1) + 1 = j
      BY <1>1, <1>8, <2>2
    <3>2. r[j - 1] = s[j]
      BY <1>10, <3>1
    <3> QED BY <1>7, <3>1, <3>2, SeqParts
  <2> QED BY <1>1, <1>12, <2>1, <2>2
<1>13. r = RemoveAt(s, i)
  BY <1>2, <1>3, <1>6 DEF RemoveAt
<1>14. \A x \in Range(r) : x \in Range(s)
  BY <1>7, <1>11, SeqParts
<1>15. ASSUME NEW x \in Range(s), x # s[i] PROVE x \in Range(r)
  <2>1. PICK j \in 1..Len(s) : x = s[j]
    BY SeqParts
  <2> QED BY <1>12, <1>15, <2>1
<1> QED BY <1>7, <1>13, <1>14, <1>15

LEMMA Appended ==
  ASSUME NEW S, NEW s \in Seq(S), NEW e \in S
  PROVE  /\ Append(s, e) \in Seq(S)
         /\ \A x \in Range(Append(s, e)) : x \in Range(s) \/ x = e
         /\ \A x \in Range(s) : x \in Range(Append(s, e))
<1>1. PICK t \in Seq(S) : t = Append(s, e)
  BY AppendProperties
<1>2. /\ Len(t) = Len(s) + 1 /\ t[Len(s) + 1] = e
      /\ \A i \in 1..Len(s) : t[i] = s[i]
  BY <1>1, AppendProperties
<1>3. Len(s) \in Nat
  BY SeqParts
<1>4. \A i \in 1..Len(t) : i \in 1..Len(s) \/ i = Len(s) + 1
  BY <1>2, <1>3
<1>5. \A i \in 1..Len(s) : i \in 1..Len(t)
  BY <1>2, <1>3
<1>6. \A x \in Range(t) : x \in Range(s) \/ x = e
  BY <1>2, <1>4, SeqParts
<1>7. \A x \in Range(s) : x \in Range(t)
  BY <1>2, <1>5, SeqParts
<1> QED BY <1>1, <1>6, <1>7

\* A sequence changed in its elements, and in one of them.
LEMMA Mapped ==
  ASSUME NEW S, NEW s \in Seq(S), NEW t, DOMAIN t = DOMAIN s,
         t = [i \in DOMAIN s |-> t[i]], \A i \in 1..Len(s) : t[i] \in S
  PROVE  /\ t \in Seq(S) /\ Len(t) = Len(s)
         /\ \A x \in Range(t) : \E i \in 1..Len(s) : x = t[i]
<1>1. Len(s) \in Nat /\ DOMAIN s = 1..Len(s)
  BY SeqParts
<1>2. t \in [1..Len(s) -> S]
  BY <1>1
<1>3. t \in Seq(S)
  BY <1>1, <1>2, SeqDef
<1>4. Len(t) = Len(s)
  BY <1>1, <1>3, LenProperties
<1> QED BY <1>3, <1>4, SeqParts

(***************************************************************************)
(* The invariant in three parts: the requests, what the screen waits for,  *)
(* and the rest.                                                           *)
(***************************************************************************)
RequestOK(r) ==
  /\ r \in Asks
  /\ r.step = "user" => r.kept \subseteq Range(shelf)
  /\ r.step = "users" => r.kept \subseteq Range(r.mine)
  /\ r.step = "book" => r.book \in Bids /\ r.book \notin r.kept

AsksOK == asks \in Seq(Asks) /\ \A r \in Range(asks) : RequestOK(r)

RestOK ==
  /\ shelf \in Seq(Bids)
  /\ last \in Bids \cup {NoBook}
  /\ open \in BOOLEAN /\ failed \in BOOLEAN /\ overtaken \in BOOLEAN
  /\ shown \in Answer \cup {NoBook}
  /\ ShownIsLast

LEMMA Parts == IInv <=> AsksOK /\ RestOK /\ BookIsComing
<1>1. asks \in Seq(Asks) => \A r \in Range(asks) : r \in Asks
  BY SeqParts
<1> QED BY <1>1 DEF IInv, TypeOK, NotOnTheShelf, AsksKnow, AsksOK, RestOK, RequestOK

LEMMA PartsNext == IInv' <=> AsksOK' /\ RestOK' /\ BookIsComing'
<1>1. PICK a : a = asks'
  OBVIOUS
<1>2. a \in Seq(Asks) => \A r \in Range(a) : r \in Asks
  BY SeqParts
<1> QED BY <1>1, <1>2 DEF IInv, TypeOK, NotOnTheShelf, AsksKnow, AsksOK, RestOK, RequestOK

LEMMA AskFields ==
  ASSUME NEW r \in Asks
  PROVE  /\ r.step \in {"user", "users", "book"} /\ r.here \in BOOLEAN
         /\ r.mine \in Seq(Bids) /\ r.book \in Bids \cup {NoBook} /\ r.kept \subseteq Bids
BY DEF Asks

LEMMA AsksKept ==
  ASSUME AsksOK, asks' = asks, \A b \in Range(shelf) : b \in Range(shelf')
  PROVE  AsksOK'
BY DEF AsksOK, RequestOK

LEMMA OneLess ==
  ASSUME AsksOK, NEW i \in DOMAIN asks, asks' = RemoveAt(asks, i), shelf' = shelf
  PROVE  AsksOK'
<1>1. i \in 1..Len(asks)
  BY SeqParts DEF AsksOK
<1>2. RemoveAt(asks, i) \in Seq(Asks) /\ \A x \in Range(RemoveAt(asks, i)) : x \in Range(asks)
  BY <1>1, Removed DEF AsksOK
<1> QED BY <1>2 DEF AsksOK, RequestOK

LEMMA OneMore ==
  ASSUME AsksOK, RestOK, asks' = Append(asks, NewAsk), shelf' = shelf
  PROVE  AsksOK'
<1>1. PICK r : r = NewAsk
  OBVIOUS
<1>2. Range(shelf) \subseteq Bids
  BY SeqParts DEF RestOK
<1>3. <<>> \in Seq(Bids)
  BY EmptySeq
<1>4. r \in Asks /\ r.step = "user" /\ r.kept = Range(shelf)
  BY <1>1, <1>2, <1>3 DEF NewAsk, Asks
<1>5. Append(asks, r) \in Seq(Asks)
      /\ \A x \in Range(Append(asks, r)) : x \in Range(asks) \/ x = r
  BY <1>4, Appended DEF AsksOK
<1> QED BY <1>1, <1>4, <1>5 DEF AsksOK, RequestOK

\* Every request is replaced by a sound one.
LEMMA AllChanged ==
  ASSUME AsksOK, NEW f, asks' = f, DOMAIN f = DOMAIN asks, f = [i \in DOMAIN asks |-> f[i]],
         \A i \in 1..Len(asks) : RequestOK(f[i])'
  PROVE  AsksOK'
<1>1. asks \in Seq(Asks)
  BY DEF AsksOK
<1>2. \A i \in 1..Len(asks) : f[i] \in Asks
  BY DEF RequestOK
<1>3. f \in Seq(Asks) /\ \A x \in Range(f) : \E i \in 1..Len(asks) : x = f[i]
  BY <1>1, <1>2, Mapped
<1>4. ASSUME NEW r \in Range(f) PROVE RequestOK(r)'
  <2>1. PICK i \in 1..Len(asks) : r = f[i]
    BY <1>3
  <2>2. RequestOK(f[i])'
    OBVIOUS
  <2> QED BY <2>1, <2>2 DEF RequestOK
<1> QED BY <1>3, <1>4 DEF AsksOK

(***************************************************************************)
(* The shelves and the screen.                                             *)
(***************************************************************************)
LEMMA HeartKeeps ==
  ASSUME IInv, NEW b \in Bids, Heart(b)
  PROVE  AsksOK' /\ RestOK'
<1>1. AsksOK /\ RestOK
  BY Parts
<1>2. /\ shelf' = Append(shelf, b)
      /\ UNCHANGED <<last, open, shown, asks, failed, overtaken>>
  BY DEF Heart
<1>3. shelf' \in Seq(Bids) /\ \A x \in Range(shelf) : x \in Range(shelf')
  BY <1>1, <1>2, Appended DEF RestOK
<1>4. AsksOK'
  BY <1>1, <1>2, <1>3, AsksKept
<1> QED BY <1>1, <1>2, <1>3, <1>4 DEF RestOK, ShownIsLast

LEMMA TakeOffKeeps ==
  ASSUME IInv, NEW b \in Bids, TakeOff(b)
  PROVE  AsksOK' /\ RestOK'
<1>1. AsksOK /\ RestOK
  BY Parts
<1>2. PICK j \in DOMAIN shelf : shelf[j] = b /\ shelf' = RemoveAt(shelf, j)
  BY DEF TakeOff
<1>3. UNCHANGED <<last, open, shown, failed, overtaken>>
  BY DEF TakeOff
<1>4. PICK f : f = [i \in DOMAIN asks |-> [asks[i] EXCEPT !.kept = @ \cap Range(shelf')]]
  OBVIOUS
<1>5. asks' = f /\ DOMAIN f = DOMAIN asks /\ f = [i \in DOMAIN asks |-> f[i]]
  BY <1>4 DEF TakeOff
<1>6. j \in 1..Len(shelf) /\ shelf \in Seq(Bids)
  BY <1>1, SeqParts DEF RestOK
<1>7. shelf' \in Seq(Bids)
  BY <1>2, <1>6, Removed
<1>8. ASSUME NEW i \in 1..Len(asks) PROVE RequestOK(f[i])'
  <2>1. i \in DOMAIN asks /\ asks[i] \in Range(asks)
    BY <1>1, SeqParts DEF AsksOK
  <2>2. PICK r \in Asks : r = asks[i] /\ RequestOK(r)
    BY <1>1, <2>1 DEF AsksOK, RequestOK
  <2>3. PICK q : q = f[i]
    OBVIOUS
  <2>4. q = [r EXCEPT !.kept = @ \cap Range(shelf')]
    BY <1>4, <2>1, <2>2, <2>3
  <2>5. q \in Asks /\ q.step = r.step /\ q.mine = r.mine /\ q.book = r.book
        /\ q.kept = r.kept \cap Range(shelf')
    BY <2>4 DEF Asks
  <2>6. RequestOK(q)'
    BY <1>7, <2>2, <2>5 DEF RequestOK
  <2> QED BY <2>3, <2>6
<1>9. AsksOK'
  BY <1>1, <1>5, <1>8, AllChanged
<1> QED BY <1>1, <1>3, <1>7, <1>9 DEF RestOK, ShownIsLast

LEMMA OpenKeeps ==
  ASSUME IInv, Open \/ TryAgain
  PROVE  AsksOK' /\ RestOK'
<1>1. AsksOK /\ RestOK
  BY Parts
<1>2. asks' = Append(asks, NewAsk) /\ UNCHANGED <<shelf, last>>
  BY DEF Open, TryAgain
<1>3. AsksOK'
  BY <1>1, <1>2, OneMore
<1>4. CASE Open
  BY <1>1, <1>3, <1>4 DEF Open, RestOK, ShownIsLast
<1>5. CASE TryAgain
  BY <1>1, <1>3, <1>5 DEF TryAgain, RestOK, ShownIsLast
<1> QED BY <1>4, <1>5

LEMMA LeaveKeeps ==
  ASSUME IInv, Leave
  PROVE  AsksOK' /\ RestOK'
<1>1. AsksOK /\ RestOK
  BY Parts
<1>2. /\ open' = FALSE /\ shown' = NoBook
      /\ UNCHANGED <<shelf, last, failed, overtaken>>
  BY DEF Leave
<1>3. PICK f : f = [i \in DOMAIN asks |-> [asks[i] EXCEPT !.here = FALSE]]
  OBVIOUS
<1>4. asks' = f /\ DOMAIN f = DOMAIN asks /\ f = [i \in DOMAIN asks |-> f[i]]
  BY <1>3 DEF Leave
<1>5. ASSUME NEW i \in 1..Len(asks) PROVE RequestOK(f[i])'
  <2>1. i \in DOMAIN asks /\ asks[i] \in Range(asks)
    BY <1>1, SeqParts DEF AsksOK
  <2>2. PICK r \in Asks : r = asks[i] /\ RequestOK(r)
    BY <1>1, <2>1 DEF AsksOK, RequestOK
  <2>3. PICK q : q = f[i]
    OBVIOUS
  <2>4. q = [r EXCEPT !.here = FALSE]
    BY <1>3, <2>1, <2>2, <2>3
  <2>5. q \in Asks /\ q.step = r.step /\ q.mine = r.mine /\ q.book = r.book
        /\ q.kept = r.kept
    BY <2>4 DEF Asks
  <2>6. RequestOK(q)'
    BY <1>2, <2>2, <2>5 DEF RequestOK
  <2> QED BY <2>3, <2>6
<1>6. AsksOK'
  BY <1>1, <1>4, <1>5, AllChanged
<1> QED BY <1>1, <1>2, <1>6 DEF RestOK, ShownIsLast

LEMMA KilledKeeps ==
  ASSUME IInv, Killed
  PROVE  AsksOK' /\ RestOK'
<1>1. RestOK
  BY Parts
<1>2. /\ open' = FALSE /\ shown' = NoBook /\ asks' = <<>>
      /\ UNCHANGED <<shelf, last, failed, overtaken>>
  BY DEF Killed
<1>3. <<>> \in Seq(Asks) /\ Range(<<>>) = {}
  BY EmptySeq DEF Range
<1> QED BY <1>1, <1>2, <1>3 DEF AsksOK, RestOK, ShownIsLast

(***************************************************************************)
(* The answers.                                                            *)
(***************************************************************************)

\* A popular book is never the last match, and is shown as no match.
LEMMA PopularShown ==
  ASSUME AsksOK, RestOK, NEW i \in DOMAIN asks, CompletePopular(i),
         UNCHANGED <<shelf, last, open, failed, overtaken>>
  PROVE  AsksOK' /\ RestOK'
         /\ \/ shown' = shown
            \/ shown' \in Answer /\ ~shown'.matched /\ shown'.book # last
<1>1. PICK b \in Popular \ {last} : Complete(i, b, FALSE)
  BY DEF CompletePopular
<1>2. PICK answer : answer = [book |-> b, matched |-> FALSE]
  OBVIOUS
<1>3. answer \in Answer /\ answer.book # last /\ ~answer.matched
  BY <1>1, <1>2, BidsAssumption DEF Answer
<1>4. AsksOK'
  BY <1>1, OneLess DEF Complete
<1>5. shown' = answer \/ shown' = shown
  BY <1>1, <1>2 DEF Complete
<1>6. CASE shown' = answer
  BY <1>3, <1>4, <1>6 DEF RestOK, ShownIsLast
<1>7. CASE shown' = shown
  BY <1>4, <1>7 DEF RestOK, ShownIsLast
<1> QED BY <1>5, <1>6, <1>7

\* A request goes on to its next read.
LEMMA OneChanged ==
  ASSUME AsksOK, NEW i \in DOMAIN asks, NEW q, RequestOK(q),
         asks' = [asks EXCEPT ![i] = q], shelf' = shelf
  PROVE  AsksOK'
<1>1. PICK f : f = [asks EXCEPT ![i] = q]
  OBVIOUS
<1>2. DOMAIN f = DOMAIN asks /\ f = [j \in DOMAIN asks |-> f[j]]
      /\ \A j \in DOMAIN asks : f[j] = IF j = i THEN q ELSE asks[j]
  BY <1>1, SeqParts DEF AsksOK
<1>3. ASSUME NEW j \in 1..Len(asks) PROVE RequestOK(f[j])'
  <2>1. j \in DOMAIN asks /\ RequestOK(asks[j])
    BY SeqParts DEF AsksOK
  <2>2. PICK r : r = f[j]
    OBVIOUS
  <2>3. RequestOK(r)
    BY <1>2, <2>1, <2>2
  <2>4. RequestOK(r)'
    BY <2>3 DEF RequestOK
  <2> QED BY <2>2, <2>4
<1> QED BY <1>1, <1>2, <1>3, AllChanged

LEMMA RequestThere ==
  ASSUME AsksOK, NEW i \in DOMAIN asks
  PROVE  RequestOK(asks[i])
BY SeqParts DEF AsksOK

LEMMA UserReadKeeps ==
  ASSUME IInv, NEW i \in DOMAIN asks, UserRead(i)
  PROVE  AsksOK' /\ RestOK'
         /\ \/ shown' = shown
            \/ shown' \in Answer /\ ~shown'.matched /\ shown'.book # last
<1>1. AsksOK /\ RestOK
  BY Parts
<1>2. UNCHANGED <<shelf, last, open, failed, overtaken>>
  BY DEF UserRead
<1>3. CASE shelf = <<>>
  BY <1>1, <1>2, <1>3, PopularShown DEF UserRead
<1>4. CASE shelf # <<>>
  <2>1. asks' = [asks EXCEPT ![i].step = "users", ![i].mine = shelf] /\ shown' = shown
    BY <1>4 DEF UserRead
  <2>2. PICK r \in Asks : r = asks[i] /\ RequestOK(r)
    BY <1>1, RequestThere DEF RequestOK
  <2>3. PICK q : q = [r EXCEPT !.step = "users", !.mine = shelf]
    OBVIOUS
  <2>4. asks' = [asks EXCEPT ![i] = q]
    BY <2>1, <2>2, <2>3
  <2>5. q \in Asks /\ q.step = "users" /\ q.mine = shelf /\ q.kept = r.kept
    BY <1>1, <2>3 DEF Asks, RestOK
  <2>6. r.step = "user"
    BY <2>2 DEF UserRead
  <2>7. RequestOK(q)
    BY <2>2, <2>5, <2>6 DEF RequestOK
  <2>8. AsksOK'
    BY <1>1, <1>2, <2>4, <2>7, OneChanged
  <2> QED BY <1>1, <1>2, <2>1, <2>8 DEF RestOK, ShownIsLast
<1> QED BY <1>3, <1>4

LEMMA UsersReadKeeps ==
  ASSUME IInv, NEW i \in DOMAIN asks, UsersRead(i)
  PROVE  AsksOK' /\ RestOK'
         /\ \/ shown' = shown
            \/ shown' \in Answer /\ ~shown'.matched /\ shown'.book # last
<1>1. AsksOK /\ RestOK
  BY Parts
<1>2. UNCHANGED <<shelf, open, failed, overtaken>> /\ asks[i].step = "users"
  BY DEF UsersRead
<1>3. PICK theirs \in [Others -> SUBSET Bids] : AfterUsers(i, asks[i].mine, theirs)
  BY DEF UsersRead
<1>4. CASE Candidates(asks[i].mine, theirs) = {}
  BY <1>1, <1>2, <1>3, <1>4, PopularShown DEF AfterUsers
<1>5. CASE Candidates(asks[i].mine, theirs) # {}
  <2>1. PICK b \in Candidates(asks[i].mine, theirs) : asks' = Picked(i, b)
    BY <1>3, <1>5 DEF AfterUsers
  <2>2. UNCHANGED <<shown, last>>
    BY <1>3, <1>5 DEF AfterUsers
  <2>3. PICK r \in Asks : r = asks[i] /\ RequestOK(r)
    BY <1>1, RequestThere DEF RequestOK
  <2>4. b \in Bids /\ b \notin Range(r.mine)
    BY <2>1, <2>3 DEF Candidates, Matches
  <2>5. PICK q : q = [r EXCEPT !.step = "book", !.book = b, !.mine = <<>>]
    OBVIOUS
  <2>6. asks' = [asks EXCEPT ![i] = q]
    BY <2>1, <2>3, <2>5 DEF Picked
  <2>7. <<>> \in Seq(Bids)
    BY EmptySeq
  <2>8. q \in Asks /\ q.step = "book" /\ q.book = b /\ q.kept = r.kept
    BY <2>4, <2>5, <2>7 DEF Asks
  <2>9. RequestOK(q)
    BY <1>2, <2>3, <2>4, <2>8 DEF RequestOK
  <2>10. AsksOK'
    BY <1>1, <1>2, <2>6, <2>9, OneChanged
  <2> QED BY <1>1, <1>2, <2>2, <2>10 DEF RestOK, ShownIsLast
<1> QED BY <1>4, <1>5

LEMMA BookReadKeeps ==
  ASSUME IInv, NEW i \in DOMAIN asks, BookRead(i)
  PROVE  AsksOK' /\ RestOK' /\ (shown' = shown \/ shown'.matched)
<1>1. AsksOK /\ RestOK
  BY Parts
<1>2. PICK r \in Asks : r = asks[i] /\ RequestOK(r)
  BY <1>1, RequestThere DEF RequestOK
<1>3. PICK answer : answer = [book |-> r.book, matched |-> TRUE]
  OBVIOUS
<1>4. /\ r.step = "book" /\ last' = r.book /\ asks' = RemoveAt(asks, i)
      /\ shown' = (IF r.here THEN answer ELSE shown)
      /\ overtaken' = ~r.here
      /\ UNCHANGED <<shelf, open, failed>>
  BY <1>2, <1>3 DEF BookRead, Complete
<1>5. r.book \in Bids
  BY <1>2, <1>4 DEF RequestOK
<1>6. answer \in Answer /\ answer.book = r.book /\ answer.matched = TRUE
  BY <1>3, <1>5 DEF Answer
<1>7. AsksOK'
  BY <1>1, <1>4, OneLess
<1>8. CASE r.here
  BY <1>1, <1>4, <1>5, <1>6, <1>7, <1>8 DEF RestOK, ShownIsLast
<1>9. CASE ~r.here
  BY <1>1, <1>4, <1>5, <1>7, <1>9 DEF RestOK, ShownIsLast
<1> QED BY <1>8, <1>9

LEMMA ReadFailsKeeps ==
  ASSUME IInv, NEW i \in DOMAIN asks, ReadFails(i)
  PROVE  AsksOK' /\ RestOK' /\ shown' = shown
<1>1. AsksOK /\ RestOK
  BY Parts
<1>2. /\ asks' = RemoveAt(asks, i) /\ failed' = (failed \/ asks[i].here)
      /\ UNCHANGED <<shelf, last, open, shown, overtaken>>
  BY DEF ReadFails
<1>3. AsksOK'
  BY <1>1, <1>2, OneLess
<1>4. failed' \in BOOLEAN
  BY <1>2
<1> QED BY <1>1, <1>2, <1>3, <1>4 DEF RestOK, ShownIsLast

(***************************************************************************)
(* A screen without a book waits for a request of its own.                 *)
(***************************************************************************)

\* The requests of the screen stay, one may be added.
LEMMA RequestsStay ==
  ASSUME BookIsComing, \A r \in Range(asks) : r.here => \E q \in Range(asks') : q.here,
         UNCHANGED <<open, shown, failed>>
  PROVE  BookIsComing'
BY DEF BookIsComing

\* A request is gone: it was the screen's, which got a book or a failure, or
\* the one that the screen waits for is another.
LEMMA RequestGone ==
  ASSUME AsksOK, BookIsComing, NEW i \in DOMAIN asks, asks' = RemoveAt(asks, i), open' = open,
         \/ asks[i].here /\ (shown' # NoBook \/ failed')
         \/ ~asks[i].here /\ UNCHANGED <<shown, failed>>
  PROVE  BookIsComing'
<1>1. i \in 1..Len(asks)
  BY SeqParts DEF AsksOK
<1>2. \A x \in Range(asks) : x # asks[i] => x \in Range(RemoveAt(asks, i))
  BY <1>1, Removed DEF AsksOK
<1>3. CASE asks[i].here /\ (shown' # NoBook \/ failed')
  BY <1>3 DEF BookIsComing
<1>4. CASE ~asks[i].here /\ UNCHANGED <<shown, failed>>
  <2>1. \A r \in Range(asks) : r.here => r \in Range(asks')
    BY <1>2, <1>4
  <2> QED BY <1>4, <2>1, RequestsStay
<1> QED BY <1>3, <1>4

\* The handler that is called shows a book to the screen of its request.
LEMMA Completed ==
  ASSUME AsksOK, BookIsComing, NEW i \in DOMAIN asks, NEW b \in Bids, NEW matched \in BOOLEAN,
         Complete(i, b, matched), UNCHANGED <<open, failed>>
  PROVE  BookIsComing'
<1>1. [book |-> b, matched |-> matched] \in Answer
  BY DEF Answer
<1>2. [book |-> b, matched |-> matched] # NoBook
  BY <1>1, NilAssumption
<1>3. asks[i].here \in BOOLEAN
  BY RequestThere, AskFields DEF RequestOK
<1>4. CASE asks[i].here
  BY <1>2, <1>4, RequestGone DEF Complete
<1>5. CASE ~asks[i].here
  BY <1>5, RequestGone DEF Complete
<1> QED BY <1>3, <1>4, <1>5

\* A request that goes on belongs to the same screen.
LEMMA GoesOn ==
  ASSUME AsksOK, BookIsComing, NEW i \in DOMAIN asks, NEW q \in Asks, q.here = asks[i].here,
         asks' = [asks EXCEPT ![i] = q], UNCHANGED <<open, shown, failed>>
  PROVE  BookIsComing'
<1>1. PICK f : f = [asks EXCEPT ![i] = q]
  OBVIOUS
<1>2. DOMAIN f = DOMAIN asks /\ \A j \in DOMAIN asks : f[j] = IF j = i THEN q ELSE asks[j]
  BY <1>1
<1>3. DOMAIN asks = 1..Len(asks) /\ \A r \in Range(asks) : \E j \in 1..Len(asks) : r = asks[j]
  BY SeqParts DEF AsksOK
<1>4. ASSUME NEW r \in Range(asks), r.here PROVE \E p \in Range(f) : p.here
  <2>1. PICK j \in DOMAIN asks : r = asks[j]
    BY <1>3
  <2>2. f[j] \in Range(f)
    BY <1>2 DEF Range
  <2>3. f[j].here
    BY <1>2, <1>4, <2>1
  <2> QED BY <2>2, <2>3
<1> QED BY <1>1, <1>4, RequestsStay

LEMMA ScreenWaits ==
  ASSUME IInv, \/ \E b \in Bids : Heart(b) \/ TakeOff(b)
               \/ Open \/ TryAgain \/ Leave \/ Killed
  PROVE  BookIsComing'
<1>1. AsksOK /\ RestOK /\ BookIsComing
  BY Parts
<1>2. ASSUME NEW b \in Bids, Heart(b) PROVE BookIsComing'
  BY <1>1, <1>2, RequestsStay DEF Heart
<1>3. ASSUME NEW b \in Bids, TakeOff(b) PROVE BookIsComing'
  <2>1. PICK f : f = [i \in DOMAIN asks |-> [asks[i] EXCEPT !.kept = @ \cap Range(shelf')]]
    OBVIOUS
  <2>2. asks' = f /\ UNCHANGED <<open, shown, failed>>
    BY <1>3, <2>1 DEF TakeOff
  <2>3. ASSUME NEW r \in Range(asks), r.here PROVE \E q \in Range(f) : q.here
    <3>1. PICK i \in DOMAIN asks : r = asks[i]
      BY <1>1, SeqParts DEF AsksOK
    <3>2. asks[i] \in Asks
      BY <1>1, RequestThere DEF RequestOK
    <3>3. f[i] = [asks[i] EXCEPT !.kept = @ \cap Range(shelf')] /\ f[i] \in Range(f)
      BY <2>1 DEF Range
    <3>4. f[i].here
      BY <2>3, <3>1, <3>2, <3>3 DEF Asks
    <3> QED BY <3>3, <3>4
  <2> QED BY <1>1, <2>2, <2>3, RequestsStay
<1>4. CASE Open \/ TryAgain
  <2>1. PICK r : r = NewAsk
    OBVIOUS
  <2>2. <<>> \in Seq(Bids) /\ Range(shelf) \subseteq Bids
    BY <1>1, EmptySeq, SeqParts DEF RestOK
  <2>3. r \in Asks /\ r.here
    BY <2>1, <2>2 DEF NewAsk, Asks
  <2>4. PICK t : t = Append(asks, r)
    OBVIOUS
  <2>5. t[Len(asks) + 1] = r /\ t \in Seq(Asks) /\ Len(t) = Len(asks) + 1
    BY <1>1, <2>3, <2>4, AppendProperties DEF AsksOK
  <2>6. Len(asks) + 1 \in 1..Len(t)
    BY <1>1, <2>5, SeqParts DEF AsksOK
  <2>7. r \in Range(t)
    BY <2>5, <2>6, SeqParts
  <2>8. asks' = t
    BY <1>4, <2>1, <2>4 DEF Open, TryAgain
  <2> QED BY <2>3, <2>7, <2>8 DEF BookIsComing
<1>5. CASE Leave \/ Killed
  BY <1>5 DEF Leave, Killed, BookIsComing
<1> QED BY <1>2, <1>3, <1>4, <1>5

LEMMA PopularCompletes ==
  ASSUME AsksOK, BookIsComing, NEW i \in DOMAIN asks, CompletePopular(i),
         UNCHANGED <<open, failed>>
  PROVE  BookIsComing'
<1>1. PICK b \in Popular \ {last} : Complete(i, b, FALSE)
  BY DEF CompletePopular
<1> QED BY <1>1, Completed, BidsAssumption

LEMMA AnswerComes ==
  ASSUME IInv, NEW i \in DOMAIN asks, Read(i)
  PROVE  BookIsComing'
<1>1. AsksOK /\ RestOK /\ BookIsComing
  BY Parts
<1>2. PICK r \in Asks : r = asks[i] /\ RequestOK(r)
  BY <1>1, RequestThere DEF RequestOK
<1>3. CASE UserRead(i)
  <2>1. CASE shelf = <<>>
    BY <1>1, <1>3, <2>1, PopularCompletes DEF UserRead
  <2>2. CASE shelf # <<>>
    <3>1. PICK q : q = [r EXCEPT !.step = "users", !.mine = shelf]
      OBVIOUS
    <3>2. asks' = [asks EXCEPT ![i] = q] /\ UNCHANGED <<open, shown, failed>>
      BY <1>2, <1>3, <2>2, <3>1 DEF UserRead
    <3>3. q \in Asks /\ q.here = r.here
      BY <1>1, <3>1 DEF Asks, RestOK
    <3> QED BY <1>1, <1>2, <3>2, <3>3, GoesOn
  <2> QED BY <2>1, <2>2
<1>4. CASE UsersRead(i)
  <2>1. PICK theirs \in [Others -> SUBSET Bids] : AfterUsers(i, asks[i].mine, theirs)
    BY <1>4 DEF UsersRead
  <2>2. UNCHANGED <<open, failed>>
    BY <1>4 DEF UsersRead
  <2>3. CASE Candidates(asks[i].mine, theirs) = {}
    BY <1>1, <2>1, <2>2, <2>3, PopularCompletes DEF AfterUsers
  <2>4. CASE Candidates(asks[i].mine, theirs) # {}
    <3>1. PICK b \in Candidates(asks[i].mine, theirs) : asks' = Picked(i, b)
      BY <2>1, <2>4 DEF AfterUsers
    <3>2. shown' = shown
      BY <2>1, <2>4 DEF AfterUsers
    <3>3. b \in Bids
      BY <3>1 DEF Candidates, Matches
    <3>4. PICK q : q = [r EXCEPT !.step = "book", !.book = b, !.mine = <<>>]
      OBVIOUS
    <3>5. asks' = [asks EXCEPT ![i] = q]
      BY <1>2, <3>1, <3>4 DEF Picked
    <3>6. <<>> \in Seq(Bids)
      BY EmptySeq
    <3>7. q \in Asks /\ q.here = r.here
      BY <3>3, <3>4, <3>6 DEF Asks
    <3> QED BY <1>1, <1>2, <2>2, <3>2, <3>5, <3>7, GoesOn
  <2> QED BY <2>3, <2>4
<1>5. CASE BookRead(i)
  <2>1. r.book \in Bids
    BY <1>2, <1>5 DEF BookRead, RequestOK
  <2> QED BY <1>1, <1>2, <1>5, <2>1, Completed DEF BookRead
<1>6. CASE ReadFails(i)
  <2>1. r.here \in BOOLEAN
    BY AskFields
  <2>2. asks' = RemoveAt(asks, i) /\ UNCHANGED <<open, shown>>
        /\ failed' = (failed \/ r.here)
    BY <1>2, <1>6 DEF ReadFails
  <2>3. CASE r.here
    BY <1>1, <1>2, <2>2, <2>3, RequestGone
  <2>4. CASE ~r.here
    <3>1. failed' = failed
      BY <1>1, <2>2, <2>4 DEF RestOK
    <3> QED BY <1>1, <1>2, <2>2, <2>4, <3>1, RequestGone
  <2> QED BY <2>1, <2>3, <2>4
<1> QED BY <1>3, <1>4, <1>5, <1>6 DEF Read

(***************************************************************************)
(* The theorems.                                                           *)
(***************************************************************************)
LEMMA InitOK == Init => IInv
<1>1. <<>> \in Seq(Asks) /\ <<>> \in Seq(Bids) /\ Range(<<>>) = {}
  BY EmptySeq DEF Range
<1> QED BY <1>1, Parts DEF Init, AsksOK, RestOK, ShownIsLast, BookIsComing

LEMMA StepOK == IInv /\ [Next]_vars => IInv'
<1> SUFFICES ASSUME IInv, [Next]_vars PROVE IInv'
  OBVIOUS
<1> DEFINE Rest == AsksOK' /\ RestOK'
<1>1. ASSUME NEW b \in Bids, Heart(b) \/ TakeOff(b) PROVE Rest
  BY <1>1, HeartKeeps, TakeOffKeeps
<1>2. ASSUME NEW i \in DOMAIN asks, Read(i) PROVE Rest
  BY <1>2, UserReadKeeps, UsersReadKeeps, BookReadKeeps, ReadFailsKeeps DEF Read
<1>3. CASE UNCHANGED vars
  <2>1. Rest
    BY <1>3, Parts DEF vars, AsksOK, RestOK, RequestOK, ShownIsLast
  <2>2. BookIsComing'
    BY <1>3, Parts DEF vars, BookIsComing
  <2> QED BY <2>1, <2>2, PartsNext
<1>4. CASE Next
  <2>1. BookIsComing'
    BY <1>4, ScreenWaits, AnswerComes DEF Next, Reads
  <2>2. Rest
    <3>1. CASE Open \/ TryAgain
      BY <3>1, OpenKeeps
    <3>2. CASE Leave
      BY <3>2, LeaveKeeps
    <3>3. CASE Killed
      BY <3>3, KilledKeeps
    <3> HIDE DEF Rest
    <3> QED BY <1>1, <1>2, <1>4, <3>1, <3>2, <3>3 DEF Next, Reads
  <2> QED BY <2>1, <2>2, PartsNext
<1> QED BY <1>3, <1>4

\* What the requests under way, the screen and "lastMatchedBook" say agrees.
THEOREM RequestsSound == Spec => []IInv
<1>1. IInv /\ [Next]_vars => IInv'
  BY StepOK
<1> QED BY <1>1, InitOK, PTL DEF Spec

\* Every variable stays within its type.
THEOREM RequestTypes == Spec => []TypeOK
<1>1. IInv => TypeOK
  BY DEF IInv
<1> QED BY <1>1, RequestsSound, PTL

\* getBookRecommendation, which reads the shelves one after the other, never
\* matches a book that has been on the reader's all along.
THEOREM MatchIsNew == Spec => []NotOnTheShelf
<1>1. IInv => NotOnTheShelf
  BY DEF IInv
<1> QED BY <1>1, RequestsSound, PTL

\* While the screen has no book and none of its reads failed, a request of its
\* own is under way: no answer meant for a screen that was left, and none that
\* is lost on the way through getBookRecommendation, leaves it waiting for
\* nothing.
THEOREM BookIsOnItsWay == Spec => []BookIsComing
<1>1. IInv => BookIsComing
  BY DEF IInv
<1> QED BY <1>1, RequestsSound, PTL

\* getPopularityRecommendation does not show the last match again, unless
\* another screen's request has replaced it.
THEOREM FallbackIsAnother == Spec => FallbackDiffers
<1> DEFINE Differs ==
      open' /\ shown # NoBook /\ shown' # shown /\ shown' # NoBook =>
        (shown.matched /\ ~shown'.matched /\ ~overtaken => shown'.book # shown.book)
<1>1. IInv /\ [Next]_vars => [Differs]_vars
  <2> SUFFICES ASSUME IInv, [Next]_vars, open', shown # NoBook, shown' # shown,
                      shown' # NoBook, shown.matched, ~shown'.matched, ~overtaken
               PROVE  shown'.book # shown.book
    OBVIOUS
  <2>1. last = shown.book
    BY DEF IInv, ShownIsLast
  <2>2. ASSUME NEW i \in DOMAIN asks, Read(i) PROVE shown'.book # shown.book
    BY <2>1, <2>2, UserReadKeeps, UsersReadKeeps, BookReadKeeps, ReadFailsKeeps DEF Read
  <2>3. ASSUME NEW b \in Bids, Heart(b) \/ TakeOff(b) PROVE FALSE
    BY <2>3 DEF Heart, TakeOff
  <2>4. ~(Open \/ TryAgain \/ Leave \/ Killed)
    BY DEF Open, TryAgain, Leave, Killed
  <2>5. ~UNCHANGED vars
    BY DEF vars
  <2> QED BY <2>2, <2>3, <2>4, <2>5 DEF Next, Reads
<1> HIDE DEF Differs
<1>2. Spec => [][Differs]_vars
  BY <1>1, RequestsSound, PTL DEF Spec
<1> QED BY <1>2 DEF Differs, FallbackDiffers

=============================================================================
