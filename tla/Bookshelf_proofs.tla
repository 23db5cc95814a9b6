--------------------------- MODULE Bookshelf_proofs ---------------------------
(***************************************************************************)
(* Proofs about Bookshelf, for any accounts, books, goals and bounds.      *)
(***************************************************************************)
EXTENDS Bookshelf, OrderLemmas, SequenceTheorems

(***************************************************************************)
(* Lists: what appending and removing keep.                                *)
(***************************************************************************)
LEMMA ListParts ==
  ASSUME NEW s \in Lists
  PROVE  /\ Len(s) \in Nat
         /\ DOMAIN s = 1..Len(s)
         /\ \A i \in 1..Len(s) : s[i] \in Books
         /\ ToSet(s) \subseteq Books
BY DEF Lists, ToSet

LEMMA FirstIndexThere ==
  ASSUME NEW s \in Lists, NEW b \in ToSet(s)
  PROVE  FirstIndex(s, b) \in 1..Len(s) /\ s[FirstIndex(s, b)] = b
<1> DEFINE T == {i \in 1..Len(s) : s[i] = b}
<1>1. T \subseteq Nat /\ T # {}
  BY ListParts DEF ToSet
<1>2. PICK x \in T : \A y \in T : x <= y
  <2> HIDE DEF T
  <2> QED BY <1>1, HasLeast
<1>3. \A j \in 1..(x - 1) : s[j] # b
  BY <1>2, ListParts
<1> QED BY <1>2, <1>3 DEF FirstIndex

LEMMA RemoveAtIs ==
  ASSUME NEW s \in Lists, NEW i \in 1..Len(s)
  PROVE  /\ RemoveAt(s, i) \in Lists /\ Len(RemoveAt(s, i)) = Len(s) - 1
         /\ \A j \in 1..(Len(s) - 1) :
              RemoveAt(s, i)[j] = IF j < i THEN s[j] ELSE s[j + 1]
<1> DEFINE before == SubSeq(s, 1, i - 1)
           after == SubSeq(s, i + 1, Len(s))
           r == RemoveAt(s, i)
<1>1. /\ before \in Lists /\ Len(before) = i - 1
      /\ \A j \in 1..(i - 1) : before[j] = s[j]
  BY DEF Lists
<1>2. /\ after \in Lists /\ Len(after) = Len(s) - i
      /\ \A j \in 1..(Len(s) - i) : after[j] = s[i + j]
  BY DEF Lists
<1>3. /\ r \in Lists /\ Len(r) = Len(s) - 1
      /\ \A j \in 1..(Len(s) - 1) : r[j] = IF j < i THEN s[j] ELSE s[j + 1]
  <2>1. r = before \o after
    BY DEF RemoveAt
  <2>2. before \in Seq(Books) /\ after \in Seq(Books) /\ Len(s) \in Nat
    BY <1>1, <1>2, ListParts DEF Lists
  <2>3. r \in Seq(Books) /\ Len(r) = Len(s) - 1
    <3>1. before \o after \in Seq(Books)
          /\ Len(before \o after) = Len(before) + Len(after)
      <4> HIDE DEF before, after
      <4> QED BY <2>2, ConcatProperties
    <3>2. Len(before) + Len(after) = Len(s) - 1
      <4>1. (i - 1) + (Len(s) - i) = Len(s) - 1
        BY <2>2
      <4> HIDE DEF before, after
      <4> QED BY <1>1, <1>2, <4>1
    <3> HIDE DEF before, after, r
    <3> QED BY <2>1, <3>1, <3>2
  <2>4. ASSUME NEW j \in 1..(Len(s) - 1)
        PROVE  r[j] = IF j < i THEN s[j] ELSE s[j + 1]
    <3>1. r[j] = IF j <= Len(before) THEN before[j] ELSE after[j - Len(before)]
      <4> HIDE DEF before, after, r
      <4> QED BY <2>1, <2>2, <1>1, <1>2
    <3>2. j < i => r[j] = s[j]
      <4> HIDE DEF before, after, r
      <4> QED BY <3>1, <1>1, <2>2
    <3>3. ~(j < i) => r[j] = s[j + 1]
      <4>1. ~(j < i) => j - (i - 1) \in 1..(Len(s) - i) /\ i + (j - (i - 1)) = j + 1
        BY <2>2
      <4> HIDE DEF before, after, r
      <4> QED BY <3>1, <1>1, <1>2, <2>2, <4>1
    <3> QED BY <3>2, <3>3
  <2> QED BY <2>3, <2>4 DEF Lists
<1> QED
  <2> HIDE DEF before, after
  <2> QED BY <1>3

LEMMA RemoveAtKeeps ==
  ASSUME NEW s \in Lists, NEW i \in 1..Len(s)
  PROVE  /\ RemoveAt(s, i) \in Lists
         /\ ToSet(RemoveAt(s, i)) \subseteq ToSet(s)
         /\ \A b \in ToSet(s) : b # s[i] => b \in ToSet(RemoveAt(s, i))
<1> DEFINE r == RemoveAt(s, i)
<1>3. /\ r \in Lists /\ Len(r) = Len(s) - 1
      /\ \A j \in 1..(Len(s) - 1) : r[j] = IF j < i THEN s[j] ELSE s[j + 1]
  BY RemoveAtIs
<1>4. ToSet(r) \subseteq ToSet(s)
  <2> SUFFICES ASSUME NEW b \in ToSet(r) PROVE b \in ToSet(s)
    OBVIOUS
  <2>1. DOMAIN r = 1..(Len(s) - 1) /\ Len(s) \in Nat /\ DOMAIN s = 1..Len(s)
    <3> HIDE DEF r
    <3> QED BY <1>3, ListParts
  <2>2. PICK j \in 1..(Len(s) - 1) : r[j] = b
    <3> HIDE DEF r
    <3> QED BY <2>1 DEF ToSet
  <2>3. \E k \in 1..Len(s) : s[k] = b
    <3> HIDE DEF r
    <3> QED BY <2>1, <2>2, <1>3
  <2> QED BY <2>1, <2>3 DEF ToSet
<1>5. ASSUME NEW b \in ToSet(s), b # s[i] PROVE b \in ToSet(r)
  <2>1. PICK j \in 1..Len(s) : s[j] = b
    BY ListParts DEF ToSet
  <2>2. CASE j < i
    <3>1. r[j] = b /\ j \in 1..Len(r)
      <4> HIDE DEF r
      <4> QED BY <1>3, <2>1, <2>2
    <3> QED
      <4> HIDE DEF r
      <4> QED BY <3>1, <1>3, ListParts DEF ToSet
  <2>3. CASE j > i
    <3>1. r[j - 1] = b /\ j - 1 \in 1..Len(r)
      <4> HIDE DEF r
      <4> QED BY <1>3, <2>1, <2>3
    <3> QED
      <4> HIDE DEF r
      <4> QED BY <3>1, <1>3, ListParts DEF ToSet
  <2> QED BY <2>1, <2>2, <2>3, <1>5
<1> QED BY <1>3, <1>4, <1>5

LEMMA AppendKeeps ==
  ASSUME NEW s \in Lists, NEW b \in Books
  PROVE  /\ Append(s, b) \in Lists
         /\ ToSet(Append(s, b)) = ToSet(s) \cup {b}
<1> DEFINE r == Append(s, b)
<1>1. /\ r \in Lists /\ Len(r) = Len(s) + 1
      /\ r[Len(s) + 1] = b
      /\ \A i \in 1..Len(s) : r[i] = s[i]
  BY DEF Lists
<1>2. Len(s) \in Nat /\ DOMAIN s = 1..Len(s) /\ DOMAIN r = 1..(Len(s) + 1)
  <2> HIDE DEF r
  <2> QED BY <1>1, ListParts
<1>3. ToSet(r) = ToSet(s) \cup {b}
  <2> HIDE DEF r
  <2> QED BY <1>1, <1>2 DEF ToSet
<1> QED BY <1>1, <1>3

LEMMA AppendNoRepeats ==
  ASSUME NEW s \in Lists, NoRepeats(s), NEW b \in Books, b \notin ToSet(s)
  PROVE  NoRepeats(Append(s, b))
<1>1. PICK r : r = Append(s, b)
  OBVIOUS
<1>2. /\ Len(r) = Len(s) + 1 /\ Len(s) \in Nat
      /\ r[Len(s) + 1] = b
      /\ \A i \in 1..Len(s) : r[i] = s[i]
  BY <1>1, ListParts DEF Lists
<1>3. \A i \in 1..Len(s) : s[i] # b
  BY ListParts DEF ToSet
<1>4. ASSUME NEW i \in 1..Len(r), NEW j \in 1..Len(r), r[i] = r[j]
      PROVE  i = j
  <2>1. CASE i \in 1..Len(s) /\ j \in 1..Len(s)
    BY <1>2, <1>4, <2>1 DEF NoRepeats
  <2>2. CASE i = Len(s) + 1 \/ j = Len(s) + 1
    BY <1>2, <1>3, <1>4, <2>2
  <2> QED BY <1>2, <2>1, <2>2
<1> QED BY <1>1, <1>4 DEF NoRepeats

LEMMA RemoveAtNoRepeats ==
  ASSUME NEW s \in Lists, NoRepeats(s), NEW i \in 1..Len(s)
  PROVE  NoRepeats(RemoveAt(s, i))
<1>1. PICK r : r = RemoveAt(s, i)
  OBVIOUS
<1>2. /\ Len(r) = Len(s) - 1 /\ Len(s) \in Nat
      /\ \A j \in 1..(Len(s) - 1) : r[j] = IF j < i THEN s[j] ELSE s[j + 1]
  BY <1>1, RemoveAtIs, ListParts
<1>3. ASSUME NEW j \in 1..Len(r), NEW k \in 1..Len(r), r[j] = r[k]
      PROVE  j = k
  <2> DEFINE At(x) == IF x < i THEN x ELSE x + 1
  <2>1. /\ At(j) \in 1..Len(s) /\ At(k) \in 1..Len(s)
        /\ r[j] = s[At(j)] /\ r[k] = s[At(k)]
    BY <1>2
  <2>2. At(j) = At(k)
    <3> HIDE DEF At
    <3> QED BY <1>3, <2>1 DEF NoRepeats
  <2> QED BY <1>2, <2>2
<1> QED BY <1>1, <1>3 DEF NoRepeats

LEMMA WithoutFirstNoRepeats ==
  ASSUME NEW s \in Lists, NoRepeats(s), NEW b \in Books
  PROVE  NoRepeats(WithoutFirst(s, b))
BY FirstIndexThere, RemoveAtNoRepeats DEF WithoutFirst

LEMMA WithoutFirstKeeps ==
  ASSUME NEW s \in Lists, NEW b \in Books
  PROVE  /\ WithoutFirst(s, b) \in Lists
         /\ ToSet(WithoutFirst(s, b)) \subseteq ToSet(s)
         /\ \A c \in ToSet(s) : c # b => c \in ToSet(WithoutFirst(s, b))
BY FirstIndexThere, RemoveAtKeeps DEF WithoutFirst

(***************************************************************************)
(* Users: what a heart, a delete, a reading mark and an award make of one. *)
(***************************************************************************)
LEMMA MedalsTyped ==
  ASSUME NEW achievements \in SUBSET Achievements, NEW n \in Nat
  PROVE  /\ Medals(achievements, n) \in SUBSET Achievements
         /\ MedalsLost(achievements, n) \in SUBSET Achievements
BY DEF Medals, MedalsLost, Achievements, Reached

LEMMA HeartedKeeps ==
  ASSUME NEW user \in UserCopies, NEW b \in Books, NEW on \in BOOLEAN
  PROVE  /\ Hearted(user, b, on) \in UserCopies
         /\ Hearted(user, b, on).uid = user.uid
         /\ Hearted(user, b, on).readBooks = user.readBooks
         /\ ToSet(Hearted(user, b, on).selectedBooks)
              \subseteq ToSet(user.selectedBooks) \cup (IF on THEN {b} ELSE {})
         /\ \A c \in Books \ {b} :
              c \in ToSet(Hearted(user, b, on).selectedBooks)
                <=> c \in ToSet(user.selectedBooks)
<1> DEFINE list == IF on THEN Append(user.selectedBooks, b)
                   ELSE WithoutFirst(user.selectedBooks, b)
           medals == Medals(user.achievements, Len(list))
<1>1. user.selectedBooks \in Lists /\ user.achievements \in SUBSET Achievements
  BY DEF UserCopies
<1>2. /\ list \in Lists
      /\ ToSet(list) \subseteq ToSet(user.selectedBooks) \cup (IF on THEN {b} ELSE {})
      /\ \A c \in Books \ {b} : c \in ToSet(list) <=> c \in ToSet(user.selectedBooks)
  BY <1>1, AppendKeeps, WithoutFirstKeeps
<1>3. medals \in SUBSET Achievements
  <2> HIDE DEF list
  <2> QED BY <1>1, <1>2, MedalsTyped, ListParts
<1>4. Hearted(user, b, on) = [user EXCEPT !.selectedBooks = list, !.achievements = medals]
  BY DEF Hearted
<1> QED
  <2> HIDE DEF list, medals
  <2> QED BY <1>2, <1>3, <1>4 DEF UserCopies

LEMMA DeletedKeeps ==
  ASSUME NEW user \in UserCopies, defaults.selectedBooks \in Lists,
         NEW b \in ToSet(defaults.selectedBooks),
         FirstIndex(defaults.selectedBooks, b) <= Len(user.selectedBooks)
  PROVE  /\ Deleted(user, b) \in UserCopies
         /\ Deleted(user, b).uid = user.uid
         /\ Deleted(user, b).readBooks = user.readBooks
         /\ ToSet(Deleted(user, b).selectedBooks) \subseteq ToSet(user.selectedBooks)
<1> DEFINE i == FirstIndex(defaults.selectedBooks, b)
           list == RemoveAt(user.selectedBooks, i)
           medals == MedalsLost(user.achievements, Len(list))
<1>1. user.selectedBooks \in Lists /\ user.achievements \in SUBSET Achievements
  BY DEF UserCopies
<1>2. i \in 1..Len(user.selectedBooks)
  <2>1. i \in 1..Len(defaults.selectedBooks) /\ Len(defaults.selectedBooks) \in Nat
    BY FirstIndexThere, ListParts
  <2>2. Len(user.selectedBooks) \in Nat /\ i <= Len(user.selectedBooks)
    BY <1>1, ListParts
  <2> HIDE DEF i
  <2> QED BY <2>1, <2>2
<1>3. list \in Lists /\ ToSet(list) \subseteq ToSet(user.selectedBooks)
  <2> HIDE DEF i
  <2> QED BY <1>1, <1>2, RemoveAtKeeps
<1>4. medals \in SUBSET Achievements
  <2> HIDE DEF list
  <2> QED BY <1>1, <1>3, MedalsTyped, ListParts
<1>5. Deleted(user, b) = [user EXCEPT !.selectedBooks = list, !.achievements = medals]
  BY DEF Deleted
<1> QED
  <2> HIDE DEF list, medals
  <2> QED BY <1>3, <1>4, <1>5 DEF UserCopies

LEMMA ToggledKeeps ==
  ASSUME defaults.readBooks \in Lists, NEW b \in Books
  PROVE  /\ ReadToggled(b) \in Lists
         /\ ToSet(ReadToggled(b)) \subseteq ToSet(defaults.readBooks) \cup {b}
BY AppendKeeps, WithoutFirstKeeps DEF ReadToggled

LEMMA AwardedKeeps ==
  ASSUME NEW user \in UserCopies, NEW k \in Achievements
  PROVE  LET u == [user EXCEPT !.achievements = @ \cup {k}]
         IN  /\ u \in UserCopies
             /\ u.uid = user.uid
             /\ u.selectedBooks = user.selectedBooks
             /\ u.readBooks = user.readBooks
BY DEF UserCopies

(***************************************************************************)
(* The Results screens: what an answer, or a save from the one in front,   *)
(* leaves of them.                                                         *)
(***************************************************************************)
LEMMA ScreenAt ==
  ASSUME TypeOK, NEW i \in DOMAIN results
  PROVE  i \in 1..Len(results) /\ Len(results) \in Nat /\ results[i] \in ResultScreens
BY DEF TypeOK

LEMMA TopIs ==
  ASSUME CopiesSound, front = "results"
  PROVE  /\ Len(results) \in DOMAIN results /\ Top = results[Len(results)]
         /\ Top \in ResultScreens /\ account \in Accounts
<1>1. results \in Seq(ResultScreens) /\ results # <<>> /\ account \in Accounts
  BY DEF CopiesSound, TypeOK, SessionSound, SignedIn
<1>2. Len(results) \in DOMAIN results
  BY <1>1
<1> QED BY <1>1, <1>2 DEF Top, Last

LEMMA NoResults ==
  ASSUME results' = <<>>
  PROVE  ResultsStacked' /\ ResultsFresh'
BY DEF ResultsStacked, ResultsFresh

LEMMA NoneTyped ==
  ASSUME TypeOK
  PROVE  <<>> \in Seq(ResultScreens) /\ Len(<<>>) <= opened
<1>1. opened \in Nat /\ opened >= 0
  BY DEF TypeOK
<1> QED BY <1>1

LEMMA ResultsKept ==
  ASSUME ResultsStacked, ResultsFresh, UNCHANGED <<results, stored, account, hearted>>,
         shelf # NoScreen <=> shelf' # NoScreen
  PROVE  ResultsStacked' /\ ResultsFresh'
BY DEF ResultsStacked, ResultsFresh, Own

LEMMA SetScreen ==
  ASSUME TypeOK, NEW i \in DOMAIN results, NEW s \in ResultScreens,
         results' = [results EXCEPT ![i] = s]
  PROVE  /\ results' \in Seq(ResultScreens)
         /\ Len(results') = Len(results) /\ DOMAIN results' = DOMAIN results
         /\ results'[i] = s
         /\ \A j \in DOMAIN results \ {i} : results'[j] = results[j]
BY DEF TypeOK

LEMMA SetStacked ==
  ASSUME TypeOK, ResultsStacked, NEW i \in DOMAIN results, NEW s \in ResultScreens,
         results' = [results EXCEPT ![i] = s],
         s.over = results[i].over, s.covered = results[i].covered,
         shelf # NoScreen <=> shelf' # NoScreen
  PROVE  ResultsStacked'
<1>1. /\ Len(results') = Len(results) /\ DOMAIN results' = DOMAIN results
      /\ results'[i] = s
      /\ \A j \in DOMAIN results \ {i} : results'[j] = results[j]
  BY SetScreen
<1>2. ASSUME NEW j \in DOMAIN results
      PROVE  /\ j > 1 => results'[j].over = "invite"
             /\ j < Len(results) => results'[j].covered
             /\ results'[j].over = "shelf" <=> j = 1 /\ shelf' # NoScreen
  <2>1. results'[j].over = results[j].over /\ results'[j].covered = results[j].covered
    BY <1>1
  <2> QED BY <2>1 DEF ResultsStacked
<1> QED BY <1>1, <1>2 DEF ResultsStacked

\* An answer changes what a screen shows, and its user only to what is stored.
LEMMA AnswerStep ==
  ASSUME CopiesSound, NEW i \in DOMAIN results, NEW s \in ResultScreens,
         results' = [results EXCEPT ![i] = s],
         s.over = results[i].over, s.covered = results[i].covered,
         s.user = results[i].user \/ s.user = stored[account],
         UNCHANGED <<stored, account, defaults, front, homeVars, copy, saving,
                     shelf, bookVars, edits, opened, hearted>>
  PROVE  CopiesSound'
<1>1. /\ results' \in Seq(ResultScreens)
      /\ Len(results') = Len(results) /\ DOMAIN results' = DOMAIN results
      /\ results'[i] = s
      /\ \A j \in DOMAIN results \ {i} : results'[j] = results[j]
  BY SetScreen DEF CopiesSound
<1>2. results # <<>> /\ results' # <<>> /\ account \in Accounts
  <2>1. results # <<>> /\ results' # <<>>
    BY <1>1
  <2> QED BY <2>1 DEF CopiesSound, SessionSound, SignedIn
<1>3. TypeOK'
  BY <1>1 DEF CopiesSound, TypeOK, homeVars, bookVars
<1>4. OwnBooks'
  BY DEF CopiesSound, OwnBooks, Own
<1>5. SessionSound'
  <2>1. ResultsStacked'
    BY SetStacked DEF CopiesSound, SessionSound
  <2> QED BY <1>2, <2>1 DEF CopiesSound, SessionSound, SignedIn, homeVars
<1>6. HomeSound'
  BY DEF CopiesSound, HomeSound, Own, homeVars
<1>7. ScreensSound'
  <2>1. ResultsFresh'
    <3> SUFFICES ASSUME NEW j \in DOMAIN results, results'[j].user # NoUser
                 PROVE  /\ Own(results'[j].user, account)
                        /\ results'[j].user.readBooks = stored[account].readBooks
                        /\ results'[j].covered \/ results'[j].user = stored[account]
      BY <1>1 DEF ResultsFresh, Own
    <3>1. Own(stored[account], account)
      BY <1>2 DEF CopiesSound, OwnBooks
    <3>2. CASE results'[j].user = stored[account]
      BY <3>1, <3>2
    <3>3. CASE results'[j].user # stored[account]
      <4>1. results'[j].user = results[j].user /\ results'[j].covered = results[j].covered
        BY <1>1, <3>3
      <4> QED BY <4>1 DEF CopiesSound, ScreensSound, ResultsFresh
    <3> QED BY <3>2, <3>3
  <2> QED BY <2>1 DEF CopiesSound, ScreensSound, Own, homeVars
<1> QED BY <1>3, <1>4, <1>5, <1>6, <1>7 DEF CopiesSound

\* A save from the screen in front: every other one lies below it and is covered.
LEMMA TopSaved ==
  ASSUME CopiesSound, front = "results", Top.user # NoUser,
         NEW u \in UserCopies, NEW s \in ResultScreens,
         results' = [results EXCEPT ![Len(results)] = s],
         s.user = u, u.readBooks = Top.user.readBooks,
         stored'[account] = u, account' = account, Own(u, account)',
         \A a \in Accounts : hearted[a] \subseteq hearted'[a]
  PROVE  ResultsFresh'
<1>1. /\ Len(results) \in DOMAIN results /\ Top = results[Len(results)]
      /\ account \in Accounts /\ TypeOK /\ ResultsStacked /\ ResultsFresh
  BY TopIs DEF CopiesSound, SessionSound, ScreensSound
<1>2. /\ DOMAIN results' = DOMAIN results /\ results'[Len(results)] = s
      /\ \A j \in DOMAIN results \ {Len(results)} : results'[j] = results[j]
  BY <1>1, SetScreen
<1>3. u.readBooks = stored[account].readBooks
  BY <1>1 DEF ResultsFresh
<1>4. ASSUME NEW j \in DOMAIN results, j # Len(results), results[j].user # NoUser
      PROVE  /\ results[j].user.uid = account
             /\ ToSet(results[j].user.selectedBooks) \cup ToSet(results[j].user.readBooks)
                  \subseteq hearted'[account]
             /\ results[j].user.readBooks = u.readBooks
             /\ results[j].covered
  <2>1. j < Len(results)
    BY <1>1, <1>4, ScreenAt
  <2>2. results[j].covered /\ Own(results[j].user, account)
        /\ results[j].user.readBooks = u.readBooks
    BY <1>1, <1>3, <1>4, <2>1 DEF ResultsStacked, ResultsFresh
  <2> QED BY <1>1, <2>2 DEF Own
<1>5. ASSUME NEW j \in DOMAIN results, results'[j].user # NoUser
      PROVE  (/\ Own(results[j].user, account)
              /\ results[j].user.readBooks = stored[account].readBooks
              /\ results[j].covered \/ results[j].user = stored[account])'
  <2>1. CASE j = Len(results)
    BY <1>2, <2>1 DEF Own
  <2>2. CASE j # Len(results)
    BY <1>2, <1>4, <1>5, <2>2 DEF Own
  <2> QED BY <2>1, <2>2
<1> QED BY <1>2, <1>5 DEF ResultsFresh

(***************************************************************************)
(* The steps.  First those that save nothing.                              *)
(***************************************************************************)
LEMMA DefaultsOfTyped ==
  ASSUME NEW user \in UserCopies
  PROVE  /\ DefaultsOf(user) \in Defaults
         /\ DefaultsOf(user).selectedBooks = user.selectedBooks
         /\ DefaultsOf(user).readBooks = user.readBooks
         /\ user.selectedBooks \in Lists /\ user.readBooks \in Lists
BY DEF DefaultsOf, Defaults, UserCopies

LEMMA LaunchStep ==
  ASSUME CopiesSound, Launch
  PROVE  CopiesSound'
<1>1. TypeOK'
  BY MarkerAssumption, ScreenAssumption, NoneTyped DEF CopiesSound, TypeOK,
     Launch, NewHome, Screens, Copies, NoScreensOpen, homeVars, bookVars
<1>2. OwnBooks'
  BY MarkerAssumption, ScreenAssumption DEF CopiesSound, OwnBooks, Own, Launch,
     NewHome, Screens, Copies, NoScreensOpen, homeVars, bookVars
<1>3. SessionSound'
  BY MarkerAssumption, ScreenAssumption, ResultsKept, NoResults DEF CopiesSound,
     SessionSound, HomeSound, ScreensSound, SignedIn, TypeOK, Launch, NewHome,
     Screens, Copies, NoScreensOpen, homeVars, bookVars
<1>4. HomeSound'
  BY MarkerAssumption, ScreenAssumption DEF CopiesSound, HomeSound,
     SessionSound, ScreensSound, OwnBooks, SignedIn, Own, TypeOK, Launch,
     NewHome, Screens, Copies, NoScreensOpen, homeVars, bookVars
<1>5. ScreensSound'
  BY MarkerAssumption, ScreenAssumption, ResultsKept, NoResults DEF CopiesSound,
     ScreensSound, HomeSound, SessionSound, OwnBooks, SignedIn, Own, TypeOK,
     Launch, NewHome, Screens, Copies, NoScreensOpen, homeVars, bookVars
<1> QED BY <1>1, <1>2, <1>3, <1>4, <1>5 DEF CopiesSound

LEMMA LogInStep ==
  ASSUME CopiesSound, NEW a \in Accounts, LogIn(a)
  PROVE  CopiesSound'
<1>1. TypeOK'
  BY MarkerAssumption, ScreenAssumption DEF CopiesSound, TypeOK, SessionSound,
     SignedIn, LogIn, NewHome, Screens, Copies, NoScreensOpen, homeVars,
     bookVars
<1>2. OwnBooks'
  BY MarkerAssumption, ScreenAssumption DEF CopiesSound, OwnBooks, Own, LogIn,
     NewHome, Screens, Copies, NoScreensOpen, homeVars, bookVars
<1>3. SessionSound'
  BY MarkerAssumption, ScreenAssumption, ResultsKept, NoResults DEF CopiesSound,
     SessionSound, HomeSound, ScreensSound, SignedIn, TypeOK, LogIn, NewHome,
     Screens, Copies, NoScreensOpen, homeVars, bookVars
<1>4. HomeSound'
  BY MarkerAssumption, ScreenAssumption DEF CopiesSound, HomeSound,
     SessionSound, ScreensSound, OwnBooks, SignedIn, Own, TypeOK, LogIn,
     NewHome, Screens, Copies, NoScreensOpen, homeVars, bookVars
<1>5. ScreensSound'
  BY MarkerAssumption, ScreenAssumption, ResultsKept, NoResults DEF CopiesSound,
     ScreensSound, HomeSound, SessionSound, OwnBooks, SignedIn, Own, TypeOK,
     LogIn, NewHome, Screens, Copies, NoScreensOpen, homeVars, bookVars
<1> QED BY <1>1, <1>2, <1>3, <1>4, <1>5 DEF CopiesSound

LEMMA LogOutStep ==
  ASSUME CopiesSound, LogOut
  PROVE  CopiesSound'
<1>1. TypeOK'
  BY MarkerAssumption, ScreenAssumption DEF CopiesSound, TypeOK, SessionSound,
     SignedIn, LogOut, Screens, Copies, NoScreensOpen, homeVars, bookVars
<1>2. OwnBooks'
  BY MarkerAssumption, ScreenAssumption DEF CopiesSound, OwnBooks, Own, LogOut,
     Screens, Copies, NoScreensOpen, homeVars, bookVars
<1>3. SessionSound'
  BY MarkerAssumption, ScreenAssumption, ResultsKept, NoResults DEF CopiesSound,
     SessionSound, HomeSound, ScreensSound, SignedIn, TypeOK, LogOut, Screens,
     Copies, NoScreensOpen, homeVars, bookVars
<1>4. HomeSound'
  BY MarkerAssumption, ScreenAssumption DEF CopiesSound, HomeSound,
     SessionSound, ScreensSound, OwnBooks, SignedIn, Own, TypeOK, LogOut,
     Screens, Copies, NoScreensOpen, homeVars, bookVars
<1>5. ScreensSound'
  BY MarkerAssumption, ScreenAssumption, ResultsKept, NoResults DEF CopiesSound,
     ScreensSound, HomeSound, SessionSound, OwnBooks, SignedIn, Own, TypeOK,
     LogOut, Screens, Copies, NoScreensOpen, homeVars, bookVars
<1> QED BY <1>1, <1>2, <1>3, <1>4, <1>5 DEF CopiesSound

LEMMA DieStep ==
  ASSUME CopiesSound, Die, UNCHANGED <<stored, account, edits, opened, hearted, bookDocs>>, defaults' \in Defaults
  PROVE  CopiesSound'
<1>1. TypeOK'
  BY MarkerAssumption, ScreenAssumption, NoneTyped DEF CopiesSound, TypeOK, Die,
     Screens, Copies, NoScreensOpen, homeVars, bookVars
<1>2. OwnBooks'
  BY MarkerAssumption, ScreenAssumption DEF CopiesSound, OwnBooks, Own, Die,
     Screens, Copies, NoScreensOpen, homeVars, bookVars
<1>3. SessionSound'
  BY MarkerAssumption, ScreenAssumption, ResultsKept, NoResults DEF CopiesSound,
     SessionSound, HomeSound, ScreensSound, SignedIn, TypeOK, Die, Screens,
     Copies, NoScreensOpen, homeVars, bookVars
<1>4. HomeSound'
  BY MarkerAssumption, ScreenAssumption DEF CopiesSound, HomeSound,
     SessionSound, ScreensSound, OwnBooks, SignedIn, Own, TypeOK, Die, Screens,
     Copies, NoScreensOpen, homeVars, bookVars
<1>5. ScreensSound'
  BY MarkerAssumption, ScreenAssumption, ResultsKept, NoResults DEF CopiesSound,
     ScreensSound, HomeSound, SessionSound, OwnBooks, SignedIn, Own, TypeOK,
     Die, Screens, Copies, NoScreensOpen, homeVars, bookVars
<1> QED BY <1>1, <1>2, <1>3, <1>4, <1>5 DEF CopiesSound

LEMMA HomeAnsweredStep ==
  ASSUME CopiesSound, HomeAnswered
  PROVE  CopiesSound'
<1>1. TypeOK'
  BY MarkerAssumption, ScreenAssumption, DefaultsOfTyped DEF CopiesSound,
     TypeOK, SessionSound, SignedIn, HomeAnswered, Screens, Copies,
     NoScreensOpen, homeVars, bookVars
<1>2. OwnBooks'
  BY MarkerAssumption, ScreenAssumption, DefaultsOfTyped DEF CopiesSound,
     OwnBooks, Own, HomeAnswered, Screens, Copies, NoScreensOpen, homeVars,
     bookVars
<1>3. SessionSound'
  BY MarkerAssumption, ScreenAssumption, DefaultsOfTyped, ResultsKept DEF
     CopiesSound, SessionSound, HomeSound, ScreensSound, SignedIn, TypeOK,
     HomeAnswered, Screens, Copies, NoScreensOpen, homeVars, bookVars
<1>4. HomeSound'
  BY MarkerAssumption, ScreenAssumption, DefaultsOfTyped DEF CopiesSound,
     HomeSound, SessionSound, ScreensSound, OwnBooks, SignedIn, Own, TypeOK,
     HomeAnswered, Screens, Copies, NoScreensOpen, homeVars, bookVars
<1>5. ScreensSound'
  BY MarkerAssumption, ScreenAssumption, DefaultsOfTyped, ResultsKept DEF
     CopiesSound, ScreensSound, HomeSound, SessionSound, OwnBooks, SignedIn,
     Own, TypeOK, HomeAnswered, Screens, Copies, NoScreensOpen, homeVars,
     bookVars
<1> QED BY <1>1, <1>2, <1>3, <1>4, <1>5 DEF CopiesSound

LEMMA LateHomeAnsweredStep ==
  ASSUME CopiesSound, NEW a \in Accounts, LateHomeAnswered(a)
  PROVE  CopiesSound'
<1>1. TypeOK'
  BY MarkerAssumption, ScreenAssumption, DefaultsOfTyped DEF CopiesSound,
     TypeOK, LateHomeAnswered, Screens, Copies, NoScreensOpen, homeVars,
     bookVars
<1>2. OwnBooks'
  BY MarkerAssumption, ScreenAssumption, DefaultsOfTyped DEF CopiesSound,
     OwnBooks, Own, LateHomeAnswered, Screens, Copies, NoScreensOpen, homeVars,
     bookVars
<1>3. SessionSound'
  BY MarkerAssumption, ScreenAssumption, DefaultsOfTyped, ResultsKept DEF
     CopiesSound, SessionSound, HomeSound, ScreensSound, SignedIn, TypeOK,
     LateHomeAnswered, Screens, Copies, NoScreensOpen, homeVars, bookVars
<1>4. HomeSound'
  BY MarkerAssumption, ScreenAssumption, DefaultsOfTyped DEF CopiesSound,
     HomeSound, SessionSound, ScreensSound, OwnBooks, SignedIn, Own, TypeOK,
     LateHomeAnswered, Screens, Copies, NoScreensOpen, homeVars, bookVars
<1>5. ScreensSound'
  BY MarkerAssumption, ScreenAssumption, DefaultsOfTyped, ResultsKept DEF
     CopiesSound, ScreensSound, HomeSound, SessionSound, OwnBooks, SignedIn,
     Own, TypeOK, LateHomeAnswered, Screens, Copies, NoScreensOpen, homeVars,
     bookVars
<1> QED BY <1>1, <1>2, <1>3, <1>4, <1>5 DEF CopiesSound

LEMMA ReadFailsStep ==
  ASSUME CopiesSound, ReadFails
  PROVE  CopiesSound'
<1>1. CASE results' = results
  <2>1. TypeOK'
    BY <1>1 DEF CopiesSound, TypeOK, ReadFails, bookVars
  <2>2. OwnBooks'
    BY <1>1 DEF CopiesSound, OwnBooks, Own, ReadFails
  <2>3. SessionSound'
    BY <1>1, ResultsKept DEF CopiesSound, SessionSound, ScreensSound,
       SignedIn, ReadFails
  <2>4. HomeSound'
    BY <1>1 DEF CopiesSound, HomeSound, Own, ReadFails
  <2>5. ScreensSound'
    BY <1>1, ResultsKept DEF CopiesSound, SessionSound, ScreensSound, Own, ReadFails
  <2> QED BY <2>1, <2>2, <2>3, <2>4, <2>5 DEF CopiesSound
<1>2. CASE results' # results
  <2>1. PICK i \in DOMAIN results : results' = [results EXCEPT ![i].waits = FALSE]
    BY <1>2 DEF ReadFails
  <2>2. UNCHANGED <<stored, account, defaults, front, homeVars, copy, saving,
                    shelf, bookVars, edits, opened, hearted>>
    BY <1>2 DEF ReadFails, homeVars
  <2>3. PICK s : s = [results[i] EXCEPT !.waits = FALSE]
    OBVIOUS
  <2>4. results[i] \in ResultScreens
    BY ScreenAt DEF CopiesSound
  <2>5. /\ s \in ResultScreens /\ s.over = results[i].over
        /\ s.covered = results[i].covered /\ s.user = results[i].user
    BY <2>3, <2>4 DEF ResultScreens
  <2> QED BY <2>1, <2>2, <2>3, <2>5, AnswerStep
<1> QED BY <1>1, <1>2


LEMMA OpenMenuStep ==
  ASSUME CopiesSound, OpenMenu
  PROVE  CopiesSound'
<1>1. TypeOK'
  BY MarkerAssumption, ScreenAssumption DEF CopiesSound, TypeOK, OpenMenu,
     Screens, Copies, NoScreensOpen, homeVars, bookVars
<1>2. OwnBooks'
  BY MarkerAssumption, ScreenAssumption DEF CopiesSound, OwnBooks, Own,
     OpenMenu, Screens, Copies, NoScreensOpen, homeVars, bookVars
<1>3. SessionSound'
  BY MarkerAssumption, ScreenAssumption, ResultsKept, NoResults DEF CopiesSound,
     SessionSound, HomeSound, ScreensSound, SignedIn, TypeOK, OpenMenu, Screens,
     Copies, NoScreensOpen, homeVars, bookVars
<1>4. HomeSound'
  BY MarkerAssumption, ScreenAssumption DEF CopiesSound, HomeSound,
     SessionSound, ScreensSound, OwnBooks, SignedIn, Own, TypeOK, OpenMenu,
     Screens, Copies, NoScreensOpen, homeVars, bookVars
<1>5. ScreensSound'
  BY MarkerAssumption, ScreenAssumption, ResultsKept, NoResults DEF CopiesSound,
     ScreensSound, HomeSound, SessionSound, OwnBooks, SignedIn, Own, TypeOK,
     OpenMenu, Screens, Copies, NoScreensOpen, homeVars, bookVars
<1> QED BY <1>1, <1>2, <1>3, <1>4, <1>5 DEF CopiesSound

LEMMA FrontIs ==
  ASSUME NEW s \in Seq(ResultScreens), s # <<>>
  PROVE  /\ Front(s) \in Seq(ResultScreens) /\ Len(Front(s)) = Len(s) - 1
         /\ \A i \in 1..(Len(s) - 1) : Front(s)[i] = s[i]
<1>1. PICK n : n = Len(s) - 1
  OBVIOUS
<1>2. n \in Int /\ n >= 0 /\ 1 \in Int /\ \A i \in 1..n : s[i] \in ResultScreens
  BY <1>1
<1>3. PICK t : t = SubSeq(s, 1, n)
  OBVIOUS
<1>4. /\ t \in Seq(ResultScreens)
      /\ Len(t) = IF 1 <= n THEN n - 1 + 1 ELSE 0
      /\ \A i \in 1..(n - 1 + 1) : t[i] = s[1 + i - 1]
  BY <1>2, <1>3, SubSeqProperties
<1>5. Len(t) = n
  BY <1>2, <1>4
<1>6. ASSUME NEW i \in 1..n
      PROVE  t[i] = s[i]
  <2>1. i \in 1..(n - 1 + 1) /\ 1 + i - 1 = i
    BY <1>2
  <2> QED BY <1>4, <2>1
<1>7. Front(s) = t
  BY <1>1, <1>3 DEF Front
<1> QED BY <1>1, <1>4, <1>5, <1>6, <1>7

LEMMA BackStep ==
  ASSUME CopiesSound, Back
  PROVE  CopiesSound'
<1>1. /\ results' \in Seq(ResultScreens) /\ Len(results') <= Len(results)
      /\ \A i \in DOMAIN results' : i \in DOMAIN results /\ results'[i] = results[i]
  <2>1. CASE front = "results"
    <3>1. results \in Seq(ResultScreens) /\ results # <<>>
      BY <2>1 DEF CopiesSound, TypeOK, SessionSound
    <3>2. /\ results' \in Seq(ResultScreens) /\ Len(results') = Len(results) - 1
          /\ \A i \in 1..(Len(results) - 1) : results'[i] = results[i]
      BY <2>1, <3>1, FrontIs DEF Back
    <3>3. DOMAIN results' = 1..(Len(results) - 1)
      BY <3>2
    <3> QED BY <3>1, <3>2, <3>3
  <2>2. CASE front # "results"
    BY <2>2 DEF Back, CopiesSound, TypeOK
  <2> QED BY <2>1, <2>2
<1>2. /\ shelf' = shelf \/ (front = "shelf" /\ results = <<>>)
      /\ front' \in Screens \ {"off", "welcome", "settings"}
      /\ front' = "shelf" => shelf' # NoScreen
      /\ front' = "results" => results' # <<>>
      /\ results' # <<>> => front' \in {"results", "invite"}
      /\ shelf' # NoScreen => front' = "shelf" \/ results' # <<>>
  <2>1. CASE front = "results"
    <3>1. /\ Len(results) \in DOMAIN results /\ Top = results[Len(results)]
          /\ Top \in ResultScreens /\ ResultsStacked /\ results \in Seq(ResultScreens)
      BY <2>1, TopIs DEF CopiesSound, SessionSound, TypeOK
    <3>2. front' = Top.over /\ shelf' = shelf /\ results' = Front(results)
      BY <2>1 DEF Back
    <3>3. Top.over \in {"home", "shelf", "invite"} /\ (Top.over = "shelf" => shelf # NoScreen)
      BY <3>1 DEF ResultScreens, ResultsStacked
    <3>4. results' # <<>> => Top.over = "invite"
      <4>1. results' # <<>> => Len(results) > 1
        BY <3>1, <3>2, FrontIs
      <4> QED BY <3>1, <4>1 DEF ResultsStacked
    <3>5. shelf # NoScreen => Top.over = "shelf" \/ results' # <<>>
      <4>1. results' = <<>> => Len(results) = 1
        <5>1. Len(results) \in Nat /\ Len(results') = Len(results) - 1
          BY <3>1, <3>2, FrontIs
        <5> QED BY <5>1
      <4> QED BY <3>1, <4>1 DEF ResultsStacked
    <3> QED BY <2>1, <3>2, <3>3, <3>4, <3>5 DEF Screens
  <2>2. CASE front # "results"
    BY <2>2 DEF Back, CopiesSound, SessionSound, Screens
  <2> QED BY <2>1, <2>2
<1>3. UNCHANGED <<stored, account, defaults, homeVars, saving, bookVars, edits,
                  opened, hearted>> /\ ~saving /\ SignedIn
      /\ copy' \in {copy, NoUser}
  BY DEF Back, CopiesSound, SessionSound
<1>4. TypeOK'
  <2>1. Len(results') <= opened
    <3>1. Len(results) \in Nat /\ Len(results') \in Nat /\ opened \in Nat
          /\ Len(results) <= opened
      BY <1>1 DEF CopiesSound, TypeOK
    <3> QED BY <1>1, <3>1
  <2>2. shelf' \in Shelves \cup {NoScreen}
    BY DEF Back, CopiesSound, TypeOK
  <2> QED BY <1>1, <1>2, <1>3, <2>1, <2>2 DEF CopiesSound, TypeOK, Copies, Screens,
        homeVars, bookVars
<1>5. OwnBooks'
  BY <1>3 DEF CopiesSound, OwnBooks, Own
<1>6. SessionSound'
  <2>1. ResultsStacked'
    <3>1. ASSUME NEW i \in DOMAIN results'
          PROVE  (/\ i > 1 => results[i].over = "invite"
                  /\ i < Len(results) => results[i].covered
                  /\ results[i].over = "shelf" <=> i = 1 /\ shelf # NoScreen)'
      <4>1. /\ i \in DOMAIN results /\ results'[i] = results[i] /\ ResultsStacked
            /\ Len(results) \in Nat /\ Len(results') \in Nat /\ i \in Nat
        BY <1>1 DEF CopiesSound, SessionSound, TypeOK
      <4>2. shelf' = shelf
        BY <1>2, <4>1
      <4> QED BY <1>1, <4>1, <4>2 DEF ResultsStacked
    <3> QED BY <3>1 DEF ResultsStacked
  <2> QED BY <1>2, <1>3, <2>1 DEF CopiesSound, SessionSound, SignedIn, Screens,
     homeVars
<1>7. HomeSound'
  BY <1>3 DEF CopiesSound, HomeSound, Own, homeVars
<1>8. ScreensSound'
  <2>1. ResultsFresh'
    BY <1>1, <1>3 DEF CopiesSound, ScreensSound, ResultsFresh, Own
  <2>2. shelf' # NoScreen => shelf' = shelf
    BY DEF Back
  <2> QED BY <1>3, <2>1, <2>2 DEF CopiesSound, ScreensSound, Own, homeVars
<1> QED BY <1>4, <1>5, <1>6, <1>7, <1>8 DEF CopiesSound

LEMMA OpenClubStep ==
  ASSUME CopiesSound, OpenClub
  PROVE  CopiesSound'
<1>1. TypeOK'
  BY DEF CopiesSound, TypeOK, OpenClub, Screens, homeVars, bookVars
<1>2. OwnBooks'
  BY DEF CopiesSound, OwnBooks, Own, OpenClub
<1>3. SessionSound'
  BY ResultsKept DEF CopiesSound, SessionSound, ScreensSound, SignedIn,
     OpenClub, homeVars
<1>4. HomeSound'
  BY DEF CopiesSound, HomeSound, Own, OpenClub, homeVars
<1>5. ScreensSound'
  BY ResultsKept DEF CopiesSound, SessionSound, ScreensSound, Own, OpenClub, homeVars
<1> QED BY <1>1, <1>2, <1>3, <1>4, <1>5 DEF CopiesSound


LEMMA CloseToHomeStep ==
  ASSUME CopiesSound, CloseToHome
  PROVE  CopiesSound'
<1>1. TypeOK'
  BY MarkerAssumption, ScreenAssumption DEF CopiesSound, TypeOK, SessionSound,
     SignedIn, CloseToHome, NewHome, Screens, Copies, NoScreensOpen, homeVars,
     bookVars
<1>2. OwnBooks'
  BY MarkerAssumption, ScreenAssumption DEF CopiesSound, OwnBooks, Own,
     CloseToHome, NewHome, Screens, Copies, NoScreensOpen, homeVars, bookVars
<1>3. SessionSound'
  BY MarkerAssumption, ScreenAssumption, ResultsKept, NoResults DEF CopiesSound,
     SessionSound, HomeSound, ScreensSound, SignedIn, TypeOK, CloseToHome,
     NewHome, Screens, Copies, NoScreensOpen, homeVars, bookVars
<1>4. HomeSound'
  BY MarkerAssumption, ScreenAssumption DEF CopiesSound, HomeSound,
     SessionSound, ScreensSound, OwnBooks, SignedIn, Own, TypeOK, CloseToHome,
     NewHome, Screens, Copies, NoScreensOpen, homeVars, bookVars
<1>5. ScreensSound'
  BY MarkerAssumption, ScreenAssumption, ResultsKept, NoResults DEF CopiesSound,
     ScreensSound, HomeSound, SessionSound, OwnBooks, SignedIn, Own, TypeOK,
     CloseToHome, NewHome, Screens, Copies, NoScreensOpen, homeVars, bookVars
<1> QED BY <1>1, <1>2, <1>3, <1>4, <1>5 DEF CopiesSound

LEMMA SettingsSavedStep ==
  ASSUME CopiesSound, SettingsSaved
  PROVE  CopiesSound'
<1>1. TypeOK'
  BY MarkerAssumption, ScreenAssumption DEF CopiesSound, TypeOK, SettingsSaved,
     Screens, Copies, NoScreensOpen, homeVars, bookVars
<1>2. OwnBooks'
  BY MarkerAssumption, ScreenAssumption DEF CopiesSound, OwnBooks, Own,
     SettingsSaved, Screens, Copies, NoScreensOpen, homeVars, bookVars
<1>3. SessionSound'
  BY MarkerAssumption, ScreenAssumption, ResultsKept, NoResults DEF CopiesSound,
     SessionSound, HomeSound, ScreensSound, SignedIn, TypeOK, SettingsSaved,
     Screens, Copies, NoScreensOpen, homeVars, bookVars
<1>4. HomeSound'
  BY MarkerAssumption, ScreenAssumption DEF CopiesSound, HomeSound,
     SessionSound, ScreensSound, OwnBooks, SignedIn, Own, TypeOK, SettingsSaved,
     Screens, Copies, NoScreensOpen, homeVars, bookVars
<1>5. ScreensSound'
  BY MarkerAssumption, ScreenAssumption, ResultsKept, NoResults DEF CopiesSound,
     ScreensSound, HomeSound, SessionSound, OwnBooks, SignedIn, Own, TypeOK,
     SettingsSaved, Screens, Copies, NoScreensOpen, homeVars, bookVars
<1> QED BY <1>1, <1>2, <1>3, <1>4, <1>5 DEF CopiesSound

LEMMA OpenSettingsStep ==
  ASSUME CopiesSound, OpenSettings
  PROVE  CopiesSound'
<1>1. CASE home = NoUser
  BY <1>1, DieStep DEF OpenSettings, CopiesSound, TypeOK
<1>2. CASE home # NoUser
  <2>1. TypeOK'
    BY MarkerAssumption, ScreenAssumption, <1>2 DEF CopiesSound, TypeOK,
       SessionSound, SignedIn, Copies, OpenSettings, Screens, homeVars,
       bookVars
  <2>2. OwnBooks'
    BY MarkerAssumption, ScreenAssumption, <1>2 DEF CopiesSound, OwnBooks, Own,
       OpenSettings, Screens, homeVars, bookVars
  <2>3. SessionSound'
    BY MarkerAssumption, ScreenAssumption, ResultsKept, NoResults, <1>2 DEF
       CopiesSound, SessionSound, HomeSound, ScreensSound, SignedIn, TypeOK,
       OpenSettings, Screens, homeVars, bookVars
  <2>4. HomeSound'
    BY MarkerAssumption, ScreenAssumption, <1>2 DEF CopiesSound, HomeSound,
       SessionSound, ScreensSound, OwnBooks, SignedIn, Own, TypeOK, Copies,
       OpenSettings, Screens, homeVars, bookVars
  <2>5. ScreensSound'
    BY MarkerAssumption, ScreenAssumption, ResultsKept, NoResults, <1>2 DEF
       CopiesSound, ScreensSound, HomeSound, SessionSound, OwnBooks, SignedIn,
       Own, TypeOK, Copies, OpenSettings, Screens, homeVars, bookVars
  <2> QED BY <2>1, <2>2, <2>3, <2>4, <2>5 DEF CopiesSound
<1> QED BY <1>1, <1>2


LEMMA KilledStep ==
  ASSUME CopiesSound, Killed
  PROVE  CopiesSound'
BY DieStep DEF Killed, CopiesSound, TypeOK


LEMMA OpenResultsStep ==
  ASSUME CopiesSound, NEW connected \in BOOLEAN, OpenResults(connected)
  PROVE  CopiesSound'
<1> DEFINE below == [i \in DOMAIN results |-> [results[i] EXCEPT !.covered = TRUE]]
           new == [user |-> NoUser, waits |-> TRUE, searching |-> connected,
                   heart |-> "disabled", found |-> NoBook, over |-> front,
                   covered |-> FALSE]
<1>1. /\ results' = Append(below, new) /\ front' = "results" /\ opened' = opened + 1
      /\ front \in {"home", "shelf", "invite"} /\ opened < MaxOpened
      /\ shelf' = IF front = "shelf" THEN [shelf EXCEPT !.covered = TRUE] ELSE shelf
      /\ UNCHANGED <<stored, account, defaults, homeVars, copy, saving, bookVars,
                     edits, hearted>>
  BY DEF OpenResults, OpenResultsFor
<1>2. /\ results \in Seq(ResultScreens) /\ Len(results) \in Nat
      /\ DOMAIN results = 1..Len(results) /\ new \in ResultScreens
      /\ front # "invite" => results = <<>>
  BY <1>1 DEF CopiesSound, TypeOK, SessionSound, ResultScreens, Copies
<1>3. /\ below \in Seq(ResultScreens) /\ Len(below) = Len(results)
      /\ \A i \in 1..Len(results) :
           /\ below[i].user = results[i].user /\ below[i].over = results[i].over
           /\ below[i].covered
  <2>1. ASSUME NEW i \in 1..Len(results)
        PROVE  /\ below[i] \in ResultScreens
               /\ below[i].user = results[i].user /\ below[i].over = results[i].over
               /\ below[i].covered
    <3>1. results[i] \in ResultScreens /\ below[i] = [results[i] EXCEPT !.covered = TRUE]
      BY <1>2
    <3> HIDE DEF below
    <3> QED BY <3>1 DEF ResultScreens
  <2>2. below \in [1..Len(results) -> ResultScreens]
    BY <1>2, <2>1
  <2>3. below \in Seq(ResultScreens) /\ Len(below) = Len(results)
    <3> HIDE DEF below
    <3> QED BY <1>2, <2>2
  <2> QED BY <2>1, <2>3
<1>4. /\ results' \in Seq(ResultScreens) /\ Len(results') = Len(results) + 1
      /\ DOMAIN results' = 1..(Len(results) + 1)
      /\ results'[Len(results) + 1] = new
      /\ \A i \in 1..Len(results) : results'[i] = below[i]
  <2> HIDE DEF below, new
  <2> QED BY <1>1, <1>2, <1>3
<1>5. shelf' \in Shelves \cup {NoScreen}
      /\ (shelf # NoScreen <=> shelf' # NoScreen)
      /\ (shelf' # NoScreen => shelf # NoScreen /\ shelf'.user = shelf.user
            /\ shelf'.rows = shelf.rows /\ shelf'.asked = shelf.asked
            /\ shelf'.got = shelf.got)
  <2>1. CASE front # "shelf"
    BY <1>1, <2>1 DEF CopiesSound, TypeOK
  <2>2. CASE front = "shelf"
    <3>1. shelf \in Shelves /\ shelf' = [shelf EXCEPT !.covered = TRUE]
      BY <1>1, <2>2 DEF CopiesSound, TypeOK, SessionSound
    <3>2. shelf' \in Shelves /\ shelf'.user = shelf.user
          /\ shelf'.rows = shelf.rows /\ shelf'.asked = shelf.asked
          /\ shelf'.got = shelf.got
      BY <3>1 DEF Shelves
    <3> QED BY <3>1, <3>2, ScreenAssumption
  <2> QED BY <2>1, <2>2
<1> HIDE DEF below
<1>6. TypeOK'
  <2>1. opened' \in 0..MaxOpened /\ Len(results') <= opened'
    <3>1. opened \in Nat /\ MaxOpened \in Nat /\ Len(results) <= opened
      BY BoundAssumption DEF CopiesSound, TypeOK
    <3> HIDE DEF new
    <3> QED BY <1>1, <1>2, <1>4, <3>1
  <2> HIDE DEF new
  <2> QED BY <1>1, <1>4, <1>5, <2>1 DEF CopiesSound, TypeOK, Screens, homeVars,
     bookVars
<1>7. OwnBooks'
  BY <1>1 DEF CopiesSound, OwnBooks, Own
<1>8. SessionSound'
  <2>1. ResultsStacked'
    <3>1. ASSUME NEW i \in DOMAIN results'
          PROVE  (/\ i > 1 => results[i].over = "invite"
                  /\ i < Len(results) => results[i].covered
                  /\ results[i].over = "shelf" <=> i = 1 /\ shelf # NoScreen)'
      <4>1. CASE i = Len(results) + 1
        <5>1. /\ results'[i].over = front
              /\ front = "shelf" <=> shelf # NoScreen /\ results = <<>>
          BY <1>1, <1>2, <1>4, <4>1 DEF CopiesSound, SessionSound
        <5>2. /\ i > 1 => front = "invite"
              /\ i = 1 <=> results = <<>>
          BY <1>2, <4>1
        <5>3. ~(i < Len(results'))
          <6> HIDE DEF new
          <6> QED BY <1>2, <1>4, <4>1
        <5> HIDE DEF new
        <5> QED BY <1>5, <5>1, <5>2, <5>3
      <4>2. CASE i # Len(results) + 1
        <5>1. i \in 1..Len(results)
          <6> HIDE DEF new
          <6> QED BY <1>2, <1>4, <4>2
        <5>2. results'[i].over = results[i].over /\ results'[i].covered
          <6> HIDE DEF new
          <6> QED BY <1>3, <1>4, <5>1
        <5> HIDE DEF new
        <5> QED BY <1>2, <1>5, <5>1, <5>2 DEF CopiesSound, SessionSound,
           ResultsStacked
      <4> QED BY <4>1, <4>2
    <3> HIDE DEF new
    <3> QED BY <3>1 DEF ResultsStacked
  <2>2. results' # <<>>
    <3> HIDE DEF new
    <3> QED BY <1>2, <1>4
  <2> HIDE DEF new
  <2> QED BY <1>1, <2>1, <2>2 DEF CopiesSound, SessionSound, SignedIn, homeVars
<1>9. HomeSound'
  BY <1>1 DEF CopiesSound, HomeSound, Own, homeVars
<1>10. ScreensSound'
  <2>1. ResultsFresh'
    <3>1. ASSUME NEW i \in DOMAIN results', results'[i].user # NoUser
          PROVE  (/\ Own(results[i].user, account)
                  /\ results[i].user.readBooks = stored[account].readBooks
                  /\ results[i].covered \/ results[i].user = stored[account])'
      <4>1. i # Len(results) + 1
        BY <1>4, <3>1
      <4>2. i \in 1..Len(results)
        <5> HIDE DEF new
        <5> QED BY <1>2, <1>4, <4>1
      <4>3. results'[i].user = results[i].user /\ results'[i].covered
        <5> HIDE DEF new
        <5> QED BY <1>3, <1>4, <4>2
      <4> HIDE DEF new
      <4> QED BY <1>1, <1>2, <3>1, <4>2, <4>3 DEF CopiesSound, ScreensSound,
         ResultsFresh, Own
    <3> HIDE DEF new
    <3> QED BY <3>1 DEF ResultsFresh
  <2> HIDE DEF new
  <2> QED BY <1>1, <1>5, <2>1 DEF CopiesSound, ScreensSound, Own, homeVars
<1> QED BY <1>6, <1>7, <1>8, <1>9, <1>10 DEF CopiesSound



LEMMA ResultsAnsweredStep ==
  ASSUME CopiesSound, NEW i \in 1..MaxOpened, ResultsAnswered(i)
  PROVE  CopiesSound'
<1>1. PICK s : s = [results[i] EXCEPT !.waits = FALSE, !.user = stored[account]]
  OBVIOUS
<1>2. /\ i \in DOMAIN results /\ results[i] \in ResultScreens
      /\ account \in Accounts
  <2>1. i \in DOMAIN results /\ results # <<>>
    BY DEF ResultsAnswered
  <2> QED BY <2>1, ScreenAt DEF CopiesSound, SessionSound, SignedIn
<1>3. s \in ResultScreens /\ s.over = results[i].over /\ s.covered = results[i].covered
      /\ s.user \in {results[i].user, stored[account]}
  BY <1>1, <1>2 DEF CopiesSound, TypeOK, Copies, ResultScreens
<1>4. results' = [results EXCEPT ![i] = s]
  BY <1>1, <1>2 DEF ResultsAnswered, ResultScreens
<1>5. UNCHANGED <<stored, account, defaults, front, homeVars, copy, saving,
                  shelf, bookVars, edits, opened, hearted>>
  BY DEF ResultsAnswered
<1> QED BY <1>2, <1>3, <1>4, <1>5, AnswerStep



LEMMA BookFoundStep ==
  ASSUME CopiesSound, NEW i \in 1..MaxOpened, NEW b \in Books,
         NEW complete \in BOOLEAN, BookFound(i, b, complete)
  PROVE  CopiesSound'
<1>1. PICK s : s = [results[i] EXCEPT !.searching = FALSE,
                                   !.heart = Shown(results[i].user, b),
                                   !.found = IF complete THEN b ELSE NoBook]
  OBVIOUS
<1>2. /\ i \in DOMAIN results /\ results[i] \in ResultScreens
      /\ account \in Accounts
  <2>1. i \in DOMAIN results /\ results # <<>>
    BY DEF BookFound
  <2> QED BY <2>1, ScreenAt DEF CopiesSound, SessionSound, SignedIn
<1>3. s \in ResultScreens /\ s.over = results[i].over /\ s.covered = results[i].covered
      /\ s.user \in {results[i].user, stored[account]}
  BY <1>1, <1>2 DEF Shown, ResultScreens
<1>4. results' = [results EXCEPT ![i] = s]
  BY <1>1, <1>2 DEF BookFound, ResultScreens
<1>5. UNCHANGED <<stored, account, defaults, front, homeVars, copy, saving,
                  shelf, bookVars, edits, opened, hearted>>
  BY DEF BookFound
<1> QED BY <1>2, <1>3, <1>4, <1>5, AnswerStep



LEMMA BookNotFoundStep ==
  ASSUME CopiesSound, NEW i \in 1..MaxOpened, BookNotFound(i)
  PROVE  CopiesSound'
<1>1. PICK s : s = [results[i] EXCEPT !.searching = FALSE]
  OBVIOUS
<1>2. /\ i \in DOMAIN results /\ results[i] \in ResultScreens
      /\ account \in Accounts
  <2>1. i \in DOMAIN results /\ results # <<>>
    BY DEF BookNotFound
  <2> QED BY <2>1, ScreenAt DEF CopiesSound, SessionSound, SignedIn
<1>3. s \in ResultScreens /\ s.over = results[i].over /\ s.covered = results[i].covered
      /\ s.user \in {results[i].user, stored[account]}
  BY <1>1, <1>2 DEF ResultScreens
<1>4. results' = [results EXCEPT ![i] = s]
  BY <1>1, <1>2 DEF BookNotFound, ResultScreens
<1>5. UNCHANGED <<stored, account, defaults, front, homeVars, copy, saving,
                  shelf, bookVars, edits, opened, hearted>>
  BY DEF BookNotFound
<1> QED BY <1>2, <1>3, <1>4, <1>5, AnswerStep



LEMMA BookCheckedStep ==
  ASSUME CopiesSound, NEW b \in Books, BookChecked(b)
  PROVE  CopiesSound'
<1>1. TypeOK'
  BY MarkerAssumption, ScreenAssumption DEF CopiesSound, TypeOK, SessionSound,
     SignedIn, Copies, BookChecked, homeVars, bookVars
<1>2. OwnBooks'
  BY MarkerAssumption, ScreenAssumption DEF CopiesSound, OwnBooks, Own, BookChecked,
     homeVars, bookVars
<1>3. SessionSound'
  BY MarkerAssumption, ScreenAssumption, ResultsKept, NoResults DEF CopiesSound,
     SessionSound, HomeSound, ScreensSound, SignedIn, TypeOK, BookChecked,
     homeVars, bookVars
<1>4. HomeSound'
  BY MarkerAssumption, ScreenAssumption DEF CopiesSound, HomeSound, SessionSound,
     ScreensSound, OwnBooks, SignedIn, Own, TypeOK, Copies, BookChecked,
     homeVars, bookVars
<1>5. ScreensSound'
  BY MarkerAssumption, ScreenAssumption, ResultsKept, NoResults DEF CopiesSound,
     ScreensSound, HomeSound, SessionSound, OwnBooks, SignedIn, Own, TypeOK,
     Copies, BookChecked, homeVars, bookVars
<1> QED BY <1>1, <1>2, <1>3, <1>4, <1>5 DEF CopiesSound


LEMMA BookCheckFailsStep ==
  ASSUME CopiesSound, BookCheckFails
  PROVE  CopiesSound'
BY DieStep DEF BookCheckFails, CopiesSound, TypeOK


LEMMA OpenShelfStep ==
  ASSUME CopiesSound, OpenShelf
  PROVE  CopiesSound'
<1>1. CASE defaults.selectedBooks = Unset
  BY <1>1, DieStep DEF OpenShelf, CopiesSound, TypeOK
<1>2. CASE defaults.selectedBooks # Unset
  <2>1. /\ defaults.selectedBooks \in Lists
        /\ ToSet(defaults.selectedBooks) \subseteq Books
    BY <1>2, ListParts DEF CopiesSound, TypeOK, Defaults
  <2>2. /\ ShelfUser \in Copies
        /\ home = NoUser => ShelfUser = NoUser
        /\ home # NoUser =>
             ShelfUser \in UserCopies /\ ShelfUser.uid = home.uid
               /\ ShelfUser.selectedBooks = defaults.selectedBooks
               /\ ShelfUser.readBooks = defaults.readBooks
    BY <2>1 DEF ShelfUser, CopiesSound, TypeOK, HomeSound, Copies, UserCopies,
       Defaults
  <2>3. /\ shelf' \in Shelves
        /\ shelf'.user = ShelfUser /\ shelf'.rows = {}
        /\ shelf'.asked = ToSet(defaults.selectedBooks) /\ shelf'.got = {}
    <3>1. shelf' = [user |-> ShelfUser, rows |-> {},
                    asked |-> ToSet(defaults.selectedBooks), got |-> {},
                    covered |-> FALSE]
      BY <1>2 DEF OpenShelf
    <3> QED BY <3>1, <2>1, <2>2 DEF Shelves
  <2>4. TypeOK'
    BY MarkerAssumption, ScreenAssumption, <1>2, <2>1, <2>2, <2>3 DEF CopiesSound,
       TypeOK, SessionSound, SignedIn, Copies, OpenShelf, Screens, homeVars,
       bookVars
  <2>5. OwnBooks'
    BY MarkerAssumption, ScreenAssumption, <1>2, <2>1, <2>2, <2>3 DEF CopiesSound,
       OwnBooks, Own, OpenShelf, Screens, homeVars, bookVars
  <2>6. SessionSound'
    BY MarkerAssumption, ScreenAssumption, ResultsKept, NoResults, <1>2, <2>1,
       <2>2, <2>3 DEF CopiesSound,
       SessionSound, HomeSound, ScreensSound, SignedIn, TypeOK, OpenShelf,
       Screens, homeVars, bookVars
  <2>7. HomeSound'
    BY MarkerAssumption, ScreenAssumption, <1>2, <2>1, <2>2, <2>3 DEF CopiesSound,
       HomeSound, SessionSound, ScreensSound, OwnBooks, SignedIn, Own,
       TypeOK, Copies, OpenShelf, Screens, homeVars, bookVars
  <2>8. ScreensSound'
    BY MarkerAssumption, ScreenAssumption, ResultsKept, NoResults, <1>2, <2>1,
       <2>2, <2>3 DEF CopiesSound,
       ScreensSound, HomeSound, SessionSound, OwnBooks, SignedIn, Own,
       TypeOK, Copies, OpenShelf, Screens, homeVars, bookVars
  <2> QED BY <2>4, <2>5, <2>6, <2>7, <2>8 DEF CopiesSound
<1> QED BY <1>1, <1>2


LEMMA RowArrivesStep ==
  ASSUME CopiesSound, NEW b \in Books, RowArrives(b)
  PROVE  CopiesSound'
<1>1. shelf \in Shelves
  BY DEF RowArrives, CopiesSound, TypeOK
<1>2. /\ shelf' \in Shelves /\ shelf'.user = shelf.user
      /\ shelf'.rows \cup shelf'.asked \cup shelf'.got
           \subseteq shelf.rows \cup shelf.asked \cup shelf.got
  <2>1. CASE b \in bookDocs
    <3>1. shelf' = [shelf EXCEPT !.asked = @ \ {b}, !.got = @ \cup {b},
                                 !.rows = shelf.got \cup {b}]
      BY <2>1 DEF RowArrives
    <3>2. b \in shelf.asked
      BY DEF RowArrives
    <3>3. /\ shelf'.rows = shelf.got \cup {b} /\ shelf'.asked = shelf.asked \ {b}
          /\ shelf'.got = shelf.got \cup {b} /\ shelf'.user = shelf.user
          /\ shelf' \in Shelves
      BY <3>1, <3>2, <1>1 DEF Shelves
    <3> QED BY <3>2, <3>3
  <2>2. CASE b \notin bookDocs
    <3>1. shelf' = [shelf EXCEPT !.asked = @ \ {b}]
      BY <2>2 DEF RowArrives
    <3> QED BY <3>1, <1>1 DEF Shelves
  <2> QED BY <2>1, <2>2
<1>3. TypeOK'
  BY MarkerAssumption, ScreenAssumption, <1>1, <1>2 DEF CopiesSound, TypeOK,
     SessionSound, SignedIn, Copies, RowArrives, homeVars, bookVars
<1>4. OwnBooks'
  BY MarkerAssumption, ScreenAssumption, <1>1, <1>2 DEF CopiesSound, OwnBooks, Own,
     RowArrives, homeVars, bookVars
<1>5. SessionSound'
  BY MarkerAssumption, ScreenAssumption, ResultsKept, NoResults, <1>1, <1>2 DEF
     CopiesSound, SessionSound, HomeSound, ScreensSound, SignedIn, TypeOK,
     RowArrives, homeVars, bookVars
<1>6. HomeSound'
  BY MarkerAssumption, ScreenAssumption, <1>1, <1>2 DEF CopiesSound, HomeSound,
     SessionSound, ScreensSound, OwnBooks, SignedIn, Own, TypeOK, Copies,
     RowArrives, homeVars, bookVars
<1>7. ScreensSound'
  <2>1. /\ UNCHANGED <<account, home, copy, results, stored, hearted>>
        /\ shelf # NoScreen /\ shelf' # NoScreen
    BY <1>1, <1>2, ScreenAssumption DEF RowArrives, homeVars
  <2>2. ResultsFresh'
    BY <2>1, ResultsKept DEF CopiesSound, SessionSound, ScreensSound
  <2> QED BY <1>2, <2>1, <2>2 DEF CopiesSound, ScreensSound, Own
<1> QED BY <1>3, <1>4, <1>5, <1>6, <1>7 DEF CopiesSound


(***************************************************************************)
(* The steps that save a user.                                             *)
(***************************************************************************)
LEMMA SaveStep ==
  ASSUME TypeOK, OwnBooks, NEW user \in UserCopies, Save(user),
         hearted' \in [Accounts -> SUBSET Books],
         \A a \in Accounts : hearted[a] \subseteq hearted'[a],
         ToSet(user.selectedBooks) \cup ToSet(user.readBooks)
           \subseteq hearted'[user.uid]
  PROVE  /\ stored' \in [Accounts -> UserCopies]
         /\ edits' \in 0..MaxEdits
         /\ user.uid \in Accounts /\ stored'[user.uid] = user
         /\ \A a \in Accounts : a # user.uid => stored'[a] = stored[a]
         /\ OwnBooks'
<1>1. user.uid \in Accounts
  BY DEF UserCopies
<1>2. stored' = [stored EXCEPT ![user.uid] = user] /\ edits' \in 0..MaxEdits
  BY BoundAssumption DEF Save, CanSave, TypeOK
<1>3. /\ stored' \in [Accounts -> UserCopies]
      /\ stored'[user.uid] = user
      /\ \A a \in Accounts : a # user.uid => stored'[a] = stored[a]
  BY <1>1, <1>2 DEF TypeOK
<1>4. ASSUME NEW a \in Accounts
      PROVE  Own(stored[a], a)'
  <2>1. CASE a = user.uid
    BY <2>1, <1>3 DEF Own
  <2>2. CASE a # user.uid
    BY <2>2, <1>3 DEF Own, OwnBooks
  <2> QED BY <2>1, <2>2
<1> QED BY <1>1, <1>2, <1>3, <1>4 DEF OwnBooks

LEMMA RedoTutorialStep ==
  ASSUME CopiesSound, RedoTutorial
  PROVE  CopiesSound'
<1>1. defaults' \in Defaults
      /\ defaults'.selectedBooks = defaults.selectedBooks
      /\ defaults'.readBooks = defaults.readBooks
  <2>1. defaults' = [defaults EXCEPT !.achievements = @ \cup {1}]
    BY DEF RedoTutorial, Award
  <2> QED BY <2>1 DEF CopiesSound, TypeOK, Defaults, Achievements
<1>2. CASE copy = NoUser
  <2>1. TypeOK'
    BY MarkerAssumption, ScreenAssumption, <1>1, <1>2 DEF CopiesSound, TypeOK,
       SessionSound, SignedIn, Copies, RedoTutorial, Award, homeVars,
       bookVars
  <2>2. OwnBooks'
    BY MarkerAssumption, ScreenAssumption, <1>1, <1>2 DEF CopiesSound, OwnBooks,
       Own, RedoTutorial, Award, homeVars, bookVars
  <2>3. SessionSound'
    BY MarkerAssumption, ScreenAssumption, ResultsKept, NoResults, <1>1, <1>2
       DEF CopiesSound, SessionSound, HomeSound, ScreensSound, SignedIn,
       TypeOK, RedoTutorial, Award, homeVars, bookVars
  <2>4. HomeSound'
    BY MarkerAssumption, ScreenAssumption, <1>1, <1>2 DEF CopiesSound, HomeSound,
       SessionSound, ScreensSound, OwnBooks, SignedIn, Own, TypeOK, Copies,
       RedoTutorial, Award, homeVars, bookVars
  <2>5. ScreensSound'
    BY MarkerAssumption, ScreenAssumption, ResultsKept, NoResults, <1>1, <1>2
       DEF CopiesSound, ScreensSound, HomeSound, SessionSound, OwnBooks,
       SignedIn, Own, TypeOK, Copies, RedoTutorial, Award, homeVars, bookVars
  <2> QED BY <2>1, <2>2, <2>3, <2>4, <2>5 DEF CopiesSound
<1>3. CASE copy # NoUser
  <2>1. /\ copy \in UserCopies /\ Own(copy, account)
        /\ results = <<>> /\ account \in Accounts
    BY <1>3 DEF RedoTutorial, CopiesSound, TypeOK, Copies, ScreensSound,
       SessionSound, SignedIn
  <2>2. PICK u : u = [copy EXCEPT !.achievements = @ \cup {1}]
    OBVIOUS
  <2>3. /\ u \in UserCopies /\ u.uid = copy.uid
        /\ u.selectedBooks = copy.selectedBooks /\ u.readBooks = copy.readBooks
    <3>1. 1 \in Achievements
      BY DEF Achievements
    <3> QED BY <2>1, <2>2, <3>1, AwardedKeeps
  <2>4. Save(u) /\ UNCHANGED hearted
    BY <1>3, <2>2 DEF RedoTutorial, Award
  <2>5. copy' = u
    BY <1>3, <2>2 DEF RedoTutorial
  <2>6. /\ stored' \in [Accounts -> UserCopies] /\ edits' \in 0..MaxEdits
        /\ stored'[u.uid] = u /\ u.uid = account /\ OwnBooks'
    BY <2>1, <2>3, <2>4, SaveStep DEF CopiesSound, TypeOK, Own
  <2>7. TypeOK'
    BY MarkerAssumption, ScreenAssumption, <1>1, <1>3, <2>1, <2>3, <2>4,
       <2>5, <2>6 DEF CopiesSound, TypeOK, SessionSound, SignedIn, Copies,
       RedoTutorial, homeVars, bookVars
  <2>8. OwnBooks'
    BY MarkerAssumption, ScreenAssumption, <1>1, <1>3, <2>1, <2>3, <2>4,
       <2>5, <2>6 DEF CopiesSound, OwnBooks, Own, RedoTutorial, homeVars, bookVars
  <2>9. SessionSound'
    BY MarkerAssumption, ScreenAssumption, ResultsKept, NoResults, <1>1, <1>3,
       <2>1, <2>3, <2>4,
       <2>5, <2>6 DEF CopiesSound, SessionSound, HomeSound, ScreensSound, SignedIn,
       TypeOK, RedoTutorial, homeVars, bookVars
  <2>10. HomeSound'
    BY MarkerAssumption, ScreenAssumption, <1>1, <1>3, <2>1, <2>3, <2>4,
       <2>5, <2>6 DEF CopiesSound, HomeSound, SessionSound, ScreensSound, OwnBooks,
       SignedIn, Own, TypeOK, Copies, RedoTutorial, homeVars, bookVars
  <2>11. ScreensSound'
    BY MarkerAssumption, ScreenAssumption, ResultsKept, NoResults, <1>1, <1>3,
       <2>1, <2>3, <2>4,
       <2>5, <2>6 DEF CopiesSound, ScreensSound, HomeSound, SessionSound, OwnBooks,
       SignedIn, Own, TypeOK, Copies, RedoTutorial, homeVars, bookVars
  <2> QED BY <2>7, <2>8, <2>9, <2>10, <2>11 DEF CopiesSound
<1> QED BY <1>2, <1>3


LEMMA PressInviteStep ==
  ASSUME CopiesSound, PressInvite
  PROVE  CopiesSound'
<1>1. /\ Len(results) \in DOMAIN results /\ Top = results[Len(results)]
      /\ Top \in ResultScreens /\ account \in Accounts /\ TypeOK /\ OwnBooks
      /\ front = "results" /\ results # <<>> /\ results \in Seq(ResultScreens)
  BY TopIs DEF PressInvite, CopiesSound, SessionSound, TypeOK
<1>2. /\ defaults' \in Defaults
      /\ defaults'.selectedBooks = defaults.selectedBooks
      /\ defaults'.readBooks = defaults.readBooks
  BY <1>1 DEF PressInvite, Award, TypeOK, Defaults, Achievements
<1>3. /\ front' = "invite"
      /\ UNCHANGED <<account, homeVars, copy, saving, shelf, bookVars, opened, hearted>>
  BY DEF PressInvite
<1>4. /\ stored' \in [Accounts -> UserCopies] /\ edits' \in 0..MaxEdits /\ OwnBooks'
      /\ results' \in Seq(ResultScreens) /\ Len(results') = Len(results)
      /\ ResultsStacked' /\ ResultsFresh'
  <2>1. CASE UNCHANGED <<stored, edits, results>>
    BY <1>1, <1>3, <2>1, ResultsKept DEF CopiesSound, TypeOK, OwnBooks, Own,
       SessionSound, ScreensSound
  <2>2. CASE ~UNCHANGED <<stored, edits, results>>
    <3>1. 5 \notin defaults.achievements /\ Top.user # NoUser
      BY <2>2 DEF PressInvite, Award
    <3>2. Top.user \in UserCopies /\ Own(Top.user, account)
      BY <1>1, <3>1 DEF ResultScreens, Copies, CopiesSound, ScreensSound,
         ResultsFresh
    <3>3. PICK u : u = [Top.user EXCEPT !.achievements = @ \cup {5}]
      OBVIOUS
    <3>4. /\ u \in UserCopies /\ u.uid = account
          /\ u.selectedBooks = Top.user.selectedBooks /\ u.readBooks = Top.user.readBooks
      <4>1. 5 \in Achievements
        BY DEF Achievements
      <4> QED BY <3>2, <3>3, <4>1, AwardedKeeps DEF Own
    <3>5. Save(u) /\ UNCHANGED hearted
      BY <3>1, <3>3 DEF PressInvite, Award
    <3>6. /\ ToSet(u.selectedBooks) \cup ToSet(u.readBooks) \subseteq hearted[account]
          /\ hearted \in [Accounts -> SUBSET Books]
      BY <1>1, <3>2, <3>4 DEF Own, TypeOK
    <3>7. /\ stored' \in [Accounts -> UserCopies] /\ edits' \in 0..MaxEdits
          /\ stored'[account] = u /\ OwnBooks'
      BY <1>1, <3>4, <3>5, <3>6, SaveStep
    <3>8. PICK s : s = [Top EXCEPT !.user = u]
      OBVIOUS
    <3>9. s \in ResultScreens /\ s.user = u /\ s.over = Top.over /\ s.covered = Top.covered
      BY <1>1, <3>4, <3>8 DEF ResultScreens, Copies
    <3>10. results' = [results EXCEPT ![Len(results)] = s]
      <4>1. results' = [results EXCEPT ![Len(results)].user.achievements = @ \cup {5}]
        BY <3>1 DEF PressInvite
      <4> QED BY <1>1, <3>2, <3>3, <3>8, <4>1 DEF ResultScreens, UserCopies
    <3>11. Own(u, account)'
      BY <1>3, <3>4, <3>6 DEF Own
    <3>12. ResultsFresh'
      BY <1>1, <1>3, <3>1, <3>4, <3>7, <3>9, <3>10, <3>11, TopSaved
    <3>13. ResultsStacked'
      BY <1>1, <1>3, <3>9, <3>10, SetStacked DEF CopiesSound, SessionSound
    <3> QED BY <1>1, <3>7, <3>9, <3>10, <3>12, <3>13, SetScreen
  <2> QED BY <2>1, <2>2
<1>5. TypeOK'
  BY <1>1, <1>2, <1>3, <1>4 DEF TypeOK, Screens, homeVars, bookVars
<1>6. SessionSound'
  BY <1>1, <1>3, <1>4 DEF CopiesSound, SessionSound, SignedIn, homeVars
<1>7. HomeSound'
  BY <1>2, <1>3 DEF CopiesSound, HomeSound, Own, homeVars
<1>8. ScreensSound'
  BY <1>3, <1>4 DEF CopiesSound, ScreensSound, Own, homeVars
<1> QED BY <1>4, <1>5, <1>6, <1>7, <1>8 DEF CopiesSound



LEMMA SettingsDoneStep ==
  ASSUME CopiesSound, SettingsDone
  PROVE  CopiesSound'
<1>1. /\ copy \in UserCopies /\ Own(copy, account)
      /\ results = <<>> /\ account \in Accounts
  BY DEF SettingsDone, CopiesSound, TypeOK, Copies, ScreensSound, SessionSound,
     SignedIn
<1>2. PICK u \in UserCopies : u = copy
  BY <1>1
<1>3. Save(u) /\ UNCHANGED hearted
  BY <1>2 DEF SettingsDone
<1>4. /\ stored' \in [Accounts -> UserCopies] /\ edits' \in 0..MaxEdits
      /\ OwnBooks'
  BY <1>1, <1>2, <1>3, SaveStep DEF CopiesSound, TypeOK, Own
<1>5. TypeOK'
  BY MarkerAssumption, ScreenAssumption, <1>1, <1>3, <1>4 DEF CopiesSound, TypeOK,
     SessionSound, SignedIn, Copies, SettingsDone, homeVars, bookVars
<1>6. OwnBooks'
  BY MarkerAssumption, ScreenAssumption, <1>1, <1>3, <1>4 DEF CopiesSound, OwnBooks,
     Own, SettingsDone, homeVars, bookVars
<1>7. SessionSound'
  BY MarkerAssumption, ScreenAssumption, ResultsKept, NoResults, <1>1, <1>3,
     <1>4 DEF CopiesSound,
     SessionSound, HomeSound, ScreensSound, SignedIn, TypeOK, SettingsDone,
     homeVars, bookVars
<1>8. HomeSound'
  BY MarkerAssumption, ScreenAssumption, <1>1, <1>3, <1>4 DEF CopiesSound,
     HomeSound, SessionSound, ScreensSound, OwnBooks, SignedIn, Own, TypeOK,
     Copies, SettingsDone, homeVars, bookVars
<1>9. ScreensSound'
  BY MarkerAssumption, ScreenAssumption, ResultsKept, NoResults, <1>1, <1>3,
     <1>4 DEF CopiesSound,
     ScreensSound, HomeSound, SessionSound, OwnBooks, SignedIn, Own, TypeOK,
     Copies, SettingsDone, homeVars, bookVars
<1> QED BY <1>5, <1>6, <1>7, <1>8, <1>9 DEF CopiesSound


LEMMA PressHeartStep ==
  ASSUME CopiesSound, PressHeart
  PROVE  CopiesSound'
<1>1. CASE Top.user = NoUser \/ Top.found = NoBook
  BY <1>1, DieStep DEF PressHeart, CopiesSound, TypeOK
<1>2. CASE ~(Top.user = NoUser \/ Top.found = NoBook)
  <2>1. /\ Len(results) \in DOMAIN results /\ Top = results[Len(results)]
        /\ Top \in ResultScreens /\ front = "results"
        /\ Top.user \in UserCopies /\ Top.user # NoUser /\ Top.found \in Books
        /\ Own(Top.user, account) /\ account \in Accounts
    <3>1. /\ Len(results) \in DOMAIN results /\ Top = results[Len(results)]
          /\ Top \in ResultScreens /\ account \in Accounts /\ front = "results"
      BY TopIs DEF PressHeart
    <3> QED BY <3>1, <1>2 DEF CopiesSound, Copies, ScreensSound, ResultsFresh,
       ResultScreens
  <2>2. PICK on \in BOOLEAN, book \in Books :
          on = (Top.heart = "off") /\ book = Top.found
    BY <2>1
  <2>3. PICK u : u = Hearted(Top.user, book, on)
    OBVIOUS
  <2>4. /\ u \in UserCopies /\ u.uid = account
        /\ ToSet(u.selectedBooks) \cup ToSet(u.readBooks)
             \subseteq hearted[account] \cup (IF on THEN {book} ELSE {})
        /\ u.selectedBooks \in Lists /\ u.readBooks = Top.user.readBooks
        /\ Len(u.selectedBooks) \in Nat
    <3>1. /\ u \in UserCopies /\ u.uid = Top.user.uid
          /\ u.readBooks = Top.user.readBooks
          /\ ToSet(u.selectedBooks)
               \subseteq ToSet(Top.user.selectedBooks)
                           \cup (IF on THEN {book} ELSE {})
      <4>1. Top.user \in UserCopies /\ on \in BOOLEAN /\ book \in Books
        BY <2>1, <2>2
      <4> QED BY <4>1, <2>3, HeartedKeeps
    <3>2. u.selectedBooks \in Lists /\ Len(u.selectedBooks) \in Nat
      BY <3>1, ListParts DEF UserCopies
    <3>3. /\ Top.user.uid = account
          /\ ToSet(Top.user.selectedBooks) \cup ToSet(Top.user.readBooks)
               \subseteq hearted[account]
      BY <2>1 DEF Own
    <3>4. ToSet(u.readBooks) = ToSet(Top.user.readBooks)
      BY <3>1
    <3> QED BY <3>1, <3>2, <3>3, <3>4
  <2>5. /\ Save(u)
        /\ defaults' = [defaults EXCEPT
               !.selectedBooks = u.selectedBooks,
               !.achievements = Medals(@, Len(u.selectedBooks))]
        /\ results' = [results EXCEPT ![Len(results)].user = u,
                                      ![Len(results)].heart = IF on THEN "on" ELSE "off"]
        /\ bookChecks' = bookChecks \cup (IF on THEN {book} ELSE {})
        /\ hearted' = [hearted EXCEPT
               ![account] = @ \cup (IF on THEN {book} ELSE {})]
        /\ UNCHANGED <<account, front, homeVars, copy, saving, shelf, bookDocs, opened>>
    BY <1>2, <2>2, <2>3 DEF PressHeart
  <2>6. /\ hearted' \in [Accounts -> SUBSET Books]
        /\ \A a \in Accounts : hearted[a] \subseteq hearted'[a]
        /\ ToSet(u.selectedBooks) \cup ToSet(u.readBooks) \subseteq hearted'[account]
    BY <2>1, <2>2, <2>4, <2>5 DEF CopiesSound, TypeOK
  <2>7. /\ stored' \in [Accounts -> UserCopies] /\ edits' \in 0..MaxEdits
        /\ stored'[account] = u /\ OwnBooks'
    BY <2>4, <2>5, <2>6, SaveStep DEF CopiesSound
  <2>8. /\ defaults' \in Defaults
        /\ defaults'.selectedBooks = u.selectedBooks
        /\ defaults'.readBooks = defaults.readBooks
    <3>1. Medals(defaults.achievements, Len(u.selectedBooks)) \in SUBSET Achievements
      BY <2>4, MedalsTyped DEF CopiesSound, TypeOK, Defaults
    <3> QED BY <2>4, <2>5, <3>1 DEF CopiesSound, TypeOK, Defaults
  <2>9. /\ results' \in Seq(ResultScreens) /\ Len(results') = Len(results)
        /\ results' # <<>> /\ ResultsStacked' /\ ResultsFresh'
    <3>1. PICK s : s = [Top EXCEPT !.user = u, !.heart = IF on THEN "on" ELSE "off"]
      OBVIOUS
    <3>2. s \in ResultScreens /\ s.user = u /\ s.over = Top.over /\ s.covered = Top.covered
      BY <2>1, <2>4, <3>1 DEF ResultScreens, Copies
    <3>3. results' = [results EXCEPT ![Len(results)] = s]
      BY <2>1, <2>5, <3>1 DEF ResultScreens
    <3>4. Own(u, account)'
      BY <2>4, <2>5, <2>6 DEF Own
    <3>5. ResultsFresh'
      BY <2>1, <2>4, <2>5, <2>6, <2>7, <3>2, <3>3, <3>4, TopSaved
    <3>6. ResultsStacked'
      BY <2>1, <2>5, <3>2, <3>3, SetStacked DEF CopiesSound, SessionSound
    <3>7. /\ results' \in Seq(ResultScreens) /\ Len(results') = Len(results)
          /\ DOMAIN results' = DOMAIN results
      BY <2>1, <3>2, <3>3, SetScreen DEF CopiesSound
    <3>8. results' # <<>>
      BY <2>1, <3>7
    <3> QED BY <3>5, <3>6, <3>7, <3>8
  <2>10. ASSUME NEW c, Own(c, account)
         PROVE  /\ c.uid = account
                /\ ToSet(c.selectedBooks) \cup ToSet(c.readBooks) \subseteq hearted'[account]
    BY <2>1, <2>6, <2>10 DEF Own
  <2>11. TypeOK'
    BY <2>1, <2>2, <2>5, <2>6, <2>7, <2>8, <2>9 DEF CopiesSound, TypeOK, homeVars
  <2>12. SessionSound'
    BY <2>1, <2>5, <2>9 DEF CopiesSound, SessionSound, SignedIn, homeVars
  <2>13. HomeSound'
    BY <2>4, <2>5, <2>6, <2>8, <2>10, MarkerAssumption DEF CopiesSound, HomeSound,
       homeVars, Own
  <2>14. ScreensSound'
    <3>1. (copy # NoUser => home # NoUser /\ Own(copy, account))'
      <4>1. copy # NoUser => home # NoUser /\ Own(copy, account)
        BY DEF CopiesSound, ScreensSound
      <4> QED BY <2>5, <2>10, <4>1 DEF Own, homeVars
    <3>2. (shelf # NoScreen /\ shelf.user # NoUser =>
             /\ home # NoUser /\ Own(shelf.user, account)
             /\ shelf.rows \cup shelf.asked \cup shelf.got \subseteq hearted[account])'
      <4>1. shelf # NoScreen /\ shelf.user # NoUser =>
              /\ home # NoUser /\ Own(shelf.user, account)
              /\ shelf.rows \cup shelf.asked \cup shelf.got \subseteq hearted[account]
        BY DEF CopiesSound, ScreensSound
      <4> QED BY <2>1, <2>5, <2>6, <2>10, <4>1 DEF Own, homeVars
    <3> QED BY <2>9, <3>1, <3>2 DEF ScreensSound
  <2> QED BY <2>7, <2>11, <2>12, <2>13, <2>14 DEF CopiesSound
<1> QED BY <1>1, <1>2


LEMMA DeleteStep ==
  ASSUME CopiesSound, NEW b \in Books, Delete(b)
  PROVE  CopiesSound'
<1> DEFINE unread == ToSet(defaults.selectedBooks) \ ToSet(defaults.readBooks)
           dies == \/ defaults.readBooks = Unset
                   \/ /\ b \in unread
                      /\ \/ shelf.user = NoUser
                         \/ FirstIndex(defaults.selectedBooks, b)
                              > Len(shelf.user.selectedBooks)
<1>1. CASE dies
  BY <1>1, DieStep DEF Delete, CopiesSound, TypeOK
<1>2. CASE ~dies
  <2>1. /\ front = "shelf" /\ shelf \in Shelves /\ shelf # NoScreen
        /\ b \in unread /\ defaults.readBooks # Unset
        /\ shelf.user # NoUser
        /\ ~(FirstIndex(defaults.selectedBooks, b) > Len(shelf.user.selectedBooks))
    BY <1>2, ScreenAssumption DEF Delete, CopiesSound, TypeOK, SessionSound
  <2>2. /\ shelf.user \in UserCopies /\ home # NoUser /\ results = <<>>
        /\ Own(shelf.user, account) /\ account \in Accounts
        /\ defaults.selectedBooks \in Lists
        /\ shelf.rows \subseteq hearted[account]
    BY <2>1 DEF CopiesSound, TypeOK, Shelves, Copies, HomeSound, ScreensSound,
       SessionSound, SignedIn, Defaults
  <2>3. PICK u : u = Deleted(shelf.user, b)
    OBVIOUS
  <2>4. /\ u \in UserCopies /\ u.uid = account
        /\ ToSet(u.selectedBooks) \cup ToSet(u.readBooks) \subseteq hearted[account]
        /\ u.selectedBooks \in Lists /\ Len(u.selectedBooks) \in Nat
    <3>1. FirstIndex(defaults.selectedBooks, b) <= Len(shelf.user.selectedBooks)
      <4>1. FirstIndex(defaults.selectedBooks, b) \in Nat
        BY <2>1, <2>2, FirstIndexThere, ListParts
      <4>2. Len(shelf.user.selectedBooks) \in Nat
        BY <2>2, ListParts DEF UserCopies
      <4> QED BY <2>1, <4>1, <4>2
    <3>2. /\ u \in UserCopies /\ u.uid = shelf.user.uid
          /\ u.readBooks = shelf.user.readBooks
          /\ ToSet(u.selectedBooks) \subseteq ToSet(shelf.user.selectedBooks)
      BY <2>1, <2>2, <2>3, <3>1, DeletedKeeps
    <3>3. u.selectedBooks \in Lists
      BY <3>2 DEF UserCopies
    <3> QED BY <2>2, <3>2, <3>3, ListParts DEF Own
  <2>5. /\ Save(u)
        /\ defaults' = [defaults EXCEPT
               !.selectedBooks = u.selectedBooks,
               !.achievements = MedalsLost(@, Len(u.selectedBooks))]
        /\ shelf' = [shelf EXCEPT !.user = u, !.rows = @ \ {b}]
        /\ UNCHANGED <<account, front, homeVars, copy, saving, results, bookVars,
                       opened, hearted>>
    BY <1>2, <2>3 DEF Delete, bookVars
  <2>6. /\ stored' \in [Accounts -> UserCopies] /\ edits' \in 0..MaxEdits
        /\ stored'[account] = u /\ OwnBooks'
    BY <2>4, <2>5, SaveStep DEF CopiesSound, TypeOK
  <2>7. /\ defaults' \in Defaults
        /\ defaults'.selectedBooks = u.selectedBooks
        /\ defaults'.readBooks = defaults.readBooks
    <3>1. MedalsLost(defaults.achievements, Len(u.selectedBooks)) \in SUBSET Achievements
      BY <2>4, MedalsTyped DEF CopiesSound, TypeOK, Defaults
    <3> QED BY <2>4, <2>5, <3>1 DEF CopiesSound, TypeOK, Defaults
  <2>8. /\ shelf' \in Shelves /\ shelf'.user = u /\ shelf'.asked = shelf.asked
        /\ shelf'.got = shelf.got /\ shelf'.rows \subseteq shelf.rows
    BY <2>1, <2>4, <2>5 DEF Shelves, Copies
  <2>9. TypeOK'
    BY <2>5, <2>6, <2>7, <2>8 DEF CopiesSound, TypeOK, homeVars, bookVars
  <2>10. SessionSound'
    BY <2>1, <2>2, <2>5, <2>8, ScreenAssumption, NoResults DEF CopiesSound,
       SessionSound, SignedIn, homeVars
  <2>11. HomeSound'
    BY <2>4, <2>5, <2>7, MarkerAssumption DEF CopiesSound, HomeSound, Own, homeVars
  <2>12. ScreensSound'
    <3>1. ResultsFresh'
      BY <2>1, <2>2, <2>5, NoResults
    <3> QED BY <2>1, <2>2, <2>4, <2>5, <2>8, <3>1 DEF CopiesSound,
       ScreensSound, Own, homeVars
  <2> QED BY <2>6, <2>9, <2>10, <2>11, <2>12 DEF CopiesSound
<1> QED BY <1>1, <1>2


LEMMA ToggleReadStep ==
  ASSUME CopiesSound, NEW b \in Books, ToggleRead(b)
  PROVE  CopiesSound'
<1>1. CASE defaults.readBooks = Unset
  BY <1>1, DieStep DEF ToggleRead, CopiesSound, TypeOK
<1>2. CASE defaults.readBooks # Unset
  <2>1. defaults.readBooks \in Lists
    BY <1>2 DEF CopiesSound, TypeOK, Defaults
  <2>2. PICK list : list = ReadToggled(b)
    OBVIOUS
  <2>3. list \in Lists /\ ToSet(list) \subseteq ToSet(defaults.readBooks) \cup {b}
    BY <2>1, <2>2, ToggledKeeps
  <2>4. /\ defaults' \in Defaults
        /\ defaults'.selectedBooks = defaults.selectedBooks
        /\ defaults'.readBooks = list
    <3>1. defaults' = [defaults EXCEPT !.readBooks = list]
      BY <1>2, <2>2 DEF ToggleRead
    <3> QED BY <2>3, <3>1 DEF CopiesSound, TypeOK, Defaults
  <2>5. CASE shelf.user = NoUser
    BY <1>2, <2>4, <2>5, DieStep DEF ToggleRead
  <2>6. CASE shelf.user # NoUser
    <3>1. /\ shelf \in Shelves /\ shelf # NoScreen /\ b \in shelf.rows
          /\ shelf.user \in UserCopies /\ home # NoUser /\ results = <<>>
          /\ Own(shelf.user, account) /\ account \in Accounts
          /\ shelf.rows \cup shelf.asked \cup shelf.got \subseteq hearted[account]
      <4>1. shelf \in Shelves /\ shelf # NoScreen /\ front = "shelf" /\ b \in shelf.rows
        BY DEF ToggleRead, CopiesSound, TypeOK, SessionSound
      <4> QED BY <4>1, <2>6 DEF CopiesSound, TypeOK, Shelves, Copies, ScreensSound,
            SessionSound, SignedIn
    <3>2. PICK u : u = [shelf.user EXCEPT !.readBooks = list]
      OBVIOUS
    <3>3. /\ u \in UserCopies /\ u.uid = account
          /\ ToSet(u.selectedBooks) \cup ToSet(u.readBooks) \subseteq hearted[account]
      <4>1. /\ u \in UserCopies /\ u.uid = shelf.user.uid /\ u.readBooks = list
            /\ u.selectedBooks = shelf.user.selectedBooks
        BY <2>3, <3>1, <3>2 DEF UserCopies
      <4>2. ToSet(list) \subseteq hearted[account]
        BY <2>3, <3>1 DEF CopiesSound, HomeSound
      <4> QED BY <3>1, <4>1, <4>2 DEF Own
    <3>4. /\ shelf' \in Shelves /\ shelf'.user = u /\ shelf'.rows = shelf.rows
          /\ shelf'.asked = shelf.asked /\ shelf'.got = shelf.got
      <4>1. shelf' = [shelf EXCEPT !.user = u]
        BY <1>2, <2>2, <2>6, <3>1, <3>2 DEF ToggleRead, Shelves, UserCopies
      <4> QED BY <3>1, <3>3, <4>1 DEF Shelves, Copies
    <3>5. /\ Save(u)
          /\ UNCHANGED <<account, front, homeVars, copy, saving, results, bookVars,
                         opened, hearted>>
      BY <1>2, <2>6, <3>4 DEF ToggleRead, bookVars, Save
    <3>6. /\ stored' \in [Accounts -> UserCopies] /\ edits' \in 0..MaxEdits
          /\ stored'[account] = u /\ OwnBooks'
      BY <3>3, <3>5, SaveStep DEF CopiesSound, TypeOK
    <3>7. TypeOK'
      BY <2>4, <3>4, <3>5, <3>6 DEF CopiesSound, TypeOK, homeVars, bookVars
    <3>8. SessionSound'
      BY <3>1, <3>4, <3>5, ScreenAssumption, NoResults DEF CopiesSound, SessionSound,
         SignedIn, homeVars
    <3>9. HomeSound'
      BY <2>3, <2>4, <3>1, <3>5, MarkerAssumption DEF CopiesSound,
         HomeSound, Own, homeVars
    <3>10. ScreensSound'
      <4>1. ResultsFresh'
        BY <3>1, <3>5, NoResults
      <4> QED BY <3>1, <3>3, <3>4, <3>5, <4>1 DEF CopiesSound, ScreensSound,
         Own, homeVars
    <3> QED BY <3>6, <3>7, <3>8, <3>9, <3>10 DEF CopiesSound
  <2> QED BY <2>5, <2>6
<1> QED BY <1>1, <1>2


(***************************************************************************)
(* The lists the shelf works on: ListsSound.  First the steps that save    *)
(* nothing.                                                                *)
(***************************************************************************)
LEMMA ClearedLists ==
  ASSUME ListsSound, stored' = stored,
         home' = NoUser, copy' = NoUser, shelf' = NoScreen
  PROVE  ListsSound'
BY DEF ListsSound, ReadOnce

LEMMA DieLists ==
  ASSUME ListsSound, Die, stored' = stored
  PROVE  ListsSound'
BY ClearedLists DEF Die, NoScreensOpen

LEMMA QuietLists ==
  ASSUME ListsSound, UNCHANGED <<stored, defaults, home, copy, shelf>>,
         shelf # NoScreen => front' = front
  PROVE  ListsSound'
BY DEF ListsSound, ReadOnce

LEMMA StartLists ==
  ASSUME CopiesSound, ListsSound,
         \/ Launch \/ LogOut \/ Killed \/ CloseToHome \/ BookCheckFails
         \/ \E a \in Accounts : LogIn(a)
  PROVE  ListsSound'
<1>1. CASE Launch
  <2>1. CASE account = NoAccount
    <3>1. shelf = NoScreen
      BY <1>1 DEF Launch, CopiesSound, SessionSound
    <3> QED BY <1>1, <2>1, <3>1, QuietLists DEF Launch, homeVars
  <2>2. CASE account # NoAccount
    BY <1>1, <2>2, ClearedLists DEF Launch, NewHome, NoScreensOpen
  <2> QED BY <2>1, <2>2
<1>2. CASE LogOut
  BY <1>2, ClearedLists DEF LogOut, NoScreensOpen
<1>3. CASE Killed
  BY <1>3, DieLists DEF Killed
<1>4. CASE CloseToHome
  BY <1>4, ClearedLists DEF CloseToHome, NewHome, NoScreensOpen
<1>5. CASE BookCheckFails
  BY <1>5, DieLists DEF BookCheckFails
<1>6. CASE \E a \in Accounts : LogIn(a)
  BY <1>6, ClearedLists DEF LogIn, NewHome, NoScreensOpen
<1> QED BY <1>1, <1>2, <1>3, <1>4, <1>5, <1>6

LEMMA AnswerLists ==
  ASSUME CopiesSound, ListsSound,
         \/ ReadFails \/ \E i \in 1..MaxOpened : ResultsAnswered(i) \/ BookNotFound(i)
         \/ \E i \in 1..MaxOpened, b \in Books, complete \in BOOLEAN :
              BookFound(i, b, complete)
         \/ \E b \in Books : BookChecked(b)
  PROVE  ListsSound'
BY QuietLists DEF ReadFails, ResultsAnswered, BookNotFound, BookFound, BookChecked,
   homeVars, bookVars

\* The shelf has a user only when Home has, and then no read of Home's is under way.
LEMMA HomeLists ==
  ASSUME CopiesSound, ListsSound,
         HomeAnswered \/ \E a \in Accounts : LateHomeAnswered(a)
  PROVE  ListsSound'
<1>1. home = NoUser /\ (shelf # NoScreen => shelf.user = NoUser)
      /\ copy = NoUser
  BY DEF CopiesSound, HomeSound, ScreensSound, HomeAnswered, LateHomeAnswered
<1>2. CASE HomeAnswered
  <2>1. stored[account] \in UserCopies /\ account \in Accounts
    BY <1>2 DEF CopiesSound, TypeOK, SessionSound, SignedIn, HomeAnswered
  <2>2. home' = stored[account] /\ defaults'.readBooks = stored[account].readBooks
    BY <1>2, <2>1, DefaultsOfTyped DEF HomeAnswered
  <2>3. UNCHANGED <<stored, front, copy, shelf>>
    BY <1>2 DEF HomeAnswered
  <2> QED BY <1>1, <2>1, <2>2, <2>3 DEF ListsSound, ReadOnce
<1>3. CASE \E a \in Accounts : LateHomeAnswered(a)
  <2>1. UNCHANGED <<stored, front, copy, shelf, home>>
    BY <1>3 DEF LateHomeAnswered
  <2> QED BY <1>1, <2>1 DEF ListsSound, ReadOnce
<1> QED BY <1>2, <1>3

LEMMA ScreenLists ==
  ASSUME CopiesSound, ListsSound,
         \/ OpenMenu \/ OpenSettings \/ SettingsSaved \/ Back \/ OpenShelf \/ OpenClub
         \/ \E connected \in BOOLEAN : OpenResults(connected)
         \/ \E b \in Books : RowArrives(b)
  PROVE  ListsSound'
<1>1. CASE OpenMenu
  BY <1>1 DEF OpenMenu, ListsSound, ReadOnce, homeVars
<1>2. CASE OpenSettings
  <2>1. CASE home = NoUser
    BY <1>2, <2>1, DieLists DEF OpenSettings
  <2>2. CASE home # NoUser
    BY <1>2, <2>2 DEF OpenSettings, ListsSound, ReadOnce, homeVars
  <2> QED BY <2>1, <2>2
<1>3. CASE SettingsSaved
  <2>1. front = "settings" /\ copy # NoUser /\ home # NoUser
    BY <1>3 DEF SettingsSaved, CopiesSound, SessionSound, ScreensSound
  <2> QED BY <1>3, <2>1 DEF SettingsSaved, ListsSound, ReadOnce
<1>4. CASE Back
  <2>1. UNCHANGED <<stored, defaults, home>> /\ copy' \in {copy, NoUser}
    BY <1>4 DEF Back, homeVars
  <2>2. CASE shelf' = NoScreen
    BY <2>1, <2>2 DEF ListsSound, ReadOnce
  <2>3. CASE shelf' # NoScreen
    <3>1. shelf' = shelf /\ shelf # NoScreen /\ front # "shelf"
      BY <1>4, <2>3 DEF Back
    <3> QED BY <2>1, <3>1 DEF ListsSound, ReadOnce
  <2> QED BY <2>2, <2>3
<1>5. CASE OpenShelf
  <2>1. CASE defaults.selectedBooks = Unset
    BY <1>5, <2>1, DieLists DEF OpenShelf
  <2>2. CASE defaults.selectedBooks # Unset
    <3>1. PICK user : user = ShelfUser
      OBVIOUS
    <3>2. user # NoUser =>
            /\ user.selectedBooks = defaults.selectedBooks
            /\ user.readBooks = defaults.readBooks
      BY <3>1 DEF ShelfUser, CopiesSound, TypeOK, Copies, UserCopies
    <3>3. shelf'.user = user /\ front' = "shelf"
      BY <1>5, <2>2, <3>1 DEF OpenShelf
    <3>4. UNCHANGED <<stored, defaults, home, copy>>
      BY <1>5, <2>2 DEF OpenShelf, homeVars
    <3> QED BY <3>2, <3>3, <3>4 DEF ListsSound, ReadOnce
  <2> QED BY <2>1, <2>2
<1>6. CASE \E connected \in BOOLEAN : OpenResults(connected)
  <2>1. UNCHANGED <<stored, defaults, home, copy>> /\ front' = "results"
    BY <1>6 DEF OpenResults, OpenResultsFor, homeVars
  <2>2. CASE front # "shelf"
    <3>1. shelf' = shelf
      BY <1>6, <2>2 DEF OpenResults, OpenResultsFor
    <3> QED BY <2>1, <2>2, <3>1 DEF ListsSound, ReadOnce
  <2>3. CASE front = "shelf"
    <3>1. shelf' = [shelf EXCEPT !.covered = TRUE]
      BY <1>6, <2>3 DEF OpenResults, OpenResultsFor
    <3>2. shelf \in Shelves /\ shelf # NoScreen
      BY <2>3 DEF CopiesSound, TypeOK, SessionSound
    <3>3. shelf'.covered /\ shelf'.user = shelf.user
      BY <3>1, <3>2 DEF Shelves
    <3> QED BY <2>1, <3>2, <3>3 DEF ListsSound, ReadOnce
  <2> QED BY <2>2, <2>3
<1>7. CASE \E b \in Books : RowArrives(b)
  <2>1. /\ UNCHANGED <<stored, defaults, home, copy, front>>
        /\ shelf # NoScreen /\ shelf \in Shelves
    BY <1>7 DEF RowArrives, homeVars, CopiesSound, TypeOK
  <2>2. shelf'.covered = shelf.covered /\ shelf'.user = shelf.user
    BY <1>7, <2>1 DEF RowArrives, Shelves
  <2> QED BY <2>1, <2>2 DEF ListsSound, ReadOnce
<1>8. CASE OpenClub
  <2>1. shelf = NoScreen /\ UNCHANGED <<stored, defaults, home, copy, shelf>>
    BY <1>8 DEF OpenClub, CopiesSound, SessionSound, homeVars
  <2> QED BY <2>1, QuietLists
<1> QED BY <1>1, <1>2, <1>3, <1>4, <1>5, <1>6, <1>7, <1>8

(***************************************************************************)
(* Then those that save a user.                                            *)
(***************************************************************************)
LEMMA SaveLists ==
  ASSUME TypeOK, ListsSound, NEW user \in UserCopies, Save(user),
         NoRepeats(user.readBooks)
  PROVE  \A a \in Accounts : NoRepeats(stored'[a].readBooks)
<1>1. user.uid \in Accounts /\ stored' = [stored EXCEPT ![user.uid] = user]
  BY DEF UserCopies, Save
<1> QED BY <1>1 DEF TypeOK, ListsSound, ReadOnce

\* A record that gets an achievement keeps its lists.
LEMMA AwardLists ==
  ASSUME TypeOK, ListsSound, NEW user \in Copies, NEW k \in {1, 5}, Award(user, k),
         user # NoUser => NoRepeats(user.readBooks)
  PROVE  /\ \A a \in Accounts : NoRepeats(stored'[a].readBooks)
         /\ defaults'.selectedBooks = defaults.selectedBooks
         /\ defaults'.readBooks = defaults.readBooks
<1>1. /\ defaults'.selectedBooks = defaults.selectedBooks
      /\ defaults'.readBooks = defaults.readBooks
  BY DEF Award, TypeOK, Defaults
<1>2. CASE user = NoUser
  BY <1>1, <1>2 DEF Award, ListsSound, ReadOnce
<1>3. CASE user # NoUser
  <2>1. PICK u : u = [user EXCEPT !.achievements = @ \cup {k}]
    OBVIOUS
  <2>2. u \in UserCopies /\ u.readBooks = user.readBooks
    BY <1>3, <2>1, AwardedKeeps DEF Copies, Achievements
  <2>3. Save(u)
    BY <1>3, <2>1 DEF Award
  <2> QED BY <1>1, <1>3, <2>2, <2>3, SaveLists
<1> QED BY <1>2, <1>3

LEMMA AchievementLists ==
  ASSUME CopiesSound, ListsSound, RedoTutorial \/ PressInvite
  PROVE  ListsSound'
<1>1. CASE RedoTutorial
  <2>1. copy \in Copies /\ (copy # NoUser => NoRepeats(copy.readBooks)) /\ TypeOK
    BY DEF CopiesSound, TypeOK, ListsSound
  <2>2. /\ \A a \in Accounts : NoRepeats(stored'[a].readBooks)
        /\ defaults'.selectedBooks = defaults.selectedBooks
        /\ defaults'.readBooks = defaults.readBooks
    BY <1>1, <2>1, AwardLists DEF RedoTutorial
  <2>3. copy' # NoUser => copy # NoUser /\ copy'.readBooks = copy.readBooks
    BY <1>1, <2>1 DEF RedoTutorial, Copies, UserCopies
  <2>4. UNCHANGED <<front, home, shelf>>
    BY <1>1 DEF RedoTutorial, homeVars
  <2> QED BY <2>1, <2>2, <2>3, <2>4 DEF ListsSound, ReadOnce
<1>2. CASE PressInvite
  <2>1. /\ \A a \in Accounts : NoRepeats(stored'[a].readBooks)
        /\ defaults'.selectedBooks = defaults.selectedBooks
        /\ defaults'.readBooks = defaults.readBooks
    <3>1. CASE UNCHANGED <<stored, defaults>>
      BY <3>1 DEF ListsSound, ReadOnce
    <3>2. CASE ~UNCHANGED <<stored, defaults>>
      <4>1. Award(Top.user, 5) /\ TypeOK
        BY <1>2, <3>2 DEF PressInvite, CopiesSound
      <4>2. /\ Top.user \in Copies
            /\ Top.user # NoUser => NoRepeats(Top.user.readBooks)
        <5>1. /\ Len(results) \in DOMAIN results /\ Top = results[Len(results)]
              /\ Top \in ResultScreens /\ account \in Accounts
          BY <1>2, TopIs DEF PressInvite
        <5>2. Top.user # NoUser => Top.user.readBooks = stored[account].readBooks
          BY <5>1 DEF CopiesSound, ScreensSound, ResultsFresh
        <5> QED BY <5>1, <5>2 DEF ResultScreens, ListsSound, ReadOnce
      <4> QED BY <4>1, <4>2, AwardLists
    <3> QED BY <3>1, <3>2
  <2>2. UNCHANGED <<home, copy, shelf>> /\ front = "results"
    BY <1>2 DEF PressInvite, homeVars
  <2> QED BY <2>1, <2>2 DEF ListsSound, ReadOnce
<1> QED BY <1>1, <1>2

LEMMA SettingsDoneLists ==
  ASSUME CopiesSound, ListsSound, SettingsDone
  PROVE  ListsSound'
<1>1. copy \in UserCopies /\ NoRepeats(copy.readBooks) /\ TypeOK
  BY DEF SettingsDone, CopiesSound, TypeOK, SessionSound, Copies, ListsSound
<1>2. \A a \in Accounts : NoRepeats(stored'[a].readBooks)
  BY <1>1, SaveLists DEF SettingsDone
<1> QED BY <1>2 DEF SettingsDone, ListsSound, ReadOnce, homeVars

\* The heart changes the list in UserDefaults, and Results covers the shelf.
LEMMA PressHeartLists ==
  ASSUME CopiesSound, ListsSound, PressHeart
  PROVE  ListsSound'
<1>1. CASE Top.user = NoUser \/ Top.found = NoBook
  BY <1>1, DieLists DEF PressHeart
<1>2. CASE ~(Top.user = NoUser \/ Top.found = NoBook)
  <2>1. /\ Len(results) \in DOMAIN results /\ Top = results[Len(results)]
        /\ Top \in ResultScreens /\ account \in Accounts /\ TypeOK /\ front = "results"
    BY TopIs DEF PressHeart, CopiesSound
  <2>2. /\ Top.user \in UserCopies /\ Top.found \in Books
        /\ NoRepeats(Top.user.readBooks)
    BY <1>2, <2>1 DEF ResultScreens, Copies, CopiesSound, ScreensSound, ResultsFresh,
       ListsSound, ReadOnce
  <2>3. PICK on \in BOOLEAN : on = (Top.heart = "off")
    OBVIOUS
  <2>4. PICK u : u = Hearted(Top.user, Top.found, on)
    OBVIOUS
  <2>5. u \in UserCopies /\ u.readBooks = Top.user.readBooks
    BY <2>2, <2>4, HeartedKeeps
  <2>6. Save(u)
    BY <1>2, <2>3, <2>4 DEF PressHeart
  <2>7. \A a \in Accounts : NoRepeats(stored'[a].readBooks)
    BY <2>1, <2>2, <2>5, <2>6, SaveLists
  <2>8. defaults'.readBooks = defaults.readBooks
    BY <1>2, <2>1 DEF PressHeart, TypeOK, Defaults
  <2>9. UNCHANGED <<front, home, copy, shelf>>
    BY <1>2 DEF PressHeart, homeVars
  <2> QED BY <2>1, <2>7, <2>8, <2>9 DEF ListsSound, ReadOnce
<1> QED BY <1>1, <1>2

\* What a delete saves, if it saves.
LEMMA DeleteSaves ==
  ASSUME CopiesSound, NEW b \in Books, Delete(b), ~(Die /\ stored' = stored)
  PROVE  LET u == Deleted(shelf.user, b)
         IN  /\ shelf # NoScreen /\ shelf \in Shelves /\ front = "shelf"
             /\ shelf.user \in UserCopies /\ shelf.user.uid = account
             /\ shelf.user # NoUser
             /\ defaults.selectedBooks \in Lists
             /\ b \in ToSet(defaults.selectedBooks)
             /\ FirstIndex(defaults.selectedBooks, b)
                  <= Len(shelf.user.selectedBooks)
             /\ Save(u)
             /\ defaults' = [defaults EXCEPT
                    !.selectedBooks = u.selectedBooks,
                    !.achievements = MedalsLost(@, Len(u.selectedBooks))]
             /\ shelf' = [shelf EXCEPT !.user = u, !.rows = @ \ {b}]
             /\ UNCHANGED <<front, home, copy>>
<1>1. /\ front = "shelf" /\ shelf \in Shelves /\ shelf # NoScreen
      /\ shelf.user # NoUser
      /\ b \in ToSet(defaults.selectedBooks)
      /\ ~(FirstIndex(defaults.selectedBooks, b) > Len(shelf.user.selectedBooks))
  BY ScreenAssumption DEF Delete, CopiesSound, TypeOK, SessionSound
<1>2. /\ shelf.user \in UserCopies /\ shelf.user.uid = account
      /\ defaults.selectedBooks \in Lists
  BY <1>1 DEF CopiesSound, TypeOK, Shelves, Copies, HomeSound, ScreensSound, Own,
     Defaults
<1>3. FirstIndex(defaults.selectedBooks, b) <= Len(shelf.user.selectedBooks)
  <2>1. FirstIndex(defaults.selectedBooks, b) \in Nat
    BY <1>1, <1>2, FirstIndexThere, ListParts
  <2>2. Len(shelf.user.selectedBooks) \in Nat
    BY <1>2, ListParts DEF UserCopies
  <2> QED BY <1>1, <2>1, <2>2
<1>4. PICK u : u = Deleted(shelf.user, b)
  OBVIOUS
<1>5. /\ Save(u)
      /\ defaults' = [defaults EXCEPT
             !.selectedBooks = u.selectedBooks,
             !.achievements = MedalsLost(@, Len(u.selectedBooks))]
      /\ shelf' = [shelf EXCEPT !.user = u, !.rows = @ \ {b}]
      /\ UNCHANGED <<front, home, copy>>
  BY <1>4 DEF Delete, homeVars
<1> QED BY <1>1, <1>2, <1>3, <1>4, <1>5

LEMMA DeleteLists ==
  ASSUME CopiesSound, ListsSound, NEW b \in Books, Delete(b)
  PROVE  ListsSound'
<1>1. CASE Die /\ stored' = stored
  BY <1>1, DieLists
<1>2. CASE ~(Die /\ stored' = stored)
  <2>1. PICK u : u = Deleted(shelf.user, b)
    OBVIOUS
  <2>2. /\ shelf # NoScreen /\ shelf \in Shelves /\ front = "shelf"
        /\ shelf.user \in UserCopies /\ shelf.user # NoUser
        /\ Save(u)
        /\ defaults' = [defaults EXCEPT
               !.selectedBooks = u.selectedBooks,
               !.achievements = MedalsLost(@, Len(u.selectedBooks))]
        /\ shelf' = [shelf EXCEPT !.user = u, !.rows = @ \ {b}]
        /\ UNCHANGED <<front, home, copy>>
    BY <1>2, <2>1, DeleteSaves
  <2>3. u \in UserCopies /\ u.readBooks = shelf.user.readBooks
    BY <1>2, <2>1, DeleteSaves, DeletedKeeps
  <2>4. /\ shelf.user.readBooks = defaults.readBooks
        /\ NoRepeats(defaults.readBooks) /\ home # NoUser
    BY <2>2 DEF ListsSound, ReadOnce, CopiesSound, ScreensSound
  <2>5. \A a \in Accounts : NoRepeats(stored'[a].readBooks)
    BY <2>2, <2>3, <2>4, SaveLists DEF CopiesSound
  <2>6. /\ defaults'.selectedBooks = u.selectedBooks
        /\ defaults'.readBooks = defaults.readBooks
    BY <2>2 DEF CopiesSound, TypeOK, Defaults
  <2>7. shelf'.user = u
    BY <2>2 DEF Shelves
  <2> QED BY <2>2, <2>3, <2>4, <2>5, <2>6, <2>7 DEF ListsSound, ReadOnce
<1> QED BY <1>1, <1>2

\* A book is marked as read if the copy of the shelf does not list it, in the
\* list of UserDefaults, which is the same.
LEMMA ToggleReadLists ==
  ASSUME CopiesSound, ListsSound, NEW b \in Books, ToggleRead(b)
  PROVE  ListsSound'
<1>1. shelf \in Shelves /\ shelf # NoScreen /\ front = "shelf" /\ shelf.user \in Copies
  BY DEF ToggleRead, CopiesSound, TypeOK, SessionSound, Shelves
<1>2. CASE defaults.readBooks = Unset \/ shelf.user = NoUser
  BY <1>2, DieLists DEF ToggleRead
<1>3. CASE ~(defaults.readBooks = Unset \/ shelf.user = NoUser)
  <2>1. PICK list : list = ReadToggled(b)
    OBVIOUS
  <2>2. /\ defaults.readBooks \in Lists /\ NoRepeats(defaults.readBooks)
        /\ shelf.user.readBooks = defaults.readBooks /\ shelf.user \in UserCopies
    BY <1>1, <1>3 DEF CopiesSound, TypeOK, Defaults, Copies, ListsSound, ReadOnce,
       ScreensSound
  <2>3. IsRead(b) <=> b \in ToSet(defaults.readBooks)
    BY <1>3, <2>2 DEF IsRead
  <2>4. NoRepeats(list) /\ list \in Lists
    BY <2>1, <2>2, <2>3, AppendNoRepeats, WithoutFirstNoRepeats, ToggledKeeps
    DEF ReadToggled
  <2>5. PICK u : u = [shelf.user EXCEPT !.readBooks = list]
    OBVIOUS
  <2>6. u \in UserCopies /\ u.readBooks = list
        /\ u.selectedBooks = shelf.user.selectedBooks
    BY <2>2, <2>4, <2>5 DEF UserCopies
  <2>7. shelf' = [shelf EXCEPT !.user = u]
    BY <1>1, <1>3, <2>1, <2>2, <2>5 DEF ToggleRead, Shelves, UserCopies
  <2>8. shelf'.user = u /\ shelf'.covered = shelf.covered
    BY <1>1, <2>7 DEF Shelves
  <2>9. Save(u) /\ UNCHANGED <<front, home, copy>>
    BY <1>3, <2>8 DEF ToggleRead, homeVars, Save
  <2>10. \A a \in Accounts : NoRepeats(stored'[a].readBooks)
    BY <2>4, <2>6, <2>9, SaveLists DEF CopiesSound
  <2>11. /\ defaults'.readBooks = list
         /\ defaults'.selectedBooks = defaults.selectedBooks
    BY <1>3, <2>1 DEF ToggleRead, CopiesSound, TypeOK, Defaults
  <2> QED BY <1>1, <1>3, <2>4, <2>6, <2>8, <2>9, <2>10, <2>11 DEF ListsSound,
     ReadOnce
<1> QED BY <1>2, <1>3

(***************************************************************************)
(* The inductive invariant, and what follows from it.                      *)
(***************************************************************************)
LEMMA InitSound ==
  ASSUME Init
  PROVE  CopiesSound
<1>1. <<>> \in Lists /\ ToSet(<<>>) = {}
  BY DEF Lists, ToSet
<1>2. /\ \A a \in Accounts : stored[a] \in UserCopies /\ Own(stored[a], a)
      /\ defaults \in Defaults
  BY <1>1 DEF Init, UserCopies, Defaults, Own
<1>3. TypeOK
  <2>1. stored \in [Accounts -> UserCopies] /\ hearted \in [Accounts -> SUBSET Books]
    BY <1>2 DEF Init
  <2>2. edits \in 0..MaxEdits /\ opened \in 0..MaxOpened
    BY BoundAssumption DEF Init
  <2>3. results \in Seq(ResultScreens) /\ Len(results) <= opened
    BY DEF Init
  <2> QED BY <1>2, <2>1, <2>2, <2>3 DEF Init, TypeOK, Screens, Copies
<1>4. ResultsStacked /\ ResultsFresh
  BY DEF Init, ResultsStacked, ResultsFresh
<1> QED BY <1>2, <1>3, <1>4, MarkerAssumption DEF Init, CopiesSound, OwnBooks,
      SessionSound, SignedIn, HomeSound, ScreensSound

LEMMA StutterSound ==
  ASSUME CopiesSound, UNCHANGED vars
  PROVE  CopiesSound'
<1>1. TypeOK' /\ OwnBooks'
  BY DEF CopiesSound, vars, TypeOK, OwnBooks, Own
<1>2. SessionSound' /\ HomeSound' /\ ScreensSound'
  BY ResultsKept DEF CopiesSound, vars, SessionSound, SignedIn, HomeSound,
     ScreensSound, Own
<1> QED BY <1>1, <1>2 DEF CopiesSound

LEMMA StepSound ==
  ASSUME CopiesSound, [Next]_vars
  PROVE  CopiesSound'
<1>1. CASE Launch
  BY <1>1, LaunchStep
<1>2. CASE LogOut
  BY <1>2, LogOutStep
<1>3. CASE Killed
  BY <1>3, KilledStep
<1>4. CASE \E a \in Accounts : LogIn(a)
  BY <1>4, LogInStep
<1>5. CASE HomeAnswered
  BY <1>5, HomeAnsweredStep
<1>6. CASE ReadFails
  BY <1>6, ReadFailsStep
<1>7. CASE \E a \in Accounts : LateHomeAnswered(a)
  BY <1>7, LateHomeAnsweredStep
<1>8. CASE OpenMenu
  BY <1>8, OpenMenuStep
<1>9. CASE OpenSettings
  BY <1>9, OpenSettingsStep
<1>10. CASE OpenShelf
  BY <1>10, OpenShelfStep
<1>11. CASE Back
  BY <1>11, BackStep
<1>12. CASE CloseToHome
  BY <1>12, CloseToHomeStep
<1>13. CASE RedoTutorial
  BY <1>13, RedoTutorialStep
<1>14. CASE SettingsDone
  BY <1>14, SettingsDoneStep
<1>15. CASE SettingsSaved
  BY <1>15, SettingsSavedStep
<1>16. CASE \E connected \in BOOLEAN : OpenResults(connected)
  BY <1>16, OpenResultsStep
<1>17. CASE \E i \in 1..MaxOpened : ResultsAnswered(i)
  BY <1>17, ResultsAnsweredStep
<1>18. CASE \E i \in 1..MaxOpened : BookNotFound(i)
  BY <1>18, BookNotFoundStep
<1>19. CASE PressHeart
  BY <1>19, PressHeartStep
<1>20. CASE PressInvite
  BY <1>20, PressInviteStep
<1>21. CASE \E i \in 1..MaxOpened, b \in Books, complete \in BOOLEAN :
               BookFound(i, b, complete)
  BY <1>21, BookFoundStep
<1>22. CASE BookCheckFails
  BY <1>22, BookCheckFailsStep
<1>23. CASE \E b \in Books : BookChecked(b)
  BY <1>23, BookCheckedStep
<1>24. CASE \E b \in Books : RowArrives(b)
  BY <1>24, RowArrivesStep
<1>25. CASE \E b \in Books : Delete(b)
  BY <1>25, DeleteStep
<1>26. CASE \E b \in Books : ToggleRead(b)
  BY <1>26, ToggleReadStep
<1>27. CASE OpenClub
  BY <1>27, OpenClubStep
<1>28. CASE UNCHANGED vars
  BY <1>28, StutterSound
<1> QED BY <1>1, <1>2, <1>3, <1>4, <1>5, <1>6, <1>7, <1>8, <1>9, <1>10, <1>11,
      <1>12, <1>13, <1>14, <1>15, <1>16, <1>17, <1>18, <1>19, <1>20, <1>21,
      <1>22, <1>23, <1>24, <1>25, <1>26, <1>27, <1>28 DEF Next

LEMMA ListsInit ==
  ASSUME Init
  PROVE  ListsSound
<1>1. /\ \A a \in Accounts : stored[a].readBooks = <<>>
      /\ home = NoUser /\ copy = NoUser /\ shelf = NoScreen
  BY DEF Init
<1>2. NoRepeats(<<>>)
  BY DEF NoRepeats
<1> QED BY <1>1, <1>2 DEF ListsSound, ReadOnce

LEMMA ListsStep ==
  ASSUME CopiesSound, ListsSound, [Next]_vars
  PROVE  ListsSound'
<1>1. CASE \/ Launch \/ LogOut \/ Killed \/ CloseToHome \/ BookCheckFails
           \/ \E a \in Accounts : LogIn(a)
  BY <1>1, StartLists
<1>2. CASE \/ ReadFails \/ \E i \in 1..MaxOpened : ResultsAnswered(i) \/ BookNotFound(i)
           \/ \E i \in 1..MaxOpened, b \in Books, complete \in BOOLEAN :
                BookFound(i, b, complete)
           \/ \E b \in Books : BookChecked(b)
  BY <1>2, AnswerLists
<1>3. CASE HomeAnswered \/ \E a \in Accounts : LateHomeAnswered(a)
  BY <1>3, HomeLists
<1>4. CASE \/ OpenMenu \/ OpenSettings \/ SettingsSaved \/ Back \/ OpenShelf \/ OpenClub
           \/ \E connected \in BOOLEAN : OpenResults(connected)
           \/ \E b \in Books : RowArrives(b)
  BY <1>4, ScreenLists
<1>5. CASE RedoTutorial \/ PressInvite
  BY <1>5, AchievementLists
<1>6. CASE SettingsDone
  BY <1>6, SettingsDoneLists
<1>7. CASE PressHeart
  BY <1>7, PressHeartLists
<1>8. CASE \E b \in Books : Delete(b) \/ ToggleRead(b)
  BY <1>8, DeleteLists, ToggleReadLists
<1>9. CASE UNCHANGED vars
  BY <1>9, QuietLists DEF vars
<1> QED BY <1>1, <1>2, <1>3, <1>4, <1>5, <1>6, <1>7, <1>8, <1>9 DEF Next

\* Every step keeps the copies of the screens, and the lists in them, sound: the
\* invariant on which the theorems below rest.
THEOREM Invariant == Spec => []IInv
<1>1. Init => IInv
  BY InitSound, ListsInit DEF IInv
<1>2. IInv /\ [Next]_vars => IInv'
  BY StepSound, ListsStep DEF IInv
<1> QED BY <1>1, <1>2, PTL DEF Spec

\* The variables keep their types, whatever the accounts, books and goals.
THEOREM TypeCorrect == Spec => []TypeOK
<1>1. IInv => TypeOK
  BY DEF IInv, CopiesSound
<1> QED BY <1>1, Invariant, PTL

\* Service.saveUserData, called with any of the copies the screens hold, never
\* writes into an account's document a book that account has not hearted, through
\* log outs, kills, late answers and UserDefaults left by another account.
THEOREM NoForeignBooks == Spec => []OwnBooks
<1>1. IInv => OwnBooks
  BY DEF IInv, CopiesSound
<1> QED BY <1>1, Invariant, PTL

\* What the Results screen in front saves, from its own copy of the user, never
\* changes the reading marks; and until another Results screen has been opened
\* over it, it changes at most the book that it shows.
THEOREM HeartLosesNothing == Spec => HeartKeepsOthers
<1> DEFINE Keeps(a) ==
      front = "results" /\ stored'[a] # stored[a] =>
        /\ stored'[a].readBooks = stored[a].readBooks
        /\ Top.covered \/ \A b \in Books \ {Top.found} :
             b \in ToSet(stored'[a].selectedBooks) <=> b \in ToSet(stored[a].selectedBooks)
<1>1. ASSUME IInv, [Next]_vars, NEW a \in Accounts
      PROVE  Keeps(a)
  <2> SUFFICES ASSUME front = "results", stored'[a] # stored[a]
               PROVE  /\ stored'[a].readBooks = stored[a].readBooks
                      /\ Top.covered \/ \A b \in Books \ {Top.found} :
                           b \in ToSet(stored'[a].selectedBooks)
                             <=> b \in ToSet(stored[a].selectedBooks)
    OBVIOUS
  <2>1. PressHeart \/ PressInvite
    BY <1>1 DEF Next, vars, Launch, LogIn, LogOut, Killed, HomeAnswered, ReadFails,
       LateHomeAnswered, OpenMenu, OpenSettings, OpenShelf, OpenClub, Back, CloseToHome,
       RedoTutorial, SettingsDone, SettingsSaved, OpenResults, OpenResultsFor,
       ResultsAnswered, BookNotFound, BookFound, BookCheckFails, BookChecked, RowArrives,
       Delete, ToggleRead
  <2>2. /\ Len(results) \in DOMAIN results /\ Top = results[Len(results)]
        /\ Top \in ResultScreens /\ account \in Accounts
    BY <1>1, TopIs DEF IInv
  <2>3. CASE PressHeart
    <3>1. Top.user # NoUser /\ Top.found # NoBook
      BY <2>3 DEF PressHeart
    <3>2. Top.user \in UserCopies /\ Top.found \in Books
      BY <2>2, <3>1 DEF ResultScreens, Copies
    <3>3. PICK on \in BOOLEAN, book \in Books :
            on = (Top.heart = "off") /\ book = Top.found
      BY <3>2
    <3>4. PICK u : u = Hearted(Top.user, book, on)
      OBVIOUS
    <3>5. /\ u \in UserCopies /\ u.uid = Top.user.uid
          /\ u.readBooks = Top.user.readBooks
          /\ \A b \in Books \ {book} :
               b \in ToSet(u.selectedBooks) <=> b \in ToSet(Top.user.selectedBooks)
      BY <3>2, <3>3, <3>4, HeartedKeeps
    <3>6. Save(u)
      BY <2>3, <3>1, <3>3, <3>4 DEF PressHeart
    <3>7. stored' = [stored EXCEPT ![u.uid] = u]
      BY <3>6 DEF Save
    <3>8. /\ u.uid = account /\ Top.user.readBooks = stored[account].readBooks
          /\ Top.covered \/ Top.user = stored[account]
      BY <1>1, <2>2, <3>1, <3>5 DEF IInv, CopiesSound, ScreensSound,
         ResultsFresh, Own
    <3>9. a = account /\ stored'[a] = u
      BY <1>1, <2>2, <3>7, <3>8 DEF IInv, CopiesSound, TypeOK
    <3> QED BY <3>3, <3>5, <3>8, <3>9
  <2>4. CASE PressInvite
    <3>1. Top.user # NoUser /\ 5 \notin defaults.achievements
      BY <2>4 DEF PressInvite, Award
    <3>2. Top.user \in UserCopies
      BY <2>2, <3>1 DEF ResultScreens, Copies
    <3>3. PICK u : u = [Top.user EXCEPT !.achievements = @ \cup {5}]
      OBVIOUS
    <3>4. /\ u \in UserCopies /\ u.uid = Top.user.uid
          /\ u.selectedBooks = Top.user.selectedBooks
          /\ u.readBooks = Top.user.readBooks
      BY <3>2, <3>3, AwardedKeeps DEF Achievements
    <3>5. stored' = [stored EXCEPT ![u.uid] = u]
      BY <2>4, <3>1, <3>3 DEF PressInvite, Award, Save
    <3>6. /\ u.uid = account /\ Top.user.readBooks = stored[account].readBooks
          /\ Top.covered \/ Top.user = stored[account]
      BY <1>1, <2>2, <3>1, <3>4 DEF IInv, CopiesSound, ScreensSound,
         ResultsFresh, Own
    <3>7. a = account /\ stored'[a] = u
      BY <1>1, <2>2, <3>5, <3>6 DEF IInv, CopiesSound, TypeOK
    <3> QED BY <3>4, <3>6, <3>7
  <2> QED BY <2>1, <2>3, <2>4
<1>2. IInv /\ [Next]_vars => [\A a \in Accounts : Keeps(a)]_vars
  BY <1>1
<1> QED BY <1>2, Invariant, PTL DEF Spec, HeartKeepsOthers

\* toggleRead looks a book up in the copy of the shelf and changes the list of
\* UserDefaults: no document, and no list a signed-in user works on, ever has a
\* book as read twice.
THEOREM ReadIsOnce == Spec => []ReadOnce
<1>1. IInv => ReadOnce
  BY DEF IInv, ListsSound
<1> QED BY <1>1, Invariant, PTL

\* deleteAction looks a row's book up in UserDefaults and removes what is at its
\* place in the copy of the shelf: until Results is opened from the shelf, this is
\* the same book.
THEOREM DeletesTheRow == Spec => DeleteTakesTheRow
<1> DEFINE Takes(b) ==
      Delete(b) /\ stored' # stored /\ ~shelf.covered =>
        stored'[account].selectedBooks = WithoutFirst(defaults.selectedBooks, b)
<1>1. ASSUME IInv, NEW b \in Books
      PROVE  Takes(b)
  <2> SUFFICES ASSUME Delete(b), stored' # stored, ~shelf.covered
               PROVE  stored'[account].selectedBooks
                        = WithoutFirst(defaults.selectedBooks, b)
    OBVIOUS
  <2>1. PICK u : u = Deleted(shelf.user, b)
    OBVIOUS
  <2>2. /\ shelf # NoScreen /\ shelf.user \in UserCopies /\ shelf.user.uid = account
        /\ shelf.user # NoUser /\ b \in ToSet(defaults.selectedBooks)
        /\ Save(u)
    BY <1>1, <2>1, DeleteSaves DEF IInv
  <2>3. u \in UserCopies /\ u.uid = account /\ account \in Accounts
    BY <1>1, <2>1, <2>2, DeleteSaves, DeletedKeeps DEF IInv, UserCopies
  <2>4. stored'[account] = u
    BY <1>1, <2>2, <2>3 DEF Save, IInv, CopiesSound, TypeOK
  <2>5. shelf.user.selectedBooks = defaults.selectedBooks
    BY <1>1, <2>2 DEF IInv, ListsSound
  <2>6. u.selectedBooks
          = RemoveAt(defaults.selectedBooks, FirstIndex(defaults.selectedBooks, b))
    BY <2>1, <2>2, <2>5 DEF Deleted, UserCopies
  <2> QED BY <2>2, <2>4, <2>6 DEF WithoutFirst
<1>2. IInv /\ [Next]_vars => [\A b \in Books : Takes(b)]_vars
  BY <1>1
<1> QED BY <1>2, Invariant, PTL DEF Spec, DeleteTakesTheRow
==============================================================================
