-------------------------- MODULE Registration_proofs --------------------------
(***************************************************************************)
(* Proofs about Registration, for any devices, accounts, addresses and     *)
(* bounds.                                                                 *)
(***************************************************************************)
EXTENDS Registration, Firestore_proofs, SequenceTheorems

(***************************************************************************)
(* The sequences of tries.                                                 *)
(***************************************************************************)
LEMMA RemoveAtParts ==
  ASSUME NEW S, NEW s \in Seq(S), NEW i \in 1..Len(s)
  PROVE  /\ RemoveAt(s, i) \in Seq(S)
         /\ \A j \in 1..Len(RemoveAt(s, i)) : \E k \in 1..Len(s) :
              RemoveAt(s, i)[j] = s[k]
         /\ \A j \in 1..Len(RemoveAt(s, i)) :
              /\ j < i => j \in 1..Len(s) /\ RemoveAt(s, i)[j] = s[j]
              /\ j >= i => j + 1 \in 1..Len(s) /\ RemoveAt(s, i)[j] = s[j + 1]
<1> DEFINE before == SubSeq(s, 1, i - 1)
           after == SubSeq(s, i + 1, Len(s))
<1>1. /\ before \in Seq(S) /\ Len(before) = i - 1
      /\ \A j \in 1..(i - 1) : before[j] = s[j]
  OBVIOUS
<1>2. /\ after \in Seq(S) /\ Len(after) = Len(s) - i
      /\ \A j \in 1..(Len(s) - i) : after[j] = s[i + j]
  OBVIOUS
<1>3. RemoveAt(s, i) = before \o after
  BY DEF RemoveAt
<1>4. /\ before \o after \in Seq(S)
      /\ Len(before \o after) = Len(before) + Len(after)
      /\ \A j \in 1..(Len(before) + Len(after)) :
           (before \o after)[j] = IF j <= Len(before) THEN before[j]
                                  ELSE after[j - Len(before)]
  <2> HIDE DEF before, after
  <2> QED BY <1>1, <1>2, ConcatProperties
<1>5. Len(s) \in Nat
  OBVIOUS
<1>6. ASSUME NEW j \in 1..(Len(before) + Len(after))
      PROVE  /\ j < i => j \in 1..Len(s) /\ (before \o after)[j] = s[j]
             /\ j >= i => j + 1 \in 1..Len(s) /\ (before \o after)[j] = s[j + 1]
  <2>1. CASE j <= Len(before)
    <3> HIDE DEF before, after
    <3> QED BY <1>1, <1>2, <1>4, <1>5, <2>1
  <2>2. CASE ~(j <= Len(before))
    <3>1. /\ j - (i - 1) \in 1..(Len(s) - i) /\ i + (j - (i - 1)) = j + 1
          /\ j + 1 \in 1..Len(s) /\ j >= i /\ ~(j < i)
      <4> HIDE DEF before, after
      <4> QED BY <1>1, <1>2, <1>5, <2>2
    <3>2. (before \o after)[j] = s[j + 1]
      <4> HIDE DEF before, after
      <4> QED BY <1>1, <1>2, <1>4, <2>2, <3>1
    <3> QED BY <3>1, <3>2
  <2> QED BY <2>1, <2>2
<1> QED
  <2> HIDE DEF before, after
  <2>1. ASSUME NEW j \in 1..(Len(before) + Len(after))
        PROVE  \E k \in 1..Len(s) : (before \o after)[j] = s[k]
    <3>1. j < i \/ j >= i
      BY <1>1, <1>2, <1>5
    <3> QED BY <1>6, <3>1
  <2> QED BY <1>3, <1>4, <1>6, <2>1

LEMMA ElementOf ==
  ASSUME NEW S, NEW s \in Seq(S), NEW i \in 1..Len(s)
  PROVE  s[i] \in S
OBVIOUS

LEMMA LastParts ==
  ASSUME NEW S, NEW s \in Seq(S), s # <<>>
  PROVE  Len(s) \in Nat \ {0} /\ Last(s) = s[Len(s)] /\ Last(s) \in S
BY DEF Last

LEMMA FrontParts ==
  ASSUME NEW S, NEW s \in Seq(S), s # <<>>
  PROVE  /\ Front(s) \in Seq(S)
         /\ Len(Front(s)) = Len(s) - 1 /\ Len(s) - 1 \in Nat
         /\ \A j \in 1..(Len(s) - 1) : Front(s)[j] = s[j]
<1>1. Len(s) \in Nat \ {0} /\ Len(s) - 1 \in 0..Len(s)
  BY LastParts
<1>2. PICK n \in 0..Len(s) : n = Len(s) - 1
  BY <1>1
<1>3. /\ SubSeq(s, 1, n) \in Seq(S) /\ Len(SubSeq(s, 1, n)) = n
      /\ \A j \in 1..n : SubSeq(s, 1, n)[j] = s[j]
  BY <1>2
<1> QED BY <1>1, <1>2, <1>3 DEF Front

LEMMA TriesTyped ==
  ASSUME TypeOK, NEW p \in Phones
  PROVE  /\ tries[p] \in Seq(Tries) /\ Len(tries[p]) \in Nat
         /\ DOMAIN tries[p] = 1..Len(tries[p])
         /\ \A i \in 1..Len(tries[p]) : tries[p][i] \in Tries
<1>1. tries[p] \in Seq(Tries)
  BY DEF TypeOK
<1> QED BY <1>1

(***************************************************************************)
(* Detaching touches nothing of a try but the number of its screen.        *)
(***************************************************************************)
LEMMA DetachedParts ==
  ASSUME TypeOK, NEW p \in Phones, NEW n \in Nat
  PROVE  /\ Detached(p, n) \in Seq(Tries)
         /\ Len(Detached(p, n)) = Len(tries[p])
         /\ \A i \in 1..Len(tries[p]) :
              LET t == Detached(p, n)[i]
              IN  /\ t.kind = tries[p][i].kind /\ t.email = tries[p][i].email
                  /\ t.step = tries[p][i].step /\ t.uid = tries[p][i].uid
                  /\ t.screen # 0 => t.screen = tries[p][i].screen /\ t.screen <= n
<1> DEFINE r == Detached(p, n)
           F(i) == IF tries[p][i].screen > n
                     THEN [tries[p][i] EXCEPT !.screen = 0] ELSE tries[p][i]
<1>1. r = [i \in 1..Len(tries[p]) |-> F(i)] /\ Len(tries[p]) \in Nat
  BY TriesTyped DEF Detached
<1>2. ASSUME NEW i \in 1..Len(tries[p])
      PROVE  /\ F(i) \in Tries
             /\ F(i).kind = tries[p][i].kind /\ F(i).email = tries[p][i].email
             /\ F(i).step = tries[p][i].step /\ F(i).uid = tries[p][i].uid
             /\ F(i).screen # 0 => F(i).screen = tries[p][i].screen /\ F(i).screen <= n
  <2>1. tries[p][i] \in Tries
    BY TriesTyped
  <2>2. MaxScreens \in Nat
    BY BoundsAssumption
  <2> QED BY <2>1, <2>2 DEF Tries
<1>3. r \in Seq(Tries) /\ Len(r) = Len(tries[p])
  <2> HIDE DEF F, r
  <2> QED BY <1>1, <1>2
<1> QED
  <2> HIDE DEF F
  <2> QED BY <1>1, <1>2, <1>3

(***************************************************************************)
(* What a step does to the tries: it leaves them, takes one away, changes  *)
(* one, adds one or detaches some.                                         *)
(***************************************************************************)
LEMMA FewerTries ==
  ASSUME Agreement, NEW p \in Phones, NEW i \in 1..Len(tries[p]),
         tries' = Without(p, i), UNCHANGED <<accountOf, screens>>
  PROVE  tries' \in [Phones -> Seq(Tries)] /\ TriesSound'
<1> DEFINE r == RemoveAt(tries[p], i)
<1>1. /\ r \in Seq(Tries)
      /\ \A j \in 1..Len(r) : \E k \in 1..Len(tries[p]) : r[j] = tries[p][k]
  BY TriesTyped, RemoveAtParts DEF Agreement
<1>2. tries' = [tries EXCEPT ![p] = r] /\ tries \in [Phones -> Seq(Tries)]
  BY DEF Without, Agreement, TypeOK
<1>3. \A c \in Phones : \A j \in 1..Len(tries'[c]) :
        \E k \in 1..Len(tries[c]) : tries'[c][j] = tries[c][k]
  <2> HIDE DEF r
  <2> QED BY <1>1, <1>2
<1>4. TriesSound'
  <2> SUFFICES ASSUME NEW c \in Phones
               PROVE  /\ Len(screens'[c]) <= MaxScreens
                      /\ \A j \in 1..Len(tries'[c]) : Sound(c, tries[c][j])'
    BY DEF TriesSound
  <2>1. Len(screens'[c]) <= MaxScreens
    BY DEF Agreement, TriesSound
  <2>2. ASSUME NEW j \in 1..Len(tries'[c]) PROVE Sound(c, tries[c][j])'
    <3>1. PICK k \in 1..Len(tries[c]) : tries'[c][j] = tries[c][k]
      BY <1>3
    <3>2. Sound(c, tries[c][k])
      BY DEF Agreement, TriesSound
    <3> QED BY <3>1, <3>2 DEF Sound
  <2> QED BY <2>1, <2>2
<1> QED
  <2> HIDE DEF r
  <2> QED BY <1>1, <1>2, <1>4

LEMMA SameTries ==
  ASSUME Agreement, UNCHANGED <<accountOf, screens, tries>>
  PROVE  tries' \in [Phones -> Seq(Tries)] /\ TriesSound'
<1>1. tries' \in [Phones -> Seq(Tries)]
  BY DEF Agreement, TypeOK
<1> QED BY <1>1 DEF Agreement, TriesSound, Sound

LEMMA ChangedTry ==
  ASSUME Agreement, NEW p \in Phones, NEW i \in 1..Len(tries[p]), NEW t \in Tries,
         tries' = [tries EXCEPT ![p] = [@ EXCEPT ![i] = t]],
         Sound(p, t)', UNCHANGED screens,
         \A e \in Emails : accountOf[e] # NoAccount => accountOf'[e] = accountOf[e]
  PROVE  tries' \in [Phones -> Seq(Tries)] /\ TriesSound'
<1> DEFINE r == [tries[p] EXCEPT ![i] = t]
<1>1. /\ r \in Seq(Tries) /\ Len(r) = Len(tries[p])
      /\ \A j \in 1..Len(tries[p]) : r[j] = IF j = i THEN t ELSE tries[p][j]
  BY TriesTyped DEF Agreement
<1>2. tries' = [tries EXCEPT ![p] = r] /\ tries \in [Phones -> Seq(Tries)]
  BY DEF Agreement, TypeOK
<1>3. \A c \in Phones : \A j \in 1..Len(tries'[c]) :
        \/ c = p /\ tries'[c][j] = t
        \/ j \in 1..Len(tries[c]) /\ tries'[c][j] = tries[c][j]
  <2> HIDE DEF r
  <2> QED BY <1>1, <1>2
<1>4. TriesSound'
  <2> SUFFICES ASSUME NEW c \in Phones
               PROVE  /\ Len(screens'[c]) <= MaxScreens
                      /\ \A j \in 1..Len(tries'[c]) : Sound(c, tries[c][j])'
    BY DEF TriesSound
  <2>1. Len(screens'[c]) <= MaxScreens
    BY DEF Agreement, TriesSound
  <2>2. ASSUME NEW j \in 1..Len(tries'[c]) PROVE Sound(c, tries[c][j])'
    <3>1. CASE c = p /\ tries'[c][j] = t
      BY <3>1 DEF Sound
    <3>2. CASE j \in 1..Len(tries[c]) /\ tries'[c][j] = tries[c][j]
      <4>1. Sound(c, tries[c][j]) /\ tries[c][j] \in Tries
        BY <3>2, TriesTyped DEF Agreement, TriesSound
      <4>2. tries[c][j].email \in Emails
        BY <4>1 DEF Tries
      <4> QED BY <3>2, <4>1, <4>2 DEF Sound
    <3> QED BY <1>3, <3>1, <3>2
  <2> QED BY <2>1, <2>2
<1> QED
  <2> HIDE DEF r
  <2> QED BY <1>1, <1>2, <1>4

LEMMA DetachedTries ==
  ASSUME Agreement, NEW p \in Phones, NEW n \in Nat, n <= Len(screens[p]),
         NEW r, tries' = [tries EXCEPT ![p] = r],
         \/ r = Detached(p, n)
         \/ \E i \in 1..Len(tries[p]) : r = RemoveAt(Detached(p, n), i),
         screens' = [screens EXCEPT ![p] = SubSeq(@, 1, n)],
         UNCHANGED accountOf
  PROVE  tries' \in [Phones -> Seq(Tries)] /\ TriesSound'
<1> DEFINE s == Detached(p, n)
<1>1. /\ s \in Seq(Tries) /\ Len(s) = Len(tries[p])
      /\ \A i \in 1..Len(tries[p]) :
           /\ s[i].kind = tries[p][i].kind /\ s[i].email = tries[p][i].email
           /\ s[i].step = tries[p][i].step /\ s[i].uid = tries[p][i].uid
           /\ s[i].screen # 0 => s[i].screen = tries[p][i].screen /\ s[i].screen <= n
  BY DetachedParts DEF Agreement
<1>2. /\ r \in Seq(Tries)
      /\ \A j \in 1..Len(r) : \E k \in 1..Len(s) : r[j] = s[k]
  <2> HIDE DEF s
  <2>1. CASE r = s
    BY <1>1, <2>1
  <2>2. CASE \E i \in 1..Len(tries[p]) : r = RemoveAt(s, i)
    <3>1. PICK i \in 1..Len(s) : r = RemoveAt(s, i)
      BY <1>1, <2>2
    <3> QED BY <1>1, <3>1, RemoveAtParts
  <2> QED BY <2>1, <2>2 DEF s
<1>3. /\ tries \in [Phones -> Seq(Tries)]
      /\ screens \in [Phones -> Seq(Kinds)] /\ screens[p] \in Seq(Kinds)
      /\ Len(screens[p]) \in Nat /\ MaxScreens \in Nat
  BY BoundsAssumption DEF Agreement, TypeOK
<1>4. Len(screens'[p]) = n /\ \A k \in 1..n : screens'[p][k] = screens[p][k]
  BY <1>3
<1>5. TriesSound'
  <2> HIDE DEF s
  <2> SUFFICES ASSUME NEW c \in Phones
               PROVE  /\ Len(screens'[c]) <= MaxScreens
                      /\ \A j \in 1..Len(tries'[c]) : Sound(c, tries[c][j])'
    BY DEF TriesSound
  <2>1. Len(screens[c]) <= MaxScreens
        /\ \A k \in 1..Len(tries[c]) : Sound(c, tries[c][k])
    BY DEF Agreement, TriesSound
  <2>2. CASE c # p
    <3>1. tries'[c] = tries[c] /\ screens'[c] = screens[c]
      BY <1>3, <2>2
    <3> QED BY <2>1, <3>1 DEF Sound
  <2>3. CASE c = p
    <3>1. Len(screens'[c]) <= MaxScreens
      BY <1>3, <1>4, <2>1, <2>3
    <3>2. ASSUME NEW j \in 1..Len(tries'[c]) PROVE Sound(c, tries[c][j])'
      <4>1. tries'[p] = r
        BY <1>3
      <4>2. PICK k \in 1..Len(tries[p]) : tries'[c][j] = s[k]
        <5>1. j \in 1..Len(r) /\ tries'[c][j] = r[j]
          BY <2>3, <4>1
        <5>2. \E k \in 1..Len(s) : r[j] = s[k]
          BY <1>2, <5>1
        <5> QED BY <1>1, <5>1, <5>2
      <4>3. Sound(p, tries[p][k]) /\ tries[p][k] \in Tries
        BY <2>1, <2>3, TriesTyped DEF Agreement
      <4>4. s[k].screen # 0 => s[k].screen \in 1..n
        BY <1>1, <4>3, <1>3 DEF Tries
      <4>5. s[k].screen # 0 =>
              s[k].screen <= Len(screens'[p]) /\ screens'[p][s[k].screen] = s[k].kind
        BY <1>1, <1>4, <4>3, <4>4 DEF Sound
      <4> QED BY <1>1, <2>3, <4>2, <4>3, <4>5 DEF Sound
    <3> QED BY <3>1, <3>2
  <2> QED BY <2>2, <2>3
<1> QED BY <1>2, <1>3, <1>5

LEMMA OneMoreTry ==
  ASSUME Agreement, NEW p \in Phones, NEW kind \in Kinds, NEW email \in Emails,
         NEW step \in {"uploading", "asking"},
         OnTop(p, kind), Begin(p, kind, email, step),
         UNCHANGED <<accountOf, screens>>
  PROVE  tries' \in [Phones -> Seq(Tries)] /\ TriesSound'
<1>0. PICK t : t = [kind |-> kind, email |-> email, step |-> step, uid |-> NoAccount,
                    screen |-> Len(screens[p])]
  OBVIOUS
<1> DEFINE r == Append(tries[p], t)
<1>1. screens[p] \in Seq(Kinds) /\ tries[p] \in Seq(Tries)
      /\ tries \in [Phones -> Seq(Tries)]
  BY DEF Agreement, TypeOK
<1>2. Len(screens[p]) \in 1..MaxScreens /\ screens[p][Len(screens[p])] = kind
  BY <1>1, LastParts, BoundsAssumption DEF OnTop, Agreement, TriesSound
<1>3. t \in Tries
  BY <1>0, <1>2 DEF Tries
<1>4. Sound(p, t)'
  BY <1>0, <1>2 DEF Sound
<1>5. /\ r \in Seq(Tries) /\ Len(r) = Len(tries[p]) + 1 /\ Len(tries[p]) \in Nat
      /\ \A j \in 1..Len(r) : IF j <= Len(tries[p]) THEN r[j] = tries[p][j]
                                ELSE r[j] = t
  BY <1>1, <1>3
<1>6. tries' = [tries EXCEPT ![p] = r]
  BY <1>0 DEF Begin
<1>7. TriesSound'
  <2> SUFFICES ASSUME NEW c \in Phones
               PROVE  /\ Len(screens'[c]) <= MaxScreens
                      /\ \A j \in 1..Len(tries'[c]) : Sound(c, tries[c][j])'
    BY DEF TriesSound
  <2>1. Len(screens'[c]) <= MaxScreens
    BY DEF Agreement, TriesSound
  <2>2. ASSUME NEW j \in 1..Len(tries'[c]) PROVE Sound(c, tries[c][j])'
    <3>1. \/ c = p /\ tries'[c][j] = t
          \/ j \in 1..Len(tries[c]) /\ tries'[c][j] = tries[c][j]
      <4> HIDE DEF r
      <4> QED BY <1>1, <1>5, <1>6
    <3>2. CASE c = p /\ tries'[c][j] = t
      BY <1>4, <3>2 DEF Sound
    <3>3. CASE j \in 1..Len(tries[c]) /\ tries'[c][j] = tries[c][j]
      BY <3>3 DEF Agreement, TriesSound, Sound
    <3> QED BY <3>1, <3>2, <3>3
  <2> QED BY <2>1, <2>2
<1> QED
  <2> HIDE DEF r
  <2> QED BY <1>1, <1>5, <1>6, <1>7

LEMMA QueuesTyped ==
  ASSUME TypeOK, NEW c \in Devices
  PROVE  /\ pending[c] \in Seq([key : DocIds, value : Profiles])
         /\ Len(pending[c]) \in Nat
<1>1. pending[c] \in Seq([key : DocIds, value : Profiles])
  BY DEF TypeOK
<1>2. \A W : \A s \in Seq(W) : Len(s) \in Nat
  OBVIOUS
<1> QED BY <1>1, <1>2

LEMMA QueueIsDevice ==
  ASSUME TypeOK, NEW p \in Phones
  PROVE  Queue(p) \in Devices
BY QueueAssumption DEF Queue, TypeOK

(***************************************************************************)
(* Steps that neither write nor make an account keep what is said of both, *)
(* also when a connection is lost.                                         *)
(***************************************************************************)
LEMMA NothingWritten ==
  ASSUME Agreement, UNCHANGED <<server, pending, accountOf, history>>,
         UNCHANGED applied \/ \E q \in Devices : Lost(q)
  PROVE  /\ AccountsDistinct' /\ ProfilesFiled' /\ ProfilesKept'
         /\ AppliedOK' /\ AppliedIsStored'
<1>1. AccountsDistinct' /\ ProfilesFiled' /\ ProfilesKept'
  BY DEF Agreement, AccountsDistinct, ProfilesFiled, ProfilesKept, Filed, history, WritesTo
<1>2. \A q \in Devices : Len(pending[q]) \in Nat
  BY QueuesTyped DEF Agreement
<1>3. AppliedOK' /\ \A q \in Devices : applied'[q] = applied[q] \/ applied'[q] = 0
  <2>1. CASE UNCHANGED applied
    BY <2>1 DEF Agreement, TypeOK, AppliedOK
  <2>2. CASE \E q \in Devices : Lost(q)
    <3>1. AppliedOK'
      BY <1>2, <2>2, AppliedLost DEF Agreement, TypeOK
    <3>2. applied \in [Devices -> Nat]
      BY DEF Agreement, TypeOK, AppliedOK
    <3> QED BY <2>2, <3>1, <3>2 DEF Lost
  <2> QED BY <2>1, <2>2
<1>4. AppliedIsStored'
  <2>1. ASSUME NEW q \in Devices, NEW i \in 1..Len(pending'[q]), i <= applied'[q]
        PROVE  server'[pending'[q][i].key] # NoProfile
    <3>1. i <= applied[q] /\ i \in 1..Len(pending[q])
      BY <1>2, <1>3, <2>1
    <3> QED BY <3>1 DEF Agreement, AppliedIsStored
  <2> QED BY <2>1 DEF AppliedIsStored
<1> QED BY <1>1, <1>3, <1>4

LEMMA StepPieces ==
  ASSUME Agreement, UNCHANGED <<server, pending, accountOf, history>>,
         UNCHANGED applied \/ \E q \in Devices : Lost(q),
         user' \in [Phones -> DocIds \cup {NoAccount}],
         base' \in [Phones -> Bases],
         screens' \in [Phones -> Seq(Kinds)],
         alert' \in [Phones -> BOOLEAN],
         toured' \in [Phones -> BOOLEAN],
         presses' \in 0..MaxPresses,
         tries' \in [Phones -> Seq(Tries)], TriesSound'
  PROVE  Agreement'
<1>1. TypeOK'
  BY NothingWritten DEF Agreement, TypeOK, history
<1> QED BY <1>1, NothingWritten DEF Agreement

(***************************************************************************)
(* Screens.                                                                *)
(***************************************************************************)
LEMMA LaunchStep == ASSUME Agreement, NEW p \in Phones, Launch(p) PROVE Agreement'
<1>1. base' \in [Phones -> Bases]
  BY DEF Launch, Agreement, TypeOK, Bases
<1> QED BY <1>1, SameTries, StepPieces DEF Launch, store, Agreement, TypeOK

LEMMA OpenStep ==
  ASSUME Agreement, NEW p \in Phones, NEW kind \in Kinds, Open(p, kind) PROVE Agreement'
<1> DEFINE r == Append(screens[p], kind)
<1>1. /\ screens[p] \in Seq(Kinds) /\ screens \in [Phones -> Seq(Kinds)]
      /\ Len(screens[p]) \in Nat /\ Len(screens[p]) < MaxScreens /\ MaxScreens \in Nat
  BY BoundsAssumption DEF Open, Agreement, TypeOK
<1>2. /\ r \in Seq(Kinds) /\ Len(r) = Len(screens[p]) + 1
      /\ \A k \in 1..Len(screens[p]) : r[k] = screens[p][k]
  BY <1>1
<1>3. screens' = [screens EXCEPT ![p] = r] /\ UNCHANGED <<accountOf, tries>>
  BY DEF Open
<1>4. TriesSound'
  <2> SUFFICES ASSUME NEW c \in Phones
               PROVE  /\ Len(screens'[c]) <= MaxScreens
                      /\ \A j \in 1..Len(tries'[c]) : Sound(c, tries[c][j])'
    BY DEF TriesSound
  <2>1. /\ Len(screens[c]) <= MaxScreens
        /\ \A j \in 1..Len(tries[c]) : Sound(c, tries[c][j]) /\ tries[c][j] \in Tries
    BY TriesTyped DEF Agreement, TriesSound
  <2>2. Len(screens'[c]) <= MaxScreens
    <3> HIDE DEF r
    <3> QED BY <1>1, <1>2, <1>3, <2>1
  <2>3. ASSUME NEW j \in 1..Len(tries'[c]) PROVE Sound(c, tries[c][j])'
    <3>1. tries'[c][j] = tries[c][j] /\ tries[c][j].screen \in Nat
          /\ Sound(c, tries[c][j])
      BY <1>3, <2>1 DEF Tries
    <3>2. CASE c # p
      BY <1>1, <1>3, <3>1, <3>2 DEF Sound
    <3>3. CASE c = p
      <4>1. screens'[p] = r
        BY <1>1, <1>3
      <4>2. tries[p][j].screen # 0 =>
              /\ tries[p][j].screen <= Len(screens'[p])
              /\ screens'[p][tries[p][j].screen] = tries[p][j].kind
        <5> HIDE DEF r
        <5> QED BY <1>1, <1>2, <3>1, <3>3, <4>1 DEF Sound
      <4> QED BY <1>3, <3>1, <3>3, <4>2 DEF Sound
    <3> QED BY <3>2, <3>3
  <2> QED BY <2>2, <2>3
<1>5. screens' \in [Phones -> Seq(Kinds)]
  <2> HIDE DEF r
  <2> QED BY <1>1, <1>2, <1>3
<1> QED BY <1>4, <1>5, StepPieces DEF Open, store, Agreement, TypeOK

LEMMA BackStep == ASSUME Agreement, NEW p \in Phones, Back(p) PROVE Agreement'
<1>1. screens[p] \in Seq(Kinds) /\ screens[p] # <<>>
      /\ screens \in [Phones -> Seq(Kinds)]
  BY DEF Back, Agreement, TypeOK
<1>2. PICK n \in Nat : n = Len(screens[p]) - 1 /\ n <= Len(screens[p])
  <2>1. Len(screens[p]) - 1 \in Nat /\ Len(screens[p]) - 1 <= Len(screens[p])
    BY <1>1, FrontParts
  <2> QED BY <2>1, Zenon
<1>3. PICK r : r = Detached(p, n)
  OBVIOUS
<1>4. /\ tries' = [tries EXCEPT ![p] = r]
      /\ screens' = [screens EXCEPT ![p] = SubSeq(@, 1, n)]
      /\ UNCHANGED accountOf
  BY <1>1, <1>2, <1>3 DEF Back, Front
<1>5. tries' \in [Phones -> Seq(Tries)] /\ TriesSound'
  BY <1>2, <1>3, <1>4, DetachedTries
<1>6. screens' \in [Phones -> Seq(Kinds)]
  BY <1>1, FrontParts DEF Back
<1> QED BY <1>5, <1>6, StepPieces DEF Back, store, Agreement, TypeOK

LEMMA DismissAlertStep == ASSUME Agreement, NEW p \in Phones, DismissAlert(p) PROVE Agreement'
<1>1. alert' \in [Phones -> BOOLEAN]
  BY DEF DismissAlert, Agreement, TypeOK
<1> QED BY <1>1, SameTries, StepPieces DEF DismissAlert, store, Agreement, TypeOK

LEMMA EndTutorialStep ==
  ASSUME Agreement, NEW p \in Phones, NEW started \in BOOLEAN, EndTutorial(p, started)
  PROVE  Agreement'
<1>1. base' \in [Phones -> Bases]
  BY DEF EndTutorial, Agreement, TypeOK, Bases
<1>2. toured' \in [Phones -> BOOLEAN]
  BY DEF EndTutorial, Agreement, TypeOK
<1> QED BY <1>1, <1>2, SameTries, StepPieces DEF EndTutorial, store, Agreement, TypeOK

LEMMA LogOutStep == ASSUME Agreement, NEW p \in Phones, LogOut(p) PROVE Agreement'
<1>1. base' \in [Phones -> Bases] /\ user' \in [Phones -> DocIds \cup {NoAccount}]
  BY DEF LogOut, Agreement, TypeOK, Bases
<1>2. \E q \in Devices : Lost(q)
  BY QueueIsDevice DEF LogOut, Agreement
<1> QED BY <1>1, <1>2, SameTries, StepPieces DEF LogOut, Agreement, TypeOK

LEMMA KilledStep == ASSUME Agreement, NEW p \in Phones, Killed(p) PROVE Agreement'
<1>1. base' \in [Phones -> Bases] /\ alert' \in [Phones -> BOOLEAN]
  BY DEF Killed, Agreement, TypeOK, Bases
<1>2. /\ screens' \in [Phones -> Seq(Kinds)] /\ tries' \in [Phones -> Seq(Tries)]
      /\ tries'[p] = <<>> /\ screens'[p] = <<>>
      /\ \A c \in Phones \ {p} : tries'[c] = tries[c] /\ screens'[c] = screens[c]
  BY DEF Killed, Agreement, TypeOK
<1>3. TriesSound'
  <2>1. UNCHANGED accountOf /\ MaxScreens \in Nat
    BY BoundsAssumption DEF Killed
  <2> SUFFICES ASSUME NEW c \in Phones
               PROVE  /\ Len(screens'[c]) <= MaxScreens
                      /\ \A j \in 1..Len(tries'[c]) : Sound(c, tries[c][j])'
    BY DEF TriesSound
  <2>3. CASE c = p
    BY <1>2, <2>1, <2>3
  <2>4. CASE c # p
    <3>1. tries'[c] = tries[c] /\ screens'[c] = screens[c]
      BY <1>2, <2>4
    <3> QED BY <2>1, <3>1 DEF Agreement, TriesSound, Sound
  <2> QED BY <2>3, <2>4
<1>4. \E q \in Devices : Lost(q)
  BY QueueIsDevice DEF Killed, Agreement
<1> QED BY <1>1, <1>2, <1>3, <1>4, StepPieces DEF Killed, Agreement, TypeOK

(***************************************************************************)
(* The buttons and the answers that write nothing.                         *)
(***************************************************************************)
LEMMA PressRegisterStep ==
  ASSUME Agreement, NEW p \in Phones, NEW e \in Emails, NEW encoded \in BOOLEAN,
         PressRegister(p, e, encoded)
  PROVE  Agreement'
<1>1. tries' \in [Phones -> Seq(Tries)] /\ TriesSound'
  <2>1. PICK step \in {"uploading", "asking"} :
          step = IF encoded THEN "uploading" ELSE "asking"
    OBVIOUS
  <2> QED BY <2>1, OneMoreTry DEF PressRegister, Kinds
<1>3. presses' \in 0..MaxPresses
  BY BoundsAssumption DEF PressRegister, Agreement, TypeOK
<1>2. alert' \in [Phones -> BOOLEAN]
  BY DEF PressRegister, Agreement, TypeOK
<1> QED BY <1>1, <1>2, <1>3, StepPieces DEF PressRegister, store, Agreement, TypeOK

LEMMA PressLoginStep ==
  ASSUME Agreement, NEW p \in Phones, NEW e \in Emails, PressLogin(p, e) PROVE Agreement'
<1>1. tries' \in [Phones -> Seq(Tries)] /\ TriesSound'
  BY OneMoreTry DEF PressLogin, Kinds
<1>2. presses' \in 0..MaxPresses
  BY BoundsAssumption DEF PressLogin, Agreement, TypeOK
<1> QED BY <1>1, <1>2, StepPieces DEF PressLogin, store, Agreement, TypeOK

LEMMA PressUnansweredStep ==
  ASSUME Agreement, NEW p \in Phones, PressUnanswered(p) PROVE Agreement'
<1>1. alert' \in [Phones -> BOOLEAN]
  BY DEF PressUnanswered, Agreement, TypeOK
<1> QED BY <1>1, SameTries, StepPieces DEF PressUnanswered, store, Agreement, TypeOK

LEMMA UploadedStep ==
  ASSUME Agreement, NEW p \in Phones, NEW i \in 1..Len(tries[p]), NEW done \in BOOLEAN,
         Uploaded(p, i, done)
  PROVE  Agreement'
<1>1. CASE ~done
  <2>1. tries' = Without(p, i) /\ UNCHANGED <<accountOf, screens>>
    BY <1>1 DEF Uploaded
  <2> QED BY <2>1, FewerTries, StepPieces DEF Uploaded, store, Agreement, TypeOK
<1>2. CASE done
  <2>1. PICK t : t = [tries[p][i] EXCEPT !.step = "asking"]
    OBVIOUS
  <2>2. tries[p][i] \in Tries /\ Sound(p, tries[p][i])
    BY TriesTyped DEF Agreement, TriesSound
  <2>3. t \in Tries /\ t.step = "asking" /\ t.screen = tries[p][i].screen
        /\ t.kind = tries[p][i].kind
    BY <2>1, <2>2 DEF Tries
  <2>4. UNCHANGED <<accountOf, screens>>
    BY DEF Uploaded
  <2>5. Sound(p, t)'
    BY <2>2, <2>3, <2>4 DEF Sound
  <2>6. tries' = [tries EXCEPT ![p] = [@ EXCEPT ![i] = t]]
    BY <1>2, <2>1 DEF Uploaded
  <2>7. tries' \in [Phones -> Seq(Tries)] /\ TriesSound'
    BY <2>3, <2>4, <2>5, <2>6, ChangedTry
  <2> QED BY <2>7, StepPieces DEF Uploaded, store, Agreement, TypeOK
<1> QED BY <1>1, <1>2

LEMMA RefusedStep ==
  ASSUME Agreement, NEW p \in Phones, NEW i \in 1..Len(tries[p]), Refused(p, i)
  PROVE  Agreement'
<1>1. tries' \in [Phones -> Seq(Tries)] /\ TriesSound'
  BY FewerTries DEF Refused
<1>2. alert' \in [Phones -> BOOLEAN]
  <2>1. alert \in [Phones -> BOOLEAN] /\ Presents(p, tries[p][i]) \in BOOLEAN
    BY DEF Agreement, TypeOK, Presents
  <2>2. Alerted(p, tries[p][i]) \in [Phones -> BOOLEAN]
    BY <2>1 DEF Alerted
  <2>3. alert' = Alerted(p, tries[p][i]) \/ alert' = alert
    BY DEF Refused
  <2> QED BY <2>1, <2>2, <2>3
<1> QED BY <1>1, <1>2, StepPieces DEF Refused, store, Agreement, TypeOK

LEMMA NavigateKeeps ==
  ASSUME Agreement, NEW p \in Phones, NEW i \in 1..Len(tries[p]), Navigate(p, i),
         UNCHANGED accountOf
  PROVE  /\ tries' \in [Phones -> Seq(Tries)] /\ TriesSound'
         /\ base' \in [Phones -> Bases] /\ screens' \in [Phones -> Seq(Kinds)]
<1>1. CASE Presents(p, tries[p][i])
  <2>1. screens[p] \in Seq(Kinds) /\ screens \in [Phones -> Seq(Kinds)]
        /\ Len(screens[p]) \in Nat
    BY DEF Agreement, TypeOK
  <2>2. screens' = [screens EXCEPT ![p] = SubSeq(@, 1, 0)]
    <3>1. SubSeq(screens[p], 1, 0) = <<>>
      BY <2>1
    <3> QED BY <1>1, <2>1, <3>1 DEF Navigate
  <2>3. PICK r : r = RemoveAt(Detached(p, 0), i)
    OBVIOUS
  <2>4. tries' = [tries EXCEPT ![p] = r]
    BY <1>1, <2>3 DEF Navigate
  <2>5. \E j \in 1..Len(tries[p]) : r = RemoveAt(Detached(p, 0), j)
    BY <2>3
  <2>6. 0 \in Nat /\ 0 <= Len(screens[p])
    BY <2>1
  <2>7. tries' \in [Phones -> Seq(Tries)] /\ TriesSound'
    BY <2>2, <2>4, <2>5, <2>6, DetachedTries
  <2>8. screens' \in [Phones -> Seq(Kinds)]
    <3>1. <<>> \in Seq(Kinds)
      OBVIOUS
    <3> QED BY <1>1, <2>1, <3>1 DEF Navigate
  <2>9. base' \in [Phones -> Bases]
    <3>1. PICK b \in Bases : base' = [base EXCEPT ![p] = b]
      BY <1>1 DEF Navigate, Bases
    <3> QED BY <3>1 DEF Agreement, TypeOK
  <2> QED BY <2>7, <2>8, <2>9
<1>2. CASE ~Presents(p, tries[p][i])
  BY <1>2, FewerTries DEF Navigate, Agreement, TypeOK
<1> QED BY <1>1, <1>2

LEMMA LoginAnsweredStep ==
  ASSUME Agreement, NEW p \in Phones, NEW i \in 1..Len(tries[p]), LoginAnswered(p, i)
  PROVE  Agreement'
BY NavigateKeeps, StepPieces DEF LoginAnswered, store, Agreement, TypeOK

LEMMA SignedInStep ==
  ASSUME Agreement, NEW p \in Phones, NEW i \in 1..Len(tries[p]), SignedIn(p, i)
  PROVE  Agreement'
<1>1. PICK t : t = [tries[p][i] EXCEPT !.step = "signedIn"]
  OBVIOUS
<1>2. tries[p][i] \in Tries /\ Sound(p, tries[p][i])
  BY TriesTyped DEF Agreement, TriesSound
<1>3. /\ t \in Tries /\ t.step = "signedIn" /\ t.screen = tries[p][i].screen
      /\ t.kind = tries[p][i].kind /\ t.email = tries[p][i].email
      /\ t.uid = tries[p][i].uid
  BY <1>1, <1>2 DEF Tries
<1>4. UNCHANGED <<accountOf, screens>>
  BY DEF SignedIn
<1>5. Sound(p, t)'
  BY <1>2, <1>3, <1>4 DEF Sound, SignedIn
<1>6. tries' = [tries EXCEPT ![p] = [@ EXCEPT ![i] = t]]
  BY <1>1 DEF SignedIn
<1>7. tries' \in [Phones -> Seq(Tries)] /\ TriesSound'
  BY <1>3, <1>4, <1>5, <1>6, ChangedTry
<1>8. user' \in [Phones -> DocIds \cup {NoAccount}]
  BY <1>2 DEF SignedIn, Tries, Agreement, TypeOK
<1>9. \E q \in Devices : Lost(q)
  BY QueueIsDevice DEF SignedIn, Agreement
<1> QED BY <1>7, <1>8, <1>9, StepPieces DEF SignedIn, Agreement, TypeOK

LEMMA ConnectionLostStep ==
  ASSUME Agreement, NEW p \in Phones, ConnectionLost(p) PROVE Agreement'
<1>1. \E q \in Devices : Lost(q)
  BY QueueIsDevice DEF ConnectionLost, Agreement
<1> QED BY <1>1, SameTries, StepPieces DEF ConnectionLost, Agreement, TypeOK

(***************************************************************************)
(* The answers that make an account, queue its profile and store it.       *)
(***************************************************************************)
LEMMA GrantStep ==
  ASSUME Agreement, NEW p \in Phones, NEW i \in 1..Len(tries[p]), Grant(p, i)
  PROVE  Agreement'
<1>0. tries[p][i] \in Tries /\ tries[p][i].step = "asking" /\ tries[p][i].email \in Emails
      /\ accountOf \in [Emails -> DocIds \cup {NoAccount}]
  BY TriesTyped DEF Grant, Agreement, TypeOK, Tries
<1>1. PICK u \in DocIds :
        /\ IF tries[p][i].kind = "register"
             THEN /\ accountOf[tries[p][i].email] = NoAccount
                  /\ u \in Free
                  /\ accountOf' = [accountOf EXCEPT ![tries[p][i].email] = u]
             ELSE u = accountOf[tries[p][i].email] /\ UNCHANGED accountOf
        /\ tries' = [tries EXCEPT ![p][i] =
                       [tries[p][i] EXCEPT !.step = "granted", !.uid = u]]
  <2>1. CASE tries[p][i].kind = "register"
    <3>1. Free # {} /\ Free \subseteq DocIds
      BY <2>1 DEF Grant, Free
    <3>2. NewUid \in DocIds /\ NewUid \in Free
      BY <3>1 DEF NewUid
    <3> QED BY <2>1, <3>2 DEF Grant
  <2>2. CASE tries[p][i].kind # "register"
    BY <1>0, <2>2 DEF Grant
  <2> QED BY <2>1, <2>2
<1>2. tries[p][i] \in Tries /\ Sound(p, tries[p][i])
      /\ tries[p][i].email \in Emails /\ u # NoAccount
  BY TriesTyped, MarkerAssumption DEF Agreement, TriesSound, Tries
<1>3. /\ accountOf \in [Emails -> DocIds \cup {NoAccount}]
      /\ UNCHANGED <<store, user, base, screens, alert, presses, toured, history>>
  BY DEF Grant, Agreement, TypeOK
<1>4. /\ accountOf' \in [Emails -> DocIds \cup {NoAccount}]
      /\ accountOf'[tries[p][i].email] = u
      /\ \A e \in Emails : accountOf[e] # NoAccount => accountOf'[e] = accountOf[e]
  BY <1>1, <1>2, <1>3
<1>5. AccountsDistinct'
  <2>1. CASE tries[p][i].kind = "register"
    BY <1>1, <1>2, <1>3, <2>1 DEF Agreement, AccountsDistinct, Free
  <2>2. CASE tries[p][i].kind # "register"
    BY <1>1, <2>2 DEF Agreement, AccountsDistinct
  <2> QED BY <2>1, <2>2
<1>6. ProfilesFiled'
  <2>1. ASSUME NEW k \in DocIds, NEW prof \in Profiles, Filed(k, prof) PROVE Filed(k, prof)'
    <3>1. prof.email \in Emails /\ k # NoAccount
      BY MarkerAssumption DEF Profiles
    <3> QED BY <1>4, <2>1, <3>1 DEF Filed
  <2>2. /\ \A k \in DocIds : server[k] # NoProfile => server[k] \in Profiles
        /\ \A c \in Devices : \A j \in 1..Len(pending[c]) :
             pending[c][j].key \in DocIds /\ pending[c][j].value \in Profiles
    <3>1. server \in [DocIds -> Profiles \cup {NoProfile}]
          /\ \A c \in Devices : pending[c] \in Seq([key : DocIds, value : Profiles])
      BY DEF Agreement, TypeOK
    <3>2. ASSUME NEW c \in Devices, NEW j \in 1..Len(pending[c])
          PROVE  pending[c][j] \in [key : DocIds, value : Profiles]
      BY <3>1, ElementOf
    <3> QED BY <3>1, <3>2
  <2>3. server' = server /\ pending' = pending
    BY <1>3 DEF store
  <2> QED BY <2>1, <2>2, <2>3 DEF Agreement, ProfilesFiled
<1>7. ProfilesKept' /\ AppliedIsStored' /\ AppliedOK'
  BY <1>3 DEF store, history, Agreement, TypeOK, ProfilesKept, WritesTo, AppliedIsStored,
         AppliedOK
<1>8. tries' \in [Phones -> Seq(Tries)] /\ TriesSound'
  <2>1. PICK t : t = [tries[p][i] EXCEPT !.step = "granted", !.uid = u]
    OBVIOUS
  <2>2. /\ t \in Tries /\ t.step = "granted" /\ t.uid = u
        /\ t.screen = tries[p][i].screen /\ t.kind = tries[p][i].kind
        /\ t.email = tries[p][i].email
    BY <1>2, <2>1 DEF Tries
  <2>3. Sound(p, t)'
    BY <1>2, <1>3, <1>4, <2>2 DEF Sound
  <2>4. tries' = [tries EXCEPT ![p] = [@ EXCEPT ![i] = t]] /\ UNCHANGED screens
    BY <1>1, <1>3, <2>1
  <2> QED BY <1>4, <2>2, <2>3, <2>4, ChangedTry
<1>9. TypeOK'
  BY <1>3, <1>4, <1>7, <1>8 DEF Agreement, TypeOK, store, history
<1> QED BY <1>5, <1>6, <1>7, <1>8, <1>9 DEF Agreement

LEMMA AppendParts ==
  ASSUME NEW S, NEW q \in Seq(S), NEW w \in S
  PROVE  /\ Append(q, w) \in Seq(S)
         /\ \A j \in 1..Len(Append(q, w)) :
              \/ Append(q, w)[j] = w
              \/ j \in 1..Len(q) /\ Append(q, w)[j] = q[j]
         /\ \A j \in 1..Len(q) : j \in 1..Len(Append(q, w)) /\ Append(q, w)[j] = q[j]
         /\ Len(q) + 1 \in 1..Len(Append(q, w)) /\ Append(q, w)[Len(q) + 1] = w
<1> DEFINE r == Append(q, w)
<1>1. /\ r \in Seq(S) /\ Len(r) = Len(q) + 1 /\ Len(q) \in Nat
      /\ r[Len(q) + 1] = w /\ \A j \in 1..Len(q) : r[j] = q[j]
  OBVIOUS
<1> QED
  <2> HIDE DEF r
  <2> QED BY <1>1 DEF r

LEMMA RegisterAnsweredStep ==
  ASSUME Agreement, NEW p \in Phones, NEW i \in 1..Len(tries[p]), RegisterAnswered(p, i)
  PROVE  Agreement'
<1>0. PICK r \in Devices : r = Queue(p)
  BY QueueIsDevice DEF Agreement
<1>1. PICK old \in Tries : old = tries[p][i]
  BY TriesTyped DEF Agreement
<1>2. /\ old.kind = "register" /\ old.step = "signedIn" /\ Sound(p, old)
      /\ old.uid \in DocIds /\ old.email \in Emails /\ accountOf[old.email] = old.uid
  BY <1>1 DEF RegisterAnswered, Agreement, TriesSound, Sound, Tries
<1>3. PICK w \in [key : DocIds, value : Profiles] :
        w = [key |-> old.uid, value |-> ProfileOf(p, old)]
        /\ w.key = old.uid /\ Filed(w.key, w.value)
  <2>1. ProfileOf(p, old) \in Profiles /\ Filed(old.uid, ProfileOf(p, old))
    BY <1>2 DEF ProfileOf, Profiles, Filed
  <2>2. PICK v \in Profiles : v = ProfileOf(p, old) /\ Filed(old.uid, v)
    BY <2>1
  <2>3. [key |-> old.uid, value |-> v] \in [key : DocIds, value : Profiles]
    BY <1>2
  <2> QED BY <2>2, <2>3
<1>4. /\ registered' = registered \cup {old.uid}
      /\ pending' = [pending EXCEPT ![r] = Append(@, w)]
      /\ tries' = [tries EXCEPT ![p][i].step = "saving"]
      /\ UNCHANGED <<server, applied, accountOf, user, base, screens, alert, presses, toured,
                     rejected>>
  BY <1>0, <1>1, <1>3 DEF RegisterAnswered, Enqueue
<1>5. PICK q \in Seq([key : DocIds, value : Profiles]) :
        /\ q = Append(pending[r], w)
        /\ \A j \in 1..Len(q) :
             \/ q[j] = w
             \/ j \in 1..Len(pending[r]) /\ q[j] = pending[r][j]
        /\ \A j \in 1..Len(pending[r]) : j \in 1..Len(q) /\ q[j] = pending[r][j]
        /\ \E j \in 1..Len(q) : q[j] = w
  <2>1. pending[r] \in Seq([key : DocIds, value : Profiles])
    BY DEF Agreement, TypeOK
  <2>2. PICK s : s = Append(pending[r], w)
    OBVIOUS
  <2>3. /\ s \in Seq([key : DocIds, value : Profiles])
        /\ \A j \in 1..Len(s) :
             \/ s[j] = w
             \/ j \in 1..Len(pending[r]) /\ s[j] = pending[r][j]
        /\ \A j \in 1..Len(pending[r]) : j \in 1..Len(s) /\ s[j] = pending[r][j]
        /\ Len(pending[r]) + 1 \in 1..Len(s) /\ s[Len(pending[r]) + 1] = w
    BY <2>1, <2>2, AppendParts
  <2>4. \E j \in 1..Len(s) : s[j] = w
    BY <2>3
  <2> QED BY <2>2, <2>3, <2>4, Zenon
<1>6. /\ pending \in [Devices -> Seq([key : DocIds, value : Profiles])]
      /\ pending' = [pending EXCEPT ![r] = q]
      /\ pending'[r] = q /\ \A c \in Devices : c # r => pending'[c] = pending[c]
  BY <1>4, <1>5 DEF Agreement, TypeOK
<1>7. AccountsDistinct'
  BY <1>4 DEF Agreement, AccountsDistinct
<1>8. ProfilesFiled'
  <2>1. \A k \in DocIds : server'[k] # NoProfile => Filed(k, server[k])'
    BY <1>4 DEF Agreement, ProfilesFiled, Filed
  <2>2. ASSUME NEW c \in Devices, NEW j \in 1..Len(pending'[c])
        PROVE  Filed(pending[c][j].key, pending[c][j].value)'
    <3>1. CASE c # r
      BY <1>4, <1>6, <3>1 DEF Agreement, ProfilesFiled, Filed
    <3>2. CASE c = r
      <4>1. CASE q[j] = w
        BY <1>3, <1>4, <1>6, <3>2, <4>1 DEF Filed
      <4>2. CASE j \in 1..Len(pending[r]) /\ q[j] = pending[r][j]
        BY <1>4, <1>6, <3>2, <4>2 DEF Agreement, ProfilesFiled, Filed
      <4> QED BY <1>5, <1>6, <3>2, <4>1, <4>2
    <3> QED BY <3>1, <3>2
  <2> QED BY <2>1, <2>2 DEF ProfilesFiled
<1>9. ProfilesKept'
  <2> SUFFICES ASSUME NEW u \in registered' \ rejected'
               PROVE  \E c \in Devices : server'[u] # NoProfile
                                          \/ WritesTo(pending'[c], u) # {}
    BY DEF ProfilesKept, WritesTo
  <2>1. CASE u = old.uid
    <3>1. WritesTo(pending'[r], u) # {}
      BY <1>3, <1>5, <1>6, <2>1 DEF WritesTo
    <3> QED BY <3>1
  <2>2. CASE u # old.uid
    <3>1. PICK c \in Devices : server[u] # NoProfile \/ WritesTo(pending[c], u) # {}
      BY <1>4, <2>2 DEF Agreement, ProfilesKept
    <3>2. CASE server[u] # NoProfile
      BY <1>4, <3>2
    <3>3. CASE WritesTo(pending[c], u) # {}
      <4>1. WritesTo(pending'[c], u) # {}
        <5>1. CASE c = r
          BY <1>5, <1>6, <3>3, <5>1 DEF WritesTo
        <5>2. CASE c # r
          BY <1>6, <3>3, <5>2
        <5> QED BY <5>1, <5>2
      <4> QED BY <4>1
    <3> QED BY <3>1, <3>2, <3>3
  <2> QED BY <2>1, <2>2
<1>10. tries' \in [Phones -> Seq(Tries)] /\ TriesSound'
  <2>1. PICK t : t = [old EXCEPT !.step = "saving"]
    OBVIOUS
  <2>2. /\ t \in Tries /\ t.step = "saving" /\ t.uid = old.uid /\ t.kind = old.kind
        /\ t.screen = old.screen /\ t.email = old.email
    BY <2>1 DEF Tries
  <2>3. Sound(p, t)'
    BY <1>2, <1>4, <2>2 DEF Sound
  <2>4. tries' = [tries EXCEPT ![p] = [@ EXCEPT ![i] = t]]
    BY <1>1, <1>4, <2>1
  <2> QED BY <1>4, <2>2, <2>3, <2>4, ChangedTry
<1>12. AppliedOK' /\ AppliedIsStored'
  <2>1. \A c \in Devices : /\ Len(pending[c]) \in Nat /\ Len(pending'[c]) \in Nat
                            /\ Len(pending[c]) <= Len(pending'[c])
    <3> SUFFICES ASSUME NEW c \in Devices
                 PROVE  /\ Len(pending[c]) \in Nat /\ Len(pending'[c]) \in Nat
                        /\ Len(pending[c]) <= Len(pending'[c])
      OBVIOUS
    <3>1. pending[c] \in Seq([key : DocIds, value : Profiles])
          /\ Len(pending[c]) \in Nat
      BY QueuesTyped DEF Agreement
    <3>2. CASE c = r
      <4>1. Len(q) = Len(pending[c]) + 1
        BY <1>5, <3>1, <3>2
      <4> QED BY <1>6, <3>1, <3>2, <4>1
    <3>3. CASE c # r
      BY <1>6, <3>1, <3>3
    <3> QED BY <3>2, <3>3
  <2>2. AppliedOK /\ AppliedIsStored /\ applied' = applied /\ server' = server
    BY <1>4 DEF Agreement, TypeOK
  <2>3. AppliedOK'
    BY <2>1, <2>2, AppliedSame
  <2>4. ASSUME NEW c \in Devices, NEW j \in 1..Len(pending'[c]), j <= applied'[c]
        PROVE  server'[pending'[c][j].key] # NoProfile
    <3>1. applied[c] \in Nat /\ applied[c] <= Len(pending[c])
      BY <2>2 DEF AppliedOK
    <3>2. j \in 1..Len(pending[c]) /\ j <= applied[c]
      BY <2>1, <2>2, <2>4, <3>1
    <3>3. pending'[c][j] = pending[c][j]
      BY <1>5, <1>6, <3>2
    <3> QED BY <2>2, <3>2, <3>3 DEF AppliedIsStored
  <2> QED BY <2>3, <2>4 DEF AppliedIsStored
<1>11. TypeOK'
  <2>1. pending' \in [Devices -> Seq([key : DocIds, value : Profiles])]
    BY <1>5, <1>6
  <2>2. registered' \subseteq DocIds /\ rejected' \subseteq DocIds
    BY <1>2, <1>4 DEF Agreement, TypeOK
  <2> QED BY <1>4, <1>10, <1>12, <2>1, <2>2 DEF Agreement, TypeOK
<1> QED BY <1>7, <1>8, <1>9, <1>10, <1>11, <1>12 DEF Agreement

LEMMA HeadTailParts ==
  ASSUME NEW S, NEW s \in Seq(S), s # <<>>
  PROVE  /\ Head(s) \in S /\ Tail(s) \in Seq(S)
         /\ 1 \in 1..Len(s) /\ s[1] = Head(s)
         /\ \A j \in 1..Len(Tail(s)) : j + 1 \in 1..Len(s) /\ Tail(s)[j] = s[j + 1]
         /\ \A j \in 1..Len(s) :
              \/ j = 1
              \/ j - 1 \in 1..Len(Tail(s)) /\ Tail(s)[j - 1] = s[j]
<1>1. Len(s) \in Nat \ {0}
  BY LastParts
<1>2. /\ Head(s) \in S /\ Tail(s) \in Seq(S) /\ Len(Tail(s)) = Len(s) - 1
      /\ \A j \in 1..(Len(s) - 1) : Tail(s)[j] = s[j + 1]
  BY HeadTailProperties
<1>3. s[1] = Head(s)
  OBVIOUS
<1>4. PICK t \in Seq(S) : t = Tail(s)
  BY <1>2
<1> QED BY <1>1, <1>2, <1>3, <1>4

LEMMA ServerStoresStep ==
  ASSUME Agreement, NEW p \in Phones, ServerStores(p) PROVE Agreement'
<1> DEFINE Writes == [key : DocIds, value : Profiles]
<1>1. PICK r \in Devices : r = Queue(p)
  BY QueueIsDevice DEF Agreement
<1>2. /\ pending \in [Devices -> Seq(Writes)] /\ AppliedOK /\ Store(r)
      /\ server \in [DocIds -> Profiles \cup {NoProfile}]
      /\ \A c \in Devices : Len(pending[c]) \in Nat
  <2>1. \A c \in Devices : Len(pending[c]) \in Nat
    BY QueuesTyped DEF Agreement
  <2> QED BY <1>1, <2>1 DEF ServerStores, Agreement, TypeOK
<1>3. /\ applied[r] \in Nat /\ applied'[r] = applied[r] + 1
      /\ \E i \in 1..Len(pending[r]) :
           /\ i = applied'[r] /\ pending[r][i] \in Writes
           /\ server' = [server EXCEPT ![pending[r][i].key] = pending[r][i].value]
  <2> HIDE DEF Writes
  <2> QED BY <1>2, StoresQueued
<1>4. PICK n \in 1..Len(pending[r]), h \in Writes :
        /\ h = pending[r][n] /\ n = applied'[r]
        /\ server' = [server EXCEPT ![h.key] = h.value]
  BY <1>3
<1>5. h.key \in DocIds /\ h.value \in Profiles /\ Filed(h.key, h.value)
      /\ h.value # NoProfile
  BY <1>4, MarkerAssumption DEF Agreement, ProfilesFiled
<1>6. UNCHANGED <<pending, accountOf, user, base, screens, alert, tries, presses, toured,
                  registered, rejected>>
  BY DEF ServerStores, history
<1>7. /\ server' \in [DocIds -> Profiles \cup {NoProfile}]
      /\ \A k \in DocIds : server'[k] = IF k = h.key THEN h.value ELSE server[k]
  BY <1>2, <1>4, <1>5
<1>8. AppliedOK'
  BY <1>2, <1>6, AppliedStored
<1>9. ProfilesFiled'
  BY <1>5, <1>6, <1>7 DEF Agreement, ProfilesFiled, Filed
<1>10. ProfilesKept'
  <2>1. \A k \in DocIds : server[k] # NoProfile => server'[k] # NoProfile
    BY <1>5, <1>7
  <2>2. registered \ rejected \subseteq DocIds
    BY DEF Agreement, TypeOK
  <2> QED BY <1>6, <2>1, <2>2 DEF Agreement, ProfilesKept, WritesTo
<1>11. AppliedIsStored'
  <2>1. ASSUME NEW c \in Devices, NEW j \in 1..Len(pending[c]), j <= applied'[c]
        PROVE  server'[pending[c][j].key] # NoProfile
    <3>1. PICK w \in Writes : w = pending[c][j]
      <4>1. pending[c] \in Seq(Writes)
        BY <1>2
      <4> QED BY <4>1, ElementOf
    <3>2. CASE c = r /\ j = n
      BY <1>4, <1>5, <1>7, <3>2
    <3>3. CASE ~(c = r /\ j = n)
      <4>1. applied \in [Devices -> Nat] /\ applied' = [applied EXCEPT ![r] = @ + 1]
        BY <1>2 DEF AppliedOK, Store
      <4>2. j <= applied[c]
        BY <1>3, <1>4, <2>1, <3>3, <4>1
      <4>3. server[w.key] # NoProfile
        BY <3>1, <4>2 DEF Agreement, AppliedIsStored
      <4> QED BY <1>5, <1>7, <3>1, <4>3
    <3> QED BY <3>2, <3>3
  <2> QED BY <1>6, <2>1 DEF AppliedIsStored
<1>12. AccountsDistinct' /\ tries' \in [Phones -> Seq(Tries)] /\ TriesSound'
  BY <1>6, SameTries DEF Agreement, AccountsDistinct
<1>13. TypeOK'
  BY <1>6, <1>7, <1>8, <1>12 DEF Agreement, TypeOK
<1> QED BY <1>8, <1>9, <1>10, <1>11, <1>12, <1>13 DEF Agreement

\* What is true of the queue whose oldest write is answered.
LEMMA AnsweredQueue ==
  ASSUME Agreement, NEW p \in Phones, NEW stored \in BOOLEAN, ProfileAnswered(p, stored)
  PROVE  /\ Queue(p) \in Devices
         /\ pending[Queue(p)] \in Seq([key : DocIds, value : Profiles])
         /\ pending[Queue(p)] # <<>>
         /\ stored => server[Head(pending[Queue(p)]).key] # NoProfile
<1>1. PICK r \in Devices : r = Queue(p)
  BY QueueIsDevice DEF Agreement
<1>2. /\ pending[r] \in Seq([key : DocIds, value : Profiles]) /\ Len(pending[r]) \in Nat
      /\ applied[r] \in Nat /\ applied[r] <= Len(pending[r])
  BY QueuesTyped DEF Agreement, TypeOK, AppliedOK
<1>3. pending[r] # <<>> /\ (stored => applied[r] > 0)
  <2>1. CASE stored
    BY <1>1, <1>2, <2>1 DEF ProfileAnswered, AnswerRead
  <2>2. CASE ~stored
    BY <1>1, <1>2, <2>2 DEF ProfileAnswered, RefusalRead, Unstored
  <2> QED BY <2>1, <2>2
<1>4. stored => server[Head(pending[r]).key] # NoProfile
  <2> SUFFICES ASSUME stored PROVE server[Head(pending[r]).key] # NoProfile
    OBVIOUS
  <2>1. 1 \in 1..Len(pending[r]) /\ 1 <= applied[r] /\ pending[r][1] = Head(pending[r])
    BY <1>2, <1>3
  <2>2. server[pending[r][1].key] # NoProfile
    BY <2>1 DEF Agreement, AppliedIsStored
  <2> QED BY <2>1, <2>2
<1> QED BY <1>1, <1>2, <1>3, <1>4

LEMMA ProfileAnsweredStep ==
  ASSUME Agreement, NEW p \in Phones, NEW stored \in BOOLEAN, ProfileAnswered(p, stored)
  PROVE  Agreement'
<1> DEFINE Writes == [key : DocIds, value : Profiles]
<1>0. PICK r \in Devices : r = Queue(p)
  BY QueueIsDevice DEF Agreement
<1>1. /\ pending \in [Devices -> Seq(Writes)] /\ pending[r] \in Seq(Writes)
      /\ pending[r] # <<>>
      /\ stored => server[Head(pending[r]).key] # NoProfile
  BY <1>0, AnsweredQueue DEF Agreement, TypeOK
<1>2. PICK h \in Writes, q \in Seq(Writes) :
        /\ h = Head(pending[r]) /\ q = Tail(pending[r])
        /\ 1 \in 1..Len(pending[r]) /\ pending[r][1] = h
        /\ \A j \in 1..Len(q) : j + 1 \in 1..Len(pending[r]) /\ q[j] = pending[r][j + 1]
        /\ \A j \in 1..Len(pending[r]) :
             \/ j = 1
             \/ j - 1 \in 1..Len(q) /\ q[j - 1] = pending[r][j]
  <2> HIDE DEF Writes
  <2>1. PICK h, q : h = Head(pending[r]) /\ q = Tail(pending[r])
    OBVIOUS
  <2>2. /\ h \in Writes /\ q \in Seq(Writes)
        /\ 1 \in 1..Len(pending[r]) /\ pending[r][1] = h
        /\ \A j \in 1..Len(q) : j + 1 \in 1..Len(pending[r]) /\ q[j] = pending[r][j + 1]
        /\ \A j \in 1..Len(pending[r]) :
             \/ j = 1
             \/ j - 1 \in 1..Len(q) /\ q[j - 1] = pending[r][j]
    BY <1>1, <2>1, HeadTailParts
  <2> QED BY <2>1, <2>2, Zenon
<1>3. h.key \in DocIds
  BY <1>2
<1>4. /\ pending' = [pending EXCEPT ![r] = q]
      /\ rejected' = IF stored THEN rejected ELSE rejected \cup {h.key}
      /\ \/ UNCHANGED <<base, screens, tries>>
         \/ \E i \in DOMAIN tries[p] : ProfileSaved(p, i, stored)
  BY <1>0, <1>2 DEF ProfileAnswered, Taken, Rest, Saving
<1>5. UNCHANGED <<server, accountOf, user, alert, presses, toured, registered>>
  BY DEF ProfileAnswered
<1>6. /\ tries' \in [Phones -> Seq(Tries)] /\ TriesSound'
      /\ base' \in [Phones -> Bases] /\ screens' \in [Phones -> Seq(Kinds)]
  <2>1. CASE UNCHANGED <<base, screens, tries>>
    BY <1>5, <2>1, SameTries DEF Agreement, TypeOK
  <2>2. CASE \E i \in DOMAIN tries[p] : ProfileSaved(p, i, stored)
    <3>1. PICK i \in 1..Len(tries[p]) : ProfileSaved(p, i, stored)
      BY <2>2, TriesTyped DEF Agreement
    <3>2. CASE Navigate(p, i)
      BY <1>5, <3>2, NavigateKeeps
    <3>3. CASE tries' = Without(p, i) /\ UNCHANGED <<base, screens>>
      BY <1>5, <3>3, FewerTries DEF Agreement, TypeOK
    <3> QED BY <3>1, <3>2, <3>3 DEF ProfileSaved
  <2> QED BY <1>4, <2>1, <2>2
<1>8. /\ pending' \in [Devices -> Seq(Writes)]
      /\ pending'[r] = q /\ \A c \in Devices : c # r => pending'[c] = pending[c]
  <2> HIDE DEF Writes
  <2> QED BY <1>1, <1>2, <1>4
<1>9. ProfilesFiled'
  <2>1. \A k \in DocIds : server'[k] # NoProfile => Filed(k, server[k])'
    BY <1>5 DEF Agreement, ProfilesFiled, Filed
  <2>2. ASSUME NEW c \in Devices, NEW j \in 1..Len(pending'[c])
        PROVE  Filed(pending[c][j].key, pending[c][j].value)'
    <3>1. \E k \in 1..Len(pending[c]) : pending'[c][j] = pending[c][k]
      <4>1. CASE c = r
        <5>1. j \in 1..Len(q) /\ pending'[c][j] = q[j]
          BY <1>8, <4>1
        <5>2. j + 1 \in 1..Len(pending[c]) /\ q[j] = pending[c][j + 1]
          BY <1>2, <4>1, <5>1
        <5> QED BY <5>1, <5>2
      <4>2. CASE c # r
        BY <1>8, <4>2
      <4> QED BY <4>1, <4>2
    <3> QED BY <1>5, <3>1 DEF Agreement, ProfilesFiled, Filed
  <2> QED BY <2>1, <2>2 DEF ProfilesFiled
<1>10. ProfilesKept'
  <2> SUFFICES ASSUME NEW u \in registered' \ rejected'
               PROVE  \E c \in Devices : server'[u] # NoProfile
                                          \/ WritesTo(pending'[c], u) # {}
    BY DEF ProfilesKept, WritesTo
  <2>1. u \in DocIds /\ u \in registered \ rejected /\ (~stored => u # h.key)
    BY <1>4, <1>5 DEF Agreement, TypeOK
  <2>2. PICK c \in Devices : server[u] # NoProfile \/ WritesTo(pending[c], u) # {}
    BY <2>1 DEF Agreement, ProfilesKept
  <2>3. CASE stored /\ u = h.key
    BY <1>1, <1>2, <1>5, <2>3
  <2>4. CASE u # h.key
    <3>1. CASE server[u] # NoProfile
      BY <1>5, <3>1
    <3>2. CASE WritesTo(pending[c], u) # {}
      <4>1. PICK j \in 1..Len(pending[c]) : pending[c][j].key = u
        BY <3>2 DEF WritesTo
      <4>2. \E k \in 1..Len(pending'[c]) : pending'[c][k] = pending[c][j]
        <5>1. CASE c = r
          BY <1>2, <1>8, <2>4, <4>1, <5>1
        <5>2. CASE c # r
          BY <1>8, <4>1, <5>2
        <5> QED BY <5>1, <5>2
      <4> QED BY <4>1, <4>2 DEF WritesTo
    <3> QED BY <2>2, <3>1, <3>2
  <2> QED BY <2>1, <2>3, <2>4
<1>11. AccountsDistinct'
  BY <1>5 DEF Agreement, AccountsDistinct
<1>12. Len(pending[r]) \in Nat /\ Len(q) = Len(pending[r]) - 1
  <2> HIDE DEF Writes
  <2> QED BY <1>1, <1>2, HeadTailProperties
<1>13. AppliedOK'
  <2>1. AppliedOK /\ (AnswerRead(r) \/ RefusalRead(r))
    BY <1>0 DEF ProfileAnswered, Agreement, TypeOK
  <2>2. Len(pending'[r]) = Len(pending[r]) - 1
        /\ \A c \in Devices : c # r => Len(pending'[c]) = Len(pending[c])
    BY <1>8, <1>12
  <2> QED BY <1>12, <2>1, <2>2, AppliedAnswered
<1>14. AppliedIsStored'
  <2>1. applied \in [Devices -> Nat] /\ applied[r] \in Nat
    BY DEF Agreement, TypeOK, AppliedOK
  <2>2. applied'[r] = applied[r] - 1 \/ applied'[r] = 0
    BY <1>0, <2>1 DEF ProfileAnswered, AnswerRead, RefusalRead, Lost
  <2>3. \A c \in Devices : c # r => applied'[c] = applied[c]
    BY <1>0, <2>1 DEF ProfileAnswered, AnswerRead, RefusalRead, Lost
  <2>4. ASSUME NEW c \in Devices, NEW j \in 1..Len(pending'[c]), j <= applied'[c]
        PROVE  server'[pending'[c][j].key] # NoProfile
    <3>1. CASE c = r
      <4>1. j \in 1..Len(q) /\ pending'[c][j] = q[j]
        BY <1>8, <3>1
      <4>2. j + 1 \in 1..Len(pending[c]) /\ pending'[c][j] = pending[c][j + 1]
        BY <1>2, <3>1, <4>1
      <4>3. j + 1 <= applied[c]
        BY <2>1, <2>2, <2>4, <3>1
      <4> QED BY <1>5, <4>2, <4>3 DEF Agreement, AppliedIsStored
    <3>2. CASE c # r
      BY <1>5, <1>8, <2>3, <2>4, <3>2 DEF Agreement, AppliedIsStored
    <3> QED BY <3>1, <3>2
  <2> QED BY <2>4 DEF AppliedIsStored
<1>15. TypeOK'
  <2>1. rejected' \subseteq DocIds
    BY <1>3, <1>4 DEF Agreement, TypeOK
  <2> QED BY <1>5, <1>6, <1>8, <1>13, <2>1 DEF Agreement, TypeOK
<1> QED BY <1>6, <1>9, <1>10, <1>11, <1>14, <1>15 DEF Agreement

(***************************************************************************)
(* The invariant.                                                          *)
(***************************************************************************)
LEMMA InitAgrees == Init => Agreement
<1> SUFFICES ASSUME Init PROVE Agreement
  OBVIOUS
<1>1. TypeOK
  <2>1. AppliedOK
    <3>1. \A q \in Devices : applied[q] = 0 /\ Len(pending[q]) = 0
      BY EmptySeq DEF Init, StoreInit
    <3> QED BY <3>1 DEF AppliedOK, Init, StoreInit
  <2>2. presses \in 0..MaxPresses
    BY BoundsAssumption DEF Init
  <2> QED BY <2>1, <2>2 DEF Init, StoreInit, TypeOK, Bases
<1>2. TriesSound
  <2> SUFFICES ASSUME NEW p \in Phones
               PROVE  /\ Len(screens[p]) <= MaxScreens
                      /\ \A i \in 1..Len(tries[p]) : Sound(p, tries[p][i])
    BY DEF TriesSound
  <2>1. tries[p] = <<>> /\ screens[p] = <<>>
    BY DEF Init
  <2> QED BY <2>1, BoundsAssumption
<1>3. AccountsDistinct /\ ProfilesFiled /\ ProfilesKept /\ AppliedIsStored
  BY DEF Init, StoreInit, AccountsDistinct, ProfilesFiled, ProfilesKept, AppliedIsStored
<1> QED BY <1>1, <1>2, <1>3 DEF Agreement

LEMMA StepAgrees == Agreement /\ [Next]_vars => Agreement'
<1> SUFFICES ASSUME Agreement, [Next]_vars PROVE Agreement'
  OBVIOUS
<1>1. CASE UNCHANGED vars
  BY <1>1, SameTries, StepPieces DEF vars, store, history, Agreement, TypeOK
<1>2. CASE Next
  <2>1. PICK p \in Phones :
          \/ Launch(p) \/ Killed(p) \/ LogOut(p) \/ Back(p) \/ DismissAlert(p)
          \/ \E kind \in Kinds : Open(p, kind)
          \/ \E started \in BOOLEAN : EndTutorial(p, started)
          \/ \E e \in Emails, encoded \in BOOLEAN : PressRegister(p, e, encoded)
          \/ \E e \in Emails : PressLogin(p, e)
          \/ PressUnanswered(p)
          \/ \E i \in DOMAIN tries[p] : Answers(p, i)
          \/ Network(p)
    BY <1>2 DEF Next
  <2>2. CASE Launch(p) \/ Killed(p) \/ LogOut(p) \/ Back(p) \/ DismissAlert(p)
    BY <2>2, LaunchStep, KilledStep, LogOutStep, BackStep, DismissAlertStep
  <2>3. CASE \E kind \in Kinds : Open(p, kind)
    BY <2>3, OpenStep
  <2>4. CASE \E started \in BOOLEAN : EndTutorial(p, started)
    BY <2>4, EndTutorialStep
  <2>5. CASE \E e \in Emails, encoded \in BOOLEAN : PressRegister(p, e, encoded)
    BY <2>5, PressRegisterStep
  <2>6. CASE \E e \in Emails : PressLogin(p, e)
    BY <2>6, PressLoginStep
  <2>7. CASE PressUnanswered(p) \/ Network(p)
    BY <2>7, PressUnansweredStep, ServerStoresStep, ConnectionLostStep, ProfileAnsweredStep
       DEF Network
  <2>8. CASE \E i \in DOMAIN tries[p] : Answers(p, i)
    <3>1. PICK i \in 1..Len(tries[p]) : Answers(p, i)
      BY <2>8, TriesTyped DEF Agreement
    <3> QED BY <3>1, UploadedStep, GrantStep, RefusedStep, SignedInStep,
               RegisterAnsweredStep, LoginAnsweredStep DEF Answers
  <2> QED BY <2>1, <2>2, <2>3, <2>4, <2>5, <2>6, <2>7, <2>8
<1> QED BY <1>1, <1>2

LEMMA Agreeing == Spec => []Agreement
BY InitAgrees, StepAgrees, PTL DEF Spec

(***************************************************************************)
(* Each registration has an account of its own, and its handler waits for  *)
(* a write of its own.  The tries after a step are some of those before,   *)
(* or the same but for one.                                                *)
(***************************************************************************)
Alike(t, o) == t.kind = o.kind /\ t.step = o.step /\ t.uid = o.uid

\* r holds some of the tries of p, each at most once; g says which.
Picks(p, r, g) ==
  /\ \A j \in 1..Len(r) : g[j] \in 1..Len(tries[p]) /\ Alike(r[j], tries[p][g[j]])
  /\ \A j, k \in 1..Len(r) : g[j] = g[k] => j = k

LEMMA PickedOwn ==
  ASSUME Agreement, OwnAccounts, NEW p \in Phones, NEW r, NEW g, Picks(p, r, g),
         tries' = [tries EXCEPT ![p] = r]
  PROVE  OwnAccounts'
<1>1. tries'[p] = r /\ \A c \in Phones : c # p => tries'[c] = tries[c]
  BY DEF Agreement, TypeOK
<1> DEFINE From(c, j) == IF c = p THEN g[j] ELSE j
<1>2. ASSUME NEW c \in Phones, NEW j \in 1..Len(tries'[c])
      PROVE  From(c, j) \in 1..Len(tries[c]) /\ Alike(tries'[c][j], tries[c][From(c, j)])
  BY <1>1 DEF Picks, Alike
<1>3. ASSUME NEW c \in Phones, NEW d \in Phones,
             NEW j \in 1..Len(tries'[c]), NEW k \in 1..Len(tries'[d]),
             Made(tries'[c][j]), Made(tries'[d][k]), tries'[c][j].uid = tries'[d][k].uid
      PROVE  c = d /\ j = k
  <2>1. /\ From(c, j) \in 1..Len(tries[c]) /\ Made(tries[c][From(c, j)])
        /\ tries[c][From(c, j)].uid = tries'[c][j].uid
    BY <1>2, <1>3 DEF Alike, Made
  <2>2. /\ From(d, k) \in 1..Len(tries[d]) /\ Made(tries[d][From(d, k)])
        /\ tries[d][From(d, k)].uid = tries'[d][k].uid
    BY <1>2, <1>3 DEF Alike, Made
  <2>3. c = d /\ From(c, j) = From(d, k)
    <3> HIDE DEF From
    <3> QED BY <1>3, <2>1, <2>2 DEF OwnAccounts
  <2>4. CASE c = p
    <3>1. j \in 1..Len(r) /\ k \in 1..Len(r)
      BY <1>1, <1>3, <2>3, <2>4
    <3>2. g[j] = g[k]
      BY <2>3, <2>4
    <3> QED BY <2>3, <3>1, <3>2 DEF Picks
  <2>5. CASE c # p
    BY <2>3, <2>5
  <2> QED BY <2>4, <2>5
<1> QED BY <1>3 DEF OwnAccounts, Made

\* At most one try is new or another, ...
OneAt(p, i, t) ==
  \A c \in Phones : \A j \in 1..Len(tries'[c]) :
    \/ c = p /\ j = i /\ tries'[c][j] = t
    \/ ~(c = p /\ j = i) /\ j \in 1..Len(tries[c]) /\ tries'[c][j] = tries[c][j]

\* ... with an account that no other has.
Alone(p, i, t) ==
  Made(t) => \A c \in Phones : \A j \in 1..Len(tries[c]) :
               Made(tries[c][j]) /\ tries[c][j].uid = t.uid => c = p /\ j = i

LEMMA OneOther ==
  ASSUME OwnAccounts, NEW p \in Phones, NEW i \in Nat, NEW t, OneAt(p, i, t), Alone(p, i, t)
  PROVE  OwnAccounts'
<1> SUFFICES ASSUME NEW c \in Phones, NEW d \in Phones,
                    NEW j \in 1..Len(tries'[c]), NEW k \in 1..Len(tries'[d]),
                    Made(tries'[c][j]), Made(tries'[d][k]),
                    tries'[c][j].uid = tries'[d][k].uid
             PROVE  c = d /\ j = k
  BY DEF OwnAccounts, Made
<1>1. CASE c = p /\ j = i /\ tries'[c][j] = t
  <2>1. CASE d = p /\ k = i
    BY <1>1, <2>1
  <2>2. CASE ~(d = p /\ k = i) /\ k \in 1..Len(tries[d]) /\ tries'[d][k] = tries[d][k]
    BY <1>1, <2>2 DEF Alone
  <2> QED BY <2>1, <2>2 DEF OneAt
<1>2. CASE ~(c = p /\ j = i) /\ j \in 1..Len(tries[c]) /\ tries'[c][j] = tries[c][j]
  <2>1. CASE d = p /\ k = i /\ tries'[d][k] = t
    BY <1>2, <2>1 DEF Alone
  <2>2. CASE ~(d = p /\ k = i) /\ k \in 1..Len(tries[d]) /\ tries'[d][k] = tries[d][k]
    BY <1>2, <2>2 DEF OwnAccounts
  <2> QED BY <2>1, <2>2 DEF OneAt
<1> QED BY <1>1, <1>2 DEF OneAt

\* A handler that waits did so before, for a write that is still queued, or its
\* write is queued now.
LEMMA StillComing ==
  ASSUME AnswerIsComing,
         \A c \in Phones : \A j \in 1..Len(tries'[c]) : tries'[c][j].step = "saving" =>
           \/ \E q \in Devices : q[1] = c /\ WritesTo(pending'[q], tries'[c][j].uid) # {}
           \/ \E k \in 1..Len(tries[c]) :
                /\ tries[c][k].step = "saving" /\ tries[c][k].uid = tries'[c][j].uid
                /\ \A q \in Devices : q[1] = c
                     /\ WritesTo(pending[q], tries[c][k].uid) # {} =>
                          WritesTo(pending'[q], tries[c][k].uid) # {}
  PROVE  AnswerIsComing'
<1> SUFFICES ASSUME NEW c \in Phones, NEW j \in 1..Len(tries'[c]), tries'[c][j].step = "saving"
             PROVE  \E q \in Devices : q[1] = c /\ WritesTo(pending'[q], tries'[c][j].uid) # {}
  BY DEF AnswerIsComing, WritesTo
<1> HIDE DEF WritesTo
<1>1. SUFFICES ASSUME NEW k \in 1..Len(tries[c]), tries[c][k].step = "saving",
                      tries[c][k].uid = tries'[c][j].uid,
                      \A q \in Devices : q[1] = c
                        /\ WritesTo(pending[q], tries[c][k].uid) # {} =>
                             WritesTo(pending'[q], tries[c][k].uid) # {}
               PROVE  \E q \in Devices : q[1] = c /\ WritesTo(pending'[q], tries'[c][j].uid) # {}
  OBVIOUS
<1>2. PICK q \in Devices : q[1] = c /\ WritesTo(pending[q], tries[c][k].uid) # {}
  BY <1>1 DEF AnswerIsComing
<1> QED BY <1>1, <1>2

LEMMA PickedComing ==
  ASSUME Agreement, AnswerIsComing, NEW p \in Phones, NEW r, NEW g, Picks(p, r, g),
         tries' = [tries EXCEPT ![p] = r], UNCHANGED pending
  PROVE  AnswerIsComing'
<1>1. tries'[p] = r /\ \A c \in Phones : c # p => tries'[c] = tries[c]
  BY DEF Agreement, TypeOK
<1>2. ASSUME NEW c \in Phones, NEW j \in 1..Len(tries'[c]), tries'[c][j].step = "saving"
      PROVE  \E k \in 1..Len(tries[c]) :
               tries[c][k].step = "saving" /\ tries[c][k].uid = tries'[c][j].uid
  BY <1>1, <1>2 DEF Picks, Alike
<1> QED BY <1>2, StillComing

\* The tries of p, detached or not, without one of them or not.
LEMMA SomePicked ==
  ASSUME Agreement, NEW p \in Phones, NEW s \in Seq(Tries), Len(s) = Len(tries[p]),
         \A j \in 1..Len(tries[p]) : Alike(s[j], tries[p][j])
  PROVE  /\ \E g : Picks(p, s, g)
         /\ \A i \in 1..Len(tries[p]) :
              \E g : /\ Picks(p, RemoveAt(s, i), g)
                     /\ \A j \in 1..Len(RemoveAt(s, i)) : g[j] # i
<1>1. Picks(p, s, [j \in 1..Len(s) |-> j])
  BY DEF Picks
<1>2. ASSUME NEW i \in 1..Len(tries[p])
      PROVE  \E g : Picks(p, RemoveAt(s, i), g) /\ \A j \in 1..Len(RemoveAt(s, i)) : g[j] # i
  <2>1. PICK r : r = RemoveAt(s, i)
    OBVIOUS
  <2>2. r \in Seq(Tries)
        /\ \A j \in 1..Len(r) :
              /\ j < i => j \in 1..Len(s) /\ r[j] = s[j]
              /\ j >= i => j + 1 \in 1..Len(s) /\ r[j] = s[j + 1]
    BY <2>1, RemoveAtParts
  <2>3. PICK g : g = [j \in 1..Len(r) |-> IF j < i THEN j ELSE j + 1]
    OBVIOUS
  <2>4. Len(r) \in Nat /\ i \in Nat /\ Len(tries[p]) \in Nat
    BY <2>2, TriesTyped DEF Agreement
  <2>5. \A j \in 1..Len(r) : g[j] \in 1..Len(tries[p]) /\ Alike(r[j], tries[p][g[j]])
                             /\ g[j] # i
    <3> SUFFICES ASSUME NEW j \in 1..Len(r)
                 PROVE  g[j] \in 1..Len(tries[p]) /\ Alike(r[j], tries[p][g[j]]) /\ g[j] # i
      OBVIOUS
    <3>1. CASE j < i
      <4>1. g[j] = j /\ j # i /\ j \in 1..Len(s) /\ r[j] = s[j]
        BY <2>2, <2>3, <2>4, <3>1
      <4> QED BY <4>1
    <3>2. CASE j >= i
      <4>1. g[j] = j + 1 /\ j + 1 # i /\ j + 1 \in 1..Len(s) /\ r[j] = s[j + 1]
        BY <2>2, <2>3, <2>4, <3>2
      <4> QED BY <4>1
    <3> QED BY <2>4, <3>1, <3>2
  <2>6. \A j, k \in 1..Len(r) : g[j] = g[k] => j = k
    BY <2>3, <2>4
  <2> QED BY <2>1, <2>5, <2>6 DEF Picks
<1> QED BY <1>1, <1>2

LEMMA SelfAlike ==
  ASSUME Agreement, NEW p \in Phones
  PROVE  /\ tries[p] \in Seq(Tries)
         /\ \A j \in 1..Len(tries[p]) : Alike(tries[p][j], tries[p][j])
BY TriesTyped DEF Agreement, Alike

LEMMA DetachedAlike ==
  ASSUME Agreement, NEW p \in Phones, NEW n \in Nat
  PROVE  /\ Detached(p, n) \in Seq(Tries) /\ Len(Detached(p, n)) = Len(tries[p])
         /\ \A j \in 1..Len(tries[p]) : Alike(Detached(p, n)[j], tries[p][j])
BY DetachedParts DEF Agreement, Alike

\* Answering try i: the others stay, wherever the phone goes.
LEMMA NavigatePicks ==
  ASSUME Agreement, NEW p \in Phones, NEW i \in 1..Len(tries[p]),
         Navigate(p, i) \/ tries' = Without(p, i)
  PROVE  \E r, g : /\ tries' = [tries EXCEPT ![p] = r] /\ Picks(p, r, g)
                   /\ \A j \in 1..Len(r) : g[j] # i
<1>1. CASE tries' = [tries EXCEPT ![p] = RemoveAt(Detached(p, 0), i)]
  <2>1. PICK s : s = Detached(p, 0)
    OBVIOUS
  <2>2. s \in Seq(Tries) /\ Len(s) = Len(tries[p])
        /\ \A j \in 1..Len(tries[p]) : Alike(s[j], tries[p][j])
    BY <2>1, DetachedAlike
  <2>3. PICK r : r = RemoveAt(s, i)
    OBVIOUS
  <2>4. \E g : Picks(p, r, g) /\ \A j \in 1..Len(r) : g[j] # i
    BY <2>2, <2>3, SomePicked
  <2>5. tries' = [tries EXCEPT ![p] = r]
    BY <1>1, <2>1, <2>3
  <2> QED BY <2>4, <2>5
<1>2. CASE tries' = [tries EXCEPT ![p] = RemoveAt(tries[p], i)]
  <2>1. PICK r : r = RemoveAt(tries[p], i)
    OBVIOUS
  <2>2. \E g : Picks(p, r, g) /\ \A j \in 1..Len(r) : g[j] # i
    BY <2>1, SelfAlike, SomePicked
  <2>3. tries' = [tries EXCEPT ![p] = r]
    BY <1>2, <2>1
  <2> QED BY <2>2, <2>3
<1> QED BY <1>1, <1>2 DEF Navigate, Without

Owned == OwnAccounts /\ AnswerIsComing

LEMMA SameOwned ==
  ASSUME Owned, UNCHANGED <<tries, pending>> PROVE Owned'
BY DEF Owned, OwnAccounts, AnswerIsComing, WritesTo, Made

LEMMA PickedOwned ==
  ASSUME Agreement, Owned, NEW p \in Phones, UNCHANGED pending,
         \E r, g : tries' = [tries EXCEPT ![p] = r] /\ Picks(p, r, g)
  PROVE  Owned'
<1>1. PICK r, g : tries' = [tries EXCEPT ![p] = r] /\ Picks(p, r, g)
  OBVIOUS
<1> QED BY <1>1, PickedOwn, PickedComing DEF Owned

\* One try is changed.
LEMMA ChangedOwn ==
  ASSUME Agreement, OwnAccounts, NEW p \in Phones, NEW i \in 1..Len(tries[p]), NEW t,
         tries' = [tries EXCEPT ![p] = [@ EXCEPT ![i] = t]], Alone(p, i, t)
  PROVE  OwnAccounts' /\ OneAt(p, i, t)
<1>1. PICK r : r = [tries[p] EXCEPT ![i] = t]
  OBVIOUS
<1>2. tries' = [tries EXCEPT ![p] = r] /\ tries \in [Phones -> Seq(Tries)]
  BY <1>1 DEF Agreement, TypeOK
<1>3. DOMAIN tries[p] = 1..Len(tries[p]) /\ Len(tries[p]) \in Nat /\ i \in Nat
  BY TriesTyped DEF Agreement
<1>4. DOMAIN r = 1..Len(tries[p])
      /\ \A j \in 1..Len(tries[p]) : r[j] = IF j = i THEN t ELSE tries[p][j]
  BY <1>1, <1>3
<1>5. Len(r) = Len(tries[p])
  BY <1>3, <1>4
<1>6. OneAt(p, i, t)
  BY <1>2, <1>4, <1>5 DEF OneAt
<1> QED BY <1>3, <1>6, OneOther

\* A changed try does not wait for a profile.
LEMMA ChangedOwned ==
  ASSUME Agreement, Owned, NEW p \in Phones, NEW i \in 1..Len(tries[p]), NEW t,
         tries' = [tries EXCEPT ![p] = [@ EXCEPT ![i] = t]], UNCHANGED pending,
         t.step # "saving", Alone(p, i, t)
  PROVE  Owned'
<1>1. OwnAccounts' /\ OneAt(p, i, t)
  BY ChangedOwn DEF Owned
<1>2. ASSUME NEW c \in Phones, NEW j \in 1..Len(tries'[c]), tries'[c][j].step = "saving"
      PROVE  j \in 1..Len(tries[c]) /\ tries'[c][j] = tries[c][j]
  BY <1>1, <1>2 DEF OneAt
<1>3. AnswerIsComing'
  <2>1. ASSUME NEW c \in Phones, NEW j \in 1..Len(tries'[c]), tries'[c][j].step = "saving"
        PROVE  \E k \in 1..Len(tries[c]) :
                 tries[c][k].step = "saving" /\ tries[c][k].uid = tries'[c][j].uid
    <3>1. j \in 1..Len(tries[c]) /\ tries'[c][j] = tries[c][j]
      BY <1>2, <2>1
    <3> QED BY <2>1, <3>1
  <2> QED BY <2>1, StillComing DEF Owned
<1> QED BY <1>1, <1>3 DEF Owned

LEMMA PressedOwned ==
  ASSUME Agreement, Owned, NEW p \in Phones, NEW kind, NEW email, NEW step,
         step # "saving", step # "granted", step # "signedIn",
         Begin(p, kind, email, step), UNCHANGED pending
  PROVE  Owned'
<1>1. PICK t : t = [kind |-> kind, email |-> email, step |-> step, uid |-> NoAccount,
                    screen |-> Len(screens[p])]
  OBVIOUS
<1>2. PICK r : r = Append(tries[p], t)
  OBVIOUS
<1>3. tries[p] \in Seq(Tries) /\ Len(tries[p]) \in Nat /\ tries \in [Phones -> Seq(Tries)]
  BY TriesTyped DEF Agreement, TypeOK
<1>4. Len(r) = Len(tries[p]) + 1 /\ r[Len(tries[p]) + 1] = t
      /\ \A j \in 1..Len(tries[p]) : r[j] = tries[p][j]
  BY <1>2, <1>3
<1>5. tries' = [tries EXCEPT ![p] = r]
  BY <1>1, <1>2 DEF Begin
<1>6. OneAt(p, Len(tries[p]) + 1, t)
  <2> SUFFICES ASSUME NEW c \in Phones, NEW j \in 1..Len(tries'[c])
               PROVE  \/ c = p /\ j = Len(tries[p]) + 1 /\ tries'[c][j] = t
                      \/ /\ ~(c = p /\ j = Len(tries[p]) + 1)
                         /\ j \in 1..Len(tries[c]) /\ tries'[c][j] = tries[c][j]
    BY DEF OneAt
  <2>1. CASE c = p
    BY <1>3, <1>4, <1>5, <2>1
  <2>2. CASE c # p
    BY <1>3, <1>5, <2>2
  <2> QED BY <2>1, <2>2
<1>7. t.step = step /\ Alone(p, Len(tries[p]) + 1, t)
  BY <1>1 DEF Alone, Made
<1>8. OwnAccounts'
  BY <1>3, <1>6, <1>7, OneOther DEF Owned
<1>9. AnswerIsComing'
  <2>1. ASSUME NEW c \in Phones, NEW j \in 1..Len(tries'[c]), tries'[c][j].step = "saving"
        PROVE  \E k \in 1..Len(tries[c]) :
                 tries[c][k].step = "saving" /\ tries[c][k].uid = tries'[c][j].uid
    <3>1. j \in 1..Len(tries[c]) /\ tries'[c][j] = tries[c][j]
      BY <1>6, <1>7, <2>1 DEF OneAt
    <3> QED BY <2>1, <3>1
  <2> QED BY <2>1, StillComing DEF Owned
<1> QED BY <1>8, <1>9 DEF Owned

LEMMA ScreensOwned ==
  ASSUME Agreement, Owned, NEW p \in Phones, Back(p) \/ Killed(p)
  PROVE  Owned'
<1>1. UNCHANGED pending
  BY DEF Back, Killed, store
<1>2. CASE Back(p)
  <2>1. screens[p] \in Seq(Kinds) /\ screens[p] # <<>>
    BY <1>2 DEF Back, Agreement, TypeOK
  <2>2. PICK n \in Nat : n = Len(screens[p]) - 1
    BY <2>1, FrontParts, Zenon
  <2>3. PICK s : s = Detached(p, n)
    OBVIOUS
  <2>4. s \in Seq(Tries) /\ Len(s) = Len(tries[p])
        /\ \A j \in 1..Len(tries[p]) : Alike(s[j], tries[p][j])
    BY <2>3, DetachedAlike
  <2>5. \E g : Picks(p, s, g)
    BY <2>4, SomePicked
  <2>6. tries' = [tries EXCEPT ![p] = s]
    BY <1>2, <2>2, <2>3 DEF Back
  <2> QED BY <1>1, <2>5, <2>6, PickedOwned
<1>3. CASE Killed(p)
  <2>1. tries' = [tries EXCEPT ![p] = <<>>]
    BY <1>3 DEF Killed
  <2>2. Picks(p, <<>>, <<>>)
    BY DEF Picks
  <2> QED BY <1>1, <2>1, <2>2, PickedOwned
<1> QED BY <1>2, <1>3

\* A new account belongs to no try: the accounts of tries have addresses.
LEMMA GrantOwned ==
  ASSUME Agreement, Owned, NEW p \in Phones, NEW i \in 1..Len(tries[p]), Grant(p, i)
  PROVE  Owned'
<1>1. PICK old \in Tries : old = tries[p][i]
  BY TriesTyped DEF Agreement
<1>2. PICK u : u = IF old.kind = "register" THEN NewUid ELSE accountOf[old.email]
  OBVIOUS
<1>3. PICK t : t = [old EXCEPT !.step = "granted", !.uid = u]
  OBVIOUS
<1>4. t.kind = old.kind /\ t.step = "granted" /\ t.uid = u
  BY <1>3 DEF Tries
<1>5. tries' = [tries EXCEPT ![p] = [@ EXCEPT ![i] = t]] /\ UNCHANGED pending
  BY <1>1, <1>2, <1>3 DEF Grant, store
<1>6. Alone(p, i, t)
  <2> SUFFICES ASSUME old.kind = "register", NEW c \in Phones, NEW j \in 1..Len(tries[c]),
                      Made(tries[c][j]), tries[c][j].uid = u
               PROVE  FALSE
    BY <1>4 DEF Alone, Made
  <2>1. Free # {} /\ u = NewUid
    BY <1>1, <1>2 DEF Grant
  <2>2. u \in Free
    BY <2>1 DEF NewUid, Free
  <2>3. tries[c][j] \in Tries /\ Sound(c, tries[c][j])
    BY TriesTyped DEF Agreement, TriesSound
  <2>4. tries[c][j].email \in Emails
    BY <2>3 DEF Tries
  <2>5. accountOf[tries[c][j].email] = u
    BY <2>3 DEF Sound, Made
  <2> QED BY <2>2, <2>4, <2>5 DEF Free
<1> QED BY <1>4, <1>5, <1>6, ChangedOwned

LEMMA AnsweredOwned ==
  ASSUME Agreement, Owned, NEW p \in Phones, NEW i \in 1..Len(tries[p]),
         \/ \E done \in BOOLEAN : Uploaded(p, i, done)
         \/ Refused(p, i) \/ SignedIn(p, i) \/ LoginAnswered(p, i)
  PROVE  Owned'
<1>1. PICK old \in Tries : old = tries[p][i]
  BY TriesTyped DEF Agreement
<1>2. UNCHANGED pending
  BY DEF Uploaded, Refused, SignedIn, LoginAnswered, store
<1>3. CASE Navigate(p, i) \/ tries' = Without(p, i)
  BY <1>2, <1>3, NavigatePicks, PickedOwned
<1>4. CASE \E done \in BOOLEAN : Uploaded(p, i, done)
           /\ tries' = [tries EXCEPT ![p][i].step = "asking"]
  <2>1. PICK t : t = [old EXCEPT !.step = "asking"]
    OBVIOUS
  <2>2. t.step = "asking" /\ tries' = [tries EXCEPT ![p] = [@ EXCEPT ![i] = t]]
    BY <1>1, <1>4, <2>1 DEF Tries
  <2>3. Alone(p, i, t)
    BY <2>2 DEF Alone, Made
  <2> QED BY <1>2, <2>2, <2>3, ChangedOwned
<1>5. CASE SignedIn(p, i)
  <2>1. PICK t : t = [old EXCEPT !.step = "signedIn"]
    OBVIOUS
  <2>2. /\ t.step = "signedIn" /\ t.kind = old.kind /\ t.uid = old.uid
        /\ old.step = "granted" /\ tries' = [tries EXCEPT ![p] = [@ EXCEPT ![i] = t]]
    BY <1>1, <1>5, <2>1 DEF SignedIn, Tries
  <2>3. Alone(p, i, t)
    BY <1>1, <2>2 DEF Alone, Made, Owned, OwnAccounts
  <2> QED BY <1>2, <2>2, <2>3, ChangedOwned
<1> QED BY <1>3, <1>4, <1>5 DEF Uploaded, Refused, LoginAnswered

\* The handler of createUser begins to wait for the write it queues.
LEMMA RegisteredOwned ==
  ASSUME Agreement, Owned, NEW p \in Phones, NEW i \in 1..Len(tries[p]), RegisterAnswered(p, i)
  PROVE  Owned'
<1>1. PICK old \in Tries : old = tries[p][i]
  BY TriesTyped DEF Agreement
<1>2. PICK t : t = [old EXCEPT !.step = "saving"]
  OBVIOUS
<1>3. /\ t.step = "saving" /\ t.kind = "register" /\ t.uid = old.uid
      /\ old.step = "signedIn" /\ old.kind = "register"
      /\ tries' = [tries EXCEPT ![p] = [@ EXCEPT ![i] = t]]
  BY <1>1, <1>2 DEF RegisterAnswered, Tries
<1>4. Alone(p, i, t)
  BY <1>1, <1>3 DEF Alone, Made, Owned, OwnAccounts
<1>5. OwnAccounts' /\ OneAt(p, i, t)
  BY <1>3, <1>4, ChangedOwn DEF Owned
<1>6. PICK q \in Devices : q = Queue(p)
  BY QueueIsDevice DEF Agreement
<1>7. q[1] = p
  BY <1>6 DEF Queue
<1>8. PICK w : w = [key |-> old.uid, value |-> ProfileOf(p, old)]
  OBVIOUS
<1>9. w.key = old.uid /\ pending' = [pending EXCEPT ![q] = Append(@, w)]
  BY <1>1, <1>6, <1>8 DEF RegisterAnswered, Enqueue
<1>10. PICK s : s = Append(pending[q], w)
  OBVIOUS
<1>11. /\ \A j \in 1..Len(pending[q]) : j \in 1..Len(s) /\ s[j] = pending[q][j]
       /\ Len(s) \in 1..Len(s) /\ s[Len(s)] = w
  <2>1. pending[q] \in Seq([key : DocIds, value : Profiles]) /\ Len(pending[q]) \in Nat
    BY QueuesTyped DEF Agreement
  <2>2. Len(s) = Len(pending[q]) + 1 /\ s[Len(pending[q]) + 1] = w
        /\ \A j \in 1..Len(pending[q]) : s[j] = pending[q][j]
    BY <1>10, <2>1
  <2> QED BY <2>1, <2>2
<1>12. pending'[q] = s /\ \A c \in Devices : c # q => pending'[c] = pending[c]
  BY <1>9, <1>10 DEF Agreement, TypeOK
<1>13. \A c \in Devices : \A u : WritesTo(pending[c], u) # {} => WritesTo(pending'[c], u) # {}
  <2> SUFFICES ASSUME NEW c \in Devices, NEW u, NEW j \in 1..Len(pending[c]),
                      pending[c][j].key = u
               PROVE  \E k \in 1..Len(pending'[c]) : pending'[c][k].key = u
    BY DEF WritesTo
  <2>1. CASE c = q
    BY <1>11, <1>12, <2>1
  <2>2. CASE c # q
    BY <1>12, <2>2
  <2> QED BY <2>1, <2>2
<1>14. WritesTo(pending'[q], old.uid) # {}
  BY <1>9, <1>11, <1>12 DEF WritesTo
<1>15. ASSUME NEW c \in Phones, NEW j \in 1..Len(tries'[c]), tries'[c][j].step = "saving"
       PROVE  \/ \E d \in Devices : d[1] = c /\ WritesTo(pending'[d], tries'[c][j].uid) # {}
              \/ \E k \in 1..Len(tries[c]) :
                   /\ tries[c][k].step = "saving" /\ tries[c][k].uid = tries'[c][j].uid
                   /\ \A d \in Devices : d[1] = c
                        /\ WritesTo(pending[d], tries[c][k].uid) # {} =>
                             WritesTo(pending'[d], tries[c][k].uid) # {}
  <2>1. CASE c = p /\ j = i /\ tries'[c][j] = t
    BY <1>3, <1>7, <1>14, <2>1
  <2>2. CASE j \in 1..Len(tries[c]) /\ tries'[c][j] = tries[c][j]
    BY <1>13, <1>15, <2>2
  <2> QED BY <1>5, <2>1, <2>2 DEF OneAt
<1>16. AnswerIsComing'
  BY <1>15, StillComing DEF Owned
<1> QED BY <1>5, <1>16 DEF Owned

\* The write that is answered is nobody's but its handler's, which is gone then.
LEMMA ProfileOwned ==
  ASSUME Agreement, Owned, NEW p \in Phones, NEW stored \in BOOLEAN, ProfileAnswered(p, stored)
  PROVE  Owned'
<1>1. PICK q \in Devices : q = Queue(p) /\ q[1] = p
  BY QueueIsDevice DEF Agreement, Queue
<1>2. /\ pending[q] \in Seq([key : DocIds, value : Profiles]) /\ pending[q] # <<>>
      /\ pending \in [Devices -> Seq([key : DocIds, value : Profiles])]
  BY <1>1, AnsweredQueue DEF Agreement, TypeOK
<1>3. PICK uid : uid = Head(pending[q]).key
  OBVIOUS
<1>4. PICK s : s = Tail(pending[q])
  OBVIOUS
<1>5. /\ pending[q][1] = Head(pending[q])
      /\ \A j \in 1..Len(pending[q]) :
           j = 1 \/ (j - 1 \in 1..Len(s) /\ s[j - 1] = pending[q][j])
  BY <1>2, <1>4, HeadTailParts
<1>6. pending'[q] = s /\ \A c \in Devices : c # q => pending'[c] = pending[c]
  BY <1>1, <1>2, <1>4 DEF ProfileAnswered, Taken, Rest
<1>7. \A c \in Devices : \A u :
        u # uid /\ WritesTo(pending[c], u) # {} => WritesTo(pending'[c], u) # {}
  <2> SUFFICES ASSUME NEW c \in Devices, NEW u, u # uid, NEW j \in 1..Len(pending[c]),
                      pending[c][j].key = u
               PROVE  \E k \in 1..Len(pending'[c]) : pending'[c][k].key = u
    BY DEF WritesTo
  <2>1. CASE c = q
    <3>1. j - 1 \in 1..Len(s) /\ s[j - 1] = pending[q][j]
      BY <1>3, <1>5, <2>1
    <3> QED BY <1>6, <2>1, <3>1
  <2>2. CASE c # q
    BY <1>6, <2>2
  <2> QED BY <2>1, <2>2
<1>8. \A c \in Devices : c[1] # p => pending'[c] = pending[c]
  BY <1>1, <1>6
\* A handler of the write is gone.
<1>9. \A c \in Phones : \A j \in 1..Len(tries[c]) :
        tries[c][j].step = "saving" => Made(tries[c][j])
  BY DEF Agreement, TriesSound, Sound, Made
<1>10. \E r, g : /\ tries' = [tries EXCEPT ![p] = r] /\ Picks(p, r, g)
                 /\ \A j \in 1..Len(r) : r[j].step = "saving" => r[j].uid # uid
  <2>1. CASE Saving(p, uid) = {}
    <3>1. tries' = tries
      BY <1>1, <1>3, <2>1 DEF ProfileAnswered
    <3>2. tries' = [tries EXCEPT ![p] = tries[p]]
      BY <3>1 DEF Agreement, TypeOK
    <3>3. \E g : Picks(p, tries[p], g)
      BY SelfAlike, SomePicked
    <3>4. \A j \in 1..Len(tries[p]) : tries[p][j].step = "saving" => tries[p][j].uid # uid
      BY <2>1, TriesTyped DEF Saving, Agreement
    <3> QED BY <3>2, <3>3, <3>4
  <2>2. CASE Saving(p, uid) # {}
    <3>1. PICK i \in Saving(p, uid) : ProfileSaved(p, i, stored)
      BY <1>1, <1>3, <2>2 DEF ProfileAnswered
    <3>2. i \in 1..Len(tries[p]) /\ tries[p][i].step = "saving" /\ tries[p][i].uid = uid
      BY <3>1, TriesTyped DEF Saving, Agreement
    <3>3. Navigate(p, i) \/ tries' = Without(p, i)
      BY <3>1 DEF ProfileSaved
    <3>4. PICK r, g : /\ tries' = [tries EXCEPT ![p] = r] /\ Picks(p, r, g)
                      /\ \A j \in 1..Len(r) : g[j] # i
      BY <3>2, <3>3, NavigatePicks
    <3>5. ASSUME NEW j \in 1..Len(r), r[j].step = "saving" PROVE r[j].uid # uid
      <4>1. g[j] \in 1..Len(tries[p]) /\ tries[p][g[j]].step = "saving"
            /\ tries[p][g[j]].uid = r[j].uid /\ g[j] # i
        BY <3>4, <3>5 DEF Picks, Alike
      <4>2. Made(tries[p][g[j]]) /\ Made(tries[p][i])
        BY <1>9, <3>2, <4>1
      <4> QED BY <3>2, <4>1, <4>2 DEF Owned, OwnAccounts
    <3> QED BY <3>4, <3>5
  <2> QED BY <2>1, <2>2
<1>11. PICK r, g : /\ tries' = [tries EXCEPT ![p] = r] /\ Picks(p, r, g)
                   /\ \A j \in 1..Len(r) : r[j].step = "saving" => r[j].uid # uid
  BY <1>10
<1>12. tries'[p] = r /\ \A c \in Phones : c # p => tries'[c] = tries[c]
  BY <1>11 DEF Agreement, TypeOK
<1>13. ASSUME NEW c \in Phones, NEW j \in 1..Len(tries'[c]), tries'[c][j].step = "saving"
       PROVE  \E k \in 1..Len(tries[c]) :
                /\ tries[c][k].step = "saving" /\ tries[c][k].uid = tries'[c][j].uid
                /\ \A d \in Devices : d[1] = c
                     /\ WritesTo(pending[d], tries[c][k].uid) # {} =>
                          WritesTo(pending'[d], tries[c][k].uid) # {}
  <2>1. CASE c = p
    <3>1. g[j] \in 1..Len(tries[c]) /\ tries[c][g[j]].step = "saving"
          /\ tries[c][g[j]].uid = tries'[c][j].uid /\ tries'[c][j].uid # uid
      BY <1>11, <1>12, <1>13, <2>1 DEF Picks, Alike
    <3> QED BY <1>7, <3>1
  <2>2. CASE c # p
    <3>1. \A d \in Devices : d[1] = c => pending'[d] = pending[d]
      BY <1>8, <2>2
    <3> QED BY <1>12, <1>13, <2>2, <3>1
  <2> QED BY <2>1, <2>2
<1>14. AnswerIsComing'
  BY <1>13, StillComing DEF Owned
<1>15. OwnAccounts'
  BY <1>11, PickedOwn DEF Owned
<1> QED BY <1>14, <1>15 DEF Owned

LEMMA StepOwned == Agreement /\ Owned /\ [Next]_vars => Owned'
<1> SUFFICES ASSUME Agreement, Owned, [Next]_vars PROVE Owned'
  OBVIOUS
<1>1. CASE UNCHANGED <<tries, pending>>
  BY <1>1, SameOwned
<1>2. CASE Next
  <2>1. PICK p \in Phones :
          \/ Launch(p) \/ Killed(p) \/ LogOut(p) \/ Back(p) \/ DismissAlert(p)
          \/ \E kind \in Kinds : Open(p, kind)
          \/ \E started \in BOOLEAN : EndTutorial(p, started)
          \/ \E e \in Emails, encoded \in BOOLEAN : PressRegister(p, e, encoded)
          \/ \E e \in Emails : PressLogin(p, e)
          \/ PressUnanswered(p)
          \/ \E i \in DOMAIN tries[p] : Answers(p, i)
          \/ Network(p)
    BY <1>2 DEF Next
  <2>2. CASE Launch(p) \/ LogOut(p) \/ DismissAlert(p) \/ PressUnanswered(p)
    BY <1>1, <2>2 DEF Launch, LogOut, DismissAlert, PressUnanswered, store
  <2>3. CASE Killed(p) \/ Back(p)
    BY <2>3, ScreensOwned
  <2>4. CASE \/ \E kind \in Kinds : Open(p, kind)
             \/ \E started \in BOOLEAN : EndTutorial(p, started)
    BY <1>1, <2>4 DEF Open, EndTutorial, store
  <2>5. ASSUME NEW e \in Emails, NEW encoded \in BOOLEAN, PressRegister(p, e, encoded)
        PROVE  Owned'
    <3>1. UNCHANGED pending
      BY <2>5 DEF PressRegister, store
    <3>2. PICK step : step = IF encoded THEN "uploading" ELSE "asking"
      OBVIOUS
    <3>3. Begin(p, "register", e, step)
          /\ step # "saving" /\ step # "granted" /\ step # "signedIn"
      BY <2>5, <3>2 DEF PressRegister
    <3> QED BY <3>1, <3>3, PressedOwned
  <2>6. ASSUME NEW e \in Emails, PressLogin(p, e) PROVE Owned'
    <3>1. Begin(p, "login", e, "asking") /\ UNCHANGED pending
      BY <2>6 DEF PressLogin, store
    <3> QED BY <3>1, PressedOwned
  <2>7. CASE \E i \in DOMAIN tries[p] : Answers(p, i)
    <3>1. PICK i \in 1..Len(tries[p]) : Answers(p, i)
      BY <2>7, TriesTyped DEF Agreement
    <3> QED BY <3>1, AnsweredOwned, GrantOwned, RegisteredOwned DEF Answers
  <2>8. CASE Network(p)
    <3>1. CASE ServerStores(p) \/ ConnectionLost(p)
      BY <1>1, <3>1 DEF ServerStores, ConnectionLost
    <3> QED BY <2>8, <3>1, ProfileOwned DEF Network
  <2> QED BY <2>1, <2>2, <2>3, <2>4, <2>5, <2>6, <2>7, <2>8
<1> QED BY <1>1, <1>2 DEF vars, store

(***************************************************************************)
(* What is kept of an account agrees: accounts are distinct, and every     *)
(* try, queued write and document agrees with them.  And each registration *)
(* is answered for its own.                                                *)
(***************************************************************************)
THEOREM AccountsAgree == Spec => []IInv
<1>1. Init => Owned
  <2>1. \A p \in Phones : tries[p] = <<>> => 1..Len(tries[p]) = {}
    OBVIOUS
  <2> QED BY <2>1 DEF Init, Owned, OwnAccounts, AnswerIsComing
<1>2. Spec => []Owned
  BY <1>1, StepOwned, Agreeing, PTL DEF Spec
<1>3. Agreement /\ Owned => IInv
  BY DEF Owned, IInv
<1> QED BY <1>2, <1>3, Agreeing, PTL

(***************************************************************************)
(* While the handler of a registration waits for the answer to its profile *)
(* in AuthService, the profile is queued on its phone: the answer is still *)
(* to come, and the answer to another profile cannot be taken for it.      *)
(***************************************************************************)
THEOREM HandlersWaitForTheirs == Spec => [](AnswerIsComing /\ OwnAccounts)
<1>1. IInv => AnswerIsComing /\ OwnAccounts
  BY DEF IInv
<1> QED BY <1>1, AccountsAgree, PTL
(***************************************************************************)
(* Every variable keeps its type.                                          *)
(***************************************************************************)
THEOREM TypeCorrect == Spec => []TypeOK
<1>1. Agreement => TypeOK
  BY DEF Agreement
<1> QED BY <1>1, Agreeing, PTL

(***************************************************************************)
(* A profile, on the server or queued, is filed under the account of the   *)
(* address in it.                                                          *)
(***************************************************************************)
THEOREM FiledRight == Spec => []ProfilesFiled
<1>1. Agreement => ProfilesFiled
  BY DEF Agreement
<1> QED BY <1>1, Agreeing, PTL

(***************************************************************************)
(* An account whose making a phone has been told of has its profile stored *)
(* or queued, unless the server refused it.                                *)
(***************************************************************************)
THEOREM NobodyOrphaned == Spec => []NoOrphans
<1>1. Agreement => NoOrphans
  <2> SUFFICES ASSUME Agreement, NEW u \in registered \ rejected
               PROVE  \E p \in Devices : Local(p, u) # NoProfile
    BY DEF NoOrphans
  <2>1. PICK p \in Devices : server[u] # NoProfile \/ WritesTo(pending[p], u) # {}
    BY DEF Agreement, ProfilesKept
  <2>2. u \in DocIds /\ pending[p] \in Seq([key : DocIds, value : Profiles])
    BY DEF Agreement, TypeOK
  <2>3. CASE WritesTo(pending[p], u) = {}
    BY <2>1, <2>3 DEF Local
  <2>4. CASE WritesTo(pending[p], u) # {}
    <3>1. PICK i \in 1..Len(pending[p]) : Local(p, u) = pending[p][i].value
      BY <2>2, <2>4, LocalIsOwn
    <3>2. pending[p][i] \in [key : DocIds, value : Profiles]
      BY <2>2, ElementOf
    <3> QED BY <3>1, <3>2, MarkerAssumption
  <2> QED BY <2>3, <2>4
<1> QED BY <1>1, Agreeing, PTL

(***************************************************************************)
(* A try that finds Register in front was made by its button.              *)
(***************************************************************************)
LEMMA LeavesRegister ==
  ASSUME Agreement, NEW p \in Phones, NEW i \in 1..Len(tries[p]), Presents(p, tries[p][i]),
         Last(screens[p]) = "register"
  PROVE  tries[p][i].kind = "register" /\ tries[p][i].screen = Len(screens[p])
<1>1. screens[p] \in Seq(Kinds) /\ Len(screens[p]) \in Nat
      /\ tries[p][i].screen # 0 /\ tries[p][i].screen = Len(screens[p])
  BY DEF Presents, Agreement, TypeOK
<1>2. Last(screens[p]) = screens[p][Len(screens[p])]
  BY DEF Last
<1>3. screens[p][tries[p][i].screen] = tries[p][i].kind
  BY <1>1 DEF Agreement, TriesSound, Sound
<1> QED BY <1>1, <1>2, <1>3

(***************************************************************************)
(* The Register screen gives way to Home or the tutorial only when the     *)
(* profile of an account made from that screen is on the server.           *)
(***************************************************************************)
THEOREM HomeHasProfile == Spec => HomeAfterProfile
<1> DEFINE Arrives(p) ==
             base[p] = "welcome" /\ base'[p] \in {"home", "tutorial"}
             /\ Last(screens[p]) = "register" =>
               \E t \in Range(tries[p]) :
                 /\ t.kind = "register" /\ t.screen = Len(screens[p])
                 /\ server'[t.uid] = ProfileOf(p, t)
<1>1. ASSUME Agreement, [Next]_vars, NEW p \in Phones, base[p] = "welcome",
             base'[p] \in {"home", "tutorial"}, Last(screens[p]) = "register"
      PROVE  \E t \in Range(tries[p]) :
               /\ t.kind = "register" /\ t.screen = Len(screens[p])
               /\ server'[t.uid] = ProfileOf(p, t)
  <2>1. base \in [Phones -> Bases] /\ base'[p] # base[p]
    BY <1>1 DEF Agreement, TypeOK
  <2>2. PICK c \in Phones :
          \/ Launch(c) \/ LogOut(c) \/ Killed(c)
          \/ \E started \in BOOLEAN : EndTutorial(c, started)
          \/ \E i \in DOMAIN tries[c] : LoginAnswered(c, i)
          \/ \E stored \in BOOLEAN : ProfileAnswered(c, stored)
    <3>1. Next
      BY <1>1, <2>1 DEF vars
    <3>2. PICK c \in Phones :
            \/ Launch(c) \/ Killed(c) \/ LogOut(c) \/ Back(c) \/ DismissAlert(c)
            \/ \E kind \in Kinds : Open(c, kind)
            \/ \E started \in BOOLEAN : EndTutorial(c, started)
            \/ \E e \in Emails, encoded \in BOOLEAN : PressRegister(c, e, encoded)
            \/ \E e \in Emails : PressLogin(c, e)
            \/ PressUnanswered(c)
            \/ \E i \in DOMAIN tries[c] : Answers(c, i)
            \/ Network(c)
      BY <3>1 DEF Next
    <3>3. ~(Back(c) \/ DismissAlert(c) \/ PressUnanswered(c))
      BY <2>1 DEF Back, DismissAlert, PressUnanswered
    <3>4. ~\E kind \in Kinds : Open(c, kind)
      BY <2>1 DEF Open
    <3>5. ~\E e \in Emails, encoded \in BOOLEAN : PressRegister(c, e, encoded)
      BY <2>1 DEF PressRegister
    <3>6. ~\E e \in Emails : PressLogin(c, e)
      BY <2>1 DEF PressLogin
    <3>7. \A i \in DOMAIN tries[c] : Answers(c, i) => LoginAnswered(c, i)
      BY <2>1 DEF Answers, Uploaded, Grant, Refused, SignedIn, RegisterAnswered
    <3>8. Network(c) => \E stored \in BOOLEAN : ProfileAnswered(c, stored)
      BY <2>1 DEF Network, ServerStores, ConnectionLost
    <3> QED BY <3>2, <3>3, <3>4, <3>5, <3>6, <3>7, <3>8, Zenon
  <2>3. ~(Launch(c) \/ LogOut(c) \/ Killed(c)
          \/ \E started \in BOOLEAN : EndTutorial(c, started))
    BY <1>1, <2>1 DEF Launch, LogOut, Killed, EndTutorial
  <2>4. ASSUME NEW i \in 1..Len(tries[c]), Navigate(c, i)
        PROVE  c = p /\ Presents(c, tries[c][i])
    BY <2>1, <2>4 DEF Navigate
  <2>5. ASSUME NEW i \in DOMAIN tries[c], LoginAnswered(c, i) PROVE FALSE
    <3>1. i \in 1..Len(tries[c])
      BY <1>1, TriesTyped DEF Agreement
    <3> QED BY <1>1, <2>4, <2>5, <3>1, LeavesRegister DEF LoginAnswered
  <2>6. PICK stored \in BOOLEAN : ProfileAnswered(c, stored)
    BY <2>2, <2>3, <2>5
  <2>7. PICK i \in 1..Len(tries[c]) :
          /\ tries[c][i].step = "saving" /\ tries[c][i].uid = Head(pending[Queue(c)]).key
          /\ Navigate(c, i)
    <3>1. PICK i \in DOMAIN tries[c] :
            /\ tries[c][i].step = "saving" /\ tries[c][i].uid = Head(pending[Queue(c)]).key
            /\ ProfileSaved(c, i, stored)
      BY <2>1, <2>6 DEF ProfileAnswered, Saving
    <3>2. i \in 1..Len(tries[c])
      BY <1>1, TriesTyped DEF Agreement
    <3> QED BY <2>1, <3>1, <3>2 DEF ProfileSaved
  <2>8. c = p /\ tries[p][i].kind = "register" /\ tries[p][i].screen = Len(screens[p])
    BY <1>1, <2>4, <2>7, LeavesRegister
  <2>9. PICK t \in Tries : t = tries[p][i] /\ t \in Range(tries[p])
    BY <1>1, <2>7, <2>8, TriesTyped DEF Agreement, Range
  <2>10. server'[t.uid] = ProfileOf(p, t)
    <3>1. stored
      BY <2>1, <2>6 DEF ProfileAnswered, ProfileSaved
    <3>2. server[t.uid] # NoProfile /\ server' = server
      BY <1>1, <2>6, <2>7, <2>8, <2>9, <3>1, AnsweredQueue DEF ProfileAnswered
    <3>3. /\ accountOf[t.email] = t.uid /\ t.email \in Emails /\ t.uid \in DocIds
      BY <1>1, <2>7, <2>8, <2>9 DEF Agreement, TriesSound, Sound, Tries
    <3>4. PICK v \in Profiles : v = server[t.uid] /\ Filed(t.uid, v)
      BY <1>1, <3>2, <3>3 DEF Agreement, TypeOK, ProfilesFiled
    <3>5. v.email \in Emails /\ v.uid = t.uid /\ t.uid # NoAccount
          /\ accountOf[v.email] = t.uid
          /\ v = [uid |-> v.uid, email |-> v.email]
      BY <3>3, <3>4, MarkerAssumption DEF Filed, Profiles
    <3>6. v.email = t.email
      BY <1>1, <3>3, <3>5 DEF Agreement, AccountsDistinct
    <3> QED BY <3>2, <3>4, <3>5, <3>6 DEF ProfileOf
  <2> QED BY <2>8, <2>9, <2>10
<1>2. Agreement /\ [Next]_vars => [\A p \in Phones : Arrives(p)]_vars
  BY <1>1
<1> QED BY <1>2, Agreeing, PTL DEF Spec, HomeAfterProfile

(***************************************************************************)
(* Every step is one of the store, or leaves the store alone.              *)
(***************************************************************************)
LEMMA StoreAlone ==
  ASSUME NEW p \in Phones,
         \/ Launch(p) \/ Back(p) \/ DismissAlert(p) \/ PressUnanswered(p)
         \/ \E kind \in Kinds : Open(p, kind)
         \/ \E started \in BOOLEAN : EndTutorial(p, started)
         \/ \E e \in Emails, encoded \in BOOLEAN : PressRegister(p, e, encoded)
         \/ \E e \in Emails : PressLogin(p, e)
  PROVE  UNCHANGED store
BY DEF Launch, Back, DismissAlert, PressUnanswered, Open, EndTutorial, PressRegister,
       PressLogin

LEMMA ConnectionOnly ==
  ASSUME NEW q \in Devices, Lost(q), UNCHANGED <<server, pending>>
  PROVE  StoreNext(ProfileWrites)
BY DEF StoreNext

LEMMA AnswersAreTheStores ==
  ASSUME Agreement, NEW p \in Phones, NEW i \in 1..Len(tries[p]), Answers(p, i)
  PROVE  StoreNext(ProfileWrites) \/ UNCHANGED store
<1>1. Queue(p) \in Devices
  BY QueueIsDevice DEF Agreement
<1>2. CASE (\E done \in BOOLEAN : Uploaded(p, i, done)) \/ Grant(p, i) \/ Refused(p, i)
           \/ LoginAnswered(p, i)
  BY <1>2 DEF Uploaded, Grant, Refused, LoginAnswered
<1>3. CASE SignedIn(p, i)
  <2>1. Lost(Queue(p)) /\ UNCHANGED <<server, pending>>
    BY <1>3 DEF SignedIn
  <2> QED BY <1>1, <2>1, ConnectionOnly
<1>4. CASE RegisterAnswered(p, i)
  <2>1. PICK t \in Tries : t = tries[p][i]
    BY TriesTyped DEF Agreement
  <2>2. t.uid \in DocIds /\ t.email \in Emails
    BY <1>4, <2>1 DEF RegisterAnswered, Agreement, TriesSound, Sound, Tries
  <2>3. [key |-> t.uid, value |-> ProfileOf(p, t)] \in ProfileWrites
    BY <2>2 DEF ProfileOf, Profiles, ProfileWrites
  <2>4. /\ Enqueue(Queue(p), [key |-> t.uid, value |-> ProfileOf(p, t)])
        /\ UNCHANGED <<server, applied>>
    BY <1>4, <2>1 DEF RegisterAnswered
  <2> QED BY <1>1, <2>3, <2>4 DEF StoreNext
<1> QED BY <1>2, <1>3, <1>4 DEF Answers

LEMMA NetworkIsTheStores ==
  ASSUME Agreement, NEW p \in Phones, Network(p)
  PROVE  StoreNext(ProfileWrites)
<1>1. Queue(p) \in Devices
  BY QueueIsDevice DEF Agreement
<1>2. CASE ServerStores(p)
  BY <1>1, <1>2 DEF ServerStores, StoreNext
<1>3. CASE ConnectionLost(p)
  BY <1>1, <1>3, ConnectionOnly DEF ConnectionLost
<1>4. ASSUME NEW stored \in BOOLEAN, ProfileAnswered(p, stored)
      PROVE  StoreNext(ProfileWrites)
  <2>1. Taken(Queue(p)) /\ UNCHANGED server
    BY <1>4 DEF ProfileAnswered
  <2>2. AnswerRead(Queue(p)) \/ RefusalRead(Queue(p))
    BY <1>4 DEF ProfileAnswered
  <2> QED BY <1>1, <2>1, <2>2 DEF StoreNext
<1> QED BY <1>2, <1>3, <1>4 DEF Network

LEMMA StepIsTheStores == Agreement /\ [Next]_vars => [StoreNext(ProfileWrites)]_store
<1> SUFFICES ASSUME Agreement, [Next]_vars
             PROVE  StoreNext(ProfileWrites) \/ UNCHANGED store
  OBVIOUS
<1>1. CASE UNCHANGED vars
  BY <1>1 DEF vars, store
<1>2. ASSUME NEW p \in Phones, Killed(p) \/ LogOut(p) PROVE StoreNext(ProfileWrites)
  <2>1. Queue(p) \in Devices /\ Lost(Queue(p)) /\ UNCHANGED <<server, pending>>
    BY <1>2, QueueIsDevice DEF Killed, LogOut, Agreement
  <2> QED BY <2>1, ConnectionOnly
<1>3. ASSUME NEW p \in Phones, \E i \in DOMAIN tries[p] : Answers(p, i)
      PROVE  StoreNext(ProfileWrites) \/ UNCHANGED store
  <2>1. PICK i \in 1..Len(tries[p]) : Answers(p, i)
    BY <1>3, TriesTyped DEF Agreement
  <2> QED BY <2>1, AnswersAreTheStores
<1>4. CASE Next
  BY <1>2, <1>3, <1>4, StoreAlone, NetworkIsTheStores DEF Next
<1> QED BY <1>1, <1>4

(***************************************************************************)
(* Registration keeps to what the store promises, whoever is signed in on  *)
(* which phone: neither a change of the user, nor a kill, nor a lost       *)
(* connection drops, moves or reorders a profile that is queued.           *)
(***************************************************************************)
THEOREM RegistrationKeepsToStore == Spec => KeepsToStore
<1>1. Init => StoreInit([u \in DocIds |-> NoProfile])
  BY DEF Init
<1> QED BY <1>1, StepIsTheStores, Agreeing, PTL DEF Spec, KeepsToStore

(***************************************************************************)
(* Whatever is read of an account is its one profile, if there is any: an  *)
(* account has one address, and an address one account.                    *)
(***************************************************************************)
FindsFiled == \A q \in Devices, u \in DocIds :
  /\ Local(q, u) # NoProfile => Local(q, u) \in Profiles /\ Filed(u, Local(q, u))
  /\ Local(q, u) # NoProfile <=> server[u] # NoProfile \/ WritesTo(pending[q], u) # {}

LEMMA ReadsFiled == Agreement => FindsFiled
<1> SUFFICES
      ASSUME Agreement, NEW q \in Devices, NEW u \in DocIds
      PROVE  /\ Local(q, u) # NoProfile => Local(q, u) \in Profiles /\ Filed(u, Local(q, u))
             /\ Local(q, u) # NoProfile <=> server[u] # NoProfile \/ WritesTo(pending[q], u) # {}
  BY DEF FindsFiled
<1>1. pending[q] \in Seq([key : DocIds, value : Profiles])
  BY DEF Agreement, TypeOK
<1>2. CASE WritesTo(pending[q], u) = {}
  <2>1. Local(q, u) = server[u]
    BY <1>2 DEF Local
  <2> QED BY <1>2, <2>1 DEF Agreement, TypeOK, ProfilesFiled
<1>3. CASE WritesTo(pending[q], u) # {}
  <2>1. PICK i \in 1..Len(pending[q]) :
          pending[q][i].key = u /\ Local(q, u) = pending[q][i].value
    BY <1>1, <1>3, LocalIsOwn
  <2>2. pending[q][i] \in [key : DocIds, value : Profiles]
    BY <1>1, ElementOf
  <2>3. Local(q, u) \in Profiles /\ Filed(u, Local(q, u))
    BY <2>1, <2>2 DEF Agreement, ProfilesFiled
  <2> QED BY <1>3, <2>3, MarkerAssumption
<1> QED BY <1>2, <1>3

\* Auth takes no account back.
LEMMA AccountsStay ==
  ASSUME Agreement, [Next]_vars, NEW e \in Emails, accountOf[e] # NoAccount
  PROVE  accountOf'[e] = accountOf[e]
<1>1. CASE UNCHANGED accountOf
  BY <1>1
<1>2. ASSUME NEW p \in Phones, NEW i \in 1..Len(tries[p]), Grant(p, i)
      PROVE  accountOf'[e] = accountOf[e]
  <2>1. tries[p][i].email \in Emails /\ accountOf \in [Emails -> DocIds \cup {NoAccount}]
    BY TriesTyped DEF Agreement, TypeOK, Tries
  <2> QED BY <1>2, <2>1 DEF Grant
<1>3. ASSUME NEW p \in Phones, \E i \in DOMAIN tries[p] : Answers(p, i)
      PROVE  accountOf'[e] = accountOf[e]
  <2>1. PICK i \in 1..Len(tries[p]) : Answers(p, i)
    BY <1>3, TriesTyped DEF Agreement
  <2> QED BY <1>1, <1>2, <2>1 DEF Answers, Uploaded, Refused, SignedIn, RegisterAnswered,
                                  LoginAnswered
<1>4. ASSUME NEW p \in Phones, Network(p) PROVE UNCHANGED accountOf
  BY <1>4 DEF Network, ServerStores, ConnectionLost, ProfileAnswered
<1>5. ASSUME NEW p \in Phones,
             \/ Launch(p) \/ Killed(p) \/ LogOut(p) \/ Back(p) \/ DismissAlert(p)
             \/ \E kind \in Kinds : Open(p, kind)
             \/ \E started \in BOOLEAN : EndTutorial(p, started)
             \/ \E email \in Emails, encoded \in BOOLEAN : PressRegister(p, email, encoded)
             \/ \E email \in Emails : PressLogin(p, email)
             \/ PressUnanswered(p)
      PROVE  UNCHANGED accountOf
  BY <1>5 DEF Launch, Killed, LogOut, Back, DismissAlert, Open, EndTutorial, PressRegister,
              PressLogin, PressUnanswered
<1> QED BY <1>1, <1>3, <1>4, <1>5 DEF Next, vars

\* A profile stays on the server or in its queue, unless its write is refused.
LEMMA StillThere ==
  ASSUME Agreement, StoreNext(ProfileWrites), NEW q \in Devices, NEW u \in DocIds,
         server[u] # NoProfile \/ WritesTo(pending[q], u) # {}
  PROVE  \/ server'[u] # NoProfile \/ WritesTo(pending'[q], u) # {}
         \/ RefusalRead(q) /\ Taken(q) /\ Head(pending[q]).key = u
<1> DEFINE Goal == \/ server'[u] # NoProfile \/ WritesTo(pending'[q], u) # {}
                   \/ RefusalRead(q) /\ Taken(q) /\ Head(pending[q]).key = u
<1>1. /\ pending \in [Devices -> Seq(ProfileWrites)] /\ AppliedOK
      /\ server \in [DocIds -> Profiles \cup {NoProfile}]
  BY DEF Agreement, TypeOK, ProfileWrites
<1>2. CASE UNCHANGED <<server, pending>>
  BY <1>2 DEF WritesTo
<1>3. ASSUME NEW d \in Devices, NEW w \in ProfileWrites, Enqueue(d, w), UNCHANGED server
      PROVE  Goal
  <2>1. CASE server[u] # NoProfile
    BY <1>3, <2>1
  <2>2. CASE WritesTo(pending[q], u) # {} /\ q = d
    <3>1. PICK i \in 1..Len(pending[q]) : pending[q][i].key = u
      BY <2>2 DEF WritesTo
    <3>2. PICK s : s = Append(pending[q], w)
      OBVIOUS
    <3>3. pending[q] \in Seq(ProfileWrites) /\ Len(pending[q]) \in Nat
      BY <1>1
    <3>4. i \in 1..Len(s) /\ s[i] = pending[q][i]
      BY <3>2, <3>3
    <3>5. pending'[q] = s
      BY <1>1, <1>3, <2>2, <3>2 DEF Enqueue
    <3> QED BY <3>1, <3>4, <3>5 DEF WritesTo
  <2>3. CASE WritesTo(pending[q], u) # {} /\ q # d
    BY <1>1, <1>3, <2>3 DEF Enqueue, WritesTo
  <2> QED BY <2>1, <2>2, <2>3
<1>4. ASSUME NEW d \in Devices, Store(d), UNCHANGED pending PROVE Goal
  <2>1. PICK w \in ProfileWrites : server' = [server EXCEPT ![w.key] = w.value]
    BY <1>1, <1>4, StoresQueued
  <2>2. w.value # NoProfile
    BY MarkerAssumption DEF ProfileWrites
  <2>3. server[u] # NoProfile => server'[u] # NoProfile
    BY <1>1, <2>1, <2>2
  <2> QED BY <1>4, <2>3 DEF WritesTo
<1>5. ASSUME NEW d \in Devices, AnswerRead(d) \/ RefusalRead(d), Taken(d), UNCHANGED server
      PROVE  Goal
  <2>1. CASE server[u] # NoProfile
    BY <1>5, <2>1
  <2>2. CASE WritesTo(pending[q], u) # {} /\ q # d
    BY <1>1, <1>5, <2>2 DEF Taken, WritesTo
  <2>3. CASE WritesTo(pending[q], u) # {} /\ q = d
    <3>1. PICK i \in 1..Len(pending[q]) : pending[q][i].key = u
      BY <2>3 DEF WritesTo
    <3>2. PICK s : s = Tail(pending[q])
      OBVIOUS
    <3>3. pending[q] \in Seq(ProfileWrites) /\ pending[q] # <<>>
      BY <1>1, <3>1
    <3>4. pending[q][1] = Head(pending[q]) /\ 1 \in 1..Len(pending[q])
          /\ (i # 1 => i - 1 \in 1..Len(s) /\ s[i - 1] = pending[q][i])
      BY <3>2, <3>3, HeadTailParts
    <3>5. pending'[q] = s
      BY <1>1, <1>5, <2>3, <3>2 DEF Taken, Rest
    <3>6. CASE i # 1
      BY <3>1, <3>4, <3>5, <3>6 DEF WritesTo
    <3>7. CASE i = 1 /\ RefusalRead(d)
      BY <1>5, <2>3, <3>1, <3>4, <3>7
    <3>8. CASE i = 1 /\ AnswerRead(d)
      <4>1. 1 <= applied[q]
        BY <1>1, <2>3, <3>8 DEF AnswerRead, AppliedOK
      <4>2. server[pending[q][1].key] # NoProfile
        BY <3>4, <4>1 DEF Agreement, AppliedIsStored
      <4> QED BY <1>5, <3>1, <3>8, <4>2
    <3> QED BY <1>5, <3>6, <3>7, <3>8
  <2> QED BY <2>1, <2>2, <2>3
<1> QED BY <1>2, <1>3, <1>4, <1>5 DEF StoreNext

(***************************************************************************)
(* A profile that a phone has once found is found again, the same, as long *)
(* as the write it was read from is not refused: fetchUser of Home and of  *)
(* every other screen never loses the user it has had.                     *)
(***************************************************************************)
THEOREM ProfileIsFoundAgain == Spec => ProfileStays
<1> DEFINE Found == \A q \in Devices, u \in DocIds :
                      Local(q, u) # NoProfile =>
                        \/ Local(q, u)' = Local(q, u)
                        \/ RefusalRead(q) /\ Taken(q) /\ Head(pending[q]).key = u
<1>1. Agreement /\ Agreement' /\ FindsFiled /\ FindsFiled' /\ [Next]_vars => [Found]_vars
  <2> SUFFICES ASSUME Agreement, Agreement', FindsFiled, FindsFiled', [Next]_vars,
                      NEW q \in Devices, NEW u \in DocIds,
                      Local(q, u) # NoProfile,
                      ~(RefusalRead(q) /\ Taken(q) /\ Head(pending[q]).key = u)
               PROVE  Local(q, u)' = Local(q, u)
    OBVIOUS
  <2>1. Local(q, u) \in Profiles /\ Filed(u, Local(q, u))
        /\ (server[u] # NoProfile \/ WritesTo(pending[q], u) # {})
    BY DEF FindsFiled
  <2>2. CASE UNCHANGED store
    BY <2>2 DEF store, Local, WritesTo, LastWriteTo
  <2>3. CASE StoreNext(ProfileWrites)
    <3>1. server'[u] # NoProfile \/ WritesTo(pending'[q], u) # {}
      BY <2>1, <2>3, StillThere
    <3>2. Local(q, u)' # NoProfile =>
            Local(q, u)' \in Profiles /\ Filed(u, Local(q, u))'
      BY DEF FindsFiled
    <3>3. Local(q, u)' # NoProfile
      BY <3>1 DEF FindsFiled
    <3>4. PICK v \in Profiles, w \in Profiles : v = Local(q, u) /\ w = Local(q, u)'
      BY <2>1, <3>2, <3>3
    <3>5. /\ v.uid = u /\ w.uid = u /\ v.email \in Emails /\ w.email \in Emails
          /\ accountOf[v.email] = u /\ accountOf'[w.email] = u /\ u # NoAccount
      BY <2>1, <3>2, <3>3, <3>4, MarkerAssumption DEF Filed, Profiles
    <3>6. accountOf'[v.email] = u
      BY <3>5, AccountsStay
    <3>7. v.email = w.email
      BY <3>5, <3>6 DEF Agreement, AccountsDistinct
    <3> QED BY <3>4, <3>5, <3>7 DEF Profiles
  <2>4. [StoreNext(ProfileWrites)]_store
    BY StepIsTheStores
  <2> QED BY <2>2, <2>3, <2>4
<1> HIDE DEF Found
<1> QED BY <1>1, ReadsFiled, Agreeing, PTL DEF Spec, ProfileStays, Found
================================================================================
