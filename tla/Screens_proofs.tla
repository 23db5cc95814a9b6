---------------------------- MODULE Screens_proofs ----------------------------
(***************************************************************************)
(* Proofs about Screens, for any words, tips and languages, and photos of  *)
(* any length.                                                             *)
(***************************************************************************)
EXTENDS Screens, OrderLemmas, SequenceTheorems

(***************************************************************************)
(* Titles: sequences of words in which none comes twice.                   *)
(***************************************************************************)
LEMMA TitleParts ==
  ASSUME NEW s \in Seq(Words)
  PROVE  /\ Len(s) \in Nat /\ DOMAIN s = 1..Len(s)
         /\ \A i \in 1..Len(s) : s[i] \in Words /\ s[i] \in P!Range(s)
         /\ \A w \in P!Range(s) : \E i \in 1..Len(s) : w = s[i]
BY LenProperties, ElementOfSeq DEF P!Range

LEMMA RemovedAt ==
  ASSUME NEW s \in Seq(Words), NEW i \in 1..Len(s)
  PROVE  /\ P!RemoveAt(s, i) \in Seq(Words)
         /\ Len(P!RemoveAt(s, i)) = Len(s) - 1
         /\ \A j \in 1..(Len(s) - 1) :
              P!RemoveAt(s, i)[j] = IF j < i THEN s[j] ELSE s[j + 1]
<1>1. Len(s) \in Nat /\ \A j \in 1..Len(s) : s[j] \in Words
  BY TitleParts
<1>2. PICK before : before = SubSeq(s, 1, i - 1)
  OBVIOUS
<1>3. PICK after : after = SubSeq(s, i + 1, Len(s))
  OBVIOUS
<1>4. /\ before \in Seq(Words) /\ Len(before) = i - 1
      /\ \A j \in 1..(i - 1) : before[j] = s[j]
  BY <1>1, <1>2
<1>5. /\ after \in Seq(Words) /\ Len(after) = Len(s) - i
      /\ \A j \in 1..(Len(s) - i) : after[j] = s[i + j]
  BY <1>1, <1>3
<1>6. PICK r : r = before \o after
  OBVIOUS
<1>7. /\ r \in Seq(Words) /\ Len(r) = (i - 1) + (Len(s) - i)
      /\ \A j \in 1..((i - 1) + (Len(s) - i)) :
           r[j] = IF j <= i - 1 THEN before[j] ELSE after[j - (i - 1)]
  <2>1. /\ r \in Seq(Words) /\ Len(r) = Len(before) + Len(after)
        /\ \A j \in 1..(Len(before) + Len(after)) :
             r[j] = IF j <= Len(before) THEN before[j] ELSE after[j - Len(before)]
    BY <1>4, <1>5, <1>6, ConcatProperties
  <2> QED BY <1>4, <1>5, <2>1
<1>8. Len(r) = Len(s) - 1
  BY <1>1, <1>7
<1>9. ASSUME NEW j \in 1..(Len(s) - 1), j < i PROVE r[j] = s[j]
  <2>1. j \in 1..(i - 1) /\ j <= i - 1
    BY <1>1, <1>9
  <2>2. j \in 1..((i - 1) + (Len(s) - i))
    BY <1>1
  <2> QED BY <1>4, <1>7, <2>1, <2>2
<1>10. ASSUME NEW j \in 1..(Len(s) - 1), ~(j < i) PROVE r[j] = s[j + 1]
  <2>1. r[j] = after[j - (i - 1)]
    BY <1>1, <1>7, <1>10
  <2>2. j - (i - 1) \in 1..(Len(s) - i) /\ i + (j - (i - 1)) = j + 1
    BY <1>1, <1>10
  <2> QED BY <1>5, <2>1, <2>2
<1>11. r = P!RemoveAt(s, i)
  BY <1>2, <1>3, <1>6 DEF P!RemoveAt
<1> QED BY <1>7, <1>8, <1>9, <1>10, <1>11

\* The place that RemoveFirst finds.
LEMMA FirstPlace ==
  ASSUME NEW s \in Seq(Words), NEW w \in P!Range(s)
  PROVE  \E k \in 1..Len(s) : s[k] = w /\ P!RemoveFirst(s, w) = P!RemoveAt(s, k)
<1> DEFINE places == {i \in 1..Len(s) : s[i] = w}
<1>1. places \subseteq Nat /\ places # {} /\ (\E i \in 1..Len(s) : s[i] = w)
  BY TitleParts
<1>2. \E x \in places : \A y \in places : x <= y
  <2> HIDE DEF places
  <2> QED BY <1>1, HasLeast
<1>3. PICK k : k = P!Min(places)
  OBVIOUS
<1>4. k \in places
  <2> HIDE DEF places
  <2> QED BY <1>2, <1>3 DEF P!Min
<1>5. P!RemoveFirst(s, w) = P!RemoveAt(s, k)
  BY <1>1, <1>3 DEF P!RemoveFirst, P!SelectInSeq
<1> QED BY <1>4, <1>5

LEMMA FirstRemoved ==
  ASSUME NEW s \in Seq(Words), P!IsInjective(s), NEW w \in P!Range(s)
  PROVE  /\ P!RemoveFirst(s, w) \in Seq(Words)
         /\ P!IsInjective(P!RemoveFirst(s, w))
         /\ P!Range(P!RemoveFirst(s, w)) = P!Range(s) \ {w}
<1>1. PICK k \in 1..Len(s) : s[k] = w /\ P!RemoveFirst(s, w) = P!RemoveAt(s, k)
  BY FirstPlace
<1>2. PICK r : r = P!RemoveAt(s, k)
  OBVIOUS
<1>3. /\ r \in Seq(Words) /\ Len(r) = Len(s) - 1
      /\ \A j \in 1..(Len(s) - 1) : r[j] = IF j < k THEN s[j] ELSE s[j + 1]
  BY <1>2, RemovedAt
<1>4. Len(s) \in Nat /\ DOMAIN s = 1..Len(s) /\ DOMAIN r = 1..Len(r)
  BY <1>3, TitleParts
<1>5. \A i, j \in 1..Len(s) : s[i] = s[j] => i = j
  BY <1>4 DEF P!IsInjective
<1> DEFINE At(x) == IF x < k THEN x ELSE x + 1
<1>6. \A x \in 1..Len(r) : At(x) \in 1..Len(s) /\ At(x) # k /\ r[x] = s[At(x)]
  BY <1>3, <1>4
<1>7. \A x, y \in 1..Len(r) : At(x) = At(y) => x = y
  BY <1>3, <1>4
<1>8. \A i \in 1..Len(s) : i # k => \E x \in 1..Len(r) : At(x) = i
  <2> SUFFICES ASSUME NEW i \in 1..Len(s), i # k
               PROVE  \E x \in 1..Len(r) : At(x) = i
    OBVIOUS
  <2>1. CASE i < k
    BY <1>3, <1>4, <2>1
  <2>2. CASE i > k
    <3>1. i - 1 \in 1..Len(r) /\ At(i - 1) = i
      BY <1>3, <1>4, <2>2
    <3> QED
      <4> HIDE DEF At
      <4> QED BY <3>1
  <2> QED BY <1>4, <2>1, <2>2
<1> HIDE DEF At
<1>9. P!IsInjective(r)
  <2>1. ASSUME NEW x \in 1..Len(r), NEW y \in 1..Len(r), r[x] = r[y] PROVE x = y
    BY <1>5, <1>6, <1>7, <2>1
  <2> QED BY <1>4, <2>1 DEF P!IsInjective
<1>10. P!Range(r) \subseteq P!Range(s) \ {w}
  <2>1. ASSUME NEW x \in 1..Len(r) PROVE r[x] \in P!Range(s) /\ r[x] # w
    BY <1>1, <1>5, <1>6, TitleParts
  <2> QED BY <1>3, <2>1, TitleParts
<1>11. P!Range(s) \ {w} \subseteq P!Range(r)
  <2>1. ASSUME NEW i \in 1..Len(s), s[i] # w PROVE s[i] \in P!Range(r)
    <3>1. PICK x \in 1..Len(r) : At(x) = i
      BY <1>1, <1>8, <2>1
    <3> QED BY <1>3, <1>6, <3>1, TitleParts
  <2> QED BY <2>1, TitleParts
<1> QED BY <1>1, <1>2, <1>3, <1>9, <1>10, <1>11

LEMMA WordAppended ==
  ASSUME NEW s \in Seq(Words), P!IsInjective(s), NEW w \in Words, w \notin P!Range(s)
  PROVE  /\ Append(s, w) \in Seq(Words)
         /\ P!IsInjective(Append(s, w))
         /\ P!Range(Append(s, w)) = P!Range(s) \cup {w}
<1>1. PICK t \in Seq(Words) : t = Append(s, w)
  BY AppendProperties
<1>2. /\ Len(t) = Len(s) + 1 /\ t[Len(s) + 1] = w
      /\ \A i \in 1..Len(s) : t[i] = s[i]
  BY <1>1, AppendProperties
<1>3. Len(s) \in Nat /\ DOMAIN s = 1..Len(s) /\ DOMAIN t = 1..Len(t)
  BY TitleParts
<1>4. \A i \in 1..Len(t) : i \in 1..Len(s) \/ i = Len(s) + 1
  BY <1>2, <1>3
<1>5. \A i \in 1..Len(s) : i \in 1..Len(t) /\ s[i] # w
  BY <1>2, <1>3, TitleParts
<1>6. Len(s) + 1 \in 1..Len(t)
  BY <1>2, <1>3
<1>7. P!IsInjective(t)
  <2>1. \A i, j \in 1..Len(s) : s[i] = s[j] => i = j
    BY <1>3 DEF P!IsInjective
  <2>2. ASSUME NEW i \in 1..Len(t), NEW j \in 1..Len(t), t[i] = t[j] PROVE i = j
    BY <1>2, <1>4, <1>5, <2>1, <2>2
  <2> QED BY <1>3, <2>2 DEF P!IsInjective
<1>8. P!Range(t) \subseteq P!Range(s) \cup {w}
  BY <1>2, <1>4, TitleParts
<1>9. P!Range(s) \cup {w} \subseteq P!Range(t)
  BY <1>2, <1>5, <1>6, TitleParts
<1> QED BY <1>1, <1>7, <1>8, <1>9

(***************************************************************************)
(* The title picker.                                                       *)
(***************************************************************************)
PickerOK == P!PickerTypeOK /\ P!TitleIsTicked

LEMMA PhotoParts ==
  ASSUME NEW photo \in P!Photos
  PROVE  photo \in Seq(Words)
BY SeqDef, BoundAssumption DEF P!Photos

LEMMA NoPhoto == <<>> \in P!Photos
<1>1. <<>> \in [1..0 -> Words]
  <2>1. 1..0 = {} /\ DOMAIN <<>> = {}
    OBVIOUS
  <2>2. <<>> = [i \in {} |-> <<>>[i]]
    OBVIOUS
  <2> QED BY <2>1, <2>2
<1>2. 0 \in 0..MaxWords
  BY BoundAssumption
<1> QED BY <1>1, <1>2, Zenon DEF P!Photos

LEMMA ClosedPicker ==
  ASSUME words = <<>>, title = <<>>, text = <<>>, ticked = <<>>, enabled = FALSE
  PROVE  PickerOK
<1>1. <<>> \in P!Photos
  BY NoPhoto
<1>2. DOMAIN words = {} /\ DOMAIN title = {}
  OBVIOUS
<1>3. P!Range(title) = {} /\ P!IsInjective(title)
  BY <1>2 DEF P!Range, P!IsInjective
<1>4. ticked \in [DOMAIN words -> BOOLEAN]
  BY <1>2
<1>5. {words[i] : i \in {j \in DOMAIN words : ticked[j]}} = {}
  BY <1>2
<1>6. P!PickerTypeOK
  <2>1. words \in P!Photos /\ title \in Seq(Words) /\ text \in Seq(Words)
    BY <1>1, PhotoParts, Zenon
  <2> QED BY <1>4, <2>1 DEF P!PickerTypeOK
<1> QED BY <1>3, <1>5, <1>6 DEF PickerOK, P!TitleIsTicked

LEMMA CloseKeepsPicker ==
  ASSUME P!Close
  PROVE  PickerOK'
<1>1. words' = <<>> /\ title' = <<>> /\ text' = <<>> /\ ticked' = <<>> /\ enabled' = FALSE
  BY DEF P!Close
<1>2. <<>> \in P!Photos
  BY NoPhoto
<1>3. DOMAIN words' = {} /\ DOMAIN title' = {}
  BY <1>1
<1>4. P!Range(title') = {} /\ P!IsInjective(title')
  BY <1>3 DEF P!Range, P!IsInjective
<1>5. ticked' \in [DOMAIN words' -> BOOLEAN]
  BY <1>1
<1>6. {words'[i] : i \in {j \in DOMAIN words' : ticked'[j]}} = {}
  BY <1>3
<1>7. P!PickerTypeOK'
  <2>1. words' \in P!Photos /\ title' \in Seq(Words) /\ text' \in Seq(Words)
    BY <1>1, <1>2, PhotoParts, Zenon
  <2> QED BY <1>1, <1>5, <2>1 DEF P!PickerTypeOK
<1> QED BY <1>1, <1>4, <1>6, <1>7 DEF PickerOK, P!TitleIsTicked

\* All words of a new photo are ticked.
LEMMA PhotoShown ==
  ASSUME NEW photo \in P!Photos, P!Show(photo), enabled' \in BOOLEAN
  PROVE  PickerOK'
<1>1. photo \in Seq(Words)
  BY PhotoParts
<1>2. /\ words' = photo /\ title' = photo /\ text' = photo
      /\ ticked' = [i \in DOMAIN photo |-> TRUE]
  BY DEF P!Show
<1>3. P!Range(photo) = {photo[i] : i \in {j \in DOMAIN photo : ticked'[j]}}
  BY <1>2 DEF P!Range
<1> QED BY <1>1, <1>2, <1>3 DEF PickerOK, P!PickerTypeOK, P!TitleIsTicked

\* A touch changes one tick, and the title by the word of that cell, which is
\* in the title if and only if it is ticked.
LEMMA TouchKeeps ==
  ASSUME PickerOK, NEW i, P!Touch(i)
  PROVE  PickerOK'
<1>1. /\ i \in DOMAIN words /\ words' = words /\ text' = title'
      /\ ticked' = [ticked EXCEPT ![i] = ~@] /\ enabled' \in BOOLEAN
  BY DEF P!Touch
<1>2. /\ words \in P!Photos /\ title \in Seq(Words)
      /\ ticked \in [DOMAIN words -> BOOLEAN]
  BY DEF PickerOK, P!PickerTypeOK
<1>3. PICK w \in Words : w = words[i]
  BY <1>1, <1>2, PhotoParts, TitleParts
<1>4. /\ w \in P!Range(title) => title' = P!RemoveFirst(title, w)
      /\ w \notin P!Range(title) => title' = Append(title, w)
  BY <1>3 DEF P!Touch
<1>5. title' \in Seq(Words)
  <2>1. CASE w \in P!Range(title)
    BY <1>2, <1>4, <2>1, FirstPlace, RemovedAt
  <2>2. CASE w \notin P!Range(title)
    BY <1>2, <1>4, <2>2, AppendProperties
  <2> QED BY <2>1, <2>2
<1>6. ticked' \in [DOMAIN words' -> BOOLEAN]
  BY <1>1, <1>2
<1>7. P!PickerTypeOK'
  BY <1>1, <1>2, <1>5, <1>6 DEF P!PickerTypeOK
<1>8. ASSUME P!IsInjective(words)
      PROVE  /\ P!IsInjective(title')
             /\ P!Range(title') = {words[k] : k \in {j \in DOMAIN words : ticked'[j]}}
  <2> DEFINE Picked == {words[k] : k \in {j \in DOMAIN words : ticked[j]}}
             PickedNow == {words[k] : k \in {j \in DOMAIN words : ticked'[j]}}
  <2>1. P!IsInjective(title) /\ P!Range(title) = Picked
    BY <1>8 DEF PickerOK, P!TitleIsTicked
  <2>2. \A j \in DOMAIN words : words[j] = w => j = i
    BY <1>1, <1>3, <1>8 DEF P!IsInjective
  <2>3. w \in Picked <=> ticked[i]
    BY <1>1, <1>3, <2>2
  <2>4. CASE ticked[i]
    <3>1. PickedNow = Picked \ {w}
      BY <1>1, <1>2, <1>3, <2>2, <2>4
    <3>2. P!IsInjective(title') /\ P!Range(title') = P!Range(title) \ {w}
      <4>1. w \in P!Range(title)
        BY <2>1, <2>3, <2>4
      <4> QED BY <1>2, <1>4, <2>1, <4>1, FirstRemoved
    <3> QED BY <2>1, <3>1, <3>2
  <2>5. CASE ~ticked[i]
    <3>1. PickedNow = Picked \cup {w}
      BY <1>1, <1>2, <1>3, <2>2, <2>5
    <3>2. P!IsInjective(title') /\ P!Range(title') = P!Range(title) \cup {w}
      <4>1. w \notin P!Range(title)
        BY <2>1, <2>3, <2>5
      <4> QED BY <1>2, <1>4, <2>1, <4>1, WordAppended
    <3> QED BY <2>1, <3>1, <3>2
  <2> QED BY <2>4, <2>5
<1> QED BY <1>1, <1>7, <1>8 DEF PickerOK, P!TitleIsTicked

\* A cell that is drawn again has the tick it had.
LEMMA RedrawKeeps ==
  ASSUME PickerOK, NEW i, P!Redraw(i)
  PROVE  PickerOK'
<1>1. /\ i \in DOMAIN words /\ UNCHANGED <<words, title, text, enabled>>
      /\ ticked' = [ticked EXCEPT ![i] = words[i] \in P!Range(title)]
  BY DEF P!Redraw
<1>2. ticked \in [DOMAIN words -> BOOLEAN]
  BY DEF PickerOK, P!PickerTypeOK
<1>3. P!PickerTypeOK'
  BY <1>1, <1>2 DEF PickerOK, P!PickerTypeOK
<1>4. ASSUME P!IsInjective(words)
      PROVE  ticked' = ticked
  <2>1. P!Range(title) = {words[k] : k \in {j \in DOMAIN words : ticked[j]}}
    BY <1>4 DEF PickerOK, P!TitleIsTicked
  <2>2. \A j \in DOMAIN words : words[j] = words[i] => j = i
    BY <1>1, <1>4 DEF P!IsInjective
  <2>3. words[i] \in P!Range(title) <=> ticked[i]
    BY <1>1, <2>1, <2>2
  <2>4. (words[i] \in P!Range(title)) = ticked[i]
    BY <1>1, <1>2, <2>3
  <2> QED BY <1>1, <1>2, <2>4
<1> QED BY <1>1, <1>3, <1>4 DEF PickerOK, P!TitleIsTicked

LEMMA PickerKept ==
  ASSUME PickerOK, UNCHANGED pickerVars
  PROVE  PickerOK'
BY DEF PickerOK, P!PickerTypeOK, P!TitleIsTicked, pickerVars

(***************************************************************************)
(* The tips.                                                               *)
(***************************************************************************)
TipsOK == T!TipsTypeOK /\ T!OneTip

LEMMA ClosedTips ==
  ASSUME T!Closed
  PROVE  TipsOK
BY DEF T!Closed, TipsOK, T!TipsTypeOK, T!OneTip, T!Opens

LEMMA CloseKeepsTips ==
  ASSUME T!Close
  PROVE  TipsOK'
BY DEF T!Close, TipsOK, T!TipsTypeOK, T!OneTip, T!Opens

\* A touch opens a tip only if there is none but fading ones, and else dismisses
\* the last one.
LEMMA StarTouchKeeps ==
  ASSUME TipsOK, NEW a \in Achievements, T!Touch(a)
  PROVE  TipsOK'
<1>1. /\ flag' = [flag EXCEPT ![a] = T!Opens(a)]
      /\ oneIsOpen' = T!Opens(a)
  BY DEF T!Touch
<1>2. /\ flag \in [Achievements -> BOOLEAN] /\ oneIsOpen \in BOOLEAN
      /\ tipView \in Achievements \cup {NoTip}
      /\ visible \subseteq Achievements /\ leaving \subseteq Achievements
      /\ disabled \subseteq Achievements
      /\ visible \subseteq {tipView} /\ (visible # {} => oneIsOpen)
  BY DEF TipsOK, T!TipsTypeOK, T!OneTip
<1>3. CASE T!Opens(a)
  <2>1. visible = {} /\ visible' = {a} /\ tipView' = a
        /\ leaving' = leaving /\ disabled' = disabled
    BY <1>2, <1>3 DEF T!Touch, T!Opens
  <2>2. flag' \in [Achievements -> BOOLEAN] /\ oneIsOpen' = TRUE
    BY <1>1, <1>2, <1>3
  <2>3. a # NoTip
    BY TipAssumption
  <2> QED BY <1>2, <2>1, <2>2, <2>3 DEF TipsOK, T!TipsTypeOK, T!OneTip, T!Opens
<1>4. CASE ~T!Opens(a)
  <2>1. /\ visible' = {} /\ tipView' = tipView
        /\ leaving' \subseteq Achievements
        /\ disabled' = disabled \cup {a}
    BY <1>2, <1>4 DEF T!Touch, T!Dismiss
  <2>2. flag' \in [Achievements -> BOOLEAN] /\ oneIsOpen' = FALSE
    <3>1. T!Opens(a) = FALSE
      BY <1>2, <1>4 DEF T!Opens
    <3> QED BY <1>1, <1>2, <3>1
  <2>3. tipView # NoTip
    BY <1>4 DEF TipsOK, T!OneTip
  <2> QED BY <1>2, <2>1, <2>2, <2>3 DEF TipsOK, T!TipsTypeOK, T!OneTip
<1> QED BY <1>3, <1>4

LEMMA TipStepKeeps ==
  ASSUME TipsOK, T!Step
  PROVE  TipsOK'
<1>1. PICK a \in Achievements : 
        T!Touch(a) \/ T!Enable(a) \/ T!TouchTip(a) \/ T!Faded(a)
  BY DEF T!Step
<1>2. CASE T!Touch(a)
  BY <1>2, StarTouchKeeps
<1>3. CASE T!Enable(a)
  BY <1>3 DEF T!Enable, TipsOK, T!TipsTypeOK, T!OneTip, T!Opens
<1>4. CASE T!TouchTip(a)
  BY <1>4 DEF T!TouchTip, T!Dismiss, TipsOK, T!TipsTypeOK, T!OneTip, T!Opens
<1>5. CASE T!Faded(a)
  BY <1>5 DEF T!Faded, TipsOK, T!TipsTypeOK, T!OneTip, T!Opens
<1> QED BY <1>1, <1>2, <1>3, <1>4, <1>5

LEMMA TipsKept ==
  ASSUME TipsOK, UNCHANGED tipVars
  PROVE  TipsOK'
BY DEF TipsOK, T!TipsTypeOK, T!OneTip, T!Opens, tipVars

(***************************************************************************)
(* The language.                                                           *)
(***************************************************************************)
Fronts == {"off", "home", "picker", "settings", "appSettings"}

LanguageOK == front \in Fronts /\ L!LanguageTypeOK /\ LanguageSound

LEMMA TwoLanguages ==
  /\ L!Languages = {English, Romanian}
  /\ L!languagesArray[1] = English /\ L!languagesArray[2] = Romanian
  /\ L!Rows = {0, 1}
  /\ \A r \in L!Rows : L!languagesArray[r + 1] \in L!Languages
  /\ None \notin L!Languages /\ None \notin L!Rows
<1>1. DOMAIN L!languagesArray = {1, 2}
  BY DEF L!languagesArray
<1>2. L!languagesArray[1] = English /\ L!languagesArray[2] = Romanian
  BY DEF L!languagesArray
<1>3. L!Languages = {English, Romanian}
  BY <1>1, <1>2 DEF L!Languages, L!Range
<1>4. L!Rows = {0, 1}
  BY DEF L!Rows
<1>5. \A r \in L!Rows : L!languagesArray[r + 1] \in L!Languages
  BY <1>2, <1>3, <1>4
<1> QED BY <1>2, <1>3, <1>4, <1>5, LanguageAssumption

LEMMA RowOfLanguage ==
  ASSUME NEW language \in L!Languages
  PROVE  /\ L!RowOf(language) \in L!Rows
         /\ L!languagesArray[L!RowOf(language) + 1] = language
<1>1. \E r \in L!Rows : L!languagesArray[r + 1] = language
  BY TwoLanguages
<1> QED BY <1>1 DEF L!RowOf

LEMMA StartKeeps ==
  ASSUME LanguageOK, L!Start, front' = "home"
  PROVE  LanguageOK'
<1>1. bundle' \in L!Languages /\ shortLanguage' = bundle'
      /\ (selectionMade => bundle' = shortLanguage)
      /\ (~selectionMade => bundle' = phone)
  BY TwoLanguages DEF L!Start, LanguageOK, L!LanguageTypeOK, LanguageSound
<1>2. UNCHANGED <<phone, selectionMade, userLanguage, userLanguageRow, pickerData,
                  wheel, dropdown, reloads>>
  BY DEF L!Start, L!screen
<1> QED BY <1>1, <1>2 DEF LanguageOK, L!LanguageTypeOK, LanguageSound, Fronts

\* setUserLanguage: App Settings takes over the language of the phone.
LEMMA OpenKeeps ==
  ASSUME LanguageOK, front # "off", L!Open, front' = "appSettings",
         reloads' \in 0..MaxReloads
  PROVE  LanguageOK'
<1>1. UNCHANGED <<phone, selectionMade, shortLanguage, bundle>>
      /\ pickerData' = None /\ dropdown' = FALSE /\ wheel' = userLanguageRow'
  BY DEF L!Open
<1>2. CASE selectionMade
  <2>1. UNCHANGED <<userLanguage, userLanguageRow>>
    BY <1>2 DEF L!Open
  <2> QED BY <1>1, <1>2, <2>1 DEF LanguageOK, L!LanguageTypeOK, LanguageSound, Fronts
<1>3. CASE ~selectionMade
  <2>1. userLanguage' = phone /\ userLanguageRow' = L!RowOf(phone)
    BY <1>3 DEF L!Open
  <2>2. phone \in L!Languages
    BY DEF LanguageOK, L!LanguageTypeOK
  <2>3. userLanguageRow' \in L!Rows /\ L!languagesArray[userLanguageRow' + 1] = phone
    BY <2>1, <2>2, RowOfLanguage
  <2> QED BY <1>1, <1>3, <2>1, <2>2, <2>3
        DEF LanguageOK, L!LanguageTypeOK, LanguageSound, Fronts
<1> QED BY <1>2, <1>3

\* handleDonePressed sets every copy, or the language was that already, in which
\* case every copy agrees.
LEMMA DoneKeeps ==
  ASSUME LanguageOK, front = "appSettings", L!Done, front' = front
  PROVE  LanguageOK'
<1>1. dropdown' = FALSE /\ UNCHANGED <<phone, pickerData, wheel>>
  BY DEF L!Done
<1>2. CASE pickerData = None
  <2>1. UNCHANGED <<selectionMade, userLanguage, shortLanguage, userLanguageRow,
                    bundle, reloads>>
    BY <1>2 DEF L!Done, L!defaults
  <2> QED BY <1>1, <2>1 DEF LanguageOK, L!LanguageTypeOK, LanguageSound
<1>3. CASE pickerData # None
  <2>1. PICK language : language = L!languagesArray[pickerData + 1]
    OBVIOUS
  <2>2. pickerData \in L!Rows /\ language \in L!Languages
    BY <1>3, <2>1, TwoLanguages DEF LanguageOK, L!LanguageTypeOK
  <2>3. /\ selectionMade' = TRUE /\ userLanguage' = language
        /\ shortLanguage' = language /\ userLanguageRow' = pickerData
    BY <1>3, <2>1 DEF L!Done
  <2>4. bundle' = language /\ reloads' \in 0..MaxReloads
    <3>1. CASE userLanguage # language
      BY <1>3, <2>1, <3>1, BoundAssumption DEF L!Done, LanguageOK, L!LanguageTypeOK
    <3>2. CASE userLanguage = language
      <4>1. UNCHANGED <<bundle, reloads>>
        BY <1>3, <2>1, <3>2 DEF L!Done
      <4>2. bundle = language
        BY <3>2 DEF LanguageOK, LanguageSound
      <4> QED BY <4>1, <4>2 DEF LanguageOK, L!LanguageTypeOK
    <3> QED BY <3>1, <3>2
  <2>5. L!LanguageTypeOK'
    BY <1>1, <2>2, <2>3, <2>4 DEF LanguageOK, L!LanguageTypeOK
  <2> QED BY <1>1, <2>1, <2>2, <2>3, <2>4, <2>5 DEF LanguageOK, LanguageSound
<1> QED BY <1>2, <1>3

LEMMA UseAppSettingsKeeps ==
  ASSUME LanguageOK, front = "appSettings", L!Step, front' = front
  PROVE  LanguageOK'
<1>1. CASE L!Done
  BY <1>1, DoneKeeps
<1>2. CASE L!PressDropdown
  BY <1>2 DEF L!PressDropdown, L!defaults, LanguageOK, L!LanguageTypeOK, LanguageSound
<1>3. CASE \E r \in L!Rows : L!Select(r)
  BY <1>3 DEF L!Select, L!defaults, LanguageOK, L!LanguageTypeOK, LanguageSound
<1> QED BY <1>1, <1>2, <1>3 DEF L!Step

LEMMA LanguageKept ==
  ASSUME LanguageOK, UNCHANGED languageVars, front' \in Fronts,
         front' # "off" => front # "off",
         front' = "appSettings" => front = "appSettings"
  PROVE  LanguageOK'
BY DEF LanguageOK, L!LanguageTypeOK, LanguageSound, languageVars

LEMMA StopKeeps ==
  ASSUME LanguageOK, L!Stop, front' = "off"
  PROVE  LanguageOK'
<1>1. /\ bundle' = None /\ reloads' = 0
      /\ pickerData' = None /\ wheel' = 0 /\ dropdown' = FALSE
      /\ UNCHANGED <<phone, selectionMade, userLanguage, shortLanguage, userLanguageRow>>
  BY DEF L!Stop, L!defaults
<1>2. 0 \in L!Rows /\ 0 \in 0..MaxReloads
  BY TwoLanguages, BoundAssumption
<1>3. L!LanguageTypeOK'
  BY <1>1, <1>2 DEF LanguageOK, L!LanguageTypeOK
<1>4. LanguageSound'
  BY <1>1 DEF LanguageOK, LanguageSound
<1> QED BY <1>3, <1>4 DEF LanguageOK, Fronts

LEMMA CloseKeepsLanguage ==
  ASSUME LanguageOK, L!Close, front # "off", front' = "home"
  PROVE  LanguageOK'
BY TwoLanguages
   DEF L!Close, L!defaults, LanguageOK, L!LanguageTypeOK, LanguageSound, Fronts

LEMMA PhoneKeeps ==
  ASSUME LanguageOK, front = "off", front' = front, NEW language \in L!Languages,
         L!PhoneLanguage(language)
  PROVE  LanguageOK'
BY DEF L!PhoneLanguage, L!defaults, L!screen, LanguageOK, L!LanguageTypeOK, LanguageSound

(***************************************************************************)
(* The three together.                                                     *)
(***************************************************************************)
LEMMA Parts == IInv <=> PickerOK /\ TipsOK /\ LanguageOK
BY DEF IInv, TypeOK, TitleIsTicked, OneTip, PickerOK, TipsOK, LanguageOK, Fronts

LEMMA PartsNext == IInv' <=> PickerOK' /\ TipsOK' /\ LanguageOK'
BY DEF IInv, TypeOK, TitleIsTicked, OneTip, PickerOK, TipsOK, LanguageOK, Fronts

LEMMA InitOK ==
  ASSUME Init
  PROVE  IInv
<1>1. PickerOK
  BY ClosedPicker DEF Init, P!Closed
<1>2. TipsOK
  BY ClosedTips DEF Init
<1>3. LanguageOK
  <2>1. /\ front = "off" /\ phone \in L!Languages /\ selectionMade = FALSE
        /\ userLanguage = None /\ shortLanguage = None /\ userLanguageRow = 0
        /\ bundle = None /\ reloads = 0
        /\ pickerData = None /\ wheel = 0 /\ dropdown = FALSE
    BY DEF Init, L!Installed
  <2>2. 0 \in L!Rows /\ 0 \in 0..MaxReloads
    BY TwoLanguages, BoundAssumption
  <2>3. L!LanguageTypeOK
    BY <2>1, <2>2 DEF L!LanguageTypeOK
  <2>4. LanguageSound
    BY <2>1 DEF LanguageSound
  <2> QED BY <2>1, <2>3, <2>4 DEF LanguageOK, Fronts
<1> QED BY <1>1, <1>2, <1>3, Parts

LEMMA PickerStep ==
  ASSUME PickerOK, [Next]_vars
  PROVE  PickerOK'
<1>1. CASE UNCHANGED pickerVars
  BY <1>1, PickerKept
<1>2. CASE Killed \/ Back \/ ReloadRoot
  BY <1>2, CloseKeepsPicker DEF Killed, Back, ReloadRoot
<1>3. CASE TakePhoto
  <2>1. PICK photo \in P!Photos : P!Show(photo) /\ enabled' = (photo # <<>>)
    BY <1>3 DEF TakePhoto, P!Open
  <2>2. enabled' \in BOOLEAN
    BY <2>1
  <2> QED BY <2>1, <2>2, PhotoShown
<1>4. CASE UsePicker
  <2>1. CASE \E i \in 1..MaxWords : P!Touch(i) \/ P!Redraw(i)
    BY <2>1, TouchKeeps, RedrawKeeps
  <2>2. CASE \E photo \in P!Photos : P!Retake(photo)
    <3>1. PICK photo \in P!Photos : P!Show(photo) /\ enabled' = enabled
      BY <2>2 DEF P!Retake
    <3>2. enabled' \in BOOLEAN
      BY <3>1 DEF PickerOK, P!PickerTypeOK
    <3> QED BY <3>1, <3>2, PhotoShown
  <2> QED BY <1>4, <2>1, <2>2 DEF UsePicker, P!Step
<1> QED BY <1>1, <1>2, <1>3, <1>4 DEF Next, vars, Launch, PhoneLanguage, OpenSettings,
      OpenAppSettings, UseTips, UseAppSettings

LEMMA TipsStep ==
  ASSUME TipsOK, [Next]_vars
  PROVE  TipsOK'
<1>1. CASE UNCHANGED tipVars
  BY <1>1, TipsKept
<1>2. CASE Killed \/ Back \/ ReloadRoot
  BY <1>2, CloseKeepsTips DEF Killed, Back, ReloadRoot
<1>3. CASE UseTips
  BY <1>3, TipStepKeeps DEF UseTips
<1> QED BY <1>1, <1>2, <1>3 DEF Next, vars, Launch, PhoneLanguage, TakePhoto,
      OpenSettings, OpenAppSettings, UsePicker, UseAppSettings

LEMMA LanguageStep ==
  ASSUME LanguageOK, [Next]_vars
  PROVE  LanguageOK'
<1>1. CASE Launch
  BY <1>1, StartKeeps DEF Launch
<1>2. CASE PhoneLanguage
  BY <1>2, PhoneKeeps DEF PhoneLanguage
<1>3. CASE Killed
  BY <1>3, StopKeeps DEF Killed
<1>4. CASE TakePhoto \/ OpenSettings \/ UsePicker \/ UseTips \/ UNCHANGED vars
  <2>1. /\ UNCHANGED languageVars /\ front' \in Fronts
        /\ front' # "off" => front # "off"
        /\ front' = "appSettings" => front = "appSettings"
    BY <1>4 DEF TakePhoto, OpenSettings, UsePicker, UseTips, vars, LanguageOK, Fronts
  <2> QED BY <2>1, LanguageKept
<1>5. CASE OpenAppSettings
  <2>1. reloads' \in 0..MaxReloads
    BY <1>5 DEF OpenAppSettings, LanguageOK, L!LanguageTypeOK
  <2> QED BY <1>5, <2>1, OpenKeeps DEF OpenAppSettings
<1>6. CASE ReloadRoot
  <2>1. reloads' \in 0..MaxReloads /\ L!Open
    BY <1>6, BoundAssumption DEF ReloadRoot, L!Reload, LanguageOK, L!LanguageTypeOK
  <2> QED BY <1>6, <2>1, OpenKeeps DEF ReloadRoot
<1>7. CASE Back
  BY <1>7, CloseKeepsLanguage DEF Back
<1>8. CASE UseAppSettings
  BY <1>8, UseAppSettingsKeeps DEF UseAppSettings
<1> QED BY <1>1, <1>2, <1>3, <1>4, <1>5, <1>6, <1>7, <1>8 DEF Next

\* The title, the tips and the language agree with what is shown, whatever is
\* opened, closed and killed: the invariant of the theorems below.
THEOREM ScreensAgree == Spec => []IInv
<1>1. Init => IInv
  BY InitOK
<1>2. IInv /\ [Next]_vars => IInv'
  BY Parts, PartsNext, PickerStep, TipsStep, LanguageStep
<1> QED BY <1>1, <1>2, PTL DEF Spec

\* Every variable keeps its type, whatever the photos.
THEOREM ScreenTypes == Spec => []TypeOK
<1>1. IInv => TypeOK
  BY DEF IInv
<1> QED BY <1>1, ScreensAgree, PTL

\* didHighlightItemAt, configureCell and configureArrays: the title is the ticked
\* words, for photos of any length in which no word comes twice.
THEOREM TitleOfTicks == Spec => []TitleIsTicked
<1>1. IInv => TitleIsTicked
  BY DEF IInv
<1> QED BY <1>1, ScreensAgree, PTL

\* handleStarTouch and EasyTipView.dismiss: at most one tip that is not fading,
\* which the next touch dismisses, and tipView is not nil when it is unwrapped.
THEOREM AtMostOneTip == Spec => []OneTip
<1>1. IInv => OneTip
  BY DEF IInv
<1> QED BY <1>1, ScreensAgree, PTL

\* initWithUserDefaultLanguage, setUserLanguage and handleDonePressed keep the
\* bundle and the three copies in UserDefaults the same.
THEOREM OneLanguage == Spec => []LanguagesAgree
<1>1. IInv => LanguagesAgree
  <2> SUFFICES ASSUME IInv, front # "off", selectionMade \/ front = "appSettings"
               PROVE  \E language \in L!Languages : L!Speaks(language)
    BY DEF LanguagesAgree
  <2>1. bundle \in L!Languages /\ LanguageSound
    BY DEF IInv, LanguageSound
  <2>2. L!Speaks(bundle)
    BY <2>1 DEF LanguageSound, L!Speaks
  <2> QED BY <2>1, <2>2
<1> QED BY <1>1, ScreensAgree, PTL
==============================================================================
