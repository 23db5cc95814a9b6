--------------------------- MODULE BookClubs_proofs ---------------------------
(***************************************************************************)
(* Proofs about BookClubs, for any users, devices, clubs and bounds.       *)
(***************************************************************************)
EXTENDS BookClubs, Firestore_proofs, SequenceTheorems

(***************************************************************************)
(* Queues: what appending, taking the head and dropping handlers keep.     *)
(***************************************************************************)
LEMMA DetachKeeps ==
  ASSUME NEW q \in Seq(Writes)
  PROVE  /\ Detach(q) \in Seq(Writes)
         /\ Len(Detach(q)) = Len(q)
         /\ \A i \in 1..Len(q) : /\ Detach(q)[i].key = q[i].key
                                 /\ Detach(q)[i].value = q[i].value
<1>1. Len(q) \in Nat
  BY LenProperties
<1>2. \A i \in 1..Len(q) : q[i] \in Writes
  BY ElementOfSeq
<1>3. \A w \in Writes : [w EXCEPT !.handler = "none"] \in Writes
  BY DEF Writes, Handlers
<1>4. \A w \in Writes : /\ [w EXCEPT !.handler = "none"].key = w.key
                        /\ [w EXCEPT !.handler = "none"].value = w.value
  BY DEF Writes
<1>5. \A i \in 1..Len(q) :
         (IF q[i].handler = "dismiss" THEN [q[i] EXCEPT !.handler = "none"] ELSE q[i])
            \in Writes
  BY <1>2, <1>3
<1>6. Detach(q) \in Seq(Writes) /\ Len(Detach(q)) = Len(q)
  BY <1>1, <1>5, IsASeq DEF Detach
<1>7. \A i \in 1..Len(q) : /\ Detach(q)[i].key = q[i].key
                           /\ Detach(q)[i].value = q[i].value
  BY <1>2, <1>4 DEF Detach
<1> QED BY <1>6, <1>7

LEMMA ForgetKeeps ==
  ASSUME NEW q \in Seq(Writes)
  PROVE  /\ Forget(q) \in Seq(Writes)
         /\ Len(Forget(q)) = Len(q)
         /\ \A i \in 1..Len(q) : /\ Forget(q)[i].key = q[i].key
                                 /\ Forget(q)[i].value = q[i].value
<1>1. Len(q) \in Nat
  BY LenProperties
<1>2. \A i \in 1..Len(q) : q[i] \in Writes
  BY ElementOfSeq
<1>3. \A w \in Writes : [w EXCEPT !.handler = "none"] \in Writes
  BY DEF Writes, Handlers
<1>4. \A w \in Writes : /\ [w EXCEPT !.handler = "none"].key = w.key
                        /\ [w EXCEPT !.handler = "none"].value = w.value
  BY DEF Writes
<1>5. Forget(q) \in Seq(Writes) /\ Len(Forget(q)) = Len(q)
  BY <1>1, <1>2, <1>3, IsASeq DEF Forget
<1>6. \A i \in 1..Len(q) : /\ Forget(q)[i].key = q[i].key
                           /\ Forget(q)[i].value = q[i].value
  BY <1>2, <1>4 DEF Forget
<1> QED BY <1>5, <1>6

(***************************************************************************)
(* Types.                                                                  *)
(***************************************************************************)
LEMMA SuggestionIsGuests ==
  ASSUME NEW guests \in Guests, NEW u \in Users
  PROVE  WithSuggestion(guests, u) \in Guests
BY DEF WithSuggestion, Guests

LEMMA WithoutIsGuests ==
  ASSUME NEW guests \in Guests \cup {NotLoaded}, NEW u \in Users
  PROVE  Without(guests, u) \in Guests \cup {NotLoaded}
BY DEF Without, Guests

LEMMA FilledInIsClub ==
  ASSUME NEW e \in Editors
  PROVE  /\ FilledIn(e) \in ClubDocs
         /\ FilledIn(e).owner = e.model.owner
         /\ FilledIn(e).guests = GuestIds(e)
<1>1. GuestIds(e) \in Guests
  BY DEF GuestIds, Editors, NoGuests, Guests
<1> QED BY <1>1 DEF FilledIn, Editors, ClubDocs

LEMMA NewModelType ==
  ASSUME NEW e \in Editors, NEW club \in ClubDocs
  PROVE  [e EXCEPT !.model = club] \in Editors
BY DEF Editors

LEMMA AnswerType ==
  ASSUME NEW e \in Editors, e.answers > 0
  PROVE  [e EXCEPT !.invited = e.asked, !.answers = @ - 1] \in Editors
<1>1. e.answers - 1 \in 0..2 /\ e.asked \in Guests
  BY DEF Editors
<1> QED BY <1>1 DEF Editors

LEMMA ReadIsClub ==
  ASSUME TypeOK, NEW d \in Devices, NEW c \in Clubs
  PROVE  Local(d, c) \in ClubDocs \cup {NoClub}
<1>1. pending[d] \in Seq(Writes)
  BY DEF TypeOK, ClubTypes
<1>2. \A i \in 1..Len(pending[d]) : pending[d][i] \in Writes
  BY <1>1, ElementOfSeq
<1>3. \/ Local(d, c) = server[c]
      \/ \E i \in 1..Len(pending[d]) :
            pending[d][i].key = c /\ Local(d, c) = pending[d][i].value
  BY <1>1, LocalIsServerOrOwn DEF Clubs
<1> QED BY <1>2, <1>3 DEF TypeOK, ClubTypes, Writes

\* The moment a picker shows that was asked for a date before its minimum.
LEMMA LaterIsDate ==
  ASSUME NEW date \in Dates, NEW t \in 0..MaxTime
  PROVE  date \in Nat /\ Later(date, t) \in Dates
<1>1. date \in Nat /\ t \in Nat
  BY TimeAssumption, DatesAssumption
<1>2. date < t => t \in Dates
  BY DatesAssumption
<1> QED BY <1>1, <1>2 DEF Later

LEMMA ScheduleIsDates ==
  ASSUME NEW fires \in SUBSET Nat, NEW date \in Dates, now \in 0..MaxTime
  PROVE  Schedule(fires, date) \in SUBSET Nat
BY TimeAssumption, DatesAssumption DEF Schedule

LEMMA CancelIsDates ==
  ASSUME NEW fires \in SUBSET Nat
  PROVE  Cancel(fires) \in SUBSET Nat
BY DEF Cancel

LEMMA EnqueueType ==
  ASSUME TypeOK, NEW d \in Devices, NEW w \in Writes, Enqueue(d, w)
  PROVE  pending' \in [Devices -> Seq(Writes)]
<1>1. Append(pending[d], w) \in Seq(Writes)
  BY AppendProperties DEF TypeOK, ClubTypes
<1> QED BY <1>1 DEF TypeOK, ClubTypes, Enqueue

LEMMA CloseEditorType ==
  ASSUME TypeOK, NEW d \in Devices, CloseEditor(d)
  PROVE  /\ editor' \in [Devices -> Editors \cup {NoEditor}]
         /\ list' \in [Devices -> [Clubs -> ClubDocs \cup {NoClub}]]
BY DEF TypeOK, ClubTypes, CloseEditor, NoRows

LEMMA TypeInit == Init => TypeOK
<1> SUFFICES ASSUME Init PROVE TypeOK
  OBVIOUS
<1>1. pending \in [Devices -> Seq(Writes)]
  BY EmptySeq DEF Init, StoreInit
<1>2. now \in 0..MaxTime
  BY TimeAssumption DEF Init
<1>3. AppliedOK
  <2>1. \A d \in Devices : applied[d] = 0 /\ Len(pending[d]) = 0
    BY EmptySeq DEF Init, StoreInit
  <2> QED BY <2>1 DEF AppliedOK, Init, StoreInit
<1> QED BY <1>1, <1>2, <1>3 DEF Init, StoreInit, TypeOK, ClubTypes, NoRows

LEMMA AnsweredIsQueued ==
  ASSUME TypeOK, NEW d \in Devices, NEW stored, NEW covered,
         Acknowledge(d, stored, covered)
  PROVE  /\ pending[d] \in Seq(Writes) /\ pending[d] # <<>>
         /\ Len(pending[d]) \in Nat \ {0}
<1>1. /\ pending[d] \in Seq(Writes) /\ Len(pending[d]) \in Nat
      /\ applied[d] \in Nat /\ applied[d] <= Len(pending[d])
  BY DEF TypeOK, ClubTypes, AppliedOK
<1>2. applied[d] > 0 \/ applied[d] < Len(pending[d])
  BY DEF Acknowledge, AnswerRead, RefusalRead, Unstored
<1>3. Len(pending[d]) # 0
  BY <1>1, <1>2
<1> QED BY <1>1, <1>3, EmptySeq

\* What the server stores is a queued write.
LEMMA StoredWrite ==
  ASSUME TypeOK, NEW d \in Devices, ServerStores(d)
  PROVE  \E i \in 1..Len(pending[d]) :
           /\ pending[d][i] \in Writes
           /\ server' = [server EXCEPT ![pending[d][i].key] = pending[d][i].value]
<1>1. pending \in [Devices -> Seq(Writes)]
  BY DEF TypeOK, ClubTypes
<1>2. AppliedOK /\ Store(d)
  BY DEF TypeOK, ServerStores
<1> QED BY <1>1, <1>2, StoresQueued

LEMMA ClubTypesStep == TypeOK /\ [Next]_vars => ClubTypes'
<1> SUFFICES ASSUME TypeOK, [Next]_vars PROVE ClubTypes'
  OBVIOUS
<1>1. CASE Tick
  <2>1. now' \in 0..MaxTime
    BY <1>1, TimeAssumption DEF Tick, TypeOK, ClubTypes
  <2>2. reminders' \in [Devices -> [Clubs -> SUBSET Nat]]
    BY <1>1 DEF Tick, TypeOK, ClubTypes
  <2> QED BY <1>1, <2>1, <2>2 DEF Tick, TypeOK, ClubTypes
<1>2. ASSUME NEW d \in Devices, NEW tab, FetchClubs(d, tab) PROVE ClubTypes'
  <2>1. \A c \in Clubs : Local(d, c) \in ClubDocs \cup {NoClub}
    BY ReadIsClub
  <2>2. list' \in [Devices -> [Clubs -> ClubDocs \cup {NoClub}]]
    BY <1>2, <2>1 DEF FetchClubs, TypeOK, ClubTypes
  <2> QED BY <1>2, <2>2 DEF FetchClubs, TypeOK, ClubTypes
<1>3. ASSUME NEW d \in Devices, OpenNew(d) PROVE ClubTypes'
  <2> DEFINE model == [owner |-> User(d), guests |-> NoGuests,
                       date |-> now + DefaultAhead, platform |-> FirstPlatform]
             e == [club |-> NewClub, model |-> model, asked |-> NoGuests,
                   answers |-> 0, invited |-> NoGuests, minDate |-> now,
                   date |-> model.date, row |-> FirstPlatform]
  <2>1. now + DefaultAhead \in Dates /\ now \in 0..MaxTime
    BY DatesAssumption DEF TypeOK, ClubTypes
  <2>2. NoGuests \in Guests /\ User(d) \in Users
    BY UserOfAssumption DEF NoGuests, Guests, User
  <2>3. e \in Editors
    BY <2>1, <2>2, PlatformAssumption DEF Editors, ClubDocs
  <2>4. editor' = [editor EXCEPT ![d] = e] /\ list' = [list EXCEPT ![d] = NoRows]
    BY <1>3 DEF OpenNew
  <2> HIDE DEF e
  <2> QED BY <1>3, <2>3, <2>4 DEF OpenNew, TypeOK, ClubTypes, NoRows
<1>4. ASSUME NEW d \in Devices, NEW c \in Clubs, OpenClub(d, c) PROVE ClubTypes'
  <2> DEFINE model == list[d][c]
             e == [club |-> c, model |-> model, asked |-> model.guests,
                   answers |-> 2, invited |-> NotLoaded, minDate |-> now,
                   date |-> Later(model.date, now), row |-> FirstPlatform]
  <2>1. model \in ClubDocs
    BY <1>4 DEF OpenClub, TypeOK, ClubTypes
  <2>2. now \in 0..MaxTime
    BY DEF TypeOK, ClubTypes
  <2>3. model.guests \in Guests /\ Later(model.date, now) \in Dates
    BY <2>1, <2>2, LaterIsDate DEF ClubDocs
  <2>4. e \in Editors
    <3> HIDE DEF model
    <3> QED BY <2>1, <2>2, <2>3, PlatformAssumption DEF Editors
  <2>5. Remind(reminders[d][c], model) \in SUBSET Nat
    <3>1. model.date \in Dates /\ reminders[d][c] \in SUBSET Nat /\ now \in 0..MaxTime
      BY <2>1 DEF ClubDocs, TypeOK, ClubTypes
    <3> QED BY <3>1, ScheduleIsDates, CancelIsDates DEF Remind
  <2>6. /\ editor' = [editor EXCEPT ![d] = e]
        /\ reminders' = [reminders EXCEPT ![d][c] = Remind(@, model)]
    BY <1>4 DEF OpenClub
  <2>7. list' = [list EXCEPT ![d] = NoRows]
    BY <1>4 DEF OpenClub
  <2> HIDE DEF e, model
  <2> QED BY <1>4, <2>4, <2>5, <2>6, <2>7 DEF OpenClub, TypeOK, ClubTypes, NoRows
<1>5. ASSUME NEW d \in Devices, GuestsLoaded(d) PROVE ClubTypes'
  <2>1. editor[d] \in Editors
    BY <1>5 DEF GuestsLoaded, Open, TypeOK, ClubTypes
  <2>2. [editor[d] EXCEPT !.invited = editor[d].asked, !.answers = @ - 1] \in Editors
    BY <1>5, <2>1, AnswerType DEF GuestsLoaded
  <2>3. editor' \in [Devices -> Editors \cup {NoEditor}]
    BY <1>5, <2>2 DEF GuestsLoaded, TypeOK, ClubTypes
  <2> QED BY <1>5, <2>3 DEF GuestsLoaded, TypeOK, ClubTypes
<1>6. ASSUME NEW d \in Devices, NEW u \in Users, AddGuest(d, u) PROVE ClubTypes'
  <2>1. editor[d] \in Editors /\ editor[d].invited \in Guests
    BY <1>6 DEF AddGuest, Open, TypeOK, ClubTypes, Editors
  <2>2. WithSuggestion(editor[d].invited, u) \in Guests
    BY <2>1, SuggestionIsGuests
  <2>3. [editor[d] EXCEPT !.invited = WithSuggestion(@, u)] \in Editors
    BY <2>1, <2>2 DEF Editors
  <2>4. editor' \in [Devices -> Editors \cup {NoEditor}]
    BY <1>6, <2>3 DEF AddGuest, TypeOK, ClubTypes
  <2> QED BY <1>6, <2>4 DEF AddGuest, TypeOK, ClubTypes
<1>7. ASSUME NEW d \in Devices, NEW u \in Users, RemoveGuest(d, u) PROVE ClubTypes'
  <2>1. editor[d] \in Editors /\ editor[d].invited \in Guests
    BY <1>7 DEF RemoveGuest, Open, TypeOK, ClubTypes, Editors
  <2>2. [editor[d].invited EXCEPT ![u] = @ - 1] \in Guests
    BY <1>7, <2>1 DEF RemoveGuest, Guests
  <2>3. [editor[d] EXCEPT !.invited[u] = @ - 1] \in Editors
    BY <2>1, <2>2 DEF Editors
  <2>4. editor' \in [Devices -> Editors \cup {NoEditor}]
    BY <1>7, <2>3 DEF RemoveGuest, TypeOK, ClubTypes
  <2> QED BY <1>7, <2>4 DEF RemoveGuest, TypeOK, ClubTypes
<1>8. ASSUME NEW d \in Devices, NEW t \in Dates, SelectDate(d, t) PROVE ClubTypes'
  <2>1. editor[d] \in Editors
    BY <1>8 DEF SelectDate, Open, TypeOK, ClubTypes
  <2>2. [editor[d] EXCEPT !.date = t, !.model.date = t] \in Editors
    BY <2>1 DEF Editors, ClubDocs
  <2>3. editor' \in [Devices -> Editors \cup {NoEditor}]
    BY <1>8, <2>2 DEF SelectDate, TypeOK, ClubTypes
  <2> QED BY <1>8, <2>3 DEF SelectDate, TypeOK, ClubTypes
<1>9. ASSUME NEW d \in Devices, NEW p \in Platforms, SelectPlatform(d, p) PROVE ClubTypes'
  <2>1. editor[d] \in Editors
    BY <1>9 DEF SelectPlatform, Open, TypeOK, ClubTypes
  <2>2. [editor[d] EXCEPT !.row = p, !.model.platform = p] \in Editors
    BY <2>1 DEF Editors, ClubDocs
  <2>3. editor' \in [Devices -> Editors \cup {NoEditor}]
    BY <1>9, <2>2 DEF SelectPlatform, TypeOK, ClubTypes
  <2> QED BY <1>9, <2>3 DEF SelectPlatform, TypeOK, ClubTypes
<1>10. ASSUME NEW d \in Devices, Close(d) PROVE ClubTypes'
  <2>1. Detach(pending[d]) \in Seq(Writes)
    BY DetachKeeps DEF TypeOK, ClubTypes
  <2>2. pending' \in [Devices -> Seq(Writes)]
    BY <1>10, <2>1 DEF Close, TypeOK, ClubTypes
  <2> QED BY <1>10, <2>2, CloseEditorType DEF Close, TypeOK, ClubTypes
<1>11. ASSUME NEW d \in Devices, NEW c \in Clubs, Create(d, c) PROVE ClubTypes'
  <2> DEFINE club == FilledIn(editor[d])
  <2>1. editor[d] \in Editors
    BY <1>11 DEF Create, Open, TypeOK, ClubTypes
  <2>2. club \in ClubDocs
    BY <2>1, FilledInIsClub
  <2>3. [editor[d] EXCEPT !.model = club] \in Editors
    <3> HIDE DEF club
    <3> QED BY <2>1, <2>2, NewModelType
  <2>4. [key |-> c, value |-> club, handler |-> "home"] \in Writes
    BY <2>2 DEF Writes, Handlers
  <2>5. /\ creator' = [creator EXCEPT ![c] = User(d)]
        /\ invited' = [invited EXCEPT ![c] = @ \cup Members(club.guests)]
        /\ editor' = [editor EXCEPT ![d].model = club]
        /\ Enqueue(d, [key |-> c, value |-> club, handler |-> "home"])
    BY <1>11 DEF Create
  <2>6. User(d) \in Users /\ Members(club.guests) \subseteq Users
    BY UserOfAssumption DEF User, Members
  <2>7. pending' \in [Devices -> Seq(Writes)]
    BY <2>4, <2>5, EnqueueType
  <2>8. editor' \in [Devices -> Editors \cup {NoEditor}]
    <3> HIDE DEF club
    <3> QED BY <2>3, <2>5 DEF TypeOK, ClubTypes
  <2>9. /\ creator' \in [Clubs -> Users \cup {NoUser}]
        /\ invited' \in [Clubs -> SUBSET Users]
    <3> HIDE DEF club
    <3> QED BY <2>5, <2>6 DEF TypeOK, ClubTypes
  <2>10. UNCHANGED <<server, now, list, reminders>>
    BY <1>11 DEF Create
  <2> QED BY <2>7, <2>8, <2>9, <2>10 DEF TypeOK, ClubTypes
<1>12. ASSUME NEW d \in Devices, Save(d) PROVE ClubTypes'
  <2> DEFINE c == editor[d].club
             club == FilledIn(editor[d])
  <2>1. editor[d] \in Editors
    BY <1>12 DEF Save, Open, TypeOK, ClubTypes
  <2>2. club \in ClubDocs
    BY <2>1, FilledInIsClub
  <2>3. [editor[d] EXCEPT !.model = club] \in Editors
    <3> HIDE DEF club
    <3> QED BY <2>1, <2>2, NewModelType
  <2>4. c \in Clubs
    BY <1>12, <2>1 DEF Save, Creating, Editors
  <2>5. [key |-> c, value |-> club, handler |-> "dismiss"] \in Writes
    BY <2>2, <2>4 DEF Writes, Handlers
  <2>6. Reschedule(reminders[d][c], editor[d].model) \in SUBSET Nat
    <3>1. editor[d].model.date \in Dates /\ reminders[d][c] \in SUBSET Nat /\ now \in 0..MaxTime
      BY <2>1, <2>4 DEF Editors, ClubDocs, TypeOK, ClubTypes
    <3> HIDE DEF c
    <3> QED BY <3>1, ScheduleIsDates, CancelIsDates DEF Reschedule
  <2>7. /\ reminders' = [reminders EXCEPT ![d][c] = Reschedule(@, editor[d].model)]
        /\ invited' = [invited EXCEPT ![c] = @ \cup Members(club.guests)]
        /\ editor' = [editor EXCEPT ![d].model = club]
        /\ Enqueue(d, [key |-> c, value |-> club, handler |-> "dismiss"])
    BY <1>12 DEF Save
  <2>8. Members(club.guests) \subseteq Users
    BY DEF Members
  <2>9. pending' \in [Devices -> Seq(Writes)]
    BY <2>5, <2>7, EnqueueType
  <2>10. editor' \in [Devices -> Editors \cup {NoEditor}]
    <3> HIDE DEF club
    <3> QED BY <2>3, <2>7 DEF TypeOK, ClubTypes
  <2>11. /\ invited' \in [Clubs -> SUBSET Users]
         /\ reminders' \in [Devices -> [Clubs -> SUBSET Nat]]
    <3> HIDE DEF club, c
    <3> QED BY <2>4, <2>6, <2>7, <2>8 DEF TypeOK, ClubTypes
  <2>12. UNCHANGED <<server, now, list, creator>>
    BY <1>12 DEF Save
  <2> QED BY <2>9, <2>10, <2>11, <2>12 DEF TypeOK, ClubTypes
<1>13. ASSUME NEW d \in Devices, Leave(d) PROVE ClubTypes'
  <2> DEFINE e == [editor[d] EXCEPT !.invited = Without(@, User(d))]
             club == FilledIn(e)
  <2>1. editor[d] \in Editors
    BY <1>13 DEF Leave, Open, TypeOK, ClubTypes
  <2>2. Without(editor[d].invited, User(d)) \in Guests \cup {NotLoaded}
    BY <2>1, WithoutIsGuests, UserOfAssumption DEF Editors, User
  <2>3. e \in Editors /\ e.club \in Clubs
    BY <1>13, <2>1, <2>2 DEF Editors, Leave, Creating
  <2>4. club \in ClubDocs
    <3> HIDE DEF e
    <3> QED BY <2>3, FilledInIsClub
  <2>5. [e EXCEPT !.model = club] \in Editors
    <3> HIDE DEF e, club
    <3> QED BY <2>3, <2>4, NewModelType
  <2>6. [key |-> e.club, value |-> club, handler |-> "dismiss"] \in Writes
    BY <2>3, <2>4 DEF Writes, Handlers
  <2>7. /\ editor' = [editor EXCEPT ![d] = [e EXCEPT !.model = club]]
        /\ Enqueue(d, [key |-> e.club, value |-> club, handler |-> "dismiss"])
    BY <1>13 DEF Leave
  <2> HIDE DEF e, club
  <2>8. pending' \in [Devices -> Seq(Writes)]
    BY <2>6, <2>7, EnqueueType
  <2> QED BY <1>13, <2>5, <2>7, <2>8 DEF Leave, TypeOK, ClubTypes
<1>14. ASSUME NEW d \in Devices, Delete(d) PROVE ClubTypes'
  <2> DEFINE w == [key |-> editor[d].club, value |-> NoClub, handler |-> "none"]
  <2>1. editor[d] \in Editors
    BY <1>14 DEF Delete, Open, TypeOK, ClubTypes
  <2>2. w \in Writes
    BY <1>14, <2>1 DEF Delete, Creating, Editors, Writes, Handlers
  <2>3. Detach(pending[d]) \in Seq(Writes)
    BY DetachKeeps DEF TypeOK, ClubTypes
  <2>4. pending' = [pending EXCEPT ![d] = Append(Detach(@), w)]
    BY <1>14 DEF Delete
  <2>5. Append(Detach(pending[d]), w) \in Seq(Writes)
    BY <2>2, <2>3, AppendProperties
  <2> HIDE DEF w
  <2>6. pending' \in [Devices -> Seq(Writes)]
    BY <2>4, <2>5 DEF TypeOK, ClubTypes
  <2> QED BY <1>14, <2>6, CloseEditorType DEF Delete, TypeOK, ClubTypes
<1>15. ASSUME NEW d \in Devices, NEW stored, NEW covered, Acknowledge(d, stored, covered)
       PROVE ClubTypes'
  <2>1. pending[d] \in Seq(Writes) /\ pending[d] # <<>>
    BY <1>15, AnsweredIsQueued
  <2>2. Rest(d) \in Seq(Writes)
    BY <2>1, HeadTailProperties DEF Rest
  <2>3. Detach(Rest(d)) \in Seq(Writes)
    BY <2>2, DetachKeeps
  <2>5. pending' \in [Devices -> Seq(Writes)]
    BY <1>15, <2>2, <2>3 DEF Acknowledge, TypeOK, ClubTypes
  <2>6. /\ editor' \in [Devices -> Editors \cup {NoEditor}]
        /\ list' \in [Devices -> [Clubs -> ClubDocs \cup {NoClub}]]
    <3>1. CASE CloseEditor(d)
      BY <3>1, CloseEditorType
    <3>2. CASE UNCHANGED <<editor, list>>
      BY <3>2 DEF TypeOK, ClubTypes
    <3> QED BY <1>15, <3>1, <3>2 DEF Acknowledge
  <2> QED BY <1>15, <2>5, <2>6 DEF Acknowledge, TypeOK, ClubTypes
<1>16. ASSUME NEW d \in Devices, Restart(d) PROVE ClubTypes'
  <2>1. Forget(pending[d]) \in Seq(Writes)
    BY ForgetKeeps DEF TypeOK, ClubTypes
  <2>2. pending' \in [Devices -> Seq(Writes)]
    BY <1>16, <2>1 DEF Restart, TypeOK, ClubTypes
  <2> QED BY <1>16, <2>2, CloseEditorType DEF Restart, TypeOK, ClubTypes
<1>18. ASSUME NEW d \in Devices, ServerStores(d) PROVE ClubTypes'
  <2>1. PICK i \in 1..Len(pending[d]) :
          /\ pending[d][i] \in Writes
          /\ server' = [server EXCEPT ![pending[d][i].key] = pending[d][i].value]
    BY <1>18, StoredWrite
  <2>2. server' \in [Clubs -> ClubDocs \cup {NoClub}]
    BY <2>1 DEF Writes, TypeOK, ClubTypes
  <2> QED BY <1>18, <2>2 DEF ServerStores, clubVars, TypeOK, ClubTypes
<1>19. ASSUME NEW d \in Devices, ConnectionLost(d) PROVE ClubTypes'
  BY <1>19 DEF ConnectionLost, clubVars, TypeOK, ClubTypes
<1>17. CASE UNCHANGED vars
  BY <1>17 DEF vars, TypeOK, ClubTypes
<1> QED
  BY <1>1, <1>2, <1>3, <1>4, <1>5, <1>6, <1>7, <1>8, <1>9, <1>10, <1>11, <1>12,
     <1>13, <1>14, <1>15, <1>16, <1>17, <1>18, <1>19
  DEF Next, Navigate, Edit, Write, Network, Answer

LEMMA QueueLengths ==
  ASSUME TypeOK, NEW d \in Devices
  PROVE  pending[d] \in Seq(Writes) /\ Len(pending[d]) \in Nat
<1>1. pending[d] \in Seq(Writes)
  BY DEF TypeOK, ClubTypes
<1> QED BY <1>1

LEMMA AppendIsLonger ==
  ASSUME NEW S, NEW q \in Seq(S), NEW w
  PROVE  Len(Append(q, w)) = Len(q) + 1
<1>1. q \in Seq(S \cup {w}) /\ w \in S \cup {w}
  OBVIOUS
<1> QED BY <1>1, AppendProperties

LEMMA AppliedStep == TypeOK /\ [Next]_vars => AppliedOK'
<1> SUFFICES ASSUME TypeOK, [Next]_vars PROVE AppliedOK'
  OBVIOUS
<1>1. AppliedOK /\ pending \in [Devices -> Seq(Writes)]
      /\ \A d \in Devices : Len(pending[d]) \in Nat
  BY QueueLengths DEF TypeOK, ClubTypes
<1>2. \A d \in Devices : Len(pending'[d]) \in Nat
  BY ClubTypesStep DEF ClubTypes
<1>3. ASSUME applied' = applied, pending' = pending PROVE AppliedOK'
  BY <1>1, <1>3, AppliedSame
<1>4. ASSUME applied' = applied, NEW d \in Devices, NEW q,
             Len(q) = Len(pending[d]), pending' = [pending EXCEPT ![d] = q]
      PROVE  AppliedOK'
  <2>1. \A c \in Devices : Len(pending'[c]) = Len(pending[c])
    BY <1>1, <1>4
  <2> QED BY <1>1, <1>2, <1>4, <2>1, AppliedSame
<1>5. ASSUME applied' = applied, NEW d \in Devices, NEW q \in Seq(Writes), NEW w,
             Len(q) = Len(pending[d]), pending' = [pending EXCEPT ![d] = Append(q, w)]
      PROVE  AppliedOK'
  <2>1. Len(Append(q, w)) = Len(pending[d]) + 1
    BY <1>5, AppendIsLonger
  <2>2. pending'[d] = Append(q, w) /\ \A c \in Devices : c # d => pending'[c] = pending[c]
    BY <1>1, <1>5
  <2>3. \A c \in Devices : Len(pending[c]) <= Len(pending'[c])
    BY <1>1, <2>1, <2>2
  <2> QED BY <1>1, <1>2, <1>5, <2>3, AppliedSame
<1>6. CASE Tick \/ UNCHANGED vars
  BY <1>3, <1>6 DEF Tick, vars
<1>7. ASSUME NEW d \in Devices, Edit(d) PROVE AppliedOK'
  BY <1>3, <1>7
  DEF Edit, GuestsLoaded, AddGuest, RemoveGuest, SelectDate, SelectPlatform
<1>8. ASSUME NEW d \in Devices, Close(d) PROVE AppliedOK'
  BY <1>4, <1>8, QueueLengths, DetachKeeps DEF Close
<1>9. ASSUME NEW d \in Devices, Restart(d) PROVE AppliedOK'
  <2>1. Len(Forget(pending[d])) = Len(pending[d])
    BY QueueLengths, ForgetKeeps
  <2>2. pending' = [pending EXCEPT ![d] = Forget(pending[d])] /\ Lost(d)
    BY <1>9 DEF Restart
  <2>3. \A c \in Devices : Len(pending'[c]) = Len(pending[c])
    BY <1>1, <2>1, <2>2
  <2> QED BY <1>1, <2>2, <2>3, AppliedLost
<1>10. ASSUME NEW d \in Devices, Navigate(d) PROVE AppliedOK'
  BY <1>3, <1>8, <1>9, <1>10 DEF Navigate, FetchClubs, OpenNew, OpenClub
<1>11. ASSUME NEW d \in Devices, Write(d) PROVE AppliedOK'
  <2>1. pending[d] \in Seq(Writes)
    BY QueueLengths
  <2>2. ASSUME NEW w, applied' = applied, Enqueue(d, w) PROVE AppliedOK'
    BY <1>5, <2>1, <2>2 DEF Enqueue
  <2>4. ASSUME NEW c \in Clubs, Create(d, c) PROVE AppliedOK'
    BY <2>2, <2>4 DEF Create
  <2>5. ASSUME Save(d) PROVE AppliedOK'
    BY <2>2, <2>5 DEF Save
  <2>6. ASSUME Leave(d) PROVE AppliedOK'
    BY <2>2, <2>6 DEF Leave
  <2>7. ASSUME Delete(d) PROVE AppliedOK'
    <3>1. Detach(pending[d]) \in Seq(Writes) /\ Len(Detach(pending[d])) = Len(pending[d])
      BY <2>1, DetachKeeps
    <3>2. applied' = applied
          /\ \E w : pending' = [pending EXCEPT ![d] = Append(Detach(pending[d]), w)]
      BY <2>7 DEF Delete
    <3> QED BY <1>5, <3>1, <3>2
  <2> QED BY <1>11, <2>4, <2>5, <2>6, <2>7 DEF Write
<1>12. ASSUME NEW d \in Devices, ServerStores(d) PROVE AppliedOK'
  BY <1>1, <1>12, AppliedStored DEF ServerStores
<1>13. ASSUME NEW d \in Devices, ConnectionLost(d) PROVE AppliedOK'
  BY <1>1, <1>13, AppliedLost DEF ConnectionLost
<1>14. ASSUME NEW d \in Devices, Answer(d) PROVE AppliedOK'
  <2>1. PICK stored, covered \in BOOLEAN : Acknowledge(d, stored, covered)
    BY <1>14 DEF Answer
  <2>2. pending[d] \in Seq(Writes) /\ pending[d] # <<>> /\ Len(pending[d]) \in Nat \ {0}
    BY <2>1, AnsweredIsQueued
  <2>3. Rest(d) \in Seq(Writes) /\ Len(Rest(d)) = Len(pending[d]) - 1
    BY <2>2, HeadTailProperties DEF Rest
  <2>4. Len(Detach(Rest(d))) = Len(pending[d]) - 1
    BY <2>3, DetachKeeps
  <2>5. /\ pending'[d] = Rest(d) \/ pending'[d] = Detach(Rest(d))
        /\ \A c \in Devices : c # d => pending'[c] = pending[c]
    BY <1>1, <2>1 DEF Acknowledge
  <2>6. AnswerRead(d) \/ RefusalRead(d)
    BY <2>1 DEF Acknowledge
  <2> QED BY <1>1, <2>2, <2>3, <2>4, <2>5, <2>6, AppliedAnswered
<1> QED BY <1>6, <1>7, <1>10, <1>11, <1>12, <1>13, <1>14 DEF Next, Network

LEMMA TypeStep == TypeOK /\ [Next]_vars => TypeOK'
BY ClubTypesStep, AppliedStep DEF TypeOK

\* Every variable keeps its type: no screen, answer, restart or tick of the
\* clock puts a copy of a club, a queue or a reminder out of shape.
THEOREM TypeCorrect == Spec => []TypeOK
BY TypeInit, TypeStep, PTL DEF Spec

(***************************************************************************)
(* The inductive invariant.  Its parts are regrouped by the state they are *)
(* about: what a queued write needs is stated for one write.               *)
(***************************************************************************)
ServerSound == \A c \in Clubs : server[c] # NoClub => Sound(c, server[c])

WriteSound(d, w) ==
    /\ creator[w.key] # NoUser
    /\ w.value # NoClub => Sound(w.key, w.value) /\ w.value.guests[User(d)] = 0

QueuesSound ==
    \A d \in Devices : \A i \in 1..Len(pending[d]) : WriteSound(d, pending[d][i])

UninvitedUnlessFounded == \A c \in Clubs : creator[c] = NoUser => invited[c] = {}

Parts == /\ TypeOK /\ ServerSound /\ QueuesSound /\ ListsSound /\ EditorsSound
         /\ UninvitedUnlessFounded

LEMMA IInvIsParts == IInv <=> Parts
<1>1. QueuesSound <=>
        /\ \A d \in Devices : \A i \in 1..Len(pending[d]) :
             pending[d][i].value # NoClub =>
                Sound(pending[d][i].key, pending[d][i].value)
        /\ WritesOmitWriter
        /\ \A d \in Devices : \A i \in 1..Len(pending[d]) :
             creator[pending[d][i].key] # NoUser
  BY DEF QueuesSound, WriteSound, WritesOmitWriter
<1> QED
  BY <1>1 DEF IInv, Parts, StoredClubsSound, ServerSound, ClubsFounded,
              UninvitedUnlessFounded

\* What no step undoes: who created a club, and who has been invited to it.
Grows ==
    /\ \A c \in Clubs : creator[c] # NoUser => creator'[c] = creator[c]
    /\ \A c \in Clubs : invited[c] \subseteq invited'[c]

LEMMA SoundKept ==
  ASSUME Grows, NEW c \in Clubs, NEW club \in ClubDocs, Sound(c, club)
  PROVE  Sound(c, club)'
<1>1. creator[c] # NoUser
  BY MarkerAssumption DEF Sound, ClubDocs
<1> QED BY <1>1 DEF Grows, Sound

LEMMA EditorKept ==
  ASSUME Grows, NEW d \in Devices, NEW e \in Editors, EditorSound(d, e)
  PROVE  EditorSound(d, e)'
<1>1. CASE e.club = NewClub
  BY <1>1 DEF EditorSound
<1>2. CASE e.club # NewClub
  <2>1. e.club \in Clubs /\ e.model \in ClubDocs
    BY <1>2 DEF Editors
  <2>2. Sound(e.club, e.model)'
    BY <1>2, <2>1, SoundKept DEF EditorSound
  <2>3. invited[e.club] \subseteq invited'[e.club]
    BY <2>1 DEF Grows
  <2> QED BY <1>2, <2>2, <2>3 DEF EditorSound
<1> QED BY <1>1, <1>2

\* w repeats what some write of queue q says.
Carried(q, w) == \E i \in 1..Len(q) : q[i].key = w.key /\ q[i].value = w.value

LEMMA WriteKept ==
  ASSUME Parts, Grows, NEW d \in Devices, NEW w \in Writes, Carried(pending[d], w)
  PROVE  WriteSound(d, w)'
<1>1. WriteSound(d, w)
  BY DEF Parts, QueuesSound, Carried, WriteSound
<1>2. w.key \in Clubs /\ w.value \in ClubDocs \cup {NoClub}
  BY DEF Writes
<1>3. creator'[w.key] # NoUser
  BY <1>1, <1>2 DEF WriteSound, Grows
<1>4. w.value # NoClub => Sound(w.key, w.value)'
  BY <1>1, <1>2, SoundKept DEF WriteSound
<1> QED BY <1>1, <1>3, <1>4 DEF WriteSound

LEMMA QueuesStep ==
  ASSUME Parts, Grows, NEW d \in Devices, NEW q \in Seq(Writes),
         pending' = [pending EXCEPT ![d] = q],
         \A i \in 1..Len(q) : Carried(pending[d], q[i]) \/ WriteSound(d, q[i])'
  PROVE  QueuesSound'
<1>1. SUFFICES ASSUME NEW x \in Devices, NEW i \in 1..Len(pending'[x])
               PROVE  WriteSound(x, pending[x][i])'
  BY DEF QueuesSound
<1>2. CASE x = d
  <2>1. pending'[x] = q
    BY <1>2 DEF Parts, TypeOK, ClubTypes
  <2>2. q[i] \in Writes
    BY <2>1, ElementOfSeq
  <2> QED BY <1>2, <2>1, <2>2, WriteKept
<1>3. CASE x # d
  <2>1. pending'[x] = pending[x] /\ pending[x] \in Seq(Writes)
    BY <1>3 DEF Parts, TypeOK, ClubTypes
  <2>2. pending[x][i] \in Writes /\ Carried(pending[x], pending[x][i])
    BY <2>1, ElementOfSeq DEF Carried
  <2> QED BY <2>1, <2>2, WriteKept
<1> QED BY <1>2, <1>3

LEMMA QueuesSame ==
  ASSUME Parts, Grows, pending' = pending
  PROVE  QueuesSound'
<1>1. SUFFICES ASSUME NEW d \in Devices, NEW i \in 1..Len(pending[d])
               PROVE  WriteSound(d, pending[d][i])'
  BY DEF QueuesSound
<1>2. pending[d][i] \in Writes /\ Carried(pending[d], pending[d][i])
  BY ElementOfSeq DEF Carried, Parts, TypeOK, ClubTypes
<1> QED BY <1>2, WriteKept

LEMMA AppendedQueue ==
  ASSUME Parts, Grows, NEW d \in Devices, NEW w \in Writes, Enqueue(d, w),
         WriteSound(d, w)'
  PROVE  QueuesSound'
<1> DEFINE q == Append(pending[d], w)
<1>1. pending[d] \in Seq(Writes) /\ Len(pending[d]) \in Nat
  BY LenProperties DEF Parts, TypeOK, ClubTypes
<1>2. /\ q \in Seq(Writes)
      /\ Len(q) = Len(pending[d]) + 1
      /\ \A i \in 1..Len(pending[d]) : q[i] = pending[d][i]
      /\ q[Len(pending[d]) + 1] = w
  BY <1>1, AppendProperties
<1>3. ASSUME NEW i \in 1..Len(q)
      PROVE  Carried(pending[d], q[i]) \/ q[i] = w
  <2>1. i = Len(pending[d]) + 1 \/ i \in 1..Len(pending[d])
    BY <1>1, <1>2
  <2> QED BY <1>2, <2>1 DEF Carried
<1>4. pending' = [pending EXCEPT ![d] = q]
  BY DEF Enqueue
<1> HIDE DEF q
<1> QED BY <1>2, <1>3, <1>4, QueuesStep

LEMMA ServerSame ==
  ASSUME Parts, Grows, server' = server
  PROVE  ServerSound'
BY SoundKept DEF Parts, ServerSound, TypeOK, ClubTypes

LEMMA ListsSame ==
  ASSUME Parts, Grows, list' = list
  PROVE  ListsSound'
BY SoundKept DEF Parts, ListsSound, TypeOK, ClubTypes

LEMMA ListCleared ==
  ASSUME Parts, Grows, NEW d \in Devices, list' = [list EXCEPT ![d] = NoRows]
  PROVE  ListsSound'
BY SoundKept DEF Parts, ListsSound, TypeOK, ClubTypes, NoRows

LEMMA EditorsSame ==
  ASSUME Parts, Grows, editor' = editor
  PROVE  EditorsSound'
BY EditorKept DEF Parts, EditorsSound, TypeOK, ClubTypes, Open

LEMMA EditorClosed ==
  ASSUME Parts, Grows, NEW d \in Devices, editor' = [editor EXCEPT ![d] = NoEditor]
  PROVE  EditorsSound'
BY EditorKept DEF Parts, EditorsSound, TypeOK, ClubTypes, Open

LEMMA EditorSet ==
  ASSUME Parts, Grows, NEW d \in Devices, NEW e, EditorSound(d, e)',
         editor' = [editor EXCEPT ![d] = e]
  PROVE  EditorsSound'
BY EditorKept DEF Parts, EditorsSound, TypeOK, ClubTypes, Open

\* A step of the invite screen that saves nothing.
LEMMA EditStep ==
  ASSUME Parts, TypeOK', NEW d \in Devices, NEW e, EditorSound(d, e),
         editor' = [editor EXCEPT ![d] = e],
         UNCHANGED <<server, pending, list, creator, invited>>
  PROVE  Parts'
<1>1. Grows
  BY DEF Grows
<1>2. EditorSound(d, e)'
  BY DEF EditorSound, Sound
<1>3. UninvitedUnlessFounded'
  BY DEF Parts, UninvitedUnlessFounded
<1> QED
  BY <1>1, <1>2, <1>3, QueuesSame, ServerSame, ListsSame, EditorSet DEF Parts

(***************************************************************************)
(* What a saved club is, from the editor that saves it.                    *)
(***************************************************************************)
LEMMA GuestIdsListable ==
  ASSUME NEW e \in Editors, NEW u \in Users,
         e.invited # NotLoaded => ListableBy(e.invited, u)
  PROVE  GuestIds(e) \in Guests /\ ListableBy(GuestIds(e), u)
BY DEF GuestIds, Editors, NoGuests, Guests, ListableBy

LEMMA WithSuggestionListable ==
  ASSUME NEW guests \in Guests, NEW u \in Users, NEW v \in Users, u # v,
         ListableBy(guests, v)
  PROVE  ListableBy(WithSuggestion(guests, u), v)
BY DEF WithSuggestion, ListableBy, Guests

LEMMA WithoutListable ==
  ASSUME NEW guests \in Guests, NEW u \in Users, NEW v \in Users,
         ListableBy(guests, v)
  PROVE  /\ ListableBy(Without(guests, u), v)
         /\ Without(guests, u)[u] = 0
         /\ Members(Without(guests, u)) \subseteq Members(guests)
BY MarkerAssumption DEF Without, ListableBy, Guests, Members

\* The club an owner saves is sound once its guests count as invited.
LEMMA OwnerWriteSound ==
  ASSUME TypeOK, NEW d \in Devices, NEW e \in Editors, EditorSound(d, e),
         e.model.owner = User(d), NEW c \in Clubs, creator'[c] = User(d),
         Members(FilledIn(e).guests) \subseteq invited'[c]
  PROVE  Sound(c, FilledIn(e))' /\ FilledIn(e).guests[User(d)] = 0
<1>1. e.model.owner \in Users
  BY DEF Editors, ClubDocs
<1>2. ListableBy(GuestIds(e), User(d))
  BY <1>1, GuestIdsListable DEF EditorSound
<1>3. FilledIn(e).owner = User(d) /\ FilledIn(e).guests = GuestIds(e)
  BY FilledInIsClub
<1> DEFINE club == FilledIn(e)
<1> HIDE DEF club
<1>4. /\ club.owner = creator'[c]
      /\ \A u \in Users : club.guests[u] <= 1
      /\ club.guests[club.owner] = 0
      /\ Members(club.guests) \subseteq invited'[c]
  BY <1>2, <1>3 DEF ListableBy, club
<1> QED BY <1>3, <1>4 DEF Sound, club

LEMMA PartsInit == Init => Parts
<1> SUFFICES ASSUME Init PROVE Parts
  OBVIOUS
<1>1. TypeOK
  BY TypeInit
<1>2. ServerSound /\ ListsSound /\ EditorsSound /\ UninvitedUnlessFounded
  BY DEF Init, StoreInit, ServerSound, ListsSound, EditorsSound, UninvitedUnlessFounded, NoRows,
         Open
<1>3. QueuesSound
  <2>1. \A d \in Devices : Len(pending[d]) = 0
    BY EmptySeq DEF Init, StoreInit
  <2> QED BY <2>1 DEF QueuesSound
<1> QED BY <1>1, <1>2, <1>3 DEF Parts

LEMMA CreateParts ==
  ASSUME Parts, TypeOK', NEW d \in Devices, NEW c \in Clubs, Create(d, c)
  PROVE  Parts'
<1> PICK e : e = editor[d]
  OBVIOUS
<1> DEFINE club == FilledIn(e)
           w == [key |-> c, value |-> club, handler |-> "home"]
<1>1. /\ e \in Editors /\ EditorSound(d, e) /\ e.club = NewClub
      /\ creator[c] = NoUser
  BY DEF Create, Open, Creating, Parts, TypeOK, ClubTypes, EditorsSound
<1>2. /\ creator' = [creator EXCEPT ![c] = User(d)]
      /\ invited' = [invited EXCEPT ![c] = @ \cup Members(club.guests)]
      /\ editor' = [editor EXCEPT ![d] = [e EXCEPT !.model = club]]
      /\ Enqueue(d, w)
      /\ UNCHANGED <<server, list>>
  BY DEF Create
<1>3. User(d) \in Users /\ User(d) # NoUser
  BY UserOfAssumption, MarkerAssumption DEF User
<1>4. /\ club \in ClubDocs
      /\ club.owner = e.model.owner
      /\ e.model.owner = User(d)
  BY <1>1, FilledInIsClub DEF EditorSound
<1>5. Grows
  <2> HIDE DEF club
  <2> QED BY <1>1, <1>2 DEF Grows, Parts, TypeOK, ClubTypes
<1>6. creator'[c] = User(d) /\ Members(club.guests) \subseteq invited'[c]
  <2> HIDE DEF club
  <2> QED BY <1>2 DEF Parts, TypeOK, ClubTypes
<1>7. Sound(c, club)' /\ club.guests[User(d)] = 0
  <2> QED BY <1>1, <1>4, <1>6, OwnerWriteSound DEF Parts
<1>8. w \in Writes /\ WriteSound(d, w)'
  <2>1. w \in Writes
    BY <1>4 DEF Writes, Handlers
  <2>2. WriteSound(d, w)'
    <3> HIDE DEF club
    <3> QED BY <1>3, <1>6, <1>7 DEF WriteSound
  <2> QED BY <2>1, <2>2
<1>9. EditorSound(d, [e EXCEPT !.model = club])'
  <2> HIDE DEF club
  <2> QED BY <1>1, <1>4 DEF EditorSound, Editors
<1>10. UninvitedUnlessFounded'
  <2> HIDE DEF club
  <2> QED BY <1>2, <1>3 DEF UninvitedUnlessFounded, Parts, TypeOK, ClubTypes
<1>11. QueuesSound'
  <2> HIDE DEF w
  <2> QED BY <1>2, <1>5, <1>8, AppendedQueue
<1>12. EditorsSound'
  <2> HIDE DEF club
  <2> QED BY <1>2, <1>5, <1>9, EditorSet
<1> QED
  BY <1>2, <1>5, <1>10, <1>11, <1>12, ServerSame, ListsSame DEF Parts

LEMMA SaveParts ==
  ASSUME Parts, TypeOK', NEW d \in Devices, Save(d)
  PROVE  Parts'
<1> PICK e : e = editor[d]
  OBVIOUS
<1> DEFINE c == e.club
           club == FilledIn(e)
           w == [key |-> c, value |-> club, handler |-> "dismiss"]
<1>1. /\ e \in Editors /\ EditorSound(d, e) /\ e.club # NewClub
      /\ e.model.owner = User(d)
  BY DEF Save, Open, Creating, Owning, Parts, TypeOK, ClubTypes, EditorsSound
<1>2. /\ invited' = [invited EXCEPT ![c] = @ \cup Members(club.guests)]
      /\ editor' = [editor EXCEPT ![d] = [e EXCEPT !.model = club]]
      /\ Enqueue(d, w)
      /\ UNCHANGED <<server, list, creator>>
  BY DEF Save
<1>3. User(d) \in Users /\ User(d) # NoUser
  BY UserOfAssumption, MarkerAssumption DEF User
<1>4. club \in ClubDocs /\ club.owner = User(d) /\ c \in Clubs
  BY <1>1, FilledInIsClub DEF Editors
<1>5. Grows
  <2> HIDE DEF club, c
  <2> QED BY <1>2 DEF Grows, Parts, TypeOK, ClubTypes
<1>6. creator'[c] = User(d) /\ Members(club.guests) \subseteq invited'[c]
  <2>1. creator[c] = User(d)
    BY <1>1 DEF EditorSound, Sound
  <2> HIDE DEF club, c
  <2> QED BY <2>1, <1>2, <1>4 DEF Parts, TypeOK, ClubTypes
<1>7. Sound(c, club)' /\ club.guests[User(d)] = 0
  <2> HIDE DEF c
  <2> QED BY <1>1, <1>4, <1>6, OwnerWriteSound DEF Parts
<1>8. w \in Writes /\ WriteSound(d, w)'
  <2>1. w \in Writes
    BY <1>4 DEF Writes, Handlers
  <2>2. WriteSound(d, w)'
    <3> HIDE DEF club, c
    <3> QED BY <1>3, <1>6, <1>7 DEF WriteSound
  <2> QED BY <2>1, <2>2
<1>9. EditorSound(d, [e EXCEPT !.model = club])'
  <2>1. EditorSound(d, e)'
    <3> QED BY <1>1, <1>5, EditorKept
  <2>2. [e EXCEPT !.model = club].model = club
    <3> HIDE DEF club
    <3> QED BY <1>1 DEF Editors
  <2>3. /\ [e EXCEPT !.model = club].club = c
        /\ [e EXCEPT !.model = club].asked = e.asked
        /\ [e EXCEPT !.model = club].invited = e.invited
    <3> HIDE DEF club
    <3> QED BY <1>1 DEF Editors
  <2> DEFINE f == [e EXCEPT !.model = club]
  <2>4. EditorSound(d, f)'
    <3> HIDE DEF f, club
    <3> QED BY <1>1, <1>4, <1>7, <2>1, <2>2, <2>3 DEF EditorSound, f
  <2> QED BY <2>4
<1>10. UninvitedUnlessFounded'
  <2> HIDE DEF club, c
  <2> QED BY <1>2, <1>3, <1>4, <1>6 DEF UninvitedUnlessFounded, Parts, TypeOK, ClubTypes
<1>11. QueuesSound'
  <2> HIDE DEF w
  <2> QED BY <1>2, <1>5, <1>8, AppendedQueue
<1>12. EditorsSound'
  <2> HIDE DEF club
  <2> QED BY <1>2, <1>5, <1>9, EditorSet
<1> QED
  BY <1>2, <1>5, <1>10, <1>11, <1>12, ServerSame, ListsSame DEF Parts

LEMMA LeaveParts ==
  ASSUME Parts, TypeOK', NEW d \in Devices, Leave(d)
  PROVE  Parts'
<1> PICK e : e = [editor[d] EXCEPT !.invited = Without(@, User(d))]
  OBVIOUS
<1> DEFINE c == e.club
           club == FilledIn(e)
           w == [key |-> c, value |-> club, handler |-> "dismiss"]
           f == [e EXCEPT !.model = club]
<1>1. /\ editor[d] \in Editors /\ EditorSound(d, editor[d])
      /\ editor[d].club # NewClub /\ editor[d].model.owner # User(d)
  BY DEF Leave, Open, Creating, Owning, Parts, TypeOK, ClubTypes, EditorsSound
<1>2. /\ editor' = [editor EXCEPT ![d] = f]
      /\ Enqueue(d, w)
      /\ UNCHANGED <<server, list, creator, invited>>
  BY DEF Leave
<1>3. User(d) \in Users /\ User(d) # NoUser
  BY UserOfAssumption, MarkerAssumption DEF User
<1>4. /\ e \in Editors /\ c = editor[d].club
      /\ e.model = editor[d].model /\ e.asked = editor[d].asked
      /\ e.invited = Without(editor[d].invited, User(d))
  <2>1. Without(editor[d].invited, User(d)) \in Guests \cup {NotLoaded}
    BY <1>1, <1>3, WithoutIsGuests DEF Editors
  <2> QED BY <1>1, <2>1 DEF Editors
<1>5. /\ c \in Clubs /\ e.model \in ClubDocs /\ e.model.owner \in Users
      /\ Sound(c, e.model)
  BY <1>1, <1>4 DEF EditorSound, Editors, ClubDocs
<1>6. e.invited # NotLoaded =>
        /\ ListableBy(e.invited, e.model.owner)
        /\ e.invited[User(d)] = 0
        /\ Members(e.invited) \subseteq invited[c]
  <2>1. CASE editor[d].invited = NotLoaded
    BY <1>4, <2>1 DEF Without
  <2>2. CASE editor[d].invited # NotLoaded
    <3>1. editor[d].invited \in Guests
      BY <1>1, <2>2 DEF Editors
    <3>2. ListableBy(editor[d].invited, e.model.owner)
      BY <1>1, <1>4, <2>2 DEF EditorSound
    <3>3. Members(editor[d].invited) \subseteq invited[c]
      BY <1>1, <1>4, <2>2 DEF EditorSound
    <3> QED BY <1>3, <1>4, <1>5, <3>1, <3>2, <3>3, WithoutListable
  <2> QED BY <2>1, <2>2
<1>7. /\ GuestIds(e) \in Guests
      /\ ListableBy(GuestIds(e), e.model.owner)
  BY <1>4, <1>5, <1>6, GuestIdsListable
<1>8. GuestIds(e)[User(d)] = 0 /\ Members(GuestIds(e)) \subseteq invited[c]
  BY <1>3, <1>6 DEF GuestIds, NoGuests, Members
<1>9. /\ club \in ClubDocs
      /\ club.owner = e.model.owner
      /\ club.guests = GuestIds(e)
  BY <1>4, FilledInIsClub
<1> HIDE DEF club
<1>10. Sound(c, club)
  BY <1>5, <1>7, <1>8, <1>9 DEF Sound, ListableBy
<1>11. Grows
  BY <1>2 DEF Grows
<1>12. w \in Writes /\ WriteSound(d, w)'
  <2>1. w \in Writes
    BY <1>5, <1>9 DEF Writes, Handlers
  <2>2. creator[c] # NoUser
    BY <1>5, MarkerAssumption DEF Sound
  <2>3. Sound(c, club)'
    <3> HIDE DEF c
    <3> QED BY <1>5, <1>9, <1>10, <1>11, SoundKept
  <2> QED BY <1>2, <1>8, <1>9, <2>1, <2>2, <2>3 DEF WriteSound
<1>13. f \in Editors /\ EditorSound(d, f)
  <2>1. /\ f \in Editors /\ f.club = c /\ f.model = club /\ f.asked = e.asked
        /\ f.invited = e.invited
    BY <1>4, <1>9 DEF Editors
  <2> HIDE DEF f
  <2>2. ListableBy(f.asked, f.model.owner) /\ Members(f.asked) \subseteq invited[c]
    BY <1>1, <1>4, <1>9, <2>1 DEF EditorSound
  <2>3. c # NewClub
    BY <1>1, <1>4
  <2> QED BY <1>6, <1>9, <1>10, <2>1, <2>2, <2>3 DEF EditorSound
<1>14. EditorSound(d, f)'
  <2> HIDE DEF f
  <2> QED BY <1>11, <1>13, EditorKept
<1>15. QueuesSound'
  <2> HIDE DEF w
  <2> QED BY <1>2, <1>11, <1>12, AppendedQueue
<1>16. EditorsSound'
  <2> HIDE DEF f
  <2> QED BY <1>2, <1>11, <1>14, EditorSet
<1>17. UninvitedUnlessFounded'
  BY <1>2 DEF UninvitedUnlessFounded, Parts
<1> QED
  BY <1>2, <1>11, <1>15, <1>16, <1>17, ServerSame, ListsSame DEF Parts

\* The steps that close an editor drop handlers and writes, and add at most w.
LEMMA CloseParts ==
  ASSUME Parts, TypeOK', NEW d \in Devices, CloseEditor(d), NEW q \in Seq(Writes),
         pending' = [pending EXCEPT ![d] = q],
         \A i \in 1..Len(q) : Carried(pending[d], q[i]) \/ WriteSound(d, q[i]),
         UNCHANGED <<server, creator, invited>>
  PROVE  Parts'
<1>1. Grows
  BY DEF Grows
<1>2. \A i \in 1..Len(q) : WriteSound(d, q[i]) => WriteSound(d, q[i])'
  BY DEF WriteSound, Sound
<1>3. QueuesSound'
  BY <1>1, <1>2, QueuesStep
<1>4. ListsSound' /\ EditorsSound'
  BY <1>1, ListCleared, EditorClosed DEF CloseEditor
<1>5. UninvitedUnlessFounded'
  BY DEF UninvitedUnlessFounded, Parts
<1> QED BY <1>1, <1>3, <1>4, <1>5, ServerSame DEF Parts

LEMMA DeleteParts ==
  ASSUME Parts, TypeOK', NEW d \in Devices, Delete(d)
  PROVE  Parts'
<1> PICK p : p = Detach(pending[d])
  OBVIOUS
<1> PICK w : w = [key |-> editor[d].club, value |-> NoClub, handler |-> "none"]
  OBVIOUS
<1> DEFINE q == Append(p, w)
<1>1. /\ editor[d] \in Editors /\ EditorSound(d, editor[d])
      /\ editor[d].club # NewClub
  BY DEF Delete, Open, Creating, Parts, TypeOK, ClubTypes, EditorsSound
<1>2. editor[d].club \in Clubs /\ Sound(editor[d].club, editor[d].model)
  BY <1>1 DEF EditorSound, Editors
<1>3. editor[d].model.owner \in Users
  BY <1>1 DEF Editors, ClubDocs
<1>4. w \in Writes /\ w.key = editor[d].club /\ w.value = NoClub
  BY <1>2 DEF Writes, Handlers
<1>5. WriteSound(d, w)
  BY <1>2, <1>3, <1>4, MarkerAssumption DEF WriteSound, Sound
<1>6. /\ pending[d] \in Seq(Writes) /\ p \in Seq(Writes)
      /\ Len(p) = Len(pending[d]) /\ Len(p) \in Nat
      /\ \A i \in 1..Len(p) : Carried(pending[d], p[i])
  <2>1. pending[d] \in Seq(Writes)
    BY DEF Parts, TypeOK, ClubTypes
  <2>2. /\ p \in Seq(Writes) /\ Len(p) = Len(pending[d])
        /\ \A i \in 1..Len(pending[d]) : /\ p[i].key = pending[d][i].key
                                         /\ p[i].value = pending[d][i].value
    BY <2>1, DetachKeeps
  <2> QED BY <2>1, <2>2, LenProperties DEF Carried
<1>7. /\ q \in Seq(Writes) /\ Len(q) = Len(p) + 1
      /\ \A i \in 1..Len(p) : q[i] = p[i]
      /\ q[Len(p) + 1] = w
  BY <1>4, <1>6, AppendProperties
<1>8. ASSUME NEW i \in 1..Len(q)
      PROVE  Carried(pending[d], q[i]) \/ WriteSound(d, q[i])
  <2>1. i = Len(p) + 1 \/ i \in 1..Len(p)
    BY <1>6, <1>7
  <2> QED BY <1>5, <1>6, <1>7, <2>1
<1>9. /\ pending' = [pending EXCEPT ![d] = q] /\ CloseEditor(d)
      /\ UNCHANGED <<server, creator, invited>>
  BY DEF Delete
<1> HIDE DEF q
<1> QED BY <1>7, <1>8, <1>9, CloseParts

LEMMA CarriedByTail ==
  ASSUME NEW q \in Seq(Writes), q # <<>>
  PROVE  /\ Tail(q) \in Seq(Writes)
         /\ Detach(Tail(q)) \in Seq(Writes)
         /\ \A i \in 1..Len(Tail(q)) : Carried(q, Tail(q)[i])
         /\ \A i \in 1..Len(Detach(Tail(q))) : Carried(q, Detach(Tail(q))[i])
         /\ Carried(q, Head(q))
<1>1. /\ Tail(q) \in Seq(Writes) /\ Len(Tail(q)) = Len(q) - 1
      /\ \A i \in 1..Len(Tail(q)) : Tail(q)[i] = q[i + 1]
  BY HeadTailProperties
<1>2. Len(q) \in Nat \ {0} /\ Head(q) = q[1]
  BY EmptySeq
<1>3. \A i \in 1..Len(Tail(q)) : Carried(q, Tail(q)[i])
  BY <1>1, <1>2 DEF Carried
<1>4. /\ Detach(Tail(q)) \in Seq(Writes)
      /\ Len(Detach(Tail(q))) = Len(Tail(q))
      /\ \A i \in 1..Len(Tail(q)) : /\ Detach(Tail(q))[i].key = Tail(q)[i].key
                                     /\ Detach(Tail(q))[i].value = Tail(q)[i].value
  BY <1>1, DetachKeeps
<1>5. \A i \in 1..Len(Detach(Tail(q))) : Carried(q, Detach(Tail(q))[i])
  BY <1>3, <1>4 DEF Carried
<1>6. Carried(q, Head(q))
  BY <1>2 DEF Carried
<1> QED BY <1>1, <1>3, <1>4, <1>5, <1>6

LEMMA AcknowledgeParts ==
  ASSUME Parts, TypeOK', NEW d \in Devices, NEW stored, NEW covered,
         Acknowledge(d, stored, covered)
  PROVE  Parts'
<1> PICK q : q = pending[d]
  OBVIOUS
<1>1. q \in Seq(Writes) /\ q # <<>> /\ Rest(d) = Tail(q)
  BY AnsweredIsQueued DEF Parts, Rest
<1>2. Grows
  BY DEF Acknowledge, Grows
<1>3. ServerSound'
  BY DEF Parts, ServerSound, Sound, Acknowledge
<1>4. QueuesSound'
  <2>1. CASE pending' = [pending EXCEPT ![d] = Detach(Tail(q))]
    BY <1>1, <1>2, <2>1, CarriedByTail, QueuesStep
  <2>2. CASE pending' = [pending EXCEPT ![d] = Tail(q)]
    BY <1>1, <1>2, <2>2, CarriedByTail, QueuesStep
  <2> QED BY <1>1, <2>1, <2>2 DEF Acknowledge
<1>5. ListsSound' /\ EditorsSound'
  <2>1. CASE CloseEditor(d)
    BY <1>2, <2>1, ListCleared, EditorClosed DEF CloseEditor
  <2>2. CASE UNCHANGED <<editor, list>>
    BY <1>2, <2>2, ListsSame, EditorsSame
  <2> QED BY <2>1, <2>2 DEF Acknowledge
<1>6. UninvitedUnlessFounded'
  BY DEF UninvitedUnlessFounded, Parts, Acknowledge
<1> QED BY <1>3, <1>4, <1>5, <1>6 DEF Parts

LEMMA ServerStoresParts ==
  ASSUME Parts, TypeOK', NEW d \in Devices, ServerStores(d)
  PROVE  Parts'
<1>1. PICK i \in 1..Len(pending[d]) :
        /\ pending[d][i] \in Writes
        /\ server' = [server EXCEPT ![pending[d][i].key] = pending[d][i].value]
  BY StoredWrite DEF Parts
<1>2. UNCHANGED <<pending, list, editor, creator, invited>>
  BY DEF ServerStores, clubVars
<1>3. PICK w \in Writes : w = pending[d][i] /\ WriteSound(d, w)
  BY <1>1 DEF Parts, QueuesSound
<1>4. ServerSound'
  <2>1. \A c \in Clubs : server'[c] = server[c] \/ (c = w.key /\ server'[c] = w.value)
    BY <1>1, <1>3 DEF Parts, TypeOK, ClubTypes
  <2>2. \A c \in Clubs : server'[c] # NoClub => Sound(c, server'[c])
    BY <1>3, <2>1 DEF WriteSound, Parts, ServerSound
  <2> QED BY <1>2, <2>2 DEF ServerSound, Sound
<1>5. Grows /\ UninvitedUnlessFounded'
  BY <1>2 DEF Grows, UninvitedUnlessFounded, Parts
<1> QED BY <1>2, <1>4, <1>5, QueuesSame, ListsSame, EditorsSame DEF Parts

LEMMA FetchParts ==
  ASSUME Parts, TypeOK', NEW d \in Devices, NEW tab, FetchClubs(d, tab)
  PROVE  Parts'
<1>1. Grows
  BY DEF FetchClubs, Grows
<1>2. ASSUME NEW c \in Clubs, Local(d, c) # NoClub
      PROVE  Sound(c, Local(d, c))
  <2>1. \/ Local(d, c) = server[c]
        \/ \E i \in 1..Len(pending[d]) :
              pending[d][i].key = c /\ Local(d, c) = pending[d][i].value
    BY LocalIsServerOrOwn DEF Clubs, Parts, TypeOK, ClubTypes
  <2> QED BY <1>2, <2>1 DEF Parts, ServerSound, QueuesSound, WriteSound
<1>3. \A x \in Devices, c \in Clubs :
        list'[x][c] # NoClub =>
          \/ list'[x][c] = list[x][c]
          \/ x = d /\ list'[x][c] = Local(d, c)
  BY DEF FetchClubs, Parts, TypeOK, ClubTypes
<1>4. \A x \in Devices, c \in Clubs :
        list'[x][c] # NoClub => Sound(c, list'[x][c])
  BY <1>2, <1>3 DEF Parts, ListsSound
<1>5. ListsSound'
  BY <1>4 DEF ListsSound, Sound, FetchClubs
<1>6. UninvitedUnlessFounded'
  BY DEF UninvitedUnlessFounded, Parts, FetchClubs
<1> QED
  BY <1>1, <1>5, <1>6, QueuesSame, ServerSame, EditorsSame DEF Parts, FetchClubs

LEMMA OpenNewParts ==
  ASSUME Parts, TypeOK', NEW d \in Devices, OpenNew(d)
  PROVE  Parts'
<1> PICK model : model = [owner |-> User(d), guests |-> NoGuests,
                          date |-> now + DefaultAhead, platform |-> FirstPlatform]
  OBVIOUS
<1> PICK e : e = [club |-> NewClub, model |-> model, asked |-> NoGuests,
                  answers |-> 0, invited |-> NoGuests, minDate |-> now,
                  date |-> model.date, row |-> FirstPlatform]
  OBVIOUS
<1>1. editor' = [editor EXCEPT ![d] = e] /\ list' = [list EXCEPT ![d] = NoRows]
  BY DEF OpenNew
<1>2. EditorSound(d, e)
  <2>1. User(d) \in Users
    BY UserOfAssumption DEF User
  <2>2. ListableBy(NoGuests, User(d))
    BY <2>1 DEF ListableBy, NoGuests
  <2> QED BY <2>2 DEF EditorSound
<1>3. Grows /\ UNCHANGED <<server, pending, creator, invited>>
  BY DEF Grows, OpenNew
<1>4. EditorSound(d, e)'
  BY <1>2, <1>3 DEF EditorSound, Sound
<1>5. UninvitedUnlessFounded'
  BY <1>3 DEF UninvitedUnlessFounded, Parts
<1> QED
  BY <1>1, <1>3, <1>4, <1>5, QueuesSame, ServerSame, ListCleared, EditorSet DEF Parts

LEMMA OpenClubParts ==
  ASSUME Parts, TypeOK', NEW d \in Devices, NEW c \in Clubs, OpenClub(d, c)
  PROVE  Parts'
<1> PICK model : model = list[d][c]
  OBVIOUS
<1> PICK e : e = [club |-> c, model |-> model, asked |-> model.guests,
                  answers |-> 2, invited |-> NotLoaded, minDate |-> now,
                  date |-> Later(model.date, now), row |-> FirstPlatform]
  OBVIOUS
<1>1. editor' = [editor EXCEPT ![d] = e] /\ list' = [list EXCEPT ![d] = NoRows]
  BY DEF OpenClub
<1>2. model \in ClubDocs /\ Sound(c, model)
  BY DEF OpenClub, Parts, ListsSound, TypeOK, ClubTypes
<1>3. EditorSound(d, e)
  <2>1. ListableBy(model.guests, model.owner) /\ Members(model.guests) \subseteq invited[c]
    BY <1>2 DEF Sound, ListableBy
  <2>2. c # NewClub
    BY MarkerAssumption
  <2> QED BY <1>2, <2>1, <2>2 DEF EditorSound
<1>4. Grows /\ UNCHANGED <<server, pending, creator, invited>>
  BY DEF Grows, OpenClub
<1>5. EditorSound(d, e)'
  BY <1>3, <1>4 DEF EditorSound, Sound
<1>6. UninvitedUnlessFounded'
  BY <1>4 DEF UninvitedUnlessFounded, Parts
<1> QED
  BY <1>1, <1>4, <1>5, <1>6, QueuesSame, ServerSame, ListCleared, EditorSet DEF Parts

LEMMA EditParts ==
  ASSUME Parts, TypeOK', NEW d \in Devices, Edit(d)
  PROVE  Parts'
<1> PICK e : e = editor[d]
  OBVIOUS
<1>1. e \in Editors /\ EditorSound(d, e)
  BY DEF Edit, GuestsLoaded, AddGuest, RemoveGuest, SelectDate, SelectPlatform, Open,
         Parts, TypeOK, ClubTypes, EditorsSound
<1>2. /\ e.club \in Clubs \cup {NewClub} /\ e.asked \in Guests
      /\ e.invited \in Guests \cup {NotLoaded}
      /\ e.model \in ClubDocs /\ e.model.owner \in Users
  BY <1>1 DEF Editors, ClubDocs
<1>3. CASE GuestsLoaded(d)
  <2> DEFINE f == [e EXCEPT !.invited = e.asked, !.answers = @ - 1]
  <2>1. /\ editor' = [editor EXCEPT ![d] = f]
        /\ UNCHANGED <<server, pending, list, creator, invited>>
    BY <1>3 DEF GuestsLoaded
  <2>2. /\ f.club = e.club /\ f.model = e.model /\ f.asked = e.asked
        /\ f.invited = e.asked
    BY <1>1 DEF Editors
  <2> HIDE DEF f
  <2>3. EditorSound(d, f)
    BY <1>1, <2>2 DEF EditorSound
  <2> QED BY <2>1, <2>3, EditStep
<1>4. ASSUME NEW u \in Users, AddGuest(d, u) PROVE Parts'
  <2> DEFINE f == [e EXCEPT !.invited = WithSuggestion(@, u)]
  <2>1. /\ editor' = [editor EXCEPT ![d] = f]
        /\ e.model.owner = User(d) /\ u # User(d) /\ e.invited # NotLoaded
        /\ UNCHANGED <<server, pending, list, creator, invited>>
    BY <1>4 DEF AddGuest, Owning, Suggested
  <2>2. /\ f.club = e.club /\ f.model = e.model /\ f.asked = e.asked
        /\ f.invited = WithSuggestion(e.invited, u)
    BY <1>1 DEF Editors
  <2> HIDE DEF f
  <2>3. ListableBy(f.invited, f.model.owner)
    BY <1>1, <1>2, <2>1, <2>2, WithSuggestionListable DEF EditorSound
  <2>4. EditorSound(d, f)
    BY <1>1, <2>1, <2>2, <2>3 DEF EditorSound
  <2> QED BY <2>1, <2>4, EditStep
<1>5. ASSUME NEW u \in Users, RemoveGuest(d, u) PROVE Parts'
  <2> DEFINE g == [e.invited EXCEPT ![u] = @ - 1]
             f == [e EXCEPT !.invited = g]
  <2>1. /\ editor' = [editor EXCEPT ![d] = f]
        /\ e.model.owner = User(d) /\ e.invited # NotLoaded /\ e.invited[u] > 0
        /\ UNCHANGED <<server, pending, list, creator, invited>>
    BY <1>1, <1>5 DEF RemoveGuest, Owning, Editors
  <2>2. ListableBy(g, e.model.owner)
    <3>1. ListableBy(e.invited, e.model.owner)
      BY <1>1, <2>1 DEF EditorSound
    <3>2. e.invited \in Guests
      BY <1>2, <2>1
    <3>3. \A v \in Users : g[v] = IF v = u THEN e.invited[v] - 1 ELSE e.invited[v]
      BY <3>2 DEF Guests
    <3>4. \A v \in Users : e.invited[v] \in Nat
      BY <3>2 DEF Guests
    <3> HIDE DEF g
    <3> QED BY <1>2, <2>1, <3>1, <3>3, <3>4 DEF ListableBy
  <2> HIDE DEF g
  <2>3. /\ f.club = e.club /\ f.model = e.model /\ f.asked = e.asked
        /\ f.invited = g
    BY <1>1 DEF Editors
  <2> HIDE DEF f
  <2>4. EditorSound(d, f)
    BY <1>1, <2>1, <2>2, <2>3 DEF EditorSound
  <2> QED BY <2>1, <2>4, EditStep
<1>6. ASSUME NEW t \in Dates, SelectDate(d, t) PROVE Parts'
  <2> DEFINE f == [e EXCEPT !.date = t, !.model.date = t]
  <2>1. /\ editor' = [editor EXCEPT ![d] = f]
        /\ UNCHANGED <<server, pending, list, creator, invited>>
    BY <1>6 DEF SelectDate
  <2>2. /\ f.club = e.club /\ f.asked = e.asked /\ f.invited = e.invited
        /\ f.model.owner = e.model.owner /\ f.model.guests = e.model.guests
    BY <1>1, <1>2 DEF Editors, ClubDocs
  <2> HIDE DEF f
  <2>3. EditorSound(d, f)
    BY <1>1, <2>2 DEF EditorSound, Sound
  <2> QED BY <2>1, <2>3, EditStep
<1>7. ASSUME NEW p \in Platforms, SelectPlatform(d, p) PROVE Parts'
  <2> DEFINE f == [e EXCEPT !.row = p, !.model.platform = p]
  <2>1. /\ editor' = [editor EXCEPT ![d] = f]
        /\ UNCHANGED <<server, pending, list, creator, invited>>
    BY <1>7 DEF SelectPlatform
  <2>2. /\ f.club = e.club /\ f.asked = e.asked /\ f.invited = e.invited
        /\ f.model.owner = e.model.owner /\ f.model.guests = e.model.guests
    BY <1>1, <1>2 DEF Editors, ClubDocs
  <2> HIDE DEF f
  <2>3. EditorSound(d, f)
    BY <1>1, <2>2 DEF EditorSound, Sound
  <2> QED BY <2>1, <2>3, EditStep
<1> QED BY <1>3, <1>4, <1>5, <1>6, <1>7 DEF Edit

LEMMA PartsStep == Parts /\ [Next]_vars => Parts'
<1> SUFFICES ASSUME Parts, [Next]_vars PROVE Parts'
  OBVIOUS
<1>1. TypeOK'
  BY TypeStep DEF Parts
<1>2. CASE Tick \/ UNCHANGED vars
  <2>1. UNCHANGED <<server, pending, list, editor, creator, invited>>
    BY <1>2 DEF Tick, vars
  <2>2. Grows /\ UninvitedUnlessFounded'
    BY <2>1 DEF Grows, UninvitedUnlessFounded, Parts
  <2> QED
    BY <1>1, <2>1, <2>2, QueuesSame, ServerSame, ListsSame, EditorsSame DEF Parts
<1>3. ASSUME NEW d \in Devices, Close(d) \/ Restart(d) PROVE Parts'
  <2> PICK p : p = pending[d]
    OBVIOUS
  <2>1. p \in Seq(Writes)
    BY DEF Parts, TypeOK, ClubTypes
  <2>2. CASE Close(d)
    <3>1. /\ Detach(p) \in Seq(Writes)
          /\ \A i \in 1..Len(Detach(p)) : Carried(p, Detach(p)[i])
      BY <2>1, DetachKeeps DEF Carried
    <3> QED BY <1>1, <2>2, <3>1, CloseParts DEF Close
  <2>3. CASE Restart(d)
    <3>1. /\ Forget(p) \in Seq(Writes)
          /\ \A i \in 1..Len(Forget(p)) : Carried(p, Forget(p)[i])
      BY <2>1, ForgetKeeps DEF Carried
    <3> QED BY <1>1, <2>3, <3>1, CloseParts DEF Restart
  <2> QED BY <1>3, <2>2, <2>3
<1>4. ASSUME NEW d \in Devices, Navigate(d) PROVE Parts'
  BY <1>1, <1>3, <1>4, FetchParts, OpenNewParts, OpenClubParts DEF Navigate
<1>5. ASSUME NEW d \in Devices, Write(d) PROVE Parts'
  BY <1>1, <1>5, CreateParts, SaveParts, LeaveParts, DeleteParts DEF Write
<1>6. ASSUME NEW d \in Devices, Network(d) PROVE Parts'
  <2>1. CASE ConnectionLost(d)
    <3>1. UNCHANGED <<server, pending, list, editor, creator, invited>>
      BY <2>1 DEF ConnectionLost, clubVars
    <3>2. Grows /\ UninvitedUnlessFounded'
      BY <3>1 DEF Grows, UninvitedUnlessFounded, Parts
    <3> QED
      BY <1>1, <3>1, <3>2, QueuesSame, ServerSame, ListsSame, EditorsSame DEF Parts
  <2> QED
    BY <1>1, <1>6, <2>1, AcknowledgeParts, ServerStoresParts DEF Network, Answer
<1> QED BY <1>1, <1>2, <1>4, <1>5, <1>6, EditParts DEF Next

\* The inductive invariant holds: every copy of a club, on the server, in a
\* queue, on a list or in an editor, is sound or becomes so when it is saved.
THEOREM CopiesSound == Spec => []IInv
<1>1. Init => IInv
  BY PartsInit, IInvIsParts
<1>2. IInv /\ [Next]_vars => IInv'
  <2>1. IInv' <=> Parts'
    BY IInvIsParts, PTL
  <2> QED BY <2>1, PartsStep, IInvIsParts
<1> QED BY <1>1, <1>2, PTL DEF Spec

\* Nobody takes a club over, nobody is listed twice, and only people the owner
\* invited are guests, in what the server holds and in every queued write.
THEOREM ClubsStaySound == Spec => []StoredClubsSound
<1>1. IInv => StoredClubsSound
  BY DEF IInv
<1> QED BY <1>1, CopiesSound, PTL

(***************************************************************************)
(* What a list shows.                                                      *)
(***************************************************************************)
ListsMine ==
    \A d \in Devices, c \in Clubs : list[d][c] # NoClub => IsMine(list[d][c], User(d))

LEMMA ListsMineStep == TypeOK /\ ListsMine /\ [Next]_vars => ListsMine'
<1> SUFFICES ASSUME TypeOK, ListsMine, [Next]_vars PROVE ListsMine'
  OBVIOUS
<1>1. ASSUME list' = list PROVE ListsMine'
  BY <1>1 DEF ListsMine
<1>2. ASSUME NEW d \in Devices, list' = [list EXCEPT ![d] = NoRows] PROVE ListsMine'
  BY <1>2 DEF ListsMine, NoRows, TypeOK, ClubTypes
<1>3. ASSUME NEW d \in Devices, NEW tab, FetchClubs(d, tab) PROVE ListsMine'
  BY <1>3 DEF FetchClubs, ListsMine, TypeOK, ClubTypes
<1>4. CASE Tick \/ UNCHANGED vars
  BY <1>1, <1>4 DEF Tick, vars
<1>5. ASSUME NEW d \in Devices, Navigate(d) PROVE ListsMine'
  BY <1>1, <1>2, <1>3, <1>5
  DEF Navigate, OpenNew, OpenClub, Close, Restart, CloseEditor
<1>6. ASSUME NEW d \in Devices, Edit(d) PROVE ListsMine'
  BY <1>1, <1>6
  DEF Edit, GuestsLoaded, AddGuest, RemoveGuest, SelectDate, SelectPlatform
<1>7. ASSUME NEW d \in Devices, Write(d) PROVE ListsMine'
  BY <1>1, <1>2, <1>7 DEF Write, Create, Save, Leave, Delete, CloseEditor
<1>8. ASSUME NEW d \in Devices, Network(d) PROVE ListsMine'
  BY <1>1, <1>2, <1>8
  DEF Network, Answer, Acknowledge, CloseEditor, ServerStores, ConnectionLost, clubVars
<1> QED BY <1>4, <1>5, <1>6, <1>7, <1>8 DEF Next

\* A club is shown only to the user who created it and to those its owner has
\* invited to it.
THEOREM OnlyInvitedSee == Spec => []OnlyInvitedSeeClub
<1>1. Init => ListsMine
  BY DEF Init, ListsMine, NoRows
<1>2. IInv /\ ListsMine => OnlyInvitedSeeClub
  <2> SUFFICES ASSUME IInv, ListsMine, NEW d \in Devices, NEW c \in Clubs,
                      list[d][c] # NoClub
               PROVE  User(d) \in {creator[c]} \cup invited[c]
    BY DEF OnlyInvitedSeeClub
  <2>1. Sound(c, list[d][c]) /\ IsMine(list[d][c], User(d))
    BY DEF IInv, ListsSound, ListsMine
  <2>2. User(d) \in Users
    BY UserOfAssumption DEF User
  <2> QED BY <2>1, <2>2 DEF Sound, IsMine, Members
<1>3. IInv => TypeOK
  BY DEF IInv
<1> QED BY <1>1, <1>2, <1>3, CopiesSound, ListsMineStep, PTL DEF Spec

(***************************************************************************)
(* Reminders.                                                              *)
(***************************************************************************)
AtMostOne(fires) == \A f, g \in fires : f = g

LEMMA CancelLeavesNone ==
  ASSUME NEW fires, AtMostOne(fires)
  PROVE  Cancel(fires) = {}
BY DEF Cancel, AtMostOne

LEMMA ScheduleAtMostOne ==
  ASSUME NEW date
  PROVE  AtMostOne(Schedule({}, date))
BY DEF Schedule, AtMostOne

LEMMA RemindAtMostOne ==
  ASSUME NEW fires, NEW club, AtMostOne(fires)
  PROVE  AtMostOne(Remind(fires, club)) /\ AtMostOne(Reschedule(fires, club))
<1>1. AtMostOne({})
  BY DEF AtMostOne
<1>2. AtMostOne(Remind(fires, club))
  BY <1>1, CancelLeavesNone, ScheduleAtMostOne DEF Remind
<1>3. AtMostOne(Reschedule(fires, club))
  BY CancelLeavesNone, ScheduleAtMostOne DEF Reschedule
<1> QED BY <1>2, <1>3

LEMMA RemindersStep == TypeOK /\ OneReminderPerClub /\ [Next]_vars => OneReminderPerClub'
<1> SUFFICES ASSUME TypeOK, OneReminderPerClub, [Next]_vars PROVE OneReminderPerClub'
  OBVIOUS
<1>1. ASSUME reminders' = reminders PROVE OneReminderPerClub'
  BY <1>1 DEF OneReminderPerClub
<1>2. ASSUME NEW d \in Devices, NEW c, NEW fires, AtMostOne(fires),
             reminders' = [reminders EXCEPT ![d][c] = fires]
      PROVE  OneReminderPerClub'
  BY <1>2 DEF OneReminderPerClub, AtMostOne, TypeOK, ClubTypes
<1>3. CASE Tick
  BY <1>3 DEF Tick, OneReminderPerClub
<1>4. ASSUME NEW d \in Devices, NEW c \in Clubs, OpenClub(d, c) PROVE OneReminderPerClub'
  <2>1. AtMostOne(Remind(reminders[d][c], list[d][c]))
    BY RemindAtMostOne DEF OneReminderPerClub, AtMostOne
  <2> QED BY <1>2, <1>4, <2>1 DEF OpenClub
<1>5. ASSUME NEW d \in Devices, Save(d) PROVE OneReminderPerClub'
  <2>1. editor[d].club \in Clubs
    BY <1>5 DEF Save, Open, Creating, TypeOK, ClubTypes, Editors
  <2>2. AtMostOne(Reschedule(reminders[d][editor[d].club], editor[d].model))
    BY <2>1, RemindAtMostOne DEF OneReminderPerClub, AtMostOne
  <2> QED BY <1>2, <1>5, <2>2 DEF Save
<1>6. CASE UNCHANGED vars
  BY <1>1, <1>6 DEF vars
<1>7. ASSUME NEW d \in Devices, Navigate(d) PROVE OneReminderPerClub'
  BY <1>1, <1>4, <1>7 DEF Navigate, FetchClubs, OpenNew, Close, Restart
<1>8. ASSUME NEW d \in Devices, Edit(d) PROVE OneReminderPerClub'
  BY <1>1, <1>8
  DEF Edit, GuestsLoaded, AddGuest, RemoveGuest, SelectDate, SelectPlatform
<1>9. ASSUME NEW d \in Devices, Write(d) PROVE OneReminderPerClub'
  BY <1>1, <1>5, <1>9 DEF Write, Create, Leave, Delete
<1>10. ASSUME NEW d \in Devices, Network(d) PROVE OneReminderPerClub'
  BY <1>1, <1>10
  DEF Network, Answer, Acknowledge, ServerStores, ConnectionLost, clubVars
<1> QED BY <1>3, <1>6, <1>7, <1>8, <1>9, <1>10 DEF Next

\* However often a club is opened, saved and rescheduled, a device has at most
\* one reminder scheduled for it.
THEOREM OneReminder == Spec => []OneReminderPerClub
<1>1. Init => OneReminderPerClub
  BY DEF Init, OneReminderPerClub
<1> QED BY <1>1, RemindersStep, TypeCorrect, PTL DEF Spec

\* What the owner saves is dated by the picker, and the reminder by the model:
\* the two differ only where the picker shows the moment at which an event that
\* was over has been opened.
DatesAgree(e) == e.model.date = e.date \/ e.date <= now

DatesSound == \A d \in Devices : Open(d) => DatesAgree(editor[d])

LEMMA DatesKept ==
  ASSUME TypeOK, DatesSound, TypeOK', [Next]_vars
  PROVE  DatesSound'
<1>1. now \in Nat /\ now' \in Nat /\ now <= now'
  <2>1. now \in Nat
    BY TimeAssumption DEF TypeOK, ClubTypes
  <2>2. now' = now \/ now' = now + 1
    <3>1. \A d \in Devices : Navigate(d) => now' = now
      BY DEF Navigate, FetchClubs, OpenNew, OpenClub, Close, Restart
    <3>2. \A d \in Devices : Edit(d) => now' = now
      BY DEF Edit, GuestsLoaded, AddGuest, RemoveGuest, SelectDate, SelectPlatform
    <3>3. \A d \in Devices : Write(d) => now' = now
      BY DEF Write, Create, Save, Leave, Delete
    <3>4. \A d \in Devices : Network(d) => now' = now
      BY DEF Network, Answer, Acknowledge, ServerStores, ConnectionLost, clubVars
    <3> QED BY <3>1, <3>2, <3>3, <3>4 DEF Next, Tick, vars
  <2> QED BY <2>1, <2>2
<1>2. \A d \in Devices : Open(d) =>
         editor[d] \in Editors /\ editor[d].date \in Nat /\ editor[d].model.date \in Nat
  BY DatesAssumption DEF Open, TypeOK, ClubTypes, Editors, ClubDocs
<1>3. editor \in [Devices -> Editors \cup {NoEditor}]
  BY DEF TypeOK, ClubTypes
<1>4. ASSUME editor' = editor PROVE DatesSound'
  BY <1>1, <1>2, <1>4 DEF DatesSound, DatesAgree, Open
<1>5. ASSUME NEW d \in Devices, NEW e, editor' = [editor EXCEPT ![d] = e], now' = now,
             e # NoEditor => e.model.date = e.date \/ e.date <= now
      PROVE  DatesSound'
  BY <1>3, <1>5 DEF DatesSound, DatesAgree, Open
<1>6. CASE Tick \/ UNCHANGED vars
  BY <1>4, <1>6 DEF Tick, vars
<1>7. ASSUME NEW d \in Devices, Navigate(d) PROVE DatesSound'
  <2>1. ASSUME OpenNew(d) PROVE DatesSound'
    BY <1>5, <2>1 DEF OpenNew
  <2>2. ASSUME NEW c \in Clubs, OpenClub(d, c) PROVE DatesSound'
    <3>1. list[d][c].date \in Nat
      <4>1. list[d][c] \in ClubDocs
        BY <2>2 DEF OpenClub, TypeOK, ClubTypes
      <4> QED BY <4>1, DatesAssumption DEF ClubDocs
    <3>2. Later(list[d][c].date, now) = list[d][c].date
          \/ Later(list[d][c].date, now) <= now
      BY <1>1, <3>1 DEF Later
    <3> QED BY <1>5, <2>2, <3>2 DEF OpenClub
  <2>3. ASSUME Close(d) \/ Restart(d) PROVE DatesSound'
    BY <1>5, <2>3 DEF Close, Restart, CloseEditor
  <2>4. ASSUME NEW tab, FetchClubs(d, tab) PROVE DatesSound'
    BY <1>4, <2>4 DEF FetchClubs
  <2> QED BY <1>7, <2>1, <2>2, <2>3, <2>4 DEF Navigate
<1>8. ASSUME NEW d \in Devices, Edit(d) PROVE DatesSound'
  <2>0. Open(d) /\ editor[d] \in Editors /\ DatesAgree(editor[d])
    BY <1>2, <1>8
    DEF Edit, GuestsLoaded, AddGuest, RemoveGuest, SelectDate, SelectPlatform, DatesSound
  <2>1. ASSUME GuestsLoaded(d) PROVE DatesSound'
    BY <1>5, <2>0, <2>1 DEF GuestsLoaded, Editors, DatesAgree
  <2>2. ASSUME NEW u \in Users, AddGuest(d, u) PROVE DatesSound'
    BY <1>5, <2>0, <2>2 DEF AddGuest, Editors, DatesAgree
  <2>3. ASSUME NEW u \in Users, RemoveGuest(d, u) PROVE DatesSound'
    BY <1>5, <2>0, <2>3 DEF RemoveGuest, Editors, DatesAgree
  <2>4. ASSUME NEW t \in Dates, SelectDate(d, t) PROVE DatesSound'
    <3> DEFINE e == [editor[d] EXCEPT !.date = t, !.model.date = t]
    <3>1. e.date = t /\ e.model.date = t
      BY <2>0, <2>4 DEF Editors, ClubDocs
    <3>2. editor' = [editor EXCEPT ![d] = e] /\ now' = now
      BY <2>4 DEF SelectDate
    <3> HIDE DEF e
    <3> QED BY <1>5, <3>1, <3>2
  <2>5. ASSUME NEW p \in Platforms, SelectPlatform(d, p) PROVE DatesSound'
    <3> DEFINE e == [editor[d] EXCEPT !.row = p, !.model.platform = p]
    <3>1. e.date = editor[d].date /\ e.model.date = editor[d].model.date
      BY <2>0, <2>5 DEF Editors, ClubDocs
    <3>2. editor' = [editor EXCEPT ![d] = e] /\ now' = now
      BY <2>5 DEF SelectPlatform
    <3> HIDE DEF e
    <3> QED BY <1>5, <2>0, <3>1, <3>2 DEF DatesAgree
  <2> QED BY <1>8, <2>1, <2>2, <2>3, <2>4, <2>5 DEF Edit
<1>9. ASSUME NEW d \in Devices, Write(d) PROVE DatesSound'
  <2>0. Open(d) /\ editor[d] \in Editors
    BY <1>2, <1>9 DEF Write, Create, Save, Leave, Delete
  <2>1. ASSUME NEW c \in Clubs, Create(d, c) PROVE DatesSound'
    BY <1>5, <2>0, <2>1 DEF Create, FilledIn, Editors, ClubDocs
  <2>2. ASSUME Save(d) PROVE DatesSound'
    BY <1>5, <2>0, <2>2 DEF Save, FilledIn, Editors, ClubDocs
  <2>3. ASSUME Leave(d) PROVE DatesSound'
    BY <1>5, <2>0, <2>3 DEF Leave, FilledIn, Editors, ClubDocs
  <2>4. ASSUME Delete(d) PROVE DatesSound'
    BY <1>5, <2>4 DEF Delete, CloseEditor
  <2> QED BY <1>9, <2>1, <2>2, <2>3, <2>4 DEF Write
<1>10. ASSUME NEW d \in Devices, Network(d) PROVE DatesSound'
  <2>1. editor' = editor \/ (CloseEditor(d) /\ now' = now)
    BY <1>10 DEF Network, Answer, Acknowledge, ServerStores, ConnectionLost, clubVars
  <2> QED BY <1>4, <1>5, <2>1 DEF CloseEditor
<1> QED BY <1>6, <1>7, <1>8, <1>9, <1>10 DEF Next

\* A queue grows only by a button of its device.
LEMMA GrowsByWriting ==
  ASSUME TypeOK, Next, NEW d \in Devices, Len(pending'[d]) > Len(pending[d])
  PROVE  Write(d)
<1>0. pending \in [Devices -> Seq(Writes)] /\ \A c \in Devices : Len(pending[c]) \in Nat
  BY QueueLengths DEF TypeOK, ClubTypes
<1>1. pending'[d] # pending[d] /\ Len(pending'[d]) # Len(pending[d])
  BY <1>0
<1>2. ~Tick
  BY <1>1 DEF Tick
<1>3. \A c \in Devices : ~Edit(c)
  BY <1>1 DEF Edit, GuestsLoaded, AddGuest, RemoveGuest, SelectDate, SelectPlatform
<1>4. ASSUME NEW c \in Devices, Navigate(c) PROVE FALSE
  <2>1. pending' = [pending EXCEPT ![c] = Detach(@)]
        \/ pending' = [pending EXCEPT ![c] = Forget(@)]
    BY <1>1, <1>4 DEF Navigate, FetchClubs, OpenNew, OpenClub, Close, Restart
  <2>2. /\ Len(Detach(pending[c])) = Len(pending[c])
        /\ Len(Forget(pending[c])) = Len(pending[c])
    BY QueueLengths, DetachKeeps, ForgetKeeps
  <2> QED BY <1>0, <1>1, <2>1, <2>2
<1>5. ASSUME NEW c \in Devices, Network(c) PROVE FALSE
  <2>1. PICK stored, covered \in BOOLEAN : Acknowledge(c, stored, covered)
    BY <1>1, <1>5 DEF Network, Answer, ServerStores, ConnectionLost
  <2>2. pending[c] \in Seq(Writes) /\ pending[c] # <<>>
    BY <2>1, AnsweredIsQueued
  <2>3. Rest(c) \in Seq(Writes) /\ Len(Rest(c)) = Len(pending[c]) - 1
    BY <2>2, HeadTailProperties DEF Rest
  <2>4. Len(Detach(Rest(c))) = Len(pending[c]) - 1
    BY <2>3, DetachKeeps
  <2>5. /\ c # d => pending'[d] = pending[d]
        /\ pending'[c] = Rest(c) \/ pending'[c] = Detach(Rest(c))
    BY <1>0, <2>1 DEF Acknowledge
  <2> QED BY <1>0, <1>1, <2>3, <2>4, <2>5
<1>6. ASSUME NEW c \in Devices, Write(c), c # d PROVE FALSE
  BY <1>0, <1>1, <1>6 DEF Write, Create, Save, Leave, Delete, Enqueue
<1> QED BY <1>2, <1>3, <1>4, <1>5, <1>6 DEF Next

\* When the owner saves an event that is still ahead, the device's reminder is
\* the one for the date saved.
THEOREM ReminderIsForSavedDate == Spec => ReminderMatchesSavedDate
<1> DEFINE A == \A d \in Devices :
                  LET club == pending'[d][Len(pending'[d])].value
                      c == pending'[d][Len(pending'[d])].key
                  IN  /\ Len(pending'[d]) > Len(pending[d])
                      /\ ~Creating(d)
                      /\ Owning(d)
                      /\ club # NoClub
                      /\ club.date > now
                      => reminders'[d][c] = Schedule({}, club.date)
<1>1. Init => DatesSound
  BY DEF Init, DatesSound, Open
<1>2. TypeOK /\ TypeOK' /\ DatesSound /\ [Next]_vars => DatesSound'
  BY DatesKept
<1>3. TypeOK /\ DatesSound /\ OneReminderPerClub /\ [Next]_vars => [A]_vars
  <2> SUFFICES ASSUME TypeOK, DatesSound, OneReminderPerClub, Next, NEW d \in Devices,
                      Len(pending'[d]) > Len(pending[d]), ~Creating(d), Owning(d),
                      NEW w, w = pending'[d][Len(pending'[d])],
                      w.value # NoClub, w.value.date > now
               PROVE  reminders'[d][w.key] = Schedule({}, w.value.date)
    OBVIOUS
  <2>1. Write(d)
    BY GrowsByWriting
  <2>2. pending \in [Devices -> Seq(Writes)] /\ pending[d] \in Seq(Writes)
        /\ Len(pending[d]) \in Nat
    BY QueueLengths DEF TypeOK, ClubTypes
  <2>3. ASSUME NEW q \in Seq(Writes), NEW x
        PROVE  Append(q, x)[Len(Append(q, x))] = x
    OBVIOUS
  <2>4. Save(d)
    <3>1. ASSUME Delete(d) PROVE FALSE
      <4> DEFINE x == [key |-> editor[d].club, value |-> NoClub, handler |-> "none"]
      <4>1. pending'[d] = Append(Detach(pending[d]), x)
        BY <2>2, <3>1 DEF Delete
      <4>2. w = x
        BY <2>2, <2>3, <4>1, DetachKeeps
      <4> QED BY <4>2
    <3>2. ~Leave(d) /\ \A c \in Clubs : ~Create(d, c)
      BY DEF Leave, Create
    <3> QED BY <2>1, <3>1, <3>2 DEF Write
  <2>5. PICK e : e = editor[d]
    OBVIOUS
  <2>6. e \in Editors /\ e.club \in Clubs
    BY <2>4, <2>5 DEF Save, Open, Creating, TypeOK, ClubTypes, Editors
  <2>7. w.key = e.club /\ w.value = FilledIn(e)
    <3> DEFINE x == [key |-> e.club, value |-> FilledIn(e), handler |-> "dismiss"]
    <3>1. pending'[d] = Append(pending[d], x)
      BY <2>2, <2>4, <2>5 DEF Save, Enqueue
    <3>2. w = x
      BY <2>2, <2>3, <3>1
    <3> QED BY <3>2
  <2>8. w.value.date = e.date
    BY <2>6, <2>7 DEF FilledIn, Editors, ClubDocs
  <2>9. e.date \in Nat /\ now \in Nat
    <3>1. e.date \in Dates /\ now \in 0..MaxTime
      BY <2>6 DEF Editors, TypeOK, ClubTypes
    <3>2. e.date \in Nat
      BY <3>1, DatesAssumption
    <3>3. now \in Nat
      BY <3>1, TimeAssumption
    <3> QED BY <3>2, <3>3
  <2>10. e.model.date = e.date
    <3>1. DatesAgree(e)
      BY <2>4, <2>5 DEF Save, DatesSound
    <3>2. e.date > now
      BY <2>8
    <3>3. ~(e.date <= now)
      BY <2>9, <3>2
    <3> QED BY <3>1, <3>3 DEF DatesAgree
  <2>11. Cancel(reminders[d][e.club]) = {}
    <3>1. AtMostOne(reminders[d][e.club])
      BY <2>6 DEF OneReminderPerClub, AtMostOne
    <3> QED BY <3>1, CancelLeavesNone
  <2>12. reminders'[d][e.club] = Reschedule(reminders[d][e.club], e.model)
    BY <2>4, <2>5, <2>6 DEF Save, TypeOK, ClubTypes
  <2>13. Reschedule(reminders[d][e.club], e.model) = Schedule({}, e.date)
    BY <2>8, <2>10, <2>11 DEF Reschedule
  <2> QED BY <2>7, <2>8, <2>12, <2>13
<1> QED
  BY <1>1, <1>2, <1>3, TypeCorrect, OneReminder, PTL
  DEF Spec, ReminderMatchesSavedDate

(***************************************************************************)
(* Leaving.                                                                *)
(***************************************************************************)

\* A user appears on the guest list the server holds only by a write of
\* another user's device.
THEOREM NoSelfAdding == Spec => NobodyAddsThemselves
<1> DEFINE A == \A c \in Clubs, u \in Users :
                  /\ server'[c] # NoClub
                  /\ server'[c].guests[u] > 0
                  /\ server[c] = NoClub \/ server[c].guests[u] = 0
                  => \E d \in Devices : User(d) # u /\ applied'[d] # applied[d]
<1>1. IInv /\ [Next]_vars => [A]_vars
  <2> SUFFICES ASSUME IInv, Next, NEW c \in Clubs, NEW u \in Users,
                      server'[c] # NoClub, server'[c].guests[u] > 0,
                      server[c] = NoClub \/ server[c].guests[u] = 0
               PROVE  \E d \in Devices : User(d) # u /\ applied'[d] # applied[d]
    OBVIOUS
  <2>1. server' # server
    OBVIOUS
  <2>2. PICK d \in Devices : ServerStores(d)
    <3>1. ~Tick /\ ~(\E d \in Devices : Navigate(d))
      BY <2>1 DEF Tick, Navigate, FetchClubs, OpenNew, OpenClub, Close, Restart
    <3>2. ~(\E d \in Devices : Edit(d))
      BY <2>1 DEF Edit, GuestsLoaded, AddGuest, RemoveGuest, SelectDate, SelectPlatform
    <3>3. ~(\E d \in Devices : Write(d))
      BY <2>1 DEF Write, Create, Save, Leave, Delete
    <3>4. ~(\E d \in Devices : Answer(d) \/ ConnectionLost(d))
      BY <2>1 DEF Answer, Acknowledge, ConnectionLost
    <3> QED BY <3>1, <3>2, <3>3, <3>4 DEF Next, Network
  <2>3. PICK i \in 1..Len(pending[d]) :
          /\ pending[d][i] \in Writes
          /\ server' = [server EXCEPT ![pending[d][i].key] = pending[d][i].value]
    BY <2>2, StoredWrite DEF IInv
  <2>4. server'[c] = pending[d][i].value
    BY <2>3 DEF IInv, TypeOK, ClubTypes
  <2>5. pending[d][i].value.guests[User(d)] = 0
    BY <2>4 DEF IInv, WritesOmitWriter
  <2>6. User(d) # u
    BY <2>4, <2>5
  <2>7. applied'[d] # applied[d]
    <3>1. applied[d] \in Nat /\ applied'[d] = applied[d] + 1
      BY <2>2, StoresQueued DEF ServerStores, IInv, TypeOK, ClubTypes
    <3> QED BY <3>1
  <2> QED BY <2>6, <2>7
<1> QED BY <1>1, CopiesSound, PTL DEF Spec, NobodyAddsThemselves

(***************************************************************************)
(* Refinement.  A create is Found, a save by the owner is Invite, and the  *)
(* server's answer to a write is Store or Drop; every other step leaves    *)
(* the registry as it is.                                                  *)
(***************************************************************************)
Kept(club) == IF club = NoClub THEN NoClub
              ELSE [owner |-> club.owner, guests |-> Members(club.guests)]

Record == [c \in Clubs |-> Kept(server[c])]

LEMMA FoundStep ==
  ASSUME IInv, NEW d \in Devices, NEW c \in Clubs, Create(d, c)
  PROVE  /\ creator[c] = NoUser
         /\ UNCHANGED server
         /\ \E u \in Users, guests \in SUBSET Users :
              /\ u \notin guests
              /\ creator' = [creator EXCEPT ![c] = u]
              /\ invited' = [invited EXCEPT ![c] = guests]
<1> PICK e : e = editor[d]
  OBVIOUS
<1> DEFINE guests == Members(GuestIds(e))
<1>1. e \in Editors /\ EditorSound(d, e) /\ e.club = NewClub /\ creator[c] = NoUser
  BY DEF Create, Open, Creating, IInv, TypeOK, ClubTypes, EditorsSound
<1>2. User(d) \in Users /\ e.model.owner = User(d)
  BY <1>1, UserOfAssumption DEF User, EditorSound
<1>3. User(d) \notin guests /\ guests \in SUBSET Users
  BY <1>1, <1>2, GuestIdsListable DEF EditorSound, ListableBy, Members
<1>4. Members(FilledIn(e).guests) = guests
  BY <1>1, FilledInIsClub
<1> HIDE DEF guests
<1>5. invited[c] = {}
  BY <1>1 DEF IInv, ClubsFounded
<1>6. /\ creator' = [creator EXCEPT ![c] = User(d)]
      /\ invited' = [invited EXCEPT ![c] = guests]
      /\ UNCHANGED server
  BY <1>4, <1>5 DEF Create
<1> QED BY <1>1, <1>2, <1>3, <1>6

LEMMA InviteStep ==
  ASSUME IInv, NEW d \in Devices, Save(d)
  PROVE  \E c \in Clubs, guests \in SUBSET Users :
           /\ creator[c] # NoUser
           /\ creator[c] \notin guests
           /\ invited' = [invited EXCEPT ![c] = @ \cup guests]
           /\ UNCHANGED <<server, creator>>
<1> PICK e : e = editor[d]
  OBVIOUS
<1> DEFINE guests == Members(GuestIds(e))
<1>1. /\ e \in Editors /\ EditorSound(d, e) /\ e.club # NewClub
      /\ e.model.owner = User(d)
  BY DEF Save, Open, Creating, Owning, IInv, TypeOK, ClubTypes, EditorsSound
<1>2. User(d) \in Users /\ creator[e.club] = User(d) /\ e.club \in Clubs
  BY <1>1, UserOfAssumption DEF User, EditorSound, Sound, Editors
<1>3. User(d) \notin guests /\ guests \in SUBSET Users
  BY <1>1, <1>2, GuestIdsListable DEF EditorSound, ListableBy, Members
<1>4. Members(FilledIn(e).guests) = guests
  BY <1>1, FilledInIsClub
<1> HIDE DEF guests
<1>5. /\ invited' = [invited EXCEPT ![e.club] = @ \cup guests]
      /\ UNCHANGED <<server, creator>>
  BY <1>4 DEF Save
<1> QED BY <1>2, <1>3, <1>5, MarkerAssumption

LEMMA StoreStep ==
  ASSUME IInv, NEW d \in Devices, ServerStores(d)
  PROVE  /\ UNCHANGED <<creator, invited>>
         /\ \/ UNCHANGED server
            \/ \E c \in Clubs : /\ creator[c] # NoUser
                                /\ Record' = [Record EXCEPT ![c] = NoClub]
            \/ \E c \in Clubs : \E guests \in SUBSET invited[c] :
                  /\ creator[c] # NoUser
                  /\ Record' = [Record EXCEPT ![c] = [owner |-> creator[c],
                                                      guests |-> guests]]
<1>1. PICK i \in 1..Len(pending[d]) :
        /\ pending[d][i] \in Writes
        /\ server' = [server EXCEPT ![pending[d][i].key] = pending[d][i].value]
  BY StoredWrite DEF IInv
<1>2. PICK w \in Writes : w = pending[d][i]
  BY <1>1
<1>3. w.key \in Clubs /\ w.value \in ClubDocs \cup {NoClub}
  BY <1>2 DEF Writes
<1>4. /\ creator[w.key] # NoUser
      /\ w.value # NoClub => Sound(w.key, w.value)
  BY <1>2 DEF IInv, ClubsFounded, StoredClubsSound
<1>5. server' = [server EXCEPT ![w.key] = w.value]
  BY <1>1, <1>2
<1>6. UNCHANGED <<creator, invited>>
  BY DEF ServerStores, clubVars
<1>7. ASSUME server' = [server EXCEPT ![w.key] = w.value]
      PROVE  Record' = [Record EXCEPT ![w.key] = Kept(w.value)]
  <2>1. Record' = [c \in Clubs |-> Kept(server'[c])]
    BY DEF Record, Kept
  <2>2. \A c \in Clubs : server'[c] = IF c = w.key THEN w.value ELSE server[c]
    BY <1>3, <1>7 DEF IInv, TypeOK, ClubTypes
  <2>3. [Record EXCEPT ![w.key] = Kept(w.value)] =
          [c \in Clubs |-> Kept(IF c = w.key THEN w.value ELSE server[c])]
    BY <1>3 DEF Record
  <2> QED BY <2>1, <2>2, <2>3
<1>8. CASE w.value = NoClub
  BY <1>3, <1>4, <1>5, <1>6, <1>7, <1>8 DEF Kept
<1>9. CASE w.value # NoClub
  <2>1. /\ Kept(w.value) = [owner |-> creator[w.key], guests |-> Members(w.value.guests)]
        /\ Members(w.value.guests) \in SUBSET invited[w.key]
    BY <1>4, <1>9 DEF Kept, Sound
  <2> QED BY <1>3, <1>4, <1>5, <1>6, <1>7, <2>1
<1> QED BY <1>8, <1>9

\* Whatever the interleaving of the devices, what the server stores and when, and
\* the restarts, the clubs behave as the registry of ClubRegistry promises.
THEOREM RefinesRegistry == Spec => ImplementsRegistry
<1>1. Init => Registry!Init
  BY DEF Init, StoreInit, Registry!Init, NoRows
<1>2. IInv /\ [Next]_vars => [Registry!Next]_(Registry!vars)
  <2> SUFFICES ASSUME IInv, [Next]_vars PROVE [Registry!Next]_(Registry!vars)
    OBVIOUS
  <2>1. [c \in Clubs |-> IF server[c] = NoClub THEN NoClub
                         ELSE [owner |-> server[c].owner,
                               guests |-> Members(server[c].guests)]] = Record
    BY DEF Record, Kept
  <2>2. ASSUME UNCHANGED <<server, creator, invited>> PROVE UNCHANGED (Registry!vars)
    BY <2>2 DEF Registry!vars
  <2>3. ASSUME NEW d \in Devices, NEW c \in Clubs, Create(d, c) PROVE Registry!Next
    BY <2>3, FoundStep DEF Registry!Next, Registry!Found, Registry!Founded
  <2>4. ASSUME NEW d \in Devices, Save(d) PROVE Registry!Next
    BY <2>4, InviteStep DEF Registry!Next, Registry!Invite, Registry!Founded
  <2>5. ASSUME NEW d \in Devices, ServerStores(d)
        PROVE  Registry!Next \/ UNCHANGED (Registry!vars)
    <3>1. CASE UNCHANGED server
      BY <2>2, <2>5, <3>1, StoreStep
    <3>2. ASSUME NEW c \in Clubs, creator[c] # NoUser,
                 Record' = [Record EXCEPT ![c] = NoClub]
          PROVE  Registry!Next
      BY <2>5, <3>2, StoreStep
      DEF Registry!Next, Registry!Drop, Registry!Founded, Record, Kept
    <3>3. ASSUME NEW c \in Clubs, NEW guests \in SUBSET invited[c], creator[c] # NoUser,
                 Record' = [Record EXCEPT ![c] = [owner |-> creator[c], guests |-> guests]]
          PROVE  Registry!Next
      <4>1. guests \in SUBSET Users
        BY DEF IInv, TypeOK, ClubTypes
      <4> QED
        BY <2>5, <3>3, <4>1, StoreStep
        DEF Registry!Next, Registry!Store, Registry!Founded, Record, Kept
    <3> QED BY <2>5, <3>1, <3>2, <3>3, StoreStep
  <2>6. CASE Tick \/ UNCHANGED vars
    BY <2>2, <2>6 DEF Tick, vars
  <2>7. ASSUME NEW d \in Devices, Navigate(d) \/ Edit(d) PROVE UNCHANGED (Registry!vars)
    BY <2>2, <2>7
    DEF Navigate, FetchClubs, OpenNew, OpenClub, Close, Restart, Edit, GuestsLoaded,
        AddGuest, RemoveGuest, SelectDate, SelectPlatform
  <2>8. ASSUME NEW d \in Devices, Write(d)
        PROVE  Registry!Next \/ UNCHANGED (Registry!vars)
    <3>1. ASSUME Leave(d) \/ Delete(d) PROVE UNCHANGED (Registry!vars)
      BY <2>2, <3>1 DEF Leave, Delete
    <3> QED BY <2>3, <2>4, <2>8, <3>1 DEF Write
  <2>9. ASSUME NEW d \in Devices, Answer(d) \/ ConnectionLost(d)
        PROVE  UNCHANGED (Registry!vars)
    BY <2>2, <2>9 DEF Answer, Acknowledge, ConnectionLost, clubVars
  <2> QED BY <2>5, <2>6, <2>7, <2>8, <2>9 DEF Next, Network
<1> QED BY <1>1, <1>2, CopiesSound, PTL DEF Spec, ImplementsRegistry, Registry!Spec


(***************************************************************************)
(* The queues without the handlers are those of the store.                 *)
(***************************************************************************)
Bared(w) == [key |-> w.key, value |-> w.value]

Held == [d \in Devices |-> Bare(pending[d])]

LEMMA BareParts ==
  ASSUME NEW q \in Seq(Writes)
  PROVE  /\ Bare(q) \in Seq([key : Clubs, value : ClubDocs \cup {NoClub}])
         /\ Len(Bare(q)) = Len(q)
         /\ \A i \in 1..Len(q) : Bare(q)[i] = Bared(q[i])
<1>1. Len(q) \in Nat
  BY LenProperties
<1>2. \A i \in 1..Len(q) : q[i] \in Writes
  BY ElementOfSeq
<1>3. \A w \in Writes : [key |-> w.key, value |-> w.value]
                          \in [key : Clubs, value : ClubDocs \cup {NoClub}]
  BY DEF Writes
<1> QED BY <1>1, <1>2, <1>3, IsASeq DEF Bare, Bared

LEMMA BareSame ==
  ASSUME NEW p \in Seq(Writes), NEW q \in Seq(Writes), Len(p) = Len(q),
         \A i \in 1..Len(q) : p[i].key = q[i].key /\ p[i].value = q[i].value
  PROVE  Bare(p) = Bare(q)
BY DEF Bare

LEMMA BareKept ==
  ASSUME NEW q \in Seq(Writes)
  PROVE  Bare(Detach(q)) = Bare(q) /\ Bare(Forget(q)) = Bare(q)
BY DetachKeeps, ForgetKeeps, BareSame

LEMMA BareAppend ==
  ASSUME NEW q \in Seq(Writes), NEW w \in Writes
  PROVE  Bare(Append(q, w)) = Append(Bare(q), Bared(w))
<1> DEFINE B == [key : Clubs, value : ClubDocs \cup {NoClub}]
<1>1. PICK a \in Seq(Writes) : a = Append(q, w)
  BY AppendProperties
<1>2. /\ Len(a) = Len(q) + 1 /\ a[Len(q) + 1] = w
      /\ \A i \in 1..Len(q) : a[i] = q[i]
  BY <1>1, AppendProperties
<1>3. PICK b \in Seq(B) : b = Bare(q) /\ Len(b) = Len(q)
                         /\ \A i \in 1..Len(q) : b[i] = Bared(q[i])
  BY BareParts
<1>4. PICK c \in Seq(B) : c = Bare(a) /\ Len(c) = Len(a)
                         /\ \A i \in 1..Len(a) : c[i] = Bared(a[i])
  BY BareParts
<1>5. PICK r \in B : r = Bared(w)
  BY DEF Bared, Writes
<1>6. PICK e \in Seq(B) : /\ e = Append(b, r)
                         /\ Len(e) = Len(b) + 1 /\ e[Len(b) + 1] = r
                         /\ \A i \in 1..Len(b) : e[i] = b[i]
  <2>1. /\ Append(b, r) \in Seq(B)
        /\ Len(Append(b, r)) = Len(b) + 1 /\ Append(b, r)[Len(b) + 1] = r
        /\ \A i \in 1..Len(b) : Append(b, r)[i] = b[i]
    <3> HIDE DEF B
    <3> QED BY AppendProperties
  <2> QED BY <2>1
<1>7. Len(q) \in Nat
  BY LenProperties
<1>8. \A i \in 1..Len(c) : c[i] = e[i]
  <2>1. \A i \in 1..Len(c) : i \in 1..Len(q) \/ i = Len(q) + 1
    BY <1>2, <1>4, <1>7
  <2>2. Len(q) + 1 \in 1..Len(a) /\ \A i \in 1..Len(q) : i \in 1..Len(a)
    BY <1>2, <1>7
  <2>3. ASSUME NEW i \in 1..Len(q) PROVE c[i] = e[i]
    BY <1>2, <1>3, <1>4, <1>6, <2>2
  <2>4. c[Len(q) + 1] = e[Len(q) + 1]
    BY <1>2, <1>3, <1>4, <1>5, <1>6, <2>2
  <2> QED BY <2>1, <2>3, <2>4
<1>9. c = e
  BY <1>2, <1>3, <1>4, <1>6, <1>8, SeqEqual
<1> QED BY <1>1, <1>3, <1>4, <1>5, <1>6, <1>9

LEMMA BareTail ==
  ASSUME NEW q \in Seq(Writes), q # <<>>
  PROVE  Bare(Tail(q)) = Tail(Bare(q))
<1> DEFINE B == [key : Clubs, value : ClubDocs \cup {NoClub}]
<1>1. PICK a \in Seq(Writes) : /\ a = Tail(q) /\ Len(a) = Len(q) - 1
                              /\ \A i \in 1..Len(a) : a[i] = q[i + 1]
  BY HeadTailProperties
<1>2. PICK b \in Seq(B) : b = Bare(q) /\ Len(b) = Len(q)
                         /\ \A i \in 1..Len(q) : b[i] = Bared(q[i])
  BY BareParts
<1>3. PICK c \in Seq(B) : c = Bare(a) /\ Len(c) = Len(a)
                         /\ \A i \in 1..Len(a) : c[i] = Bared(a[i])
  BY BareParts
<1>4. Len(q) \in Nat \ {0} /\ b # <<>>
  BY <1>2, EmptySeq, LenProperties
<1>5. PICK e \in Seq(B) : /\ e = Tail(b) /\ Len(e) = Len(b) - 1
                         /\ \A i \in 1..Len(e) : e[i] = b[i + 1]
  BY <1>4, HeadTailProperties
<1>6. \A i \in 1..Len(c) : c[i] = e[i]
  <2>1. \A i \in 1..Len(c) : i \in 1..Len(a) /\ i \in 1..Len(e) /\ i + 1 \in 1..Len(q)
    BY <1>1, <1>2, <1>3, <1>4, <1>5
  <2> QED BY <1>1, <1>2, <1>3, <1>5, <2>1
<1>7. c = e
  BY <1>1, <1>2, <1>3, <1>5, <1>6, SeqEqual
<1> QED BY <1>1, <1>2, <1>3, <1>5, <1>7

\* The steps of the store, on the queues without the handlers.
LEMMA HeldQueue ==
  ASSUME TypeOK, NEW d \in Devices
  PROVE  /\ pending[d] \in Seq(Writes) /\ Len(pending[d]) \in Nat
         /\ Held[d] = Bare(pending[d]) /\ Len(Held[d]) = Len(pending[d])
BY QueueLengths, BareParts DEF Held

LEMMA HeldChanged ==
  ASSUME TypeOK, NEW d \in Devices, NEW q, pending' = [pending EXCEPT ![d] = q]
  PROVE  Held' = [Held EXCEPT ![d] = Bare(q)]
<1>1. pending \in [Devices -> Seq(Writes)]
  BY DEF TypeOK, ClubTypes
<1>2. \A x \in Devices : pending'[x] = IF x = d THEN q ELSE pending[x]
  BY <1>1
<1>3. Held' = [x \in Devices |-> Bare(pending'[x])]
  BY DEF Held, Bare
<1>4. \A x \in Devices : Bare(pending'[x]) = IF x = d THEN Bare(q) ELSE Bare(pending[x])
  BY <1>2
<1>5. Held' = [x \in Devices |-> IF x = d THEN Bare(q) ELSE Bare(pending[x])]
  BY <1>3, <1>4
<1> QED BY <1>5 DEF Held

LEMMA HeldSame ==
  ASSUME TypeOK, NEW d \in Devices, NEW q, Bare(q) = Bare(pending[d]),
         pending' = [pending EXCEPT ![d] = q]
  PROVE  Held' = Held
<1>1. Held' = [Held EXCEPT ![d] = Bare(pending[d])]
  BY HeldChanged
<1> QED BY <1>1 DEF Held

LEMMA Enqueues ==
  ASSUME TypeOK, NEW d \in Devices, NEW q \in Seq(Writes), NEW w \in Writes,
         Bare(q) = Bare(pending[d]),
         pending' = [pending EXCEPT ![d] = Append(q, w)], UNCHANGED <<server, applied>>
  PROVE  Queues!StoreNext(Entries')
<1>0. PICK r : r = Bared(w)
  OBVIOUS
<1>1. PICK b \in Seq([key : Clubs, value : ClubDocs \cup {NoClub}]) :
        b = Bare(q) /\ Len(b) = Len(q)
  BY BareParts
<1>2. PICK a \in Seq(Writes) : a = Append(q, w) /\ Len(a) = Len(q) + 1 /\ Len(q) \in Nat
  BY AppendProperties, LenProperties
<1>3. Bare(a) = Append(b, r)
  BY <1>0, <1>1, <1>2, BareAppend
<1>4. Held' = [Held EXCEPT ![d] = Append(@, r)]
  <2>1. Held' = [Held EXCEPT ![d] = Bare(a)]
    BY <1>2, HeldChanged
  <2>2. Held[d] = b
    BY <1>1 DEF Held
  <2> QED BY <1>3, <2>1, <2>2
<1>5. r \in Entries'
  <2>1. pending'[d] = a
    BY <1>2 DEF TypeOK, ClubTypes
  <2>2. PICK i \in 1..Len(a) : i = Len(q) + 1
    BY <1>2
  <2>3. Bare(a)[i] = Bared(a[i]) /\ a[i] = w
    BY <1>2, <2>2, BareParts, AppendProperties
  <2>4. Entries' = UNION {{Bare(pending'[x])[j] : j \in 1..Len(pending'[x])} : x \in Devices}
    BY DEF Entries, Bare
  <2>5. r = Bare(pending'[d])[i] /\ i \in 1..Len(pending'[d])
    BY <1>0, <2>1, <2>2, <2>3
  <2> QED BY <2>4, <2>5
<1> QED BY <1>4, <1>5 DEF Queues!StoreNext, Queues!Enqueue, Held

LEMMA Taking ==
  ASSUME TypeOK, NEW d \in Devices, AnswerRead(d) \/ RefusalRead(d), UNCHANGED server,
         Held' = [Held EXCEPT ![d] = Tail(@)]
  PROVE  Queues!StoreNext(Entries')
<1>1. Queues!Taken(d)
  BY DEF Queues!Taken, Queues!Rest, Held
<1>2. CASE AnswerRead(d)
  <2>1. Queues!AnswerRead(d)
    BY <1>2 DEF AnswerRead, Queues!AnswerRead
  <2> QED BY <1>1, <2>1 DEF Queues!StoreNext
<1>3. CASE RefusalRead(d)
  <2>1. Queues!RefusalRead(d)
    <3>1. applied[d] < Len(Held[d]) /\ Lost(d)
      BY <1>3, HeldQueue DEF RefusalRead, Unstored
    <3> QED BY <3>1 DEF Lost, Queues!RefusalRead, Queues!Unstored, Queues!Lost, Held
  <2> QED BY <1>1, <2>1 DEF Queues!StoreNext
<1> QED BY <1>2, <1>3

LEMMA Losing ==
  ASSUME NEW d \in Devices, Lost(d), UNCHANGED server, Held' = Held
  PROVE  Queues!StoreNext(Entries')
BY DEF Lost, Queues!StoreNext, Queues!Lost, Held

LEMMA Storing ==
  ASSUME TypeOK, NEW d \in Devices, ServerStores(d)
  PROVE  Queues!StoreNext(Entries')
<1>1. Store(d) /\ UNCHANGED pending /\ applied[d] \in Nat
  BY DEF ServerStores, TypeOK, AppliedOK
<1>2. PICK i \in 1..Len(pending[d]) : i = applied[d] + 1
  BY <1>1, HeldQueue DEF Store, Unstored
<1>3. Held[d][i] = Bared(pending[d][i])
  BY HeldQueue, BareParts
<1>4. applied[d] < Len(Held[d])
  BY <1>1, HeldQueue DEF Store, Unstored
<1>5. server' = [server EXCEPT ![Held[d][applied[d] + 1].key] =
                                   Held[d][applied[d] + 1].value]
  BY <1>1, <1>2, <1>3 DEF Store, Bared
<1>6. Queues!Store(d)
  BY <1>1, <1>4, <1>5 DEF Store, Queues!Store, Queues!Unstored, Held
<1>7. Held' = Held
  BY <1>1 DEF Held, Bare
<1> QED BY <1>6, <1>7 DEF Queues!StoreNext, Held

LEMMA Acknowledging ==
  ASSUME TypeOK, NEW d \in Devices, NEW stored \in BOOLEAN, NEW covered \in BOOLEAN,
         Acknowledge(d, stored, covered)
  PROVE  Queues!StoreNext(Entries')
<1>1. pending[d] \in Seq(Writes) /\ pending[d] # <<>>
  BY AnsweredIsQueued
<1>2. PICK q \in Seq(Writes) : q = Tail(pending[d]) /\ Bare(q) = Tail(Bare(pending[d]))
  BY <1>1, HeadTailProperties, BareTail
<1>3. Bare(Detach(q)) = Bare(q)
  BY BareKept
<1>4. pending' = [pending EXCEPT ![d] = q] \/ pending' = [pending EXCEPT ![d] = Detach(q)]
  BY <1>2 DEF Acknowledge, Rest
<1>5. Held' = [Held EXCEPT ![d] = Bare(q)]
  BY <1>3, <1>4, HeldChanged
<1>6. Held' = [Held EXCEPT ![d] = Tail(@)]
  BY <1>2, <1>5, HeldQueue
<1>7. UNCHANGED server /\ (AnswerRead(d) \/ RefusalRead(d))
  BY DEF Acknowledge
<1> QED BY <1>6, <1>7, Taking

\* What a button puts in the queue, and what else it does to it.
LEMMA WriteAppends ==
  ASSUME TypeOK, NEW d \in Devices, Write(d)
  PROVE  /\ UNCHANGED <<server, applied>>
         /\ \E q \in Seq(Writes) : \E w \in Writes :
              /\ q = pending[d] \/ q = Detach(pending[d])
              /\ pending' = [pending EXCEPT ![d] = Append(q, w)]
              /\ pending'[d] = Append(q, w)
<1> DEFINE Appends(q, w) == /\ q = pending[d] \/ q = Detach(pending[d])
                            /\ pending' = [pending EXCEPT ![d] = Append(q, w)]
<1>1. /\ pending[d] \in Seq(Writes) /\ Detach(pending[d]) \in Seq(Writes)
      /\ pending \in [Devices -> Seq(Writes)]
  BY QueueLengths, DetachKeeps DEF TypeOK, ClubTypes
<1>2. UNCHANGED <<server, applied>>
  BY DEF Write, Create, Save, Leave, Delete
<1>3. Open(d) => editor[d] \in Editors
  BY DEF Open, TypeOK, ClubTypes
<1>4. ASSUME NEW c \in Clubs, Create(d, c) PROVE \E w \in Writes : Enqueue(d, w)
  <2>1. [key |-> c, value |-> FilledIn(editor[d]), handler |-> "home"] \in Writes
    BY <1>3, <1>4, FilledInIsClub DEF Create, Writes, Handlers
  <2> QED BY <1>4, <2>1 DEF Create
<1>5. ASSUME Save(d) PROVE \E w \in Writes : Enqueue(d, w)
  <2>1. editor[d] \in Editors /\ editor[d].club \in Clubs
    BY <1>3, <1>5 DEF Save, Creating, Editors
  <2>2. [key |-> editor[d].club, value |-> FilledIn(editor[d]), handler |-> "dismiss"]
          \in Writes
    BY <2>1, FilledInIsClub DEF Writes, Handlers
  <2> QED BY <1>5, <2>2 DEF Save
<1>6. ASSUME Leave(d) PROVE \E w \in Writes : Enqueue(d, w)
  <2>1. PICK e : e = [editor[d] EXCEPT !.invited = Without(@, User(d))]
    OBVIOUS
  <2>2. editor[d] \in Editors /\ editor[d].club \in Clubs /\ User(d) \in Users
    BY <1>3, <1>6, UserOfAssumption DEF Leave, Creating, Editors, User
  <2>3. Without(editor[d].invited, User(d)) \in Guests \cup {NotLoaded}
    BY <2>2, WithoutIsGuests DEF Editors
  <2>4. e \in Editors /\ e.club \in Clubs
    BY <2>1, <2>2, <2>3 DEF Editors
  <2>5. [key |-> e.club, value |-> FilledIn(e), handler |-> "dismiss"] \in Writes
    BY <2>4, FilledInIsClub DEF Writes, Handlers
  <2>6. Enqueue(d, [key |-> e.club, value |-> FilledIn(e), handler |-> "dismiss"])
    BY <1>6, <2>1 DEF Leave
  <2> QED BY <2>5, <2>6
<1>7. (\E w \in Writes : Enqueue(d, w))
        => \E q \in Seq(Writes) : \E w \in Writes : Appends(q, w)
  BY <1>1 DEF Enqueue
<1>8. ASSUME Delete(d) PROVE \E q \in Seq(Writes) : \E w \in Writes : Appends(q, w)
  <2>1. editor[d].club \in Clubs
    BY <1>3, <1>8 DEF Delete, Creating, Editors
  <2>2. PICK w \in Writes : w = [key |-> editor[d].club, value |-> NoClub,
                                handler |-> "none"]
    BY <2>1 DEF Writes, Handlers
  <2>3. pending' = [pending EXCEPT ![d] = Append(Detach(pending[d]), w)]
    BY <1>8, <2>2 DEF Delete
  <2> QED BY <1>1, <2>3
<1>9. PICK q \in Seq(Writes), w \in Writes : Appends(q, w)
  BY <1>4, <1>5, <1>6, <1>7, <1>8 DEF Write
<1>10. pending'[d] = Append(q, w)
  BY <1>1, <1>9
<1> QED BY <1>2, <1>9, <1>10

LEMMA Writing ==
  ASSUME TypeOK, NEW d \in Devices, Write(d)
  PROVE  Queues!StoreNext(Entries')
<1>1. PICK q \in Seq(Writes), w \in Writes :
        /\ q = pending[d] \/ q = Detach(pending[d])
        /\ pending' = [pending EXCEPT ![d] = Append(q, w)]
  BY WriteAppends
<1>2. Bare(q) = Bare(pending[d])
  BY <1>1, QueueLengths, BareKept
<1>3. UNCHANGED <<server, applied>>
  BY WriteAppends
<1> QED BY <1>1, <1>2, <1>3, Enqueues

LEMMA StepIsTheStores ==
  TypeOK /\ [Next]_vars => [Queues!StoreNext(Entries')]_(Queues!store)
<1> SUFFICES ASSUME TypeOK, [Next]_vars
             PROVE  Queues!StoreNext(Entries') \/ UNCHANGED (Queues!store)
  OBVIOUS
<1>1. ASSUME UNCHANGED <<server, applied>>, Held' = Held PROVE UNCHANGED (Queues!store)
  BY <1>1 DEF Queues!store, Held
<1>2. ASSUME UNCHANGED <<server, pending, applied>> PROVE UNCHANGED (Queues!store)
  BY <1>1, <1>2 DEF Held, Bare
<1>3. CASE Tick \/ UNCHANGED vars
  BY <1>2, <1>3 DEF Tick, vars
<1>4. ASSUME NEW d \in Devices, Edit(d) PROVE UNCHANGED (Queues!store)
  BY <1>2, <1>4
  DEF Edit, GuestsLoaded, AddGuest, RemoveGuest, SelectDate, SelectPlatform
<1>5. ASSUME NEW d \in Devices, Close(d) PROVE UNCHANGED (Queues!store)
  BY <1>1, <1>5, QueueLengths, BareKept, HeldSame DEF Close
<1>6. ASSUME NEW d \in Devices, Restart(d) PROVE Queues!StoreNext(Entries')
  <2>1. Held' = Held
    BY <1>6, QueueLengths, BareKept, HeldSame DEF Restart
  <2> QED BY <1>6, <2>1, Losing DEF Restart
<1>7. ASSUME NEW d \in Devices, Navigate(d)
      PROVE  Queues!StoreNext(Entries') \/ UNCHANGED (Queues!store)
  BY <1>2, <1>5, <1>6, <1>7 DEF Navigate, FetchClubs, OpenNew, OpenClub
<1>8. ASSUME NEW d \in Devices, Network(d) PROVE Queues!StoreNext(Entries')
  <2>1. CASE ConnectionLost(d)
    <3>1. Lost(d) /\ UNCHANGED <<server, pending>>
      BY <2>1 DEF ConnectionLost
    <3>2. Held' = Held
      BY <3>1 DEF Held, Bare
    <3> QED BY <3>1, <3>2, Losing
  <2>2. CASE Answer(d)
    BY <2>2, Acknowledging DEF Answer
  <2> QED BY <1>8, <2>1, <2>2, Storing DEF Network
<1> QED BY <1>3, <1>4, <1>7, <1>8, Writing DEF Next

\* The book clubs keep to what the store promises: dismissed screens and killed
\* apps take the handlers away and never a write.
THEOREM ClubsKeepToStore == Spec => KeepsToStore
<1>1. Init => Queues!StoreInit(NoRows)
  <2>1. ASSUME Init PROVE Held = [d \in Devices |-> <<>>]
    BY <2>1, EmptySeq, BareParts DEF Held, Init, StoreInit
  <2> QED BY <2>1 DEF Init, StoreInit, Queues!StoreInit, Held
<1> QED BY <1>1, StepIsTheStores, TypeCorrect, PTL DEF Spec, KeepsToStore

(***************************************************************************)
(* The end of a create.                                                    *)
(***************************************************************************)
\* The handlers that go to the main page survive everything but their answer
\* and the end of the app.
Homing(q, c) == \E i \in 1..Len(q) : q[i].key = c /\ q[i].handler = "home"

LEMMA HomingDetached ==
  ASSUME NEW q \in Seq(Writes), NEW c, Homing(q, c)
  PROVE  Homing(Detach(q), c)
<1>1. PICK i \in 1..Len(q) : q[i].key = c /\ q[i].handler = "home"
  BY DEF Homing
<1>2. Detach(q)[i] = q[i]
  BY <1>1 DEF Detach
<1>3. i \in 1..Len(Detach(q))
  BY DetachKeeps
<1> QED BY <1>1, <1>2, <1>3 DEF Homing

LEMMA HomingAppended ==
  ASSUME NEW q \in Seq(Writes), NEW w \in Writes, NEW c, Homing(q, c)
  PROVE  Homing(Append(q, w), c)
<1>1. PICK i \in 1..Len(q) : q[i].key = c /\ q[i].handler = "home"
  BY DEF Homing
<1>2. Append(q, w)[i] = q[i] /\ Len(Append(q, w)) = Len(q) + 1 /\ Len(q) \in Nat
  BY AppendProperties, LenProperties
<1>3. i \in 1..Len(Append(q, w))
  BY <1>2
<1> QED BY <1>1, <1>2, <1>3 DEF Homing

LEMMA HomingTail ==
  ASSUME NEW q \in Seq(Writes), q # <<>>, NEW c, Homing(q, c), Head(q).handler # "home"
  PROVE  Homing(Tail(q), c)
<1>1. PICK i \in 1..Len(q) : q[i].key = c /\ q[i].handler = "home"
  BY DEF Homing
<1>2. Len(q) \in Nat \ {0} /\ Head(q) = q[1]
  BY EmptySeq
<1>3. PICK t \in Seq(Writes) : /\ t = Tail(q) /\ Len(t) = Len(q) - 1
                              /\ \A j \in 1..Len(t) : t[j] = q[j + 1]
  BY HeadTailProperties
<1>4. i # 1
  BY <1>1, <1>2
<1>5. i - 1 \in 1..Len(t) /\ (i - 1) + 1 = i
  BY <1>2, <1>3, <1>4
<1>6. t[i - 1] = q[i]
  BY <1>3, <1>5
<1> QED BY <1>1, <1>3, <1>5, <1>6 DEF Homing

LEMMA HomingStep ==
  ASSUME TypeOK, Next, NEW d \in Devices, NEW c \in Clubs, Homing(pending[d], c),
         ~Homing(pending'[d], c)
  PROVE  CloseEditor(d)
<1>1. /\ pending \in [Devices -> Seq(Writes)] /\ pending[d] \in Seq(Writes)
      /\ pending'[d] # pending[d]
  BY DEF TypeOK, ClubTypes
<1>2. ~Tick
  BY <1>1 DEF Tick
<1>3. \A x \in Devices : ~Edit(x)
  BY <1>1 DEF Edit, GuestsLoaded, AddGuest, RemoveGuest, SelectDate, SelectPlatform
<1>4. ASSUME NEW x \in Devices, Navigate(x) PROVE CloseEditor(d)
  <2>1. (Close(x) \/ Restart(x)) /\ x = d
    BY <1>1, <1>4 DEF Navigate, FetchClubs, OpenNew, OpenClub, Close, Restart
  <2> QED BY <2>1 DEF Close, Restart
<1>5. ASSUME NEW x \in Devices, Network(x) PROVE CloseEditor(d)
  <2>1. PICK stored, covered \in BOOLEAN : Acknowledge(x, stored, covered)
    BY <1>1, <1>5 DEF Network, Answer, ServerStores, ConnectionLost
  <2>2. x = d
    BY <1>1, <2>1 DEF Acknowledge
  <2>3. pending[d] # <<>>
    BY <2>1, <2>2, AnsweredIsQueued
  <2>4. Tail(pending[d]) \in Seq(Writes)
    BY <1>1, <2>3, HeadTailProperties
  <2>5. pending'[d] = Tail(pending[d]) \/ pending'[d] = Detach(Tail(pending[d]))
    BY <1>1, <2>1, <2>2 DEF Acknowledge, Rest
  <2>6. Head(pending[d]).handler = "home"
    BY <1>1, <2>3, <2>4, <2>5, HomingTail, HomingDetached
  <2> QED BY <2>1, <2>2, <2>6 DEF Acknowledge, Leaves
<1>6. ASSUME NEW x \in Devices, Write(x) PROVE FALSE
  <2>1. x = d
    BY <1>1, <1>6 DEF Write, Create, Save, Leave, Delete, Enqueue
  <2>2. PICK q \in Seq(Writes), w \in Writes :
          (q = pending[d] \/ q = Detach(pending[d])) /\ pending'[d] = Append(q, w)
    BY <1>1, <1>6, <2>1, WriteAppends
  <2>3. Homing(q, c)
    BY <1>1, <2>2, HomingDetached
  <2> QED BY <2>2, <2>3, HomingAppended
<1> QED BY <1>2, <1>3, <1>4, <1>5, <1>6 DEF Next

\* However a create ends, answered or with the app, no editor is open then and no
\* list is left from before.
THEOREM CreateLeavesNothing == Spec => CreateLeaves
<1> DEFINE A == \A d \in Devices, c \in Clubs :
                  CreateUnderWay(d, c) /\ ~CreateUnderWay(d, c)' =>
                     ~Open(d)' /\ list'[d] = NoRows
<1>1. TypeOK /\ [Next]_vars => [A]_vars
  <2> SUFFICES ASSUME TypeOK, Next, NEW d \in Devices, NEW c \in Clubs,
                      CreateUnderWay(d, c), ~CreateUnderWay(d, c)'
               PROVE  ~Open(d)' /\ list'[d] = NoRows
    OBVIOUS
  <2>1. Homing(pending[d], c) /\ ~Homing(pending'[d], c)
    BY DEF CreateUnderWay, Homing
  <2>2. CloseEditor(d)
    BY <2>1, HomingStep
  <2> QED BY <2>2 DEF CloseEditor, Open, TypeOK, ClubTypes
<1> QED BY <1>1, TypeCorrect, PTL DEF Spec, CreateLeaves
==============================================================================
