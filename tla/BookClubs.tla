------------------------------ MODULE BookClubs ------------------------------
(***************************************************************************)
(* The book clubs of BookZone: the documents of the "bookClubs"            *)
(* collection, the list of a user's clubs, the screen on which a club is   *)
(* created, edited, left or deleted, and the reminders a device schedules. *)
(*                                                                         *)
(*   API/BookClubService.swift, Managers/BookClubsManager.swift,           *)
(*   Controller/BookClub/BookClubInviteViewController.swift,               *)
(*   Active- and ExpiredBookClubsViewController.swift,                     *)
(*   Extensions/UIApplicationExtension.swift                               *)
(*                                                                         *)
(* One account is signed in on each device.  The club's name, book, cover  *)
(* and link are left out: they are copied around unchanged and nothing     *)
(* depends on them.  eventInviteList is left out too: every write gives it *)
(* the value of eventGuests.  The order of a guest list is abstracted: a   *)
(* list is the number of rows each user has in it.                         *)
(***************************************************************************)
EXTENDS Firestore

CONSTANTS Users,
          UserOf,          \* the account signed in on a device
          Platforms,       \* Platforms.platformsArray
          FirstPlatform,   \* its element 0, row 0 of the picker
          Lead,            \* a reminder fires this long before the event
          DefaultAhead,    \* a new club's event is this far ahead, one day
          MaxTime,         \* bound: the clock stops here
          Dates,           \* bound: the dates an event can have
          NoClub, NoUser, NewClub, NoEditor, NotLoaded

Clubs == DocIds

Guests == [Users -> Nat]

NoGuests == [u \in Users |-> 0]

Members(guests) == {u \in Users : guests[u] > 0}

ClubDocs == [owner : Users, guests : Guests, date : Dates, platform : Platforms]

\* What the completion handler of a write does: dismiss the editor that made
\* it, go to the main page, or nothing (a delete's is called at once, and a
\* killed app's handlers are gone).
Handlers == {"dismiss", "home", "none"}

Writes == [key : Clubs, value : ClubDocs \cup {NoClub}, handler : Handlers]

Editors == [club : Clubs \cup {NewClub},    \* NewClub: createMode
            model : ClubDocs,               \* bookClubModel
            asked : Guests,                 \* the ids fetchUsersWithIds was given
            answers : 0..2,                 \* its answers still to come
            invited : Guests \cup {NotLoaded},  \* invitedUsersArray
            minDate : 0..MaxTime,           \* eventDatePicker.minimumDate
            date : Dates,                   \* eventDatePicker.date
            row : Platforms]                \* the platform picker's row

ASSUME UserOfAssumption == UserOf \in [Devices -> Users]
ASSUME PlatformAssumption == FirstPlatform \in Platforms
ASSUME TimeAssumption == Lead \in Nat /\ DefaultAhead \in Nat /\ MaxTime \in Nat
ASSUME DatesAssumption ==
    /\ Dates \subseteq Nat
    /\ \A t \in 0..MaxTime : /\ t + DefaultAhead \in Dates
                            /\ \A date \in Dates : date < t => t \in Dates
ASSUME MarkerAssumption ==
    /\ NoClub \notin ClubDocs
    /\ NoUser \notin Users
    /\ NewClub \notin Clubs
    /\ NoEditor \notin Editors
    /\ NotLoaded \notin Guests

VARIABLES
    now,        \* the time, in hours
    list,       \* list[d][c]: the row of c on d's list of clubs, or NoClub
    editor,     \* editor[d]: the invite screen open on d, or NoEditor
    reminders,  \* reminders[d][c]: the fire dates scheduled on d for c
    creator,    \* creator[c]: who drew the id c, or NoUser
    invited     \* history: whom the owner of c has put on a list it saved

clubVars == <<now, list, editor, reminders, creator, invited>>
vars == <<server, pending, applied, now, list, editor, reminders, creator, invited>>

------------------------------------------------------------------------------
(* Helpers *)

User(d) == UserOf[d]

Open(d) == editor[d] # NoEditor

Creating(d) == editor[d].club = NewClub

\* setupOwnerMode: which of the buttons are shown.
Owning(d) == editor[d].model.owner = User(d)

NoRows == [c \in Clubs |-> NoClub]

Later(s, t) == IF s > t THEN s ELSE t

\* getGuestsStringArray
GuestIds(e) == IF e.invited = NotLoaded THEN NoGuests ELSE e.invited

\* What createBookClub and editBookClub put in the model before they save it.
FilledIn(e) == [e.model EXCEPT !.guests = GuestIds(e),
                               !.date = e.date,
                               !.platform = e.row]

\* The handlers of a screen that is gone find nothing to dismiss.
Detach(q) == [i \in 1..Len(q) |->
                IF q[i].handler = "dismiss" THEN [q[i] EXCEPT !.handler = "none"]
                                            ELSE q[i]]

\* Mutant of Forget: the queue is kept in memory.
ForgetAll(q) == <<>>

Forget(q) == [i \in 1..Len(q) |-> [q[i] EXCEPT !.handler = "none"]]

\* The editor of d is torn down.  The screens under it, whose rows went out of
\* sight as it opened, fetch them anew when they appear or are torn down too.
CloseEditor(d) ==
    /\ editor' = [editor EXCEPT ![d] = NoEditor]
    /\ list' = [list EXCEPT ![d] = NoRows]

------------------------------------------------------------------------------
(* Reminders *)

\* A notification whose fire date has passed is delivered at once.
Schedule(fires, date) ==
    IF date - Lead > now THEN fires \cup {date - Lead} ELSE fires

\* The first reminder found under the club's id is cancelled; the order in
\* which the system lists them is not specified.
Cancel(fires) ==
    IF fires = {} THEN fires ELSE fires \ {CHOOSE fire \in fires : TRUE}

\* scheduleNotification, run when the screen opens.
Remind(fires, club) ==
    IF club.date > now
      THEN IF fires = {} THEN Schedule(fires, club.date) ELSE fires
      ELSE Cancel(fires)

\* Mutants of Reschedule: the old reminder stays; the old date is kept when a
\* reminder exists.
RescheduleAnew(fires, club) ==
    IF club.date > now THEN Schedule(fires, club.date) ELSE fires
RescheduleIfNone(fires, club) ==
    IF club.date > now /\ fires = {} THEN Schedule(fires, club.date) ELSE fires

\* rescheduleNotification, run when the owner saves.
Reschedule(fires, club) ==
    IF club.date > now THEN Schedule(Cancel(fires), club.date) ELSE fires

------------------------------------------------------------------------------
(* The list of clubs *)

\* Mutant of IsMine: the filter by user is missing.
IsAnyones(club, u) == club # NoClub

\* fetchBookClubsForCurrentUser: the owner's clubs, then those whose guests
\* include the user.
IsMine(club, u) == club # NoClub /\ (club.owner = u \/ club.guests[u] > 0)

\* getActiveBookClubEvents and getExpiredBookClubEvents: the filter of a tab.
InTab(club, tab) == IF tab = "active" THEN club.date > now ELSE club.date < now

\* A tab of the club screen appears and its fetch is answered.
FetchClubs(d, tab) ==
    /\ ~Open(d)
    /\ list' = [list EXCEPT ![d] =
                  [c \in Clubs |->
                     LET club == Local(d, c)
                     IN  IF IsMine(club, User(d)) /\ InTab(club, tab)
                           THEN club ELSE NoClub]]
    /\ UNCHANGED <<server, pending, applied, now, editor, reminders, creator, invited>>

------------------------------------------------------------------------------
(* The invite screen *)

\* The screen opens from a book, to create a club (createMode).  The default
\* date is a Date where BookClub's init looks for a Timestamp: what it takes
\* instead is DefaultAhead.
OpenNew(d) ==
    /\ ~Open(d)
    /\ LET model == [owner |-> User(d), guests |-> NoGuests,
                     date |-> now + DefaultAhead, platform |-> FirstPlatform]
       IN  editor' = [editor EXCEPT ![d] =
                        [club |-> NewClub, model |-> model, asked |-> NoGuests,
                         answers |-> 0, invited |-> NoGuests, minDate |-> now,
                         date |-> model.date, row |-> FirstPlatform]]
    /\ list' = [list EXCEPT ![d] = NoRows]
    /\ UNCHANGED <<server, pending, applied, now, reminders, creator, invited>>

\* The screen opens on a row of the list.  viewDidLoad asks for the guests
\* twice; the pickers are new, and the date picker's minimum is the present.
OpenClub(d, c) ==
    /\ ~Open(d)
    /\ list[d][c] # NoClub
    /\ LET model == list[d][c]
       IN  /\ editor' = [editor EXCEPT ![d] =
                           [club |-> c, model |-> model, asked |-> model.guests,
                            answers |-> 2, invited |-> NotLoaded, minDate |-> now,
                            date |-> Later(model.date, now), row |-> FirstPlatform]]
           /\ reminders' = [reminders EXCEPT ![d][c] = Remind(@, model)]
    /\ list' = [list EXCEPT ![d] = NoRows]
    /\ UNCHANGED <<server, pending, applied, now, creator, invited>>

\* One of the two answers arrives; it replaces whatever the list holds.
GuestsLoaded(d) ==
    /\ Open(d)
    /\ editor[d].answers > 0
    /\ editor' = [editor EXCEPT ![d].invited = editor[d].asked,
                                ![d].answers = @ - 1]
    /\ UNCHANGED <<server, pending, applied, now, list, reminders, creator, invited>>

\* Mutant of WithSuggestion: the search for the user in the list is missing.
WithAnotherRow(guests, u) == [guests EXCEPT ![u] = @ + 1]

\* selectedSuggestion: nothing happens until the list has loaded, and a user
\* already on it is not added again.
WithSuggestion(guests, u) ==
    IF guests[u] > 0 THEN guests ELSE [guests EXCEPT ![u] = @ + 1]

\* Mutant of Suggested: the current user is offered too.
EverybodySuggested(d) == Users

\* getUserSuggestions never offers the user of the device.
Suggested(d) == Users \ {User(d)}

\* The suggestion field is shown to the owner only.
AddGuest(d, u) ==
    /\ Open(d)
    /\ Owning(d)
    /\ u \in Suggested(d)
    /\ editor[d].invited # NotLoaded
    /\ editor' = [editor EXCEPT ![d].invited = WithSuggestion(@, u)]
    /\ UNCHANGED <<server, pending, applied, now, list, reminders, creator, invited>>

\* The swipe on a row of the guest table.
RemoveGuest(d, u) ==
    /\ Open(d)
    /\ Owning(d)
    /\ editor[d].invited # NotLoaded
    /\ editor[d].invited[u] > 0
    /\ editor' = [editor EXCEPT ![d].invited[u] = @ - 1]
    /\ UNCHANGED <<server, pending, applied, now, list, reminders, creator, invited>>

\* The date wheel is turned and Done pressed (selectDateDonePressed).  In between
\* the blur view of showPicker keeps every touch from the rest of the screen and
\* nothing else reads the picker: an answer or a kill then either leaves what is
\* picked alone or ends the screen with it.  The step is taken at Done.
SelectDate(d, t) ==
    /\ Open(d)
    /\ Owning(d)
    /\ t >= editor[d].minDate
    /\ editor' = [editor EXCEPT ![d].date = t, ![d].model.date = t]
    /\ UNCHANGED <<server, pending, applied, now, list, reminders, creator, invited>>

\* setPlatformButtonPressed moves the picker to the model's platform, the user
\* turns it, under the same blur, and confirms (selectPlatformDonePressed).
SelectPlatform(d, p) ==
    /\ Open(d)
    /\ Owning(d)
    /\ editor' = [editor EXCEPT ![d].row = p, ![d].model.platform = p]
    /\ UNCHANGED <<server, pending, applied, now, list, reminders, creator, invited>>

\* The screen's back and close buttons.
Close(d) ==
    /\ Open(d)
    /\ CloseEditor(d)
    /\ pending' = [pending EXCEPT ![d] = Detach(@)]
    /\ UNCHANGED <<server, applied, now, reminders, creator, invited>>

------------------------------------------------------------------------------
(* Writes.  Each button first checks the connection and does nothing but    *)
(* show an alert without one: that outcome is the step not being taken.     *)

\* createBookClubPressed, createBookClub.  The button stays enabled while the
\* write is under way.
Create(d, c) ==
    /\ Open(d)
    /\ Creating(d)
    /\ CanWrite(d)
    /\ creator[c] = NoUser
    /\ LET club == FilledIn(editor[d])
       IN  /\ creator' = [creator EXCEPT ![c] = User(d)]
           /\ invited' = [invited EXCEPT ![c] = @ \cup Members(club.guests)]
           /\ editor' = [editor EXCEPT ![d].model = club]
           /\ Enqueue(d, [key |-> c, value |-> club, handler |-> "home"])
    /\ UNCHANGED <<server, applied, now, list, reminders>>

\* editBookClubButtonPressed, editBookClub.  The reminder is rescheduled from
\* the model before the pickers are read into it.
Save(d) ==
    /\ Open(d)
    /\ ~Creating(d)
    /\ Owning(d)
    /\ CanWrite(d)
    /\ LET c == editor[d].club
           club == FilledIn(editor[d])
       IN  /\ reminders' = [reminders EXCEPT ![d][c] = Reschedule(@, editor[d].model)]
           /\ invited' = [invited EXCEPT ![c] = @ \cup Members(club.guests)]
           /\ editor' = [editor EXCEPT ![d].model = club]
           /\ Enqueue(d, [key |-> c, value |-> club, handler |-> "dismiss"])
    /\ UNCHANGED <<server, applied, now, list, creator>>

\* Mutant of Without: the list is saved unfiltered.
Unfiltered(guests, u) == guests

\* The list without the user who leaves.
Without(guests, u) ==
    IF guests = NotLoaded THEN NotLoaded ELSE [guests EXCEPT ![u] = 0]

\* leaveBookClubButtonPressed: confirmed, then editBookClub.
Leave(d) ==
    /\ Open(d)
    /\ ~Creating(d)
    /\ ~Owning(d)
    /\ CanWrite(d)
    /\ LET e == [editor[d] EXCEPT !.invited = Without(@, User(d))]
           club == FilledIn(e)
       IN  /\ editor' = [editor EXCEPT ![d] = [e EXCEPT !.model = club]]
           /\ Enqueue(d, [key |-> e.club, value |-> club, handler |-> "dismiss"])
    /\ UNCHANGED <<server, applied, now, list, reminders, creator, invited>>

\* deleteBookClubButtonPressed: confirmed; the screen is dismissed at once.
Delete(d) ==
    /\ Open(d)
    /\ ~Creating(d)
    /\ Owning(d)
    /\ CanWrite(d)
    /\ pending' = [pending EXCEPT ![d] =
                     Append(Detach(@), [key |-> editor[d].club, value |-> NoClub,
                                        handler |-> "none"])]
    /\ CloseEditor(d)
    /\ UNCHANGED <<server, applied, now, reminders, creator, invited>>

------------------------------------------------------------------------------
(* The network, the device and the clock *)

\* Mutant of Leaves: a create, too, only dismisses what is on top.
LeavesIfOnTop(handler, covered) == handler # "none" /\ ~covered

\* Whether a handler ends the editor: createBookClub's goes to the main page,
\* editBookClub's dismisses what is on top.
Leaves(handler, covered) ==
    handler = "home" \/ (handler = "dismiss" /\ ~covered)

\* The server stores the next write of d; nobody on d knows yet.
ServerStores(d) == Store(d) /\ UNCHANGED pending /\ UNCHANGED clubVars

\* The connection of d is lost, and answers with it.
ConnectionLost(d) ==
    /\ applied[d] > 0
    /\ Lost(d)
    /\ UNCHANGED <<server, pending>> /\ UNCHANGED clubVars

\* The oldest write of d is answered and its handler runs, which does not look
\* at the error.  `covered`: another screen or an alert is over the editor, and
\* is dismissed instead.
Acknowledge(d, stored, covered) ==
    /\ IF stored THEN AnswerRead(d) ELSE RefusalRead(d)
    /\ IF Leaves(Head(pending[d]).handler, covered)
         THEN /\ CloseEditor(d)
              /\ pending' = [pending EXCEPT ![d] = Detach(Rest(d))]
         ELSE /\ pending' = [pending EXCEPT ![d] = Rest(d)]
              /\ UNCHANGED <<editor, list>>
    /\ UNCHANGED <<server, now, reminders, creator, invited>>

\* The app is killed and started again: screens, handlers and the connection
\* are lost, the queue of writes and the scheduled notifications are not.
Restart(d) ==
    /\ CloseEditor(d)
    /\ pending' = [pending EXCEPT ![d] = Forget(@)]
    /\ Lost(d)
    /\ UNCHANGED <<server, now, reminders, creator, invited>>

\* An hour passes; the reminders that are due are shown and are no longer
\* scheduled.
Tick ==
    /\ now < MaxTime
    /\ now' = now + 1
    /\ reminders' = [d \in Devices |-> [c \in Clubs |->
                       {fire \in reminders[d][c] : fire > now'}]]
    /\ UNCHANGED <<server, pending, applied, list, editor, creator, invited>>

------------------------------------------------------------------------------
Init ==
    /\ StoreInit(NoRows)
    /\ now = 0
    /\ list = [d \in Devices |-> NoRows]
    /\ editor = [d \in Devices |-> NoEditor]
    /\ reminders = [d \in Devices |-> [c \in Clubs |-> {}]]
    /\ creator = [c \in Clubs |-> NoUser]
    /\ invited = [c \in Clubs |-> {}]

Edit(d) ==
    \/ GuestsLoaded(d)
    \/ \E u \in Users : AddGuest(d, u) \/ RemoveGuest(d, u)
    \/ \E t \in Dates : SelectDate(d, t)
    \/ \E p \in Platforms : SelectPlatform(d, p)

Navigate(d) ==
    \/ \E tab \in {"active", "expired"} : FetchClubs(d, tab)
    \/ OpenNew(d)
    \/ \E c \in Clubs : OpenClub(d, c)
    \/ Close(d)
    \/ Restart(d)

Write(d) ==
    \/ \E c \in Clubs : Create(d, c)
    \/ Save(d)
    \/ Leave(d)
    \/ Delete(d)

Answer(d) == \E stored, covered \in BOOLEAN : Acknowledge(d, stored, covered)

Network(d) == ServerStores(d) \/ ConnectionLost(d) \/ Answer(d)

Next == Tick \/ \E d \in Devices : Navigate(d) \/ Edit(d) \/ Write(d) \/ Network(d)

Spec == Init /\ [][Next]_vars

\* What WritePipeline's QueueDrains gives: a write is answered in the end.
FairSpec == Spec /\ \A d \in Devices : WF_vars(Answer(d))

------------------------------------------------------------------------------
(* Properties *)

ClubTypes ==
    /\ server \in [Clubs -> ClubDocs \cup {NoClub}]
    /\ pending \in [Devices -> Seq(Writes)]
    /\ now \in 0..MaxTime
    /\ list \in [Devices -> [Clubs -> ClubDocs \cup {NoClub}]]
    /\ editor \in [Devices -> Editors \cup {NoEditor}]
    /\ reminders \in [Devices -> [Clubs -> SUBSET Nat]]
    /\ creator \in [Clubs -> Users \cup {NoUser}]
    /\ invited \in [Clubs -> SUBSET Users]

TypeOK == ClubTypes /\ AppliedOK

\* A copy of club c is sound when it names as owner the user who created c,
\* the owner is not on the guest list, nobody is on it twice, and everybody on
\* it has been put on it by the owner in some write.
Sound(c, club) ==
    /\ club.owner = creator[c]
    /\ \A u \in Users : club.guests[u] <= 1
    /\ club.guests[club.owner] = 0
    /\ Members(club.guests) \subseteq invited[c]

\* Every copy of a club the server or a queue holds is sound, whichever device
\* wrote it from however old a copy: nobody takes a club over, a club is never
\* listed twice for one user, and only invited users are ever guests.
StoredClubsSound ==
    /\ \A c \in Clubs : server[c] # NoClub => Sound(c, server[c])
    /\ \A d \in Devices : \A i \in 1..Len(pending[d]) :
          pending[d][i].value # NoClub => Sound(pending[d][i].key, pending[d][i].value)

\* A club is on a user's list only if the user created it or was invited to it
\* by its owner at some time.
OnlyInvitedSeeClub ==
    \A d \in Devices, c \in Clubs :
       list[d][c] # NoClub => User(d) \in {creator[c]} \cup invited[c]

\* A device has at most one reminder scheduled for a club, however often the
\* club is opened, saved and rescheduled (scheduleNotification,
\* rescheduleNotification).
OneReminderPerClub ==
    \A d \in Devices, c \in Clubs : \A f, g \in reminders[d][c] : f = g

\* Nobody becomes a guest through a write of their own device: a user who left
\* comes back only by a write of somebody else's.
NobodyAddsThemselves ==
    [][\A c \in Clubs, u \in Users :
         /\ server'[c] # NoClub
         /\ server'[c].guests[u] > 0
         /\ server[c] = NoClub \/ server[c].guests[u] = 0
         => \E d \in Devices : User(d) # u /\ applied'[d] # applied[d]]_vars

\* When the owner saves an event that is still ahead, the device's reminder is
\* the one for the date saved, though it is set from the model and the date
\* saved is the picker's.
ReminderMatchesSavedDate ==
    [][\A d \in Devices :
         LET club == pending'[d][Len(pending'[d])].value
             c == pending'[d][Len(pending'[d])].key
         IN  /\ Len(pending'[d]) > Len(pending[d])
             /\ ~Creating(d)
             /\ Owning(d)
             /\ club # NoClub
             /\ club.date > now
             => reminders'[d][c] = Schedule({}, club.date)]_vars

CreateUnderWay(d, c) ==
    \E i \in 1..Len(pending[d]) :
       pending[d][i].key = c /\ pending[d][i].handler = "home"

\* However a create ends, answered or with the app, no editor is open then and
\* no list is left from before: nothing is written any more by a screen that
\* has made its club.
CreateLeaves ==
    [][\A d \in Devices, c \in Clubs :
         CreateUnderWay(d, c) /\ ~CreateUnderWay(d, c)' =>
            ~Open(d)' /\ list'[d] = NoRows]_vars

\* A create that is under way ends, and takes the user away from whatever
\* editor is open then: however often the button was pressed meanwhile, and
\* whatever alert or screen is over the editor when the answer comes.
CreateEnds == \A d \in Devices, c \in Clubs :
    CreateUnderWay(d, c) ~> ~Open(d) /\ ~CreateUnderWay(d, c)

\* BookClubs implements ClubRegistry: the registry keeps, of what the server
\* holds, the owners and the sets of guests.
Registry == INSTANCE ClubRegistry WITH
    founder <- creator,
    record <- [c \in Clubs |->
                 IF server[c] = NoClub THEN NoClub
                 ELSE [owner |-> server[c].owner,
                       guests |-> Members(server[c].guests)]]

ImplementsRegistry == Registry!Spec

\* A write without the handler that waits for its answer: what the store has.
Bare(q) == [i \in 1..Len(q) |-> [key |-> q[i].key, value |-> q[i].value]]

Queues == INSTANCE Firestore WITH pending <- [d \in Devices |-> Bare(pending[d])]

Entries == UNION {{Bare(pending[d])[i] : i \in 1..Len(pending[d])} : d \in Devices}

\* The book clubs keep to what the store promises: whatever the handlers, the
\* dismissed screens and a killed app do to the queues in their memory, a write
\* leaves its queue only when it is answered, in the order the writes were made,
\* and the server changes only by the next write of some queue.
KeepsToStore == Queues!StoreInit(NoRows) /\ [][Queues!StoreNext(Entries')]_(Queues!store)

------------------------------------------------------------------------------
(* The inductive invariant: what makes the stored clubs sound is that every *)
(* copy a device holds, however old, is sound too.                          *)

ListsSound ==
    \A d \in Devices, c \in Clubs : list[d][c] # NoClub => Sound(c, list[d][c])

\* A list of guests that an owner may save: no duplicates and not the owner.
ListableBy(guests, u) == guests[u] = 0 /\ \A v \in Users : guests[v] <= 1

\* What an open editor may still write is sound, or becomes so as it is saved.
EditorSound(d, e) ==
    /\ ListableBy(e.asked, e.model.owner)
    /\ e.invited # NotLoaded => ListableBy(e.invited, e.model.owner)
    /\ e.club = NewClub => e.model.owner = User(d)
    /\ e.club # NewClub =>
         /\ Sound(e.club, e.model)
         /\ Members(e.asked) \subseteq invited[e.club]
         /\ e.model.owner # User(d) /\ e.invited # NotLoaded =>
              Members(e.invited) \subseteq invited[e.club]

EditorsSound == \A d \in Devices : Open(d) => EditorSound(d, editor[d])

\* No device writes its own user into a guest list.
WritesOmitWriter ==
    \A d \in Devices : \A i \in 1..Len(pending[d]) :
       pending[d][i].value # NoClub => pending[d][i].value.guests[User(d)] = 0

\* Writes are about clubs somebody created, and only those have guests.
ClubsFounded ==
    /\ \A d \in Devices : \A i \in 1..Len(pending[d]) :
          creator[pending[d][i].key] # NoUser
    /\ \A c \in Clubs : creator[c] = NoUser => invited[c] = {}

IInv == /\ TypeOK /\ StoredClubsSound /\ ListsSound /\ EditorsSound
        /\ WritesOmitWriter /\ ClubsFounded

------------------------------------------------------------------------------
(* What the app tells its users and the code does not keep *)

\* "Are you sure you want to delete this book club? All data will be lost."
\* A club that is gone is not brought back by somebody who did not create it.
DeletedClubStaysDeleted ==
    [][\A c \in Clubs :
         server[c] = NoClub /\ server'[c] # NoClub =>
            \E d \in Devices : User(d) = creator[c] /\ applied'[d] # applied[d]]_vars
==============================================================================
