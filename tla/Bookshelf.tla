------------------------------ MODULE Bookshelf ------------------------------
(***************************************************************************)
(* A user's bookshelf: the list of books kept in the user's document and   *)
(* the copies of it the screens of the app work on.                        *)
(*                                                                         *)
(*   Controller/HomeViewController.swift, ResultsViewController.swift,     *)
(*   BookShelfViewController.swift, MenuViewController.swift,              *)
(*   SettingsViewController.swift, API/Service.swift                       *)
(*                                                                         *)
(* User is a struct: every screen that is handed one has a copy of its     *)
(* own, and Service.saveUserData writes the whole of it.  UserDefaults     *)
(* holds one more copy, which outlives the screens, the app and the        *)
(* session of the account that filled it.                                  *)
(*                                                                         *)
(* This is one phone, and an account uses no other.  The document of the   *)
(* account is then what the phone reads back, its own unacknowledged       *)
(* writes included (ReadYourWrites of Firestore_proofs), so `stored`       *)
(* stands for the server and the queue together.  Name, age, photos and    *)
(* the rest of the profile travel with the copies and are left out.        *)
(***************************************************************************)
EXTENDS Integers, Sequences, SequencesExt

CONSTANTS Accounts,
          Books,
          Goal,       \* Goal[k]: the books that achievement k asks for
          MaxBooks,   \* bound: the length of a list
          MaxEdits,   \* bound: writes of users' documents
          MaxOpened,  \* bound: Results screens opened
          NoAccount, NoUser, NoBook, NoScreen, Unset

Counted == 2..4                      \* achievement2 .. achievement4
Achievements == Counted \cup {1, 5}  \* 1: the tutorial, 5: a book club

Lists == Seq(Books)

UserCopies == [uid : Accounts, selectedBooks : Lists, readBooks : Lists,
               achievements : SUBSET Achievements]

Copies == UserCopies \cup {NoUser}

ASSUME GoalAssumption ==
    Goal \in [Counted -> Nat] /\ Goal[2] < Goal[3] /\ Goal[3] < Goal[4]
ASSUME BoundAssumption ==
    MaxBooks \in Nat /\ MaxEdits \in Nat /\ MaxOpened \in Nat
ASSUME MarkerAssumption ==
    /\ NoAccount \notin Accounts
    /\ NoUser \notin UserCopies
    /\ NoBook \notin Books
    /\ Unset \notin Lists

VARIABLES
    stored,      \* stored[a]: the document of a, as this phone reads it
    account,     \* Auth.auth().currentUser
    defaults,    \* UserDefaults: "books", "readBooks", the achievements
    front,       \* the screen in front
    home,        \* the user of the Home screen
    homeWaits,   \* the read that Home started is unanswered
    lateHomes,   \* accounts of Home screens replaced with theirs unanswered
    copy,        \* the user of the Menu or Settings screen in front
    saving,      \* Settings waits for the server
    shelf,       \* the BookShelf screen, or NoScreen
    results,     \* the Results screens, each over those before it
    bookDocs,    \* the books that have a document
    bookChecks,  \* saveBookData: books whose document is being looked up
    edits,       \* bound: writes so far
    opened,      \* bound: Results screens so far
    hearted      \* history: the books each account has put on its shelf

vars == <<stored, account, defaults, front, home, homeWaits, lateHomes, copy,
          saving, shelf, results, bookDocs, bookChecks, edits, opened, hearted>>

homeVars == <<home, homeWaits, lateHomes>>
bookVars == <<bookDocs, bookChecks>>

Screens == {"off", "welcome", "home", "menu", "settings", "shelf", "results",
            "invite"}

Defaults == [selectedBooks : Lists \cup {Unset}, readBooks : Lists \cup {Unset},
             achievements : SUBSET Achievements]

Shelves == [user : Copies,
            rows : SUBSET Books,  \* the books shown; their order is left out
            asked : SUBSET Books, \* the documents fetchUserBooks waits for
            got : SUBSET Books,   \* its array of those that have come
            covered : BOOLEAN]    \* history: Results was opened from here

ResultScreens == [user : Copies,
                  waits : BOOLEAN,      \* its fetchUser is unanswered
                  searching : BOOLEAN,  \* so is the request for the book
                  heart : {"disabled", "off", "on"},  \* faveButton
                  found : Books \cup {NoBook},        \* apiResults![4]
                  over : {"home", "shelf", "invite"}, \* the screen below it
                  covered : BOOLEAN]  \* history: Results was opened over it

ASSUME ScreenAssumption == NoScreen \notin Shelves

------------------------------------------------------------------------------
(* Helpers *)

\* firstIndex(of:), for a book that is there.
FirstIndex(s, b) ==
    CHOOSE i \in 1..Len(s) : s[i] = b /\ \A j \in 1..(i - 1) : s[j] # b

\* if let index = firstIndex(of: b) { remove(at: index) }
WithoutFirst(s, b) == IF b \in ToSet(s) THEN RemoveAt(s, FirstIndex(s, b)) ELSE s

Reached(n) == {k \in Counted : n >= Goal[k]}

\* The medals a press of the heart leaves, with n books on the shelf.
Medals(achievements, n) == (achievements \ Counted) \cup Reached(n)

\* Deleting a row of the shelf takes medals away and awards none.
MedalsLost(achievements, n) == achievements \ (Counted \ Reached(n))

CanSave == edits < MaxEdits

\* Service.saveUserData: setData without merge, under the uid of the copy.
Save(user) == /\ CanSave
              /\ stored' = [stored EXCEPT ![user.uid] = user]
              /\ edits' = edits + 1

DefaultsOf(user) == [selectedBooks |-> user.selectedBooks,
                     readBooks |-> user.readBooks,
                     achievements |-> user.achievements]

NoScreensOpen == copy' = NoUser /\ shelf' = NoScreen /\ results' = <<>>

\* The Results screen in front, or behind the invite screen in front.
Top == Last(results)

\* The process ends, killed or by a failed `!`.  What Firestore has queued and
\* UserDefaults are on disk.
Die == /\ front' = "off"
       /\ home' = NoUser /\ homeWaits' = FALSE /\ lateHomes' = {}
       /\ saving' = FALSE /\ bookChecks' = {}
       /\ NoScreensOpen

\* A new Home screen for account a, which starts to read its document.  The
\* one it replaces lives on until its own read is answered.
NewHome(a) == /\ front' = "home"
              /\ home' = NoUser
              /\ homeWaits' = TRUE
              /\ lateHomes' = lateHomes \cup (IF homeWaits THEN {account} ELSE {})
              /\ NoScreensOpen

------------------------------------------------------------------------------
(* Starting, signing in and out, the Home screen *)

\* The Welcome screen skips to Home when somebody is signed in.
Launch == /\ front = "off"
          /\ IF account = NoAccount
               THEN /\ front' = "welcome"
                    /\ UNCHANGED <<homeVars, copy, shelf, results>>
               ELSE NewHome(account)
          /\ UNCHANGED <<stored, account, defaults, saving, bookVars, edits, opened,
                         hearted>>

LogIn(a) == /\ front = "welcome"
            /\ account' = a
            /\ NewHome(a)
            /\ UNCHANGED <<stored, defaults, saving, bookVars, edits, opened, hearted>>

\* Mutant: the button is offered on Home too, before its user is known.
LogOutFromHome ==
    /\ front \in {"home", "settings"} /\ ~saving
    /\ account' = NoAccount
    /\ front' = "welcome"
    /\ home' = NoUser
    /\ homeWaits' = FALSE
    /\ lateHomes' = lateHomes \cup (IF homeWaits THEN {account} ELSE {})
    /\ NoScreensOpen
    /\ UNCHANGED <<stored, defaults, saving, bookVars, edits, opened, hearted>>

\* Footer of Settings, which the progress view covers while a save runs.
LogOut == /\ front = "settings" /\ ~saving
          /\ account' = NoAccount
          /\ front' = "welcome"
          /\ home' = NoUser
          /\ homeWaits' = FALSE
          /\ lateHomes' = lateHomes \cup (IF homeWaits THEN {account} ELSE {})
          /\ NoScreensOpen
          /\ UNCHANGED <<stored, defaults, saving, bookVars, edits, opened, hearted>>

Killed == /\ front # "off"
          /\ Die
          /\ UNCHANGED <<stored, account, defaults, bookDocs, edits, opened, hearted>>

\* The reads of one document are answered in the order they were made: a
\* replaced Home's, the Home's, then that of Results.
HomeAnswered == /\ homeWaits /\ account \notin lateHomes
                /\ homeWaits' = FALSE
                /\ home' = stored[account]
                /\ defaults' = DefaultsOf(stored[account])
                /\ UNCHANGED <<stored, account, front, lateHomes, copy, saving,
                               shelf, results, bookVars, edits, opened, hearted>>

\* Nobody sees the screen any more, but its handler fills UserDefaults.
LateHomeAnswered(a) ==
    /\ a \in lateHomes
    /\ lateHomes' = lateHomes \ {a}
    /\ defaults' = DefaultsOf(stored[a])
    /\ UNCHANGED <<stored, account, front, home, homeWaits, copy, saving, shelf,
                   results, bookVars, edits, opened, hearted>>

\* An error or a missing document: no completion handler runs.
ReadFails == /\ \/ homeWaits' = FALSE /\ homeWaits /\ UNCHANGED <<lateHomes, results>>
                \/ \E a \in lateHomes : /\ lateHomes' = lateHomes \ {a}
                                        /\ UNCHANGED <<homeWaits, results>>
                \/ /\ \E i \in DOMAIN results :
                         /\ results[i].waits
                         /\ results' = [results EXCEPT ![i].waits = FALSE]
                   /\ UNCHANGED <<homeWaits, lateHomes>>
             /\ UNCHANGED <<stored, account, defaults, front, home, copy, saving,
                            shelf, bookVars, edits, opened, hearted>>

OpenMenu == /\ front = "home"
            /\ front' = "menu"
            /\ copy' = home
            /\ UNCHANGED <<stored, account, defaults, homeVars, saving, shelf,
                           results, bookVars, edits, opened, hearted>>

\* prepare gives Settings no user as long as Home has none; the screen then
\* fails on its missing header.
OpenSettings ==
    /\ front = "home"
    /\ IF home = NoUser
         THEN Die
         ELSE /\ front' = "settings"
              /\ copy' = home
              /\ UNCHANGED <<homeVars, saving, shelf, results, bookChecks>>
    /\ UNCHANGED <<stored, account, defaults, bookDocs, edits, opened, hearted>>

\* navbar back button, and for the screens over another a swipe down.
Back == /\ front \in {"menu", "settings", "shelf", "results", "invite"} /\ ~saving
        /\ front' = CASE front = "results" -> Top.over
                      [] front = "invite" -> IF results = <<>> THEN "menu" ELSE "results"
                      [] OTHER -> "home"
        /\ copy' = IF front \in {"menu", "settings"} THEN NoUser ELSE copy
        /\ results' = IF front = "results" THEN Front(results) ELSE results
        /\ shelf' = IF front = "shelf" THEN NoScreen ELSE shelf
        /\ UNCHANGED <<stored, account, defaults, homeVars, saving, bookVars,
                       edits, opened, hearted>>

\* navbar close button of Results and Invite, and of the lists Menu leads to.
CloseToHome == /\ front \in {"results", "invite", "menu"}
               /\ NewHome(account)
               /\ UNCHANGED <<stored, account, defaults, saving, bookVars, edits,
                              opened, hearted>>

\* Menu, the lists of book clubs, and the invite screen of one (BookClubs).
OpenClub == /\ front = "menu"
            /\ front' = "invite"
            /\ UNCHANGED <<stored, account, defaults, homeVars, copy, saving, shelf,
                           results, bookVars, edits, opened, hearted>>

------------------------------------------------------------------------------
(* Menu and Settings *)

\* An achievement UserDefaults does not have yet; without a user there is
\* nothing to save it in.
Award(user, k) ==
    /\ defaults' = [defaults EXCEPT !.achievements = @ \cup {k}]
    /\ IF user = NoUser
         THEN UNCHANGED <<stored, edits>>
         ELSE Save([user EXCEPT !.achievements = @ \cup {k}])

RedoTutorial ==
    /\ front = "menu"
    /\ 1 \notin defaults.achievements
    /\ Award(copy, 1)
    /\ copy' = IF copy = NoUser THEN copy
               ELSE [copy EXCEPT !.achievements = @ \cup {1}]
    /\ UNCHANGED <<account, front, homeVars, saving, shelf, results, bookVars,
                   opened, hearted>>

SettingsDone == /\ front = "settings" /\ ~saving
                /\ Save(copy)
                /\ saving' = TRUE
                /\ UNCHANGED <<account, defaults, front, homeVars, copy, shelf,
                               results, bookVars, opened, hearted>>

\* The server has answered: Home takes the user over from Settings.
SettingsSaved == /\ saving
                 /\ saving' = FALSE
                 /\ home' = copy
                 /\ front' = "home"
                 /\ copy' = NoUser
                 /\ UNCHANGED <<stored, account, defaults, homeWaits, lateHomes,
                                shelf, results, bookVars, edits, opened, hearted>>

------------------------------------------------------------------------------
(* Results: one book found, and the heart that puts it on the shelf *)

\* A Results screen that starts with this user, and reads it when it has none:
\* from the search screens over Home, a row of the shelf, or the book cover on
\* an invite screen.  Offline there is no request for the book.
OpenResultsFor(user, connected) ==
    /\ front \in {"home", "shelf", "invite"} /\ opened < MaxOpened
    /\ front = "shelf" => shelf.rows # {}
    /\ front' = "results"
    /\ opened' = opened + 1
    /\ shelf' = IF front = "shelf" THEN [shelf EXCEPT !.covered = TRUE] ELSE shelf
    /\ results' = Append([i \in DOMAIN results |-> [results[i] EXCEPT !.covered = TRUE]],
                         [user |-> user, waits |-> user = NoUser,
                          searching |-> connected, heart |-> "disabled",
                          found |-> NoBook, over |-> front, covered |-> FALSE])
    /\ UNCHANGED <<stored, account, defaults, homeVars, copy, saving, bookVars,
                   edits, hearted>>

\* Mutant: the user comes with the segue and is not read again.
OpenResultsWithUser(connected) == OpenResultsFor(home, connected)

OpenResults(connected) == OpenResultsFor(NoUser, connected)

\* viewDidLoad is the only place that reads the user: a screen that comes back
\* to the front goes on with the copy it has.
ResultsAnswered(i) ==
    /\ i \in DOMAIN results /\ results[i].waits
    /\ ~homeWaits /\ account \notin lateHomes
    /\ \A j \in 1..(i - 1) : ~results[j].waits
    /\ results' = [results EXCEPT ![i].waits = FALSE, ![i].user = stored[account]]
    /\ UNCHANGED <<stored, account, defaults, front, homeVars, copy, saving, shelf,
                   bookVars, edits, opened, hearted>>

Shown(user, b) == IF user # NoUser /\ b \in ToSet(user.selectedBooks) THEN "on" ELSE "off"

\* The request ends with book b.  The heart is enabled as soon as the id has
\* been read; `complete` says whether the rest of the answer can be.
BookFound(i, b, complete) ==
    /\ i \in DOMAIN results /\ results[i].searching
    /\ results' = [results EXCEPT ![i].searching = FALSE,
                                  ![i].heart = Shown(results[i].user, b),
                                  ![i].found = IF complete THEN b ELSE NoBook]
    /\ UNCHANGED <<stored, account, defaults, front, homeVars, copy, saving, shelf,
                   bookVars, edits, opened, hearted>>

BookNotFound(i) ==
    /\ i \in DOMAIN results /\ results[i].searching
    /\ results' = [results EXCEPT ![i].searching = FALSE]
    /\ UNCHANGED <<stored, account, defaults, front, homeVars, copy, saving, shelf,
                   bookVars, edits, opened, hearted>>

\* The user after the heart has been turned on or off for book b.
Hearted(user, b, on) ==
    LET list == IF on THEN Append(user.selectedBooks, b)
                ELSE WithoutFirst(user.selectedBooks, b)
    IN  [user EXCEPT !.selectedBooks = list,
                     !.achievements = Medals(@, Len(list))]

PressHeart ==
    /\ front = "results" /\ Top.heart # "disabled"
    /\ LET on == Top.heart = "off"
           user == Hearted(Top.user, Top.found, on)
       IN  IF Top.user = NoUser \/ Top.found = NoBook
             THEN Die /\ UNCHANGED <<stored, defaults, bookDocs, edits, opened, hearted>>
             ELSE /\ on => Len(Top.user.selectedBooks) < MaxBooks
                  /\ Save(user)
                  /\ defaults' = [defaults EXCEPT
                         !.selectedBooks = user.selectedBooks,
                         !.achievements = Medals(@, Len(user.selectedBooks))]
                  /\ results' = [results EXCEPT
                         ![Len(results)].user = user,
                         ![Len(results)].heart = IF on THEN "on" ELSE "off"]
                  /\ bookChecks' = bookChecks \cup (IF on THEN {Top.found} ELSE {})
                  /\ hearted' = [hearted EXCEPT
                         ![account] = @ \cup (IF on THEN {Top.found} ELSE {})]
                  /\ UNCHANGED <<front, homeVars, copy, saving, shelf, bookDocs>>
    /\ UNCHANGED <<account, opened>>

\* "Create book club event": the achievement, if UserDefaults does not have it,
\* then the invite screen.
PressInvite ==
    /\ front = "results"
    /\ front' = "invite"
    /\ IF 5 \in defaults.achievements
         THEN UNCHANGED <<stored, defaults, edits, results>>
         ELSE /\ Award(Top.user, 5)
              /\ results' = IF Top.user = NoUser THEN results
                            ELSE [results EXCEPT
                                    ![Len(results)].user.achievements = @ \cup {5}]
    /\ UNCHANGED <<account, homeVars, copy, saving, shelf, bookVars, opened, hearted>>

\* Service.saveBookData: the document is written if it is not there.
BookChecked(b) ==
    /\ b \in bookChecks
    /\ bookChecks' = bookChecks \ {b}
    /\ bookDocs' = bookDocs \cup {b}
    /\ UNCHANGED <<stored, account, defaults, front, homeVars, copy, saving, shelf,
                   results, edits, opened, hearted>>

\* Its read fails, offline and without a cached document: `document!`.
BookCheckFails == /\ bookChecks \ bookDocs # {}
                  /\ Die
                  /\ UNCHANGED <<stored, account, defaults, bookDocs, edits, opened,
                                 hearted>>

------------------------------------------------------------------------------
(* BookShelf: the list as rows, deleting a row, marking it as read *)

\* Mutant: only the reading marks are refreshed.
ShelfUserOfHome == IF home = NoUser THEN NoUser
                   ELSE [home EXCEPT !.readBooks = defaults.readBooks]

\* The user the shelf works on: Home's, with the lists of UserDefaults.
ShelfUser == IF home = NoUser THEN NoUser
             ELSE [home EXCEPT !.selectedBooks = defaults.selectedBooks,
                               !.readBooks = defaults.readBooks]

OpenShelf ==
    /\ front = "home"
    /\ IF defaults.selectedBooks = Unset
         THEN Die
         ELSE /\ front' = "shelf"
              /\ shelf' = [user |-> ShelfUser, rows |-> {},
                           asked |-> ToSet(defaults.selectedBooks), got |-> {},
                           covered |-> FALSE]
              /\ UNCHANGED <<homeVars, copy, saving, results, bookChecks>>
    /\ UNCHANGED <<stored, account, defaults, bookDocs, edits, opened, hearted>>

\* One of the reads of fetchUserBooks is answered.  Every answer hands over
\* the array of all that have come so far; a book without a document gets no row.
RowArrives(b) ==
    /\ shelf # NoScreen /\ b \in shelf.asked
    /\ shelf' = IF b \in bookDocs
                  THEN [shelf EXCEPT !.asked = @ \ {b}, !.got = @ \cup {b},
                                     !.rows = shelf.got \cup {b}]
                  ELSE [shelf EXCEPT !.asked = @ \ {b}]
    /\ UNCHANGED <<stored, account, defaults, front, homeVars, copy, saving, results,
                   bookVars, edits, opened, hearted>>

\* The user and the rows of the shelf after the row of book b is deleted: the
\* place of b is looked up in UserDefaults and used in the copy.
Deleted(user, b) ==
    LET list == RemoveAt(user.selectedBooks, FirstIndex(defaults.selectedBooks, b))
    IN  [user EXCEPT !.selectedBooks = list,
                     !.achievements = MedalsLost(@, Len(list))]

\* A book that is read stays (an alert says so), and nothing happens to one
\* that UserDefaults does not list.
Delete(b) ==
    /\ front = "shelf" /\ b \in shelf.rows
    /\ LET user == Deleted(shelf.user, b)
       IN  IF \/ defaults.readBooks = Unset
              \/ /\ b \in ToSet(defaults.selectedBooks) \ ToSet(defaults.readBooks)
                 /\ \/ shelf.user = NoUser
                    \/ FirstIndex(defaults.selectedBooks, b)
                         > Len(shelf.user.selectedBooks)
             THEN Die /\ UNCHANGED <<stored, defaults, edits>>
             ELSE /\ b \in ToSet(defaults.selectedBooks) \ ToSet(defaults.readBooks)
                  /\ Save(user)
                  /\ defaults' = [defaults EXCEPT
                         !.selectedBooks = user.selectedBooks,
                         !.achievements = MedalsLost(@, Len(user.selectedBooks))]
                  /\ shelf' = [shelf EXCEPT !.user = user,
                                            !.rows = @ \ {b}]
                  /\ UNCHANGED <<front, homeVars, copy, saving, results, bookChecks>>
    /\ UNCHANGED <<account, bookDocs, opened, hearted>>

\* Mutant: the swipe looks at the user Home was loaded with.
IsReadAtHome(b) == home # NoUser /\ b \in ToSet(home.readBooks)

IsRead(b) == shelf.user # NoUser /\ b \in ToSet(shelf.user.readBooks)

ReadToggled(b) == IF IsRead(b) THEN WithoutFirst(defaults.readBooks, b)
                  ELSE Append(defaults.readBooks, b)

\* Without a user the list in UserDefaults is changed before `user!` fails.
ToggleRead(b) ==
    /\ front = "shelf" /\ b \in shelf.rows
    /\ defaults.readBooks # Unset /\ ~IsRead(b) =>
           Len(defaults.readBooks) < MaxBooks
    /\ defaults' = IF defaults.readBooks = Unset THEN defaults
                   ELSE [defaults EXCEPT !.readBooks = ReadToggled(b)]
    /\ IF defaults.readBooks = Unset \/ shelf.user = NoUser
         THEN Die /\ UNCHANGED <<stored, edits>>
         ELSE /\ shelf' = [shelf EXCEPT !.user.readBooks = ReadToggled(b)]
              /\ Save(shelf'.user)
              /\ UNCHANGED <<front, homeVars, copy, saving, results, bookChecks>>
    /\ UNCHANGED <<account, bookDocs, opened, hearted>>

------------------------------------------------------------------------------
\* Registered accounts with empty shelves, and a new installation.
Init == /\ stored = [a \in Accounts |-> [uid |-> a, selectedBooks |-> <<>>,
                                         readBooks |-> <<>>, achievements |-> {}]]
        /\ account = NoAccount
        /\ defaults = [selectedBooks |-> Unset, readBooks |-> Unset,
                       achievements |-> {}]
        /\ front = "off"
        /\ home = NoUser /\ homeWaits = FALSE /\ lateHomes = {}
        /\ copy = NoUser /\ saving = FALSE
        /\ shelf = NoScreen /\ results = <<>>
        /\ bookDocs = {} /\ bookChecks = {}
        /\ edits = 0 /\ opened = 0
        /\ hearted = [a \in Accounts |-> {}]

Next == \/ Launch \/ LogOut \/ Killed \/ \E a \in Accounts : LogIn(a)
        \/ HomeAnswered \/ ReadFails \/ \E a \in Accounts : LateHomeAnswered(a)
        \/ OpenMenu \/ OpenSettings \/ OpenShelf \/ OpenClub \/ Back \/ CloseToHome
        \/ RedoTutorial \/ SettingsDone \/ SettingsSaved
        \/ \E connected \in BOOLEAN : OpenResults(connected)
        \/ PressHeart \/ PressInvite
        \/ \E i \in 1..MaxOpened :
              \/ ResultsAnswered(i) \/ BookNotFound(i)
              \/ \E b \in Books, complete \in BOOLEAN : BookFound(i, b, complete)
        \/ BookCheckFails \/ \E b \in Books : BookChecked(b)
        \/ \E b \in Books : RowArrives(b) \/ Delete(b) \/ ToggleRead(b)

Spec == Init /\ [][Next]_vars

------------------------------------------------------------------------------
(* Properties *)

\* The types of the variables; in particular no copy of a user is ever made of
\* the lists UserDefaults do not hold yet.
TypeOK ==
    /\ stored \in [Accounts -> UserCopies]
    /\ account \in Accounts \cup {NoAccount}
    /\ defaults \in Defaults
    /\ front \in Screens
    /\ home \in Copies /\ homeWaits \in BOOLEAN
    /\ lateHomes \subseteq Accounts
    /\ copy \in Copies
    /\ saving \in BOOLEAN
    /\ shelf \in Shelves \cup {NoScreen}
    /\ results \in Seq(ResultScreens)
    /\ bookDocs \subseteq Books /\ bookChecks \subseteq Books
    /\ edits \in 0..MaxEdits
    /\ opened \in 0..MaxOpened /\ Len(results) <= opened
    /\ hearted \in [Accounts -> SUBSET Books]

\* A copy that speaks for account a: a's uid, and only books that a has put
\* on the shelf with the heart.
Own(user, a) ==
    /\ user.uid = a
    /\ ToSet(user.selectedBooks) \cup ToSet(user.readBooks) \subseteq hearted[a]

\* Whatever copies are written back, through UserDefaults that still hold
\* another account's lists and with answers arriving after a log out, no book
\* gets into the document of an account that never hearted it.
OwnBooks == \A a \in Accounts : Own(stored[a], a)

NoRepeats(s) == \A i, j \in 1..Len(s) : s[i] = s[j] => i = j

\* Reading is toggled on the shelf's copy, UserDefaults and the document,
\* refreshed at different times, but a book is never listed as read twice:
\* marking it unread, which removes one entry, would leave it read.
ReadOnce ==
    /\ \A a \in Accounts : NoRepeats(stored[a].readBooks)
    /\ home # NoUser => NoRepeats(defaults.readBooks)

\* Results works on a copy it read itself.  Until another Results screen has
\* been opened over it, by way of its invite screen, that copy is as good as the
\* document: pressing the heart never loses another book.  It never loses a
\* reading mark at all.
HeartKeepsOthers ==
    [][\A a \in Accounts :
         front = "results" /\ stored'[a] # stored[a] =>
           /\ stored'[a].readBooks = stored[a].readBooks
           /\ Top.covered \/ \A b \in Books \ {Top.found} :
                b \in ToSet(stored'[a].selectedBooks) <=>
                  b \in ToSet(stored[a].selectedBooks)]_vars

\* Deleting a row uses a place found in UserDefaults on the shelf's own copy.
\* As long as Results has not been opened from the shelf, that removes the
\* book of the row and no other.
DeleteTakesTheRow ==
    [][\A b \in Books :
         Delete(b) /\ stored' # stored /\ ~shelf.covered =>
           stored'[account].selectedBooks =
             WithoutFirst(defaults.selectedBooks, b)]_vars

(* Why they hold: an invariant that every step preserves *)

SignedIn == account \in Accounts

\* Each Results screen but the first lies over an invite screen, and that over
\* the Results screen before it; the shelf, if open, lies below them all.
ResultsStacked ==
    \A i \in DOMAIN results :
        /\ i > 1 => results[i].over = "invite"
        /\ i < Len(results) => results[i].covered
        /\ results[i].over = "shelf" <=> i = 1 /\ shelf # NoScreen

\* For OwnBooks: nothing is under way and no user is on screen unless somebody
\* is signed in, and what is under way is on behalf of that account: signing out
\* takes a screen that opens only after every older read has been answered.
SessionSound ==
    /\ front \notin {"off", "welcome"} => SignedIn
    /\ front = "welcome" => ~SignedIn
    /\ front = "results" => results # <<>>
    /\ results # <<>> => front \in {"results", "invite"}
    /\ ResultsStacked
    /\ front = "shelf" => shelf # NoScreen
    /\ shelf # NoScreen => front = "shelf" \/ results # <<>>
    /\ homeWaits \/ home # NoUser => SignedIn
    /\ lateHomes \subseteq {account}
    /\ saving => front = "settings"
    /\ front = "settings" => copy # NoUser

\* Once Home has its user, UserDefaults are that user's.
HomeSound ==
    home # NoUser =>
        /\ Own(home, account)
        /\ ~homeWaits /\ lateHomes = {}
        /\ defaults.selectedBooks # Unset /\ defaults.readBooks # Unset
        /\ ToSet(defaults.selectedBooks) \cup ToSet(defaults.readBooks) \subseteq hearted[account]

\* The screens that read their own copy: its lists are the document's, except
\* that another Results screen opened over one may have put a book on the shelf
\* or taken one off.
ResultsFresh ==
    \A i \in DOMAIN results : results[i].user # NoUser =>
        /\ Own(results[i].user, account)
        /\ results[i].user.readBooks = stored[account].readBooks
        /\ results[i].covered \/ results[i].user = stored[account]

\* The screens that were handed a copy by Home, and those that read their own.
ScreensSound ==
    /\ copy # NoUser => home # NoUser /\ Own(copy, account)
    /\ shelf # NoScreen /\ shelf.user # NoUser =>
          /\ home # NoUser /\ Own(shelf.user, account)
          /\ shelf.rows \cup shelf.asked \cup shelf.got \subseteq hearted[account]
    /\ ResultsFresh

CopiesSound == TypeOK /\ OwnBooks /\ SessionSound /\ HomeSound /\ ScreensSound

\* Why ReadOnce and DeleteTakesTheRow hold: the lists the shelf works on are
\* those of UserDefaults, until Results, opened from it, changes the latter.
ListsSound ==
    /\ ReadOnce
    /\ home # NoUser => NoRepeats(home.readBooks)
    /\ copy # NoUser => NoRepeats(copy.readBooks)
    /\ shelf # NoScreen => front = "shelf" \/ shelf.covered
    /\ shelf # NoScreen /\ shelf.user # NoUser =>
          /\ shelf.user.readBooks = defaults.readBooks
          /\ ~shelf.covered => shelf.user.selectedBooks = defaults.selectedBooks

IInv == CopiesSound /\ ListsSound

(* What the repository says and the code does not do *)

\* `self.user!` and `apiResults![4]` (ResultsViewController, 143): whenever the
\* heart can be pressed, the user and the book are there.
HeartIsSafe ==
    front = "results" /\ Top.heart # "disabled" =>
        Top.user # NoUser /\ Top.found # NoBook
==============================================================================
