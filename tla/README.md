# BookZone: specifications, model checking and proofs

BookZone is an iOS application (Swift, `src/BookZone/BookZone/`) for keeping a
shelf of books, getting recommendations and organising book clubs. Its data is
kept in Firestore collections, its accounts in Firebase Auth, its pictures in
Firebase Storage; the application is the only writer of all three. The Swift
code is about 6 600 lines; the rest of the repository is the Xcode project,
storyboards, pictures and the pods, of which one, the Firestore SDK, decides
what becomes of everything the application writes, and another, EasyTipView, when
a tip leaves the screen. There are no tests and the README has
one line, so what the program promises is read from its code, its comments, its
force-unwraps and the texts it shows its users
(`en.lproj/Localizable.strings`).

Paths below are relative to `src/BookZone/BookZone/`, and those that begin with
`core/src/` to `src/BookZone/Pods/FirebaseFirestore/Firestore/`.

## 1. Inventory

| Component | State it keeps | Operations | What is hard |
|---|---|---|---|
| **Document store access** `API/Service.swift`, `API/BookClubService.swift` | the collections `users`, `bookClubs` and each user's `books`; on the device, the SDK's queues of unacknowledged writes, one for each user of it | get, `setData` of whole documents, delete | reads overlaid with own writes only; writes answered late, in order, perhaps with an error, stored more than once when a connection is lost; lost updates |
| **Firestore SDK, the write path** `core/src/core/sync_engine.cc`, `local/local_store.cc`, `local/leveldb_mutation_queue.cc`, `remote/remote_store.cc`, `remote/stream.cc`, `remote/write_stream.cc` | on disk, a queue of mutation batches for each user of the phone; in memory, the callbacks, the pipeline of batches being sent, the state of the write stream, an idle timer | write, open and greet, read a result or a refusal, back off, stop an idle stream, restart on a change of network or user, start from disk | answers carry no batch id; what was stored is sent again when an answer is lost; answers dropped with a stream; deaths between telling the app and removing the row; ids used again |
| **Book clubs** `API/BookClubService.swift`, `Managers/BookClubsManager.swift`, `Controller/BookClub/*`, `Extensions/UIApplicationExtension.swift` | the club documents, the two lists of clubs, the invite screen (model, invited users, pickers), local notifications | fetch, create, edit, leave, delete, invite, remove a guest, set date and platform, schedule, reschedule and cancel a reminder | several users write the same document from old copies; fetches answered after the user acts; completion handlers run over whatever is on screen; kills with writes queued |
| **Profile and bookshelf** `Controller/HomeViewController.swift`, `ResultsViewController.swift`, `BookShelfViewController.swift`, `MenuViewController.swift`, `SettingsViewController.swift`, `Model/User.swift`, `Model/Book.swift` | a copy of the user document in every screen, `UserDefaults` arrays of selected and read books, the `books` collection, achievements | heart and un-heart a book, delete, mark read, redo the tutorial, edit the profile, upload a picture, log out | every screen saves its own copy as the whole document; `UserDefaults` and documents diverge; user and book documents are two writes; index arithmetic between two lists; a Results screen can be opened over another, by way of an invite screen, and each has its own copy |
| **Accounts** `API/AuthService.swift`, `Controller/Authentication/*` | the Auth account, the profile picture, the profile document | register, log in, log out, forgot password | three services written one after the other; failures between them |
| **Recommendations** `API/RecommenderManager.swift`, `Controller/Recommender/*` | the questionnaire's answers, the request in flight, `lastMatchedBook` | answer, request, show | answers that overtake each other; a document that is missing |
| **Title picker** `Controller/Search/*`, `Helpers/Apple*` | recognised words, ticks, the composed title | recognise, tick, untick, search | two lists kept in step by hand; duplicate words |
| **Language and app settings** `AppDelegate.swift`, `Controller/AppSettings*`, `Extensions/Localization.swift` | three representations of the language in `UserDefaults` | choose, confirm, cancel | representations that must agree |
| **Achievement tips** `View/ReusableComponents/ProfileSettings/*` | which tip is open, flags of six stars | touch a star, close a tip | flags left behind; a dismissed tip stays for 0.7 seconds, in which another can open |
| **Search, navigation, views** | none of their own | present screens, draw | nothing to check beyond what the others model |

How they interact: everything the application keeps goes through the store,
whose promises (`Firestore`) the SDK's write path keeps (`WritePipeline`); Auth
tells the SDK of every change of user, which changes the queue that is served.
The book clubs and the bookshelf share the store and the account signed in; opening the invite screen from a book also writes
the user document (an achievement); registering creates the profile document
that the home screen hands to every other screen.

What makes each correct:

- *The write path*: the writes of a user reach the server in the order they were
  made, each at least once unless it is refused, whatever connection, user or
  process is lost in between; a handler told of success has its write stored;
  an answer is matched to the batch it is for; a queue whose user comes back is
  emptied in the end.
- *Book clubs*: a club belongs to its creator for ever; only people the owner
  invited are guests, nobody twice and never the owner; nobody puts themselves
  back after leaving; a device has at most one reminder per club, for the date
  last saved; the create screen is left in the end.
- *Bookshelf*: a book leaves the shelf only when its user removes it; a read
  book is on the shelf; the indices used on two lists mean the same book;
  achievements that were reached stay reached.
- *Accounts*: no home screen without a profile; no profile without an account.
- *Recommendations*: one answer per request, shown for the latest request, not
  a book already on the shelf.
- *Title picker*: the title is the ticked words.
- *Language*: the three representations agree.

The places where these could go wrong are listed, line by line, under
`hazards` in `PROJECT.json`. Those without a property carry a note: most are
behaviours that the models have and that no text of the repository speaks
against.

## 2. Plan

In the order in which it was built, the most important first:

1. `Firestore` (the store as the application sees it), `BookClubs` on top of it,
   `ClubRegistry` (what the clubs promise), the refinement between them, and
   proofs of all safety properties.
2. `Bookshelf`: the copies of the user document, `UserDefaults` and the `books`
   collection on one phone; its inductive invariant and all its properties
   proved.
3. `Registration` on top of `Firestore`: account, photo, profile, the user of
   the queue and navigation; all its safety properties proved.
4. `Recommender`: requests and their reads; its safety properties proved.
5. `TitlePicker`, `Tips`, `Language`, composed by `Screens`, about which
   everything is proved.
6. `WritePipeline`: how the SDK sends the queues, and that it implements
   `Firestore`; safety and refinement proved. What it showed of the store (a
   queue for each user, writes stored more than once, connections restarted with
   the user) went into `Firestore`, and through it into `BookClubs` and
   `Registration`.
7. The seams between the modules: that the two modules above the store keep to
   it (`KeepsToStore`), that it gives them what `Bookshelf` takes for granted
   (`ReadYourWrites`), and in which order writes can be seen (`OlderIsForNow`).

What is left out is in section 6, with the reasons.

## 3. Modules

| Module | What it models |
|---|---|
| `Firestore` | The document store as the app sees it: whole-document writes, a queue for each user of a phone that survives a kill, writes stored in order and at least once, connections lost with the answers not yet read, reads overlaid with the queue. |
| `WritePipeline` | The write path of the SDK, for one phone and its users in turn; implements `Firestore` (`ImplementsStore`). |
| `BookClubs` | The club documents, the lists, the invite screen and the reminders, for any number of devices. Extends `Firestore`. |
| `ClubRegistry` | The promise: founder, invited people, record. Four actions, no devices. |
| `Bookshelf` | One phone: the user document, its copies on the screens and in `UserDefaults`, the documents of books. |
| `Registration` | Presses of Register and Login with their answers, the screens they come from, and the profile document. Extends `Firestore`. |
| `Recommender` | Requests for a book, each three reads long, and the last match. |
| `TitlePicker`, `Tips`, `Language` | Three screens that keep several copies of what they show. Instantiated by `Screens`. |
| `Screens` | The three of them as the app shows them: one in front, each made anew when opened, the language outliving all. |
| `MCBookClubs`, `MCBookshelf`, `MCRegistration`, `MCRecommender`, `MCScreens`, `MCWritePipeline` | Instances for TLC. |
| `OrderLemmas`, `Firestore_proofs`, `BookClubs_proofs`, `Bookshelf_proofs`, `Registration_proofs`, `WritePipeline_proofs`, `Recommender_proofs`, `Screens_proofs` | Theorems and proofs. |

The operators named as mutants in comments are the plausible bugs that
`PROJECT.json` lists under `mutants`; no specification uses them.

### Firestore and WritePipeline

| `WritePipeline` | Code |
|---|---|
| `rows`, `nextId`, `LoadedId`, `Without` | the mutation table of `LevelDbMutationQueue` under each user id, `next_batch_id_`, `LoadNextBatchIdFromDb`, `RemoveMutationBatch` |
| `callbacks`, `WithCallback`, `Notified` | `SyncEngine::mutation_callbacks_`, `WriteMutations`, `NotifyUser` |
| `pipeline`, `NewBatches`, `FillWritePipeline`, `Window` | `write_pipeline_`, `FillWritePipeline` with what it calls, `kMaxPendingWrites` |
| `stream`, `shaken`, `idle`, `Disconnected` | `Stream::state_`, `handshake_complete_`, `idleness_timer_`, `Stream::Close` |
| `Write`, `StreamOpens`, `HandshakeAnswered`, `ResultRead`, `RefusalRead`, `StreamFails`, `BackoffElapsed`, `IdleTimeout`, `ConnectivityChange`, `CredentialChange` | the handlers of the SDK's worker queue, one action each, with everything they call |
| `Relaunch`, `DiesAcknowledging`, `DiesRejecting` | the process dies between two handlers, or between the callback and the removal inside one |
| `sent`, `replies`, `status`, `ServerGreets`, `ServerStores`, `ServerRefuses` | the stream and the server (external) |
| `made`, `wrote`, `acked`, `failed`, `stored`, `refused` | history: the writes numbered as they are made, who wrote what, and what became of it |

- The server takes the requests of a stream in order, ends the stream at the
  first that it refuses, never ends one without an error, and stores nothing
  more of a stream that has been broken. All but the last follow from how the
  SDK uses it: it matches results to batches by their order and lays an error
  on the first batch. The last is the assumption under which `Firestore`'s
  order holds: a request of a broken stream that was stored after its repetition
  on the next one could undo a later write. The repository has nothing on it.
- A refusal stands for every error that `IsPermanentWriteError` takes as
  permanent, `StreamFails` for every other one and for a failed connection.
- A batch has one write, as all of the application's have. The stream token is
  left out: `WriteHandshake` does not send it.
- A `getDocument` that the server does not answer is answered from the cache: a
  version that was seen earlier, overlaid with the queue. The modules have it
  where it can make a difference: a list of clubs, or a copy of the user, may
  be kept on screen for any time after it was read, with the same effect. A
  first read that fails for want of a cached document is `ReadFails`.

Writes are numbered, so that a document on the server can be compared with what
a handler was told: `AckedStays` says that after success it holds that write, a
later one of its user or one of somebody else, although the next connection
sends older ones again; `OlderIsForNow` that a write put back over a later one is
there for now, because the later one is queued too, or was refused.

`Firestore` keeps, of all this, `server`, `pending` (the queues) and `applied`
(how many writes of a queue the server has stored without their answers having
been read). A module that extends it says when a queue is served: always in
`BookClubs`, where a device has one user; while its user is signed in on a
running app in `Registration`. A write refused by the server ends the
connection, so `RefusalRead` is possible even when writes before it were stored:
the application hears of an error for a write that is on the server.

### BookClubs

| Specification | Code |
|---|---|
| `server`, `pending`, `Local`, `Enqueue`, `ServerStores`, `ConnectionLost` | `COLLECTION_BOOKCLUBS`, `setData(from:)`, `delete()`, `getDocuments`, and the SDK |
| `list`, `FetchClubs`, `IsMine`, `InTab` | `fetchUserBookClubEvents`, `fetchBookClubsForCurrentUser`, `BookClubsManager` |
| `editor` | one `BookClubInviteViewController`: `bookClubModel`, `createMode`, `invitedUsersArray` (nil is `NotLoaded`), the two pickers, the two outstanding answers of `fetchUsersWithIds` |
| `OpenNew`, `OpenClub`, `GuestsLoaded` | `viewDidLoad`, `updateUI`, `fetchInvitedUsers` |
| `AddGuest`, `RemoveGuest`, `SelectDate`, `SelectPlatform` | the suggestion row, the swipe action, a picker opened, turned and closed with its Done button |
| `Create`, `Save`, `Leave`, `Delete` | the four buttons, after the reachability test |
| `Acknowledge` | the completion handlers of `createBookClub` and `editBookClub`: `navigateToMainPage`, `dismiss` |
| `reminders`, `Remind`, `Reschedule`, `Cancel`, `Schedule` | `scheduleNotification`, `rescheduleNotification`, `UIApplicationExtension` |
| `creator`, `invited` | history: who drew the document id, whom the owner has saved as a guest |

Abstractions:

- Name, title, cover and link of a club are left out (copied unchanged);
  `eventInviteList` always equals `eventGuests`.
- Turning a picker and pressing its Done are one step, taken at Done. While a
  picker is up, the blur view of `showPicker` (`BookClubInviteViewController.swift:658`)
  keeps every touch from the rest of the screen, and no answer reads the picker
  or sets it: what may happen in between (an answer, the clock, a kill) commutes
  with turning it, or ends the screen and the picker with it.
- A guest list is the number of rows each user has; the order of rows is not
  modelled.
- Time is a number of hours that only grows. `Lead` is the hour before an event
  and `DefaultAhead` the day of a new club: `getDefaultBookClub` asks for seven, but
  passes a `Date` where `BookClub.init` looks for a `Timestamp`
  (`BookClub.swift:29`), and gets its default instead. `Dates` are the dates the
  picker offers.
- A fetch and its answer are one step. Rows can stay on screen arbitrarily long
  after it, so every stale row that two steps would give occurs. The list is
  empty while a fetch is under way, as `bookClubsArray` is, and from when the
  invite screen opens, as its rows are out of sight until the next fetch.
- Without a connection a button only shows an alert: that is the step not taken.
- A handler that finds another screen or an alert above the editor dismisses
  that one instead (`covered`). An editor that is gone is not dismissed by late
  handlers (`Detach`); a killed app has none (`Forget`).
- Which of several reminders of one club is cancelled is not specified by the
  system; the theorem `OneReminder` shows that the choice never arises.

### Bookshelf

| Specification | Code |
|---|---|
| `stored`, `Save` | a user document; `Service.saveUserData`, which replaces all of it |
| `defaults`, `DefaultsOf` | the keys of `UserDefaults` that `HomeViewController.fetchUser` sets and the others change |
| `home`, `homeWaits`, `lateHomes`, `NewHome`, `HomeAnswered`, `LateHomeAnswered`, `ReadFails` | Home's `fetchUser`, and that of the Homes a new one has replaced |
| `copy`, `saving`, `OpenMenu`, `OpenSettings`, `RedoTutorial`, `SettingsDone`, `SettingsSaved`, `LogOut` | Menu and Settings, which are handed Home's user |
| `results`, `Top`, `OpenResults`, `ResultsAnswered`, `BookFound`, `BookNotFound`, `PressHeart`, `PressInvite` | the instances of `ResultsViewController`, the one in front last, and their two requests each; the invite screen (`front = "invite"`), whose book cover opens another |
| `OpenClub` | Menu, the lists of clubs, the invite screen of one |
| `bookChecks`, `bookDocs`, `BookChecked`, `BookCheckFails` | `Service.saveBookData` |
| `shelf`, `OpenShelf`, `RowArrives`, `Delete`, `ToggleRead` | `BookShelfViewController` and `Service.fetchUserBooks` |
| `Launch`, `LogIn`, `Killed`, `Die`, `Back`, `CloseToHome` | starting, the Welcome screen, a crash or kill, the navigation bar |
| `hearted` | history: the books an account has put on its shelf |

Abstractions:

- One phone, and an account uses no other; so the document an account reads
  back is its last write (`ReadYourWrites`: with nothing written elsewhere,
  reads change with the account's own writes and with refusals only), and
  `stored` stands for the server and the queue together. A rejected write is
  left out.
- Reads of one document are answered in the order they were made: a Home that
  was replaced, the Home, then the Results screens. Other answers come in any order.
- Name, age, photos and favourites travel with the copies unchanged.
- The progress view of Settings takes all touches while a save is under way.
- A `!` on a nil, or an index outside a list, is `Die`: the screens and requests
  are gone, `UserDefaults` and what was queued are not.
- Of the invite screen, which `BookClubs` models, there are the ways to it and
  from it. Two of them are never one over the other without a Results screen in
  between, so the stack is that of the Results screens (`over` says what is
  below each).
- The goals of 5, 25 and 100 books are `Goal`, increasing naturals.

### Registration

| Specification | Code |
|---|---|
| `accountOf`, `user`, `Grant`, `Refused` | Firebase Auth (external): accounts, `currentUser` |
| `tries` | the chain of closures of one press: `uploading` (`uploadImage`), `asking` (`createUser`, `signIn`), `granted` (Auth has answered, the phone has not heard), `signedIn` (Auth's answer has set the current user and told Firestore; the handler has not run), `saving` (`setData`) |
| `Queue`, `SignedIn`, `ServerStores`, `ConnectionLost` | `updateCurrentUser` of Auth and the listener that changes the SDK's queue; the SDK's service of it |
| `PressRegister`, `PressLogin`, `PressUnanswered` | `handleRegister`, `handleLogin`, and their presses that show only an alert |
| `Uploaded`, `RegisterAnswered`, `LoginAnswered`, `ProfileAnswered` | the completion handlers |
| `base`, `screens`, `alert`, `Open`, `Back`, `DismissAlert`, `Navigate`, `EndTutorial`, `LogOut`, `Launch`, `Killed` | the navigation stack, `performNavigation`, the tutorial, Settings' footer |
| `registered`, `rejected` | history: accounts a phone was told of, and those whose profile the server refused |

- A handler whose screen is gone or covered still runs, and its segue or alert
  does not (`Presents`): `Detached` sets the number of its screen to 0.
- The profile is written to the queue of whoever is signed in when the handler
  runs, which another answer may have changed (`Queue(p)` in `RegisterAnswered`).
  Handlers of different presses run in any order after their `SignedIn`; a kill
  between `SignedIn` and the handler leaves an account without a profile, of
  which the phone was not told (it is not in `registered`).
- Of the photo only whether it can be encoded; passwords are Auth's to judge.
- A full name goes with an e-mail address.

### Recommender

`UserRead`, `UsersRead` and `BookRead` are the three closures of
`getBookRecommendation`; `CompletePopular` is `getPopularityRecommendation`;
`last` is the key `lastMatchedBook`. One account uses the phone; what the others
have on their shelves is *any* sets of books when they are read, which includes
every order in which they could change. A request of a screen that was left goes
on (`here` is false) and sets `last` when it ends.

### TitlePicker, Tips, Language, Screens

A recognised text is a sequence of words and a title is the words that are
ticked (`Touch` is `didHighlightItemAt`, `Redraw` a cell scrolled back into view,
`Retake` another photo). `Tips` has the six fields of `SettingsHeader` and the
tips on the screen: those nobody has dismissed (`visible`), and those whose
animation has not ended (`leaving`). `Dismiss` and `Faded` are the two ends of
`EasyTipView.dismiss`, which a touch of another button (`Touch`) or of the tip
(`TouchTip`) starts. `Language` has what
`UserDefaults` holds three times, the bundle, the picker, and the reloads of the
root that are due 0.3 seconds after Done. `Screens` opens and closes them, stops
and starts the app, and lets the phone's language change while it is not running.

## 4. Runs

| Run | Instance | States | What it shows |
|---|---|---|---|
| `club_members` | owner and guest, a device each, one club, two queued writes per device, clock stopped, one date | 99 289 | stored and queued clubs are sound; only the invited see a club; the inductive invariant; nobody adds themselves; `BookClubs` implements `ClubRegistry` and keeps to `Firestore` |
| `club_reminders` | one device and user, two clubs, two queued writes, three instants, three dates, fair answers | 644 620 | at most one reminder per club; the reminder is the one for the saved date; a create that ends leaves no editor and no list behind, and every create ends, also when the button is pressed again while the first is under way |
| `club_deleted` | as `club_members`, one queued write | | violation: a leaving guest brings a deleted club back |
| `shelf` | two accounts on one phone, two books, four writes, two Results screens | 1 631 815 | no account's book gets into another's document; no book is marked as read twice; a heart, until another Results is opened over its screen, and a delete change their own book only; the inductive invariant |
| `shelf_heart` | one account, one book, one write | | violation: the heart can be pressed with nothing behind its `!` |
| `registration` | one phone, two addresses and accounts, three presses, two screens | 502 874 | profiles filed right, none missing, Home after the profile; the inductive invariant; the queues and the server keep to `Firestore` |
| `registration_arrives` | the same, one screen at a time | 192 946 | every profile arrives |
| `recommender` | the reader and two others, two books, both popular, shelves of two, two requests | 83 668 | no match that was on the shelf all along; no fallback to the match shown; the inductive invariant; a book in the end |
| `screens` | three words in photos of up to three, three tips, two languages, two reloads | 31 246 | titles are ticked words; one tip beside those that are fading; one language; the inductive invariant |
| `pipeline` | two users of a phone, a pipeline of two, three writes | 474 952 | the pipeline is the head of the user's queue; answers match it; no stream that is needed is stopped; callbacks and ids match; told of success is stored, and stays unless overwritten; nothing is lost; an older write over a later one is replaced; the inductive invariant; `WritePipeline` implements `Firestore` |
| `pipeline_drains` | two users, a pipeline of one, two writes, fair | 10 418 | the queue of a user who comes back is emptied, also of the write that a full pipeline holds back |
| `pipeline_refusal` | one user, two writes | | violation: a write that was stored is reported as refused |

Bounds, and why they are enough.

- `Window` of two and three writes make the queue longer than the pipeline, which
  is then refilled from the id of its last batch; two users are enough for the
  ids of one queue to be loaded while the other has rows, and three writes for
  an id to be used again between them. `pipeline_drains` has a
  pipeline of one, so that a user's second write is held back with the stream
  open and only the answer to the first makes room; two writes and two users are
  the least for that with a change of user in between, or a refusal.
- `MaxPending` bounds each queue: with two writes a device can have a create or
  save under way, make another write and see its own overlay, which is what the
  copies can differ by. `MaxTime` bounds the clock and `Dates` the dates an event
  can have, which matter only to reminders: `club_reminders` has three instants, and
  dates whose reminder is ahead, due or past at each of them, before and after
  the present; a new club's date is as far ahead as the reminder, and the picker
  moves it. It has two clubs, since a second press of the button that creates one
  draws a second id, and one user, since the guests change no reminder. In the
  other club runs the clock is stopped and every event is on the same day. Two
  devices and two users give every
  order of an owner's and a guest's writes.
- `MaxEdits` and `MaxBooks`: between two copies of a user one write makes them
  differ; four allow a write by each of two accounts and two from old copies,
  or adding two books and removing and marking one. `MaxOpened` of two is a
  Results screen with another over it, which writes, and the first one with its
  old copy in front again. The goals are scaled to 1, 2
  and 3 books so that medals come and go. Symmetry over accounts and books is
  used: no liveness is checked there and no action tells them apart.
- `MaxPresses` of three: two registrations that overlap, with each other or with
  a press, and a login that returns to the first account, whose queue is then
  served again. `MaxScreens` of two has a Register over a Login and the
  reverse. `MaxAsks` of two likewise; a shelf of two has a last book and
  another, or the same one twice; two books are the least for a match and a
  fallback that differs from it, and two other users for a book that only one of
  them has.
- Photos of up to three words have all patterns of repetition of two words with
  a third beside them; three of the five tips are one open, one stale and one
  touched. Two reloads overlap.

The proofs remove these bounds for what they cover.

Fairness.

- `WritePipeline!FairSpec`: weak fairness of the backoff timer, which runs
  whatever happens; strong fairness of opening the stream, of the server's
  answers and of reading them, since each is disabled whenever the stream breaks
  or the app dies: a network and a server that work ever again, long enough for
  one step at a time. `QueueDrains` assumes besides that the user is signed in
  ever again; the reading of answers is fair for each user on its own
  (`user = u /\ ResultRead`), for else it would be enough to serve the others.
- `BookClubs!FairSpec`: weak fairness of each device's `Answer`, which is what
  `QueueDrains` gives: a write at the head of a queue is answered in the end, by
  the SDK alone. Whether the answer is a commit or an error, and what is on
  screen, is left open.
- `Registration!FairSpec`: strong fairness of `ProfileAnswered` for each user of
  a phone, since a queue is sent only while its user is signed in and the app
  runs, and the app may be killed and the user changed again and again.
  `ProfilesArrive` assumes besides that they come back again and again.
- `Recommender!FairSpec`: weak fairness of the reads together: Firestore calls
  every handler back, from its cache or with an error. The reader's presses are
  not assumed.

Deadlock is checked in every run: a start or a kill is always possible.

The three violations are findings: what the app tells its users there, what its
code asserts with `!`, or what a comment of the SDK says, quoted in
`PROJECT.json`, is not what the code does.

Differences met while modelling that have no run of their own, because they are
one line each or because nothing in the repository speaks against them; the
models have the behaviour:

- a guest who leaves before the guest list has loaded takes every other guest
  off the club (`BookClubInviteViewController.swift:621`): nil is an empty list;
- the first press of Redo tutorial saves the user Home was loaded with, and books
  added since are off the shelf (`MenuViewController.swift:61`);
- a medal lost with a deleted book comes back when the shelf is opened again
  (`BookShelfViewController.swift:36`, `197`), as Home's copy still has it;
- a photo that cannot be encoded shows an alert that says the photo is needed,
  and the account is made all the same (`AuthService.swift:46`);
- a guest who leaves moves the event to the first platform of the picker
  (`BookClubInviteViewController.swift:578`);
- the search button of the title picker is not set for a second photo
  (`RadioButtonsViewController.swift:258`);
- Done in App Settings may apply a row chosen before the dropdown was closed
  and opened again, while the picker shows another one
  (`AppSettingsViewController.swift:106`);
- a request of a screen that was left may replace the last match under a new one
  (`RecommenderManager.swift:45`);
- a heart on a Results screen over which the book cover of its invite screen has
  opened another one, and closed it again, writes back the list as it was before
  the other one's heart: `fetchUser` runs in `viewDidLoad` only
  (`ResultsViewController.swift:59`, `143`); `HeartKeepsOthers` says so and leaves
  that case out (`covered`);
- two tips are on the screen for up to 0.7 seconds when a star is touched, a
  second one, which dismisses the first, and then a third: the second alone is
  disabled (`SettingsHeader.swift:174`), while the first still fades
  (`EasyTipView.swift:171`); `OneTip` is about the tips that nobody has dismissed;
- the English texts of the fifth achievement are swapped
  (`en.lproj/Localizable.strings:31`, `36`).

## 5. Proofs

For any devices, users, documents and bounds, from the assumptions the modules
name.

- `OrderLemmas`: sets of naturals have a least element and sets of positions a
  greatest, from the well-foundedness of the naturals.
- `Firestore_proofs`: a read returns what the device has queued for the document
  (`LocalIsOwn`), else the server's document (`LocalIsServerOrOwn`). `Local`
  chooses the greatest position of a set; that it exists is `HasGreatest`. What
  the server stores is a queued write (`StoresQueued`), and it never runs ahead
  of a queue (`AppliedSame`, `AppliedStored`, `AppliedAnswered`, `AppliedLost`).
  `ReadYourWrites`, for every behaviour of `StoreInit` and `StoreNext`: what a
  device reads of a document changes with its own writes, which it reads at
  once, and with refusals, and neither with answers nor with what is sent again,
  provided no other device has that document queued (`SoleWriter`; the proviso
  is about the documents of one user, and false of a book club). The invariant
  under it (`StoreServes`) is that while the server has stored `n` of a queue,
  the document is what the last of those `n` writes to it made it.
- `BookClubs_proofs`:
  - `TypeCorrect`: `Spec => []TypeOK`.
  - `CopiesSound`: `Spec => []IInv`. `StoredClubsSound` is not inductive: what
    is written comes from an editor, which was filled from a list, which was
    filled from the server and the device's own queue. `IInv` therefore says
    that every copy on this way is sound (`ListsSound`, `EditorsSound`), that
    an editor's own list can be saved by whoever holds it, that no device
    queues a list with its own user on it (`WritesOmitWriter`) and that only
    founded clubs are written to (`ClubsFounded`). Soundness of a copy is never
    lost because creators never change and invitations only accumulate
    (`Grows`); the proof has one lemma per action.
  - `ClubsStaySound`, `OnlyInvitedSee`, `NoSelfAdding` and `RefinesRegistry`
    follow from `IInv`; in the last, a create is `Found`, an owner's save is
    `Invite`, a write that the server stores is `Store` or `Drop`, everything
    else stutters.
  - `ClubsKeepToStore`: with the handlers taken off the queued writes (`Bare`),
    every step of `BookClubs` is one of `StoreNext` or leaves the store alone:
    screens that are dismissed (`Detach`) and kills (`Forget`) change handlers
    only. `CreateLeavesNothing`: only an answer or a kill ends a create.
  - `OneReminder` is inductive as it stands. `ReminderIsForSavedDate` needs it,
    and that the two copies of an event's date, the model's and the picker's,
    differ only where the picker shows a moment that has passed (`DatesSound`):
    the reminder is set from the one and the document has the other.
- `Bookshelf_proofs`:
  - `Invariant`: `Spec => []IInv`. `OwnBooks` is not inductive: a document is
    written from a screen's copy, that comes from Home's, or in part from
    `UserDefaults`, which may still be another account's. `SessionSound` says
    that nothing is under way but for the account signed in: logging out takes
    Settings, which opens only when Home's user is there, by which time every
    older read has been answered. Hence once Home has its user, `UserDefaults`
    are that user's (`HomeSound`), and so are the copies of the screens
    (`ScreensSound`). Of the Results screens each but the first lies over the
    invite screen of the one before it (`ResultsStacked`); each has the reading
    marks as they are stored, since the shelf, which alone changes them, lies
    below them all, and one that no other was opened over has all of the user as
    it is stored (`ResultsFresh`).
  - `TypeCorrect` and `NoForeignBooks` follow. `HeartLosesNothing` uses
    `ResultsFresh` of the screen in front; of one that another was opened over
    only the reading marks are left to it.
  - `ReadIsOnce` and `DeletesTheRow` need the other half of `IInv`, `ListsSound`:
    the shelf's two lists are those of `UserDefaults` until a Results screen
    opened from it changes the latter, and while one is open the shelf is
    covered, so that a row means the same book in both when it is deleted.
- `Registration_proofs`:
  - `AccountsAgree`: `Spec => []IInv`, in two parts. `Agreement`: Auth gives no
    account to two addresses (`AccountsDistinct`), a try that Auth has answered
    has the account of its own address, only a registration saves, and a try's
    screen has its button (`TriesSound`); a profile is stored or queued somewhere
    (`ProfilesKept`, which is `NoOrphans` without the order of the queue), and
    what the server has stored of a queue is there (`AppliedIsStored`), so that
    an answer may take it out of the queue. Accounts are never taken away, so
    what was filed right stays right. On top of it `OwnAccounts` and
    `AnswerIsComing`: no two registrations have the same account, and a handler
    that waits for an answer has its write queued on its phone, though perhaps
    for another user. The tries after a step are some of those before
    (`Picks`), or the same but for one (`OneAt`).
  - `TypeCorrect`, `FiledRight`, `NobodyOrphaned` and `HandlersWaitForTheirs`
    follow. `HomeHasProfile`: the step that leaves Register is the answer to a
    save; the try and the write it is for have the same account, hence the same
    address.
  - `RegistrationKeepsToStore`: a step is one of `StoreNext` or leaves the store
    alone; a change of user and a kill lose a connection and nothing else.
  - `ProfileIsFoundAgain` (`ProfileStays`): a profile that a phone has once read is
    read again, the same, unless its write is refused. It needs no proviso as
    `ReadYourWrites` does: whatever is stored or queued for an account is its
    one profile (`FindsFiled`), and a profile that leaves a queue with success
    is on the server.

- `WritePipeline_proofs`:
  - `PipelineSound`: `Spec => []IInv`, where `IInv` is `FlowOK` and `OrderOK`.
    `FlowOK` is what `AckedIsStored` and `NothingLost` need: answers are matched to
    batches by their order, so the pipeline is the head of the queue of the user
    signed in (`PipelineTracksQueue`), what was sent is the head of the pipeline
    and answers follow in that order (`AnswersMatchPipeline`, `RepliesStored`,
    `RefusedIsNext`). That no id is used for two rows at a time (`IdsIncrease`)
    needs that neither ids nor writes are ahead of the number of writes made
    (`NoneAhead`).
  - `OrderOK` is what `ToldStays` and `NewerIsComing` need. A queue is the latest
    that its user has written (`QueueIsLatest`), so that what is sent again is
    followed by everything later; an acknowledged write has none of its user's
    before it in the queue (`AckedIsFirst`), so that no repetition undoes it; and
    an answer that is read is of a write that is still there, or was overwritten
    (`UnreadIsThere`). A write has one author and one document (`WroteOnce`).
    It is preserved given `FlowOK`: the two are proved one after the other.
  - `EmptyQueueSettles` (`SettledOnLatest`) puts the two together: when nothing of
    a user is queued, the documents that hold a write of that user's hold the
    latest one the server has not refused. A write not yet stored is queued
    (`NothingLost`), a stored one that the document is behind of too
    (`OlderIsForNow`), and a queued write is its author's (`WroteOnce`). With
    `QueueDrains`, which is model-checked, an app that is used ever again brings
    each document to its user's latest write ever again, unless someone else
    writes it or the server refuses.
  - The proofs have one lemma per handler, and under it one step for each of
    the link (pipeline and stream), the queues, the history and the order.
  - Each of the run's invariants follows, `IdsInOrder` too, and `PipelineIsAStore`: `Write` is an
    `Enqueue` and `ServerStores` a `Store`; a result that is read is an
    `AnswerRead`, a refusal a `RefusalRead`, also when the app dies over it;
    every other step that closes the stream, changes the user or ends the app
    loses the answers not yet read; the rest stutters.
- `Recommender_proofs`: `RequestsSound`: `Spec => []IInv`. A request knows every
  book that has been on the shelf ever since it read the reader's document
  (`AsksKnow`), which gives `MatchIsNew`; a book shown is the last match unless
  a request made before it has ended after it (`ShownIsLast`), which gives
  `FallbackIsAnother`. `BookIsOnItsWay` (`BookIsComing`) is the safety half of
  `BookShown`: a screen without a book has a request of its own under way,
  unless a read failed. It is what fails if the request of a screen that was
  left could be taken for the one of the screen in front.
- `Screens_proofs`: `ScreensAgree`: `Spec => []IInv`, for photos of any length, any
  tips and any number of reloads. `TitleIsTicked` and `OneTip` are inductive as
  they stand, given the types: the next tip opens only when no tip is
  undismissed, whatever is fading; the former rests on lemmas about removing the
  first occurrence of a word. `LanguagesAgree` is not: that the copies agree
  when the app starts again needs that they agreed while it was not running
  (`LanguageSound`).

The theorems, with the property of a run that each states:

| Module | Theorems |
|---|---|
| `BookClubs_proofs` | `TypeCorrect`, `CopiesSound` (`IInv`), `ClubsStaySound` (`StoredClubsSound`), `OnlyInvitedSee` (`OnlyInvitedSeeClub`), `ReminderIsForSavedDate` (`ReminderMatchesSavedDate`), `OneReminder` (`OneReminderPerClub`), `NoSelfAdding` (`NobodyAddsThemselves`), `ClubsKeepToStore` (`KeepsToStore`), `CreateLeavesNothing` (`CreateLeaves`), `RefinesRegistry` (`ImplementsRegistry`) |
| `Bookshelf_proofs` | `Invariant` (`IInv`), `TypeCorrect`, `NoForeignBooks` (`OwnBooks`), `HeartLosesNothing` (`HeartKeepsOthers`), `ReadIsOnce` (`ReadOnce`), `DeletesTheRow` (`DeleteTakesTheRow`) |
| `Firestore_proofs` | `ReadYourWrites` |
| `Recommender_proofs` | `RequestsSound` (`IInv`), `RequestTypes`, `MatchIsNew` (`NotOnTheShelf`), `FallbackIsAnother` (`FallbackDiffers`), `BookIsOnItsWay` |
| `Registration_proofs` | `AccountsAgree` (`IInv`), `TypeCorrect`, `FiledRight` (`ProfilesFiled`), `NobodyOrphaned` (`NoOrphans`), `HomeHasProfile` (`HomeAfterProfile`), `HandlersWaitForTheirs`, `ProfileIsFoundAgain`, `RegistrationKeepsToStore` (`KeepsToStore`) |
| `Screens_proofs` | `ScreensAgree` (`IInv`), `ScreenTypes`, `TitleOfTicks` (`TitleIsTicked`), `AtMostOneTip` (`OneTip`), `OneLanguage` (`LanguagesAgree`) |
| `WritePipeline_proofs` | `PipelineSound` (`IInv`), `ToldStays` (`AckedStays`), `NewerIsComing` (`OlderIsForNow`), `EmptyQueueSettles`, `PipelineTypes`, `PipelineAtTheHead` (`PipelineTracksQueue`), `AnswersAreTheFirsts` (`AnswersMatchPipeline`), `NeededIsStarted` (`StreamNeeded`), `IdsInOrder`, `CallbacksOfTheirWrites` (`CallbacksMatch`), `SuccessIsStored` (`AckedIsStored`), `NoWriteLost` (`NothingLost`), `PipelineIsAStore` (`ImplementsStore`), `PhoneReadsItsWrites` |

How the proofs meet: `PipelineIsAStore` shows that the SDK implements
`StoreInit` and `StoreNext`, `ClubsKeepToStore` and `RegistrationKeepsToStore`
that the two applications of the store do nothing else with it, and
`ReadYourWrites` what a reader may conclude from it. `PhoneReadsItsWrites` puts the
first and the last together: the lemmas of `Firestore_proofs`, instantiated with
the queues and answers of `WritePipeline`, give the promise of `ReadsStay` for
every behaviour of the SDK's handlers, kills and changes of user included, under
the same proviso. `Bookshelf`, which has one
phone and no queue, rests on `ReadYourWrites`.

The theorems rest on the named assumptions of the modules, each about the
constants only: markers that are no values, parameters that are naturals, goals
that increase, dates among which are that of a new club and the moment to which
a picker that is past moves (`DatesAssumption`), and, for `Recommender`, a popular book besides any other and a
marker for no book that is neither a book nor an answer. TLC
evaluates them in the runs.

Only model-checked: the liveness properties (`QueueDrains`, `CreateEnds`,
`ProfilesArrive`, `BookShown`), which need reasoning about fairness and `ENABLED`
that the prover does not do, though the safety they rest on is proved (`NoWriteLost`
and `NeededIsStarted`, `CreateLeavesNothing`, `HandlersWaitForTheirs`,
`BookIsOnItsWay`); and the three violations, which are counterexamples. Proved
and in no run of its own: the types, which every `IInv` contains;
`HandlersWaitForTheirs` and `BookIsOnItsWay`, which the `IInv` of their modules
contain; `EmptyQueueSettles`, which follows from the `IInv` of `WritePipeline`;
`ProfileIsFoundAgain`, `ReadYourWrites` and `PhoneReadsItsWrites`.

## 6. Not modelled

- Drawing, animation, layout, fonts, texts and key-value coding of documents;
  the navigation bar beyond its two buttons; the credits.
- The profile form: text fields that are copied into the user on each edit;
  saving it is in `Bookshelf`, where they travel with the copies unchanged.
- Search: a text field and a switch handed to Results, with checks on lengths.
- Book lookup: the queries to the two web services and the parsing of their
  answers. `Bookshelf` has the answer as found, found with parts missing, or not
  found.
- The text recogniser: it finds any words.
- Of the pods, everything but the write path of the Firestore SDK: its watch
  stream and cache, which answer the application's one-time reads; gRPC below
  the stream; Auth beyond the change of user; Storage. The server's rules are not
  in the repository.
