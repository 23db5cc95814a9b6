----------------------------- MODULE Recommender -----------------------------
(***************************************************************************)
(* The recommendation of a book.                                           *)
(*                                                                         *)
(*   API/RecommenderManager.swift, RecommendationsViewController.swift,    *)
(*   API/Service.swift (fetchUser, fetchUsers, fetchBook)                  *)
(*                                                                         *)
(* A request reads the reader's shelf, then everybody's, then the document *)
(* of a book that somebody else with the reader's latest book has and the  *)
(* reader has not.  Without one it falls back on a popular book.  The      *)
(* shelves change between the reads, and there may be several requests, of *)
(* this screen or of one that was left.  The key "lastMatchedBook" of      *)
(* UserDefaults is to keep the fallback from repeating the last match.     *)
(*                                                                         *)
(* One account uses the phone.  What the others have on their shelves is   *)
(* any sets of books whenever they are read: they are read once in a       *)
(* request, and the code asks only what they contain.                      *)
(***************************************************************************)
EXTENDS Integers, SequencesExt

CONSTANTS Bids,      \* books, by their ids
          Popular,   \* those of K.PopularBooks
          Others,    \* the users but the reader
          MaxShelf,  \* bound: books on a shelf
          MaxAsks,   \* bound: requests under way
          NoBook

ASSUME BidsAssumption == Popular \subseteq Bids /\ NoBook \notin Bids
ASSUME PopularAssumption == \A b \in Bids : Popular \ {b} # {}
ASSUME BoundsAssumption == MaxShelf \in Nat /\ MaxAsks \in Nat

\* A request; the next thing to arrive is `step`.
Asks == [step : {"user", "users", "book"},
         here : BOOLEAN,               \* its screen is still there
         mine : Seq(Bids),             \* the reader's shelf, between the two reads
         book : Bids \cup {NoBook},    \* the book picked
         kept : SUBSET Bids]           \* history: on the shelf ever since

Answer == [book : Bids, matched : BOOLEAN]

ASSUME NilAssumption == NoBook \notin Answer

VARIABLES
    shelf,     \* selectedBooks in the reader's document
    last,      \* UserDefaults "lastMatchedBook"
    open,      \* the screen is shown
    shown,     \* its recommendedBook
    asks,      \* the requests under way
    failed,    \* history: a read for this screen failed
    overtaken  \* history: `last` was set for another screen after `shown`

vars == <<shelf, last, open, shown, asks, failed, overtaken>>

------------------------------------------------------------------------------
(* The shelves, changed on other screens and other phones *)

\* The heart lists a book once more if it was not known to be there.
Heart(b) == /\ Len(shelf) < MaxShelf
            /\ shelf' = Append(shelf, b)
            /\ UNCHANGED <<last, open, shown, asks, failed, overtaken>>

\* remove(at:), at an index of the book.
TakeOff(b) ==
    /\ \E i \in DOMAIN shelf : shelf[i] = b /\ shelf' = RemoveAt(shelf, i)
    /\ asks' = [i \in DOMAIN asks |-> [asks[i] EXCEPT !.kept = @ \cap Range(shelf')]]
    /\ UNCHANGED <<last, open, shown, failed, overtaken>>

------------------------------------------------------------------------------
(* The screen *)

NewAsk == [step |-> "user", here |-> TRUE, mine |-> <<>>, book |-> NoBook,
           kept |-> Range(shelf)]

\* viewDidLoad asks for a book.
Open == /\ ~open /\ Len(asks) < MaxAsks
        /\ open' = TRUE /\ shown' = NoBook
        /\ asks' = Append(asks, NewAsk)
        /\ failed' = FALSE /\ overtaken' = FALSE
        /\ UNCHANGED <<shelf, last>>

\* The button stays enabled while a request is under way.
TryAgain == /\ open /\ Len(asks) < MaxAsks
            /\ asks' = Append(asks, NewAsk)
            /\ UNCHANGED <<shelf, last, open, shown, failed, overtaken>>

\* The closures of the requests keep the screen's object, which nobody sees.
Leave == /\ open /\ open' = FALSE /\ shown' = NoBook
         /\ asks' = [i \in DOMAIN asks |-> [asks[i] EXCEPT !.here = FALSE]]
         /\ UNCHANGED <<shelf, last, failed, overtaken>>

Killed == /\ open' = FALSE /\ shown' = NoBook /\ asks' = <<>>
          /\ UNCHANGED <<shelf, last, failed, overtaken>>

------------------------------------------------------------------------------
(* getBookRecommendation *)

\* The completion handler of request i, given book b.
Complete(i, b, matched) ==
    /\ asks' = RemoveAt(asks, i)
    /\ shown' = IF asks[i].here THEN [book |-> b, matched |-> matched] ELSE shown

\* getPopularityRecommendation draws again without the last match.
CompletePopular(i) == \E b \in Popular \ {last} : Complete(i, b, FALSE)

\* fetchUser.
UserRead(i) ==
    /\ asks[i].step = "user"
    /\ IF shelf = <<>>
         THEN CompletePopular(i)
         ELSE /\ asks' = [asks EXCEPT ![i].step = "users", ![i].mine = shelf]
              /\ UNCHANGED shown
    /\ UNCHANGED <<shelf, last, open, failed, overtaken>>

Matches(mine, theirs) == {u \in Others : Last(mine) \in theirs[u]}

\* Mutant: the reader's books are not taken out.
AllOfTheirs(mine, theirs) == UNION {theirs[u] : u \in Matches(mine, theirs)}

\* What may be picked: the loop takes the first of the users with a difference
\* left, in the order of the documents, and one of its books at random.
Candidates(mine, theirs) ==
    UNION {theirs[u] \ Range(mine) : u \in Matches(mine, theirs)}

Picked(i, b) == [asks EXCEPT ![i] = [@ EXCEPT !.step = "book", !.book = b,
                                              !.mine = <<>>]]

\* Mutant: a user with the book counts as a match though no book is left.
AfterUsersAnyMatch(i, mine, theirs) ==
    IF Matches(mine, theirs) = {}
      THEN CompletePopular(i) /\ UNCHANGED last
      ELSE /\ IF Candidates(mine, theirs) = {} THEN asks' = RemoveAt(asks, i)
              ELSE \E b \in Candidates(mine, theirs) : asks' = Picked(i, b)
           /\ UNCHANGED <<shown, last>>

\* Mutant: the match is remembered when it is picked.
AfterUsersRemember(i, mine, theirs) ==
    IF Candidates(mine, theirs) = {}
      THEN CompletePopular(i) /\ UNCHANGED last
      ELSE /\ \E b \in Candidates(mine, theirs) : asks' = Picked(i, b) /\ last' = b
           /\ UNCHANGED shown

AfterUsers(i, mine, theirs) ==
    IF Candidates(mine, theirs) = {}
      THEN CompletePopular(i) /\ UNCHANGED last
      ELSE /\ \E b \in Candidates(mine, theirs) : asks' = Picked(i, b)
           /\ UNCHANGED <<shown, last>>

\* fetchUsers.
UsersRead(i) ==
    /\ asks[i].step = "users"
    /\ \E theirs \in [Others -> SUBSET Bids] : AfterUsers(i, asks[i].mine, theirs)
    /\ UNCHANGED <<shelf, open, failed, overtaken>>

\* Mutant: the match is not remembered.
BookReadForgets(i) ==
    /\ asks[i].step = "book"
    /\ Complete(i, asks[i].book, TRUE)
    /\ overtaken' = ~asks[i].here
    /\ UNCHANGED <<shelf, last, open, failed>>

\* fetchBook.
BookRead(i) ==
    /\ asks[i].step = "book"
    /\ last' = asks[i].book
    /\ Complete(i, asks[i].book, TRUE)
    /\ overtaken' = ~asks[i].here
    /\ UNCHANGED <<shelf, open, failed>>

\* No user, nobody, or no document of the book: nothing is called.
ReadFails(i) == /\ asks' = RemoveAt(asks, i)
                /\ failed' = (failed \/ asks[i].here)
                /\ UNCHANGED <<shelf, last, open, shown, overtaken>>

------------------------------------------------------------------------------
Init == /\ shelf = <<>>
        /\ last = NoBook
        /\ open = FALSE /\ shown = NoBook
        /\ asks = <<>>
        /\ failed = FALSE /\ overtaken = FALSE

Read(i) == UserRead(i) \/ UsersRead(i) \/ BookRead(i) \/ ReadFails(i)

Reads == \E i \in DOMAIN asks : Read(i)

Next == \/ \E b \in Bids : Heart(b) \/ TakeOff(b)
        \/ Open \/ TryAgain \/ Leave \/ Killed
        \/ Reads

Spec == Init /\ [][Next]_vars

\* Firestore calls every handler back, from its cache when there is no network.
FairSpec == Spec /\ WF_vars(Reads)

------------------------------------------------------------------------------
(* Properties *)

TypeOK ==
    /\ shelf \in Seq(Bids)
    /\ last \in Bids \cup {NoBook}
    /\ open \in BOOLEAN
    /\ shown \in Answer \cup {NoBook}
    /\ asks \in Seq(Asks)
    /\ failed \in BOOLEAN /\ overtaken \in BOOLEAN

\* A match is never a book that has been on the reader's shelf since the
\* button was pressed, whatever was added or removed between the reads.
NotOnTheShelf == \A r \in Range(asks) : r.step = "book" => r.book \notin r.kept

\* After a match, the fallback of the next press shows another book, unless a
\* request of a screen left earlier was answered in between: its book replaces
\* the last match.
FallbackDiffers ==
    [][open' /\ shown # NoBook /\ shown' # shown /\ shown' # NoBook =>
         (shown.matched /\ ~shown'.matched /\ ~overtaken => shown'.book # shown.book)]_vars

\* The screen gets a book while it is open, unless a read for it fails.
BookShown == open /\ shown = NoBook ~> shown # NoBook \/ ~open \/ failed

------------------------------------------------------------------------------
(* The inductive invariant of the safety properties.                         *)

\* What a request knows of the shelf at each step.
AsksKnow == \A r \in Range(asks) :
    /\ r.step = "user" => r.kept \subseteq Range(shelf)
    /\ r.step = "users" => r.kept \subseteq Range(r.mine)
    /\ r.step = "book" => r.book \in Bids

ShownIsLast == shown # NoBook => (shown.matched /\ ~overtaken => last = shown.book)

\* A screen without a book has a request under way, unless a read failed: a
\* request of a screen that was left never takes the place of its own.
BookIsComing ==
    open /\ shown = NoBook /\ ~failed => \E r \in Range(asks) : r.here

\* What the requests under way, the screen and "lastMatchedBook" say agrees.
IInv == TypeOK /\ NotOnTheShelf /\ AsksKnow /\ ShownIsLast /\ BookIsComing
=============================================================================
