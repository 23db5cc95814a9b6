---------------------------- MODULE Registration ----------------------------
(***************************************************************************)
(* Making an account, signing in and getting to Home.                      *)
(*                                                                         *)
(*   API/AuthService.swift, Controller/Authentication/*.swift,             *)
(*   Controller/WelcomeViewController.swift, InfoViewController.swift,     *)
(*   API/Service.swift (uploadImage)                                       *)
(*                                                                         *)
(* A registration asks three services one after the other: Storage takes   *)
(* the photo, Auth makes the account, Firestore keeps the profile, which   *)
(* is the user document that every other screen needs.  Each can fail or   *)
(* answer late, and meanwhile the button can be pressed again, other       *)
(* screens opened, and the app killed.                                     *)
(*                                                                         *)
(* A Firestore queue belongs to a phone and a user of it, and is served    *)
(* while that user is signed in.  Auth tells Firestore of a new user       *)
(* before it calls the handler of the press (FIRAuth.m, user.cc).          *)
(*                                                                         *)
(* The document ids are the uids that Auth hands out.  The full name goes  *)
(* with the e-mail address; passwords are left out: Auth refuses or not.   *)
(* Of the photo the model keeps whether it can be encoded.                 *)
(***************************************************************************)
EXTENDS Firestore, SequencesExt

CONSTANTS Phones,
          Emails,
          MaxPresses,  \* bound: presses of the two buttons that are answered
          MaxScreens,  \* bound: screens stacked on Welcome
          NoAccount, NoProfile

Kinds == {"register", "login"}

Profiles == [uid : DocIds, email : Emails]

\* What a press of a button has under way.
Tries == [kind : Kinds,
          email : Emails,
          step : {"uploading", "asking", "granted", "signedIn", "saving"},
          uid : DocIds \cup {NoAccount},  \* the account Auth has answered with
          screen : 0..MaxScreens]         \* its screen; 0 once that is gone

ASSUME QueueAssumption == Devices = Phones \X (DocIds \cup {NoAccount})
ASSUME BoundsAssumption == MaxPresses \in Nat /\ MaxScreens \in Nat
ASSUME MarkerAssumption ==
    NoAccount \notin DocIds /\ NoProfile \notin Profiles

VARIABLES
    accountOf,   \* Auth: the account of each e-mail address
    user,        \* user[p]: Auth.auth().currentUser on p
    base,        \* base[p]: the root's screen, or the one that replaced it
    screens,     \* screens[p]: Register and Login screens over Welcome
    alert,       \* alert[p]: the top one presents an alert
    tries,       \* tries[p]: those under way, in the order of the presses
    presses,     \* how many such presses there have been
    toured,      \* toured[p]: UserDefaults "tutorialCompleted"
    registered,  \* history: accounts whose making has been answered
    rejected     \* history: those whose profile the server has refused

vars == <<server, pending, applied, accountOf, user, base, screens, alert, tries,
          presses, toured, registered, rejected>>

history == <<registered, rejected>>

Bases == {"off", "welcome", "tutorial", "home"}

\* The queue that is served, and written to, on p.
Queue(p) == <<p, user[p]>>

------------------------------------------------------------------------------
(* Screens *)

OnTop(p, kind) == screens[p] # <<>> /\ Last(screens[p]) = kind /\ ~alert[p]

\* Mutant: the tries of the screens that are gone count as being there.
AllAttached(p, n) == tries[p]

\* The tries of p after the screens above the first n are gone.  Their handlers
\* still run, but UIKit presents nothing from a screen that is not there.
Detached(p, n) == [i \in DOMAIN tries[p] |->
                     IF tries[p][i].screen > n
                       THEN [tries[p][i] EXCEPT !.screen = 0]
                       ELSE tries[p][i]]

\* The Welcome screen skips to Home when somebody is signed in.
Launch(p) == /\ base[p] = "off"
             /\ base' = [base EXCEPT ![p] = IF user[p] = NoAccount THEN "welcome"
                                            ELSE "home"]
             /\ UNCHANGED <<store, accountOf, user, screens, alert, tries,
                            presses, toured, history>>

\* The two buttons of Welcome, and the link from each screen to the other.
Open(p, kind) == /\ base[p] = "welcome" /\ Len(screens[p]) < MaxScreens
                 /\ screens[p] # <<>> => OnTop(p, CHOOSE k \in Kinds : k # kind)
                 /\ screens' = [screens EXCEPT ![p] = Append(@, kind)]
                 /\ UNCHANGED <<store, accountOf, user, base, alert, tries,
                                presses, toured, history>>

Back(p) == /\ screens[p] # <<>> /\ ~alert[p]
           /\ screens' = [screens EXCEPT ![p] = Front(@)]
           /\ tries' = [tries EXCEPT ![p] = Detached(p, Len(screens[p]) - 1)]
           /\ UNCHANGED <<store, accountOf, user, base, alert, presses, toured,
                          history>>

\* The alert that Login shows for an unknown address leads to Register.
DismissAlert(p) == /\ alert[p]
                   /\ alert' = [alert EXCEPT ![p] = FALSE]
                   /\ UNCHANGED <<store, accountOf, user, base, screens, tries,
                                  presses, toured, history>>

\* Whether the handler of a try finds its screen in front, with nothing over it.
Presents(p, t) == base[p] = "welcome" /\ t.screen # 0
                  /\ t.screen = Len(screens[p]) /\ ~alert[p]

\* present(alert), on the screen of try t.
Alerted(p, t) == [alert EXCEPT ![p] = @ \/ Presents(p, t)]

Without(p, i) == [tries EXCEPT ![p] = RemoveAt(@, i)]

\* performNavigation, by the handler of try i.
Navigate(p, i) ==
    IF Presents(p, tries[p][i])
      THEN /\ base' = [base EXCEPT ![p] = IF toured[p] THEN "home" ELSE "tutorial"]
           /\ screens' = [screens EXCEPT ![p] = <<>>]
           /\ tries' = [tries EXCEPT ![p] = RemoveAt(Detached(p, 0), i)]
      ELSE /\ tries' = Without(p, i)
           /\ UNCHANGED <<base, screens>>

\* getStartedButtonPressed, or the close button of the tutorial.
EndTutorial(p, started) ==
    /\ base[p] = "tutorial"
    /\ base' = [base EXCEPT ![p] = "home"]
    /\ toured' = [toured EXCEPT ![p] = @ \/ started]
    /\ UNCHANGED <<store, accountOf, user, screens, alert, tries, history,
                   presses>>

\* From Settings, which opens only with the user's document loaded.  Firestore
\* restarts its connection when the user changes.
LogOut(p) == /\ base[p] = "home" /\ user[p] # NoAccount
             /\ Local(Queue(p), user[p]) # NoProfile
             /\ user' = [user EXCEPT ![p] = NoAccount]
             /\ Lost(Queue(p))
             /\ base' = [base EXCEPT ![p] = "welcome"]
             /\ UNCHANGED <<server, pending, accountOf, screens, alert, tries,
                            presses, toured, history>>

\* What Auth and UserDefaults keep, and the queue of Firestore, are on disk.
Killed(p) == /\ base[p] # "off"
             /\ base' = [base EXCEPT ![p] = "off"]
             /\ screens' = [screens EXCEPT ![p] = <<>>]
             /\ alert' = [alert EXCEPT ![p] = FALSE]
             /\ tries' = [tries EXCEPT ![p] = <<>>]
             /\ Lost(Queue(p))
             /\ UNCHANGED <<server, pending, accountOf, user, presses, toured,
                            history>>

------------------------------------------------------------------------------
(* Registering and signing in *)

Begin(p, kind, email, step) ==
    tries' = [tries EXCEPT ![p] = Append(@,
                [kind |-> kind, email |-> email, step |-> step, uid |-> NoAccount,
                 screen |-> Len(screens[p])])]

\* handleRegister.  Without a photo or a connection there is only an alert.  For
\* a photo that cannot be encoded, registerUser reports an error and goes on.
PressRegister(p, email, encoded) ==
    /\ OnTop(p, "register") /\ presses < MaxPresses /\ presses' = presses + 1
    /\ Begin(p, "register", email, IF encoded THEN "uploading" ELSE "asking")
    /\ alert' = [alert EXCEPT ![p] = ~encoded]
    /\ UNCHANGED <<store, accountOf, user, base, screens, toured, history>>

PressLogin(p, email) ==
    /\ OnTop(p, "login") /\ presses < MaxPresses /\ presses' = presses + 1
    /\ Begin(p, "login", email, "asking")
    /\ UNCHANGED <<store, accountOf, user, base, screens, alert, toured,
                   history>>

PressUnanswered(p) ==
    /\ OnTop(p, "login") \/ OnTop(p, "register")
    /\ alert' = [alert EXCEPT ![p] = TRUE]
    /\ UNCHANGED <<store, accountOf, user, base, screens, tries, presses,
                   toured, history>>

\* uploadImage: putData and then downloadURL.  If one fails nobody is told.
Uploaded(p, i, done) ==
    /\ tries[p][i].step = "uploading"
    /\ tries' = IF done THEN [tries EXCEPT ![p][i].step = "asking"] ELSE Without(p, i)
    /\ UNCHANGED <<store, accountOf, user, base, screens, alert, presses,
                   toured, history>>

\* Auth hands out a uid that nobody has; which one tells nobody anything.
Free == {u \in DocIds : \A e \in Emails : accountOf[e] # u}

NewUid == CHOOSE u \in DocIds : u \in Free

\* Auth makes the account, or finds it.
Grant(p, i) ==
    LET t == tries[p][i]
        u == IF t.kind = "register" THEN NewUid ELSE accountOf[t.email]
    IN  /\ t.step = "asking"
        /\ IF t.kind = "register"
             THEN /\ accountOf[t.email] = NoAccount /\ Free # {}
                  /\ accountOf' = [accountOf EXCEPT ![t.email] = u]
             ELSE u # NoAccount /\ UNCHANGED accountOf
        /\ tries' = [tries EXCEPT ![p][i] = [t EXCEPT !.step = "granted", !.uid = u]]
        /\ UNCHANGED <<store, user, base, screens, alert, presses, toured,
                       history>>

\* Auth refuses a bad address or password, an address in use or unknown; or its
\* answer gets lost.  Some of the errors have an alert, others have none.
Refused(p, i) ==
    /\ tries[p][i].step \in {"asking", "granted"}
    /\ tries' = Without(p, i)
    /\ \/ tries[p][i].step = "asking" /\ alert' = Alerted(p, tries[p][i])
       \/ UNCHANGED alert
    /\ UNCHANGED <<store, accountOf, user, base, screens, presses, toured,
                   history>>

\* Mutant: the fields of the latest press.
ProfileOfLatest(p, t) ==
    [uid |-> t.uid, email |-> Last(tries[p]).email]

\* The data of the closure that the press has made.
ProfileOf(p, t) == [uid |-> t.uid, email |-> t.email]

\* Mutant: the queue is the phone's, and goes with it to the next user.
SignedInWithQueue(p, i) ==
    /\ tries[p][i].step = "granted"
    /\ user' = [user EXCEPT ![p] = tries[p][i].uid]
    /\ pending' = [pending EXCEPT ![Queue(p)] = <<>>,
                                  ![<<p, tries[p][i].uid>>] = pending[Queue(p)] \o @]
    /\ Lost(Queue(p))
    /\ tries' = [tries EXCEPT ![p][i].step = "signedIn"]
    /\ UNCHANGED <<server, accountOf, base, screens, alert, presses, toured,
                   history>>

\* Auth's answer makes its account the user of p; whoever was it is signed out.
SignedIn(p, i) ==
    /\ tries[p][i].step = "granted"
    /\ user' = [user EXCEPT ![p] = tries[p][i].uid]
    /\ Lost(Queue(p))
    /\ tries' = [tries EXCEPT ![p][i].step = "signedIn"]
    /\ UNCHANGED <<server, pending, accountOf, base, screens, alert, presses,
                   toured, history>>

\* Mutant: the handler gives up when its screen is gone.
RegisterAnsweredInFront(p, i) ==
    LET t == tries[p][i]
    IN  /\ t.kind = "register" /\ t.step = "signedIn"
        /\ registered' = registered \cup {t.uid}
        /\ IF t.screen # 0
             THEN /\ CanWrite(Queue(p))
                  /\ Enqueue(Queue(p), [key |-> t.uid, value |-> ProfileOf(p, t)])
                  /\ tries' = [tries EXCEPT ![p][i].step = "saving"]
             ELSE tries' = Without(p, i) /\ UNCHANGED pending
        /\ UNCHANGED <<server, applied, accountOf, user, base, screens, alert,
                       presses, toured, rejected>>

\* The handler of createUser: the profile of the new account is written at once,
\* to the queue of whoever is signed in by now.
RegisterAnswered(p, i) ==
    LET t == tries[p][i]
    IN  /\ t.kind = "register" /\ t.step = "signedIn"
        /\ CanWrite(Queue(p))
        /\ registered' = registered \cup {t.uid}
        /\ Enqueue(Queue(p), [key |-> t.uid, value |-> ProfileOf(p, t)])
        /\ tries' = [tries EXCEPT ![p][i].step = "saving"]
        /\ UNCHANGED <<server, applied, accountOf, user, base, screens, alert,
                       presses, toured, rejected>>

LoginAnswered(p, i) ==
    /\ tries[p][i].kind = "login" /\ tries[p][i].step = "signedIn"
    /\ Navigate(p, i)
    /\ UNCHANGED <<store, accountOf, user, alert, presses, toured, history>>

------------------------------------------------------------------------------
(* The queue of the user who is signed in, while the app is running *)

ServerStores(p) ==
    /\ base[p] # "off" /\ Store(Queue(p))
    /\ UNCHANGED <<pending, accountOf, user, base, screens, alert, tries,
                   presses, toured, history>>

ConnectionLost(p) ==
    /\ base[p] # "off" /\ applied[Queue(p)] > 0 /\ Lost(Queue(p))
    /\ UNCHANGED <<server, pending, accountOf, user, base, screens, alert,
                   tries, presses, toured, history>>

\* Mutant: the handler does not look at the error.
NavigateAnyway(p, i, stored) == Navigate(p, i)

\* The completion handler of setData, if the app still has it.
ProfileSaved(p, i, stored) ==
    IF stored THEN Navigate(p, i)
    ELSE tries' = Without(p, i) /\ UNCHANGED <<base, screens>>

Saving(p, uid) == {i \in DOMAIN tries[p] : tries[p][i].step = "saving"
                                           /\ tries[p][i].uid = uid}

\* Mutant: only a write whose handler is still there is sent.
ProfileAnsweredToHandler(p, stored) ==
    /\ base[p] # "off"
    /\ IF stored THEN AnswerRead(Queue(p)) ELSE RefusalRead(Queue(p))
    /\ LET uid == Head(pending[Queue(p)]).key
       IN  /\ Taken(Queue(p))
           /\ rejected' = IF stored THEN rejected ELSE rejected \cup {uid}
           /\ \E i \in Saving(p, uid) : ProfileSaved(p, i, stored)
    /\ UNCHANGED <<server, accountOf, user, alert, presses, toured,
                   registered>>

\* The oldest write is answered.
ProfileAnswered(p, stored) ==
    /\ base[p] # "off"
    /\ IF stored THEN AnswerRead(Queue(p)) ELSE RefusalRead(Queue(p))
    /\ LET uid == Head(pending[Queue(p)]).key
       IN  /\ Taken(Queue(p))
           /\ rejected' = IF stored THEN rejected ELSE rejected \cup {uid}
           /\ IF Saving(p, uid) = {} THEN UNCHANGED <<base, screens, tries>>
              ELSE \E i \in Saving(p, uid) : ProfileSaved(p, i, stored)
    /\ UNCHANGED <<server, accountOf, user, alert, presses, toured,
                   registered>>

------------------------------------------------------------------------------
\* A new installation, and nobody has an account.
Init == /\ StoreInit([u \in DocIds |-> NoProfile])
        /\ accountOf = [e \in Emails |-> NoAccount]
        /\ user = [p \in Phones |-> NoAccount]
        /\ base = [p \in Phones |-> "off"]
        /\ screens = [p \in Phones |-> <<>>]
        /\ alert = [p \in Phones |-> FALSE]
        /\ tries = [p \in Phones |-> <<>>] /\ presses = 0
        /\ toured = [p \in Phones |-> FALSE]
        /\ registered = {} /\ rejected = {}

Answers(p, i) == \/ \E done \in BOOLEAN : Uploaded(p, i, done)
                 \/ Grant(p, i) \/ Refused(p, i)
                 \/ SignedIn(p, i) \/ RegisterAnswered(p, i) \/ LoginAnswered(p, i)

Network(p) == ServerStores(p) \/ ConnectionLost(p)
              \/ \E stored \in BOOLEAN : ProfileAnswered(p, stored)

Next == \E p \in Phones :
          \/ Launch(p) \/ Killed(p) \/ LogOut(p) \/ Back(p) \/ DismissAlert(p)
          \/ \E kind \in Kinds : Open(p, kind)
          \/ \E started \in BOOLEAN : EndTutorial(p, started)
          \/ \E e \in Emails, encoded \in BOOLEAN : PressRegister(p, e, encoded)
          \/ \E e \in Emails : PressLogin(p, e)
          \/ PressUnanswered(p)
          \/ \E i \in DOMAIN tries[p] : Answers(p, i)
          \/ Network(p)

Spec == Init /\ [][Next]_vars

AnsweredFor(p, u) == user[p] = u /\ \E stored \in BOOLEAN : ProfileAnswered(p, stored)

\* A phone that somebody uses again and again is online at some of those times.
FairSpec == Spec /\ \A p \in Phones, u \in DocIds \cup {NoAccount} :
                      SF_vars(AnsweredFor(p, u))

------------------------------------------------------------------------------
(* Properties *)

TypeOK ==
    /\ AppliedOK
    /\ server \in [DocIds -> Profiles \cup {NoProfile}]
    /\ pending \in [Devices -> Seq([key : DocIds, value : Profiles])]
    /\ accountOf \in [Emails -> DocIds \cup {NoAccount}]
    /\ user \in [Phones -> DocIds \cup {NoAccount}]
    /\ base \in [Phones -> Bases]
    /\ screens \in [Phones -> Seq(Kinds)]
    /\ alert \in [Phones -> BOOLEAN]
    /\ tries \in [Phones -> Seq(Tries)]
    /\ presses \in 0..MaxPresses
    /\ toured \in [Phones -> BOOLEAN]
    /\ registered \subseteq DocIds /\ rejected \subseteq DocIds

\* A profile, on the server or queued, is filed under the account of the
\* address in it, however many registrations with other fields overlap.
Filed(key, profile) == profile.uid = key /\ accountOf[profile.email] = key

ProfilesFiled ==
    /\ \A u \in DocIds : server[u] # NoProfile => Filed(u, server[u])
    /\ \A q \in Devices : \A i \in 1..Len(pending[q]) :
         Filed(pending[q][i].key, pending[q][i].value)

\* An account whose making a phone has been told of is never left without a
\* profile, stored or queued there, unless the server refused it: going back,
\* registering again, logging in as another or a kill do not change that.
NoOrphans == \A u \in registered \ rejected :
               \E q \in Devices : Local(q, u) # NoProfile

(* Why they hold: an invariant that every step preserves *)

\* Auth gives no account to two addresses.
AccountsDistinct == \A e, f \in Emails :
    accountOf[e] = accountOf[f] /\ accountOf[e] # NoAccount => e = f

\* What an answer to a try relies on: its account is the one of its address,
\* only a registration saves a profile, and the number of its screen is still
\* that of a screen with its button.
Sound(p, t) ==
    /\ t.step \in {"granted", "signedIn", "saving"} =>
         t.uid # NoAccount /\ t.uid = accountOf[t.email]
    /\ t.step = "saving" => t.kind = "register"
    /\ t.screen # 0 => t.screen <= Len(screens[p]) /\ screens[p][t.screen] = t.kind

TriesSound == \A p \in Phones :
    /\ Len(screens[p]) <= MaxScreens
    /\ \A i \in 1..Len(tries[p]) : Sound(p, tries[p][i])

\* NoOrphans without the order of the queue: the profile is stored or queued.
ProfilesKept == \A u \in registered \ rejected :
    \E q \in Devices : server[u] # NoProfile \/ WritesTo(pending[q], u) # {}

\* What the server has stored of a queue is there.
AppliedIsStored == \A q \in Devices : \A i \in 1..Len(pending[q]) :
    i <= applied[q] => server[pending[q][i].key] # NoProfile

\* Accounts are distinct, and every try, queued write and document agrees with
\* them.
Agreement == /\ TypeOK /\ AccountsDistinct /\ ProfilesFiled /\ TriesSound
             /\ ProfilesKept /\ AppliedIsStored

\* A registration that Auth has made an account for.
Made(t) == t.kind = "register" /\ t.step \in {"granted", "signedIn", "saving"}

\* The account of a registration is no other's: the answer to a profile finds
\* one handler at most.
OwnAccounts == \A p, r \in Phones :
    \A i \in 1..Len(tries[p]), j \in 1..Len(tries[r]) :
      Made(tries[p][i]) /\ Made(tries[r][j]) /\ tries[p][i].uid = tries[r][j].uid
        => p = r /\ i = j

\* A handler that waits for the answer to its profile has it queued on its
\* phone, be it for another user: no other answer takes its place.
AnswerIsComing == \A p \in Phones : \A i \in 1..Len(tries[p]) :
    tries[p][i].step = "saving" =>
      \E q \in Devices : q[1] = p /\ WritesTo(pending[q], tries[p][i].uid) # {}

\* The inductive invariant: what is kept of an account agrees, and each
\* registration is answered for its own.
IInv == Agreement /\ OwnAccounts /\ AnswerIsComing

(* Keeping to the store *)

ProfileWrites == [key : DocIds, value : Profiles]

\* Registration keeps to what the store promises, though each phone serves only
\* the queue of the user signed in: a change of the user, a kill or a lost
\* connection neither drops, moves nor reorders a profile that is queued, and
\* the server changes only by the next profile of some queue.
KeepsToStore == /\ StoreInit([u \in DocIds |-> NoProfile])
                /\ [][StoreNext(ProfileWrites)]_store

(* Getting to Home *)

\* The Register screen gives way to Home or the tutorial only when the profile
\* of an account made from that screen is on the server.
HomeAfterProfile ==
    [][\A p \in Phones :
         base[p] = "welcome" /\ base'[p] \in {"home", "tutorial"}
         /\ Last(screens[p]) = "register" =>
           \E t \in Range(tries[p]) : /\ t.kind = "register" /\ t.screen = Len(screens[p])
                                      /\ server'[t.uid] = ProfileOf(p, t)]_vars

\* A profile that a phone has once found is found again, the same: fetchUser
\* finds a user that Home can show from then on, whoever signs in, whatever the
\* server has been sent once more.  Only a refusal takes it back.
ProfileStays ==
    [][\A q \in Devices, u \in DocIds :
         Local(q, u) # NoProfile =>
           \/ Local(q, u)' = Local(q, u)
           \/ RefusalRead(q) /\ Taken(q) /\ Head(pending[q]).key = u]_vars

Served(q) == base[q[1]] # "off" /\ user[q[1]] = q[2]

\* A queue is emptied, each profile in it stored or refused: neither leaving the
\* screen, nor a kill, nor another user in between keeps one back, provided the
\* user of the queue is signed in on a running app again and again.
ProfilesArrive ==
    \A q \in Devices : []<>Served(q) => (pending[q] # <<>> ~> pending[q] = <<>>)
=============================================================================
