-------------------------------- MODULE Tips --------------------------------
(***************************************************************************)
(* The tips of the five achievements on Settings.                          *)
(*                                                                         *)
(*   View/ReusableComponents/ProfileSettings/SettingsHeader.swift,         *)
(*   Pods/EasyTipView/Source/EasyTipView.swift                             *)
(*                                                                         *)
(* One field for each achievement and one for all of them say whether a    *)
(* tip is open; tipView is the last one made.  A touch that opens no tip   *)
(* dismisses tipView and disables its own button for 0.7 seconds.  A tip   *)
(* that is touched goes by itself, which the fields are not told of.       *)
(* Dismissing is an animation of 0.7 seconds: the tip fades, and only then *)
(* leaves the screen.  Meanwhile another button may open the next one.     *)
(***************************************************************************)

CONSTANTS Achievements, NoTip

VARIABLES flag,      \* starButton, medalButton, shieldButton, findButton, chatButton
          oneIsOpen,
          tipView,
          visible,   \* the tips on the screen that nobody has dismissed
          leaving,   \* those that are fading
          disabled   \* the buttons without interaction

\* Mutant: only the field of the button is looked at.
OpensIfOwnClosed(a) == ~flag[a]

\* The condition of each of the five cases.
Opens(a) == ~flag[a] /\ ~oneIsOpen

\* EasyTipView.dismiss: the tip fades, if it is there.
Dismiss(a) == /\ visible' = visible \ {a}
              /\ leaving' = leaving \cup (visible \cap {a})

\* handleStarTouch.
Touch(a) ==
    /\ a \notin disabled
    /\ flag' = [flag EXCEPT ![a] = Opens(a)]
    /\ oneIsOpen' = Opens(a)
    /\ IF Opens(a)
         THEN /\ tipView' = a /\ visible' = visible \cup {a}
              /\ UNCHANGED <<leaving, disabled>>
         ELSE Dismiss(tipView) /\ disabled' = disabled \cup {a} /\ UNCHANGED tipView

\* 0.7 seconds after the touch that disabled the button.
Enable(a) == /\ a \in disabled /\ disabled' = disabled \ {a}
             /\ UNCHANGED <<flag, oneIsOpen, tipView, visible, leaving>>

\* handleTap: a tip that is touched dismisses itself.
TouchTip(a) == /\ a \in visible /\ Dismiss(a)
               /\ UNCHANGED <<flag, oneIsOpen, tipView, disabled>>

\* The animation has ended: removeFromSuperview.
Faded(a) == /\ a \in leaving /\ leaving' = leaving \ {a}
            /\ UNCHANGED <<flag, oneIsOpen, tipView, visible, disabled>>

Closed == /\ flag = [a \in Achievements |-> FALSE] /\ oneIsOpen = FALSE
          /\ tipView = NoTip /\ visible = {} /\ leaving = {} /\ disabled = {}

\* Every Settings screen has a new header.
Close == /\ flag' = [a \in Achievements |-> FALSE] /\ oneIsOpen' = FALSE
         /\ tipView' = NoTip /\ visible' = {} /\ leaving' = {} /\ disabled' = {}

Step == \E a \in Achievements : Touch(a) \/ Enable(a) \/ TouchTip(a) \/ Faded(a)

TipsTypeOK ==
    /\ flag \in [Achievements -> BOOLEAN] /\ oneIsOpen \in BOOLEAN
    /\ tipView \in Achievements \cup {NoTip}
    /\ visible \subseteq Achievements /\ leaving \subseteq Achievements
    /\ disabled \subseteq Achievements

\* However the fields of the buttons go stale, no tip is left behind: beside
\* those that are fading already there is at most one, the one the next touch
\* dismisses; and a touch that dismisses finds one made: tipView, which is
\* unwrapped, is not nil.
OneTip == /\ visible \subseteq {tipView}
          /\ visible # {} => oneIsOpen
          /\ \A a \in Achievements : ~Opens(a) => tipView # NoTip
=============================================================================
