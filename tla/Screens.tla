------------------------------- MODULE Screens -------------------------------
(***************************************************************************)
(* Three screens that keep more than one copy of what they show, composed  *)
(* as the app shows them: one at a time, each made anew when it is opened, *)
(* under a language that outlives them.                                    *)
(*                                                                         *)
(*   HomeViewController.swift, MenuViewController.swift (the segues)       *)
(***************************************************************************)
EXTENDS Integers, Sequences

CONSTANTS Words, MaxWords, Achievements, NoTip, English, Romanian, MaxReloads, None

ASSUME BoundAssumption == MaxWords \in Nat /\ MaxReloads \in Nat
ASSUME LanguageAssumption == English # Romanian /\ None \notin {English, Romanian, 0, 1}
ASSUME TipAssumption == NoTip \notin Achievements

VARIABLES front,  \* the screen in front
          words, title, text, ticked, enabled,
          flag, oneIsOpen, tipView, visible, leaving, disabled,
          phone, selectionMade, userLanguage, shortLanguage, userLanguageRow,
          bundle, pickerData, wheel, dropdown, reloads

P == INSTANCE TitlePicker
T == INSTANCE Tips
L == INSTANCE Language

pickerVars == <<words, title, text, ticked, enabled>>
tipVars == <<flag, oneIsOpen, tipView, visible, leaving, disabled>>
languageVars == <<phone, selectionMade, userLanguage, shortLanguage, userLanguageRow,
                  bundle, pickerData, wheel, dropdown, reloads>>
vars == <<front, pickerVars, tipVars, languageVars>>

Launch == /\ front = "off" /\ front' = "home" /\ L!Start
          /\ UNCHANGED <<pickerVars, tipVars>>

PhoneLanguage == /\ front = "off" /\ \E l \in L!Languages : L!PhoneLanguage(l)
                 /\ UNCHANGED <<front, pickerVars, tipVars>>

Killed == /\ front # "off" /\ front' = "off"
          /\ P!Close /\ T!Close /\ L!Stop

TakePhoto == /\ front = "home" /\ front' = "picker"
             /\ \E photo \in P!Photos : P!Open(photo)
             /\ UNCHANGED <<tipVars, languageVars>>

OpenSettings == /\ front = "home" /\ front' = "settings"
                /\ UNCHANGED <<pickerVars, tipVars, languageVars>>

OpenAppSettings == /\ front = "home" /\ front' = "appSettings" /\ L!Open
                   /\ UNCHANGED <<pickerVars, tipVars, reloads>>

Back == /\ front \notin {"off", "home"} /\ front' = "home"
        /\ P!Close /\ T!Close /\ L!Close

\* Whatever is in front is replaced.
ReloadRoot == /\ front # "off" /\ front' = "appSettings" /\ L!Reload
              /\ P!Close /\ T!Close

UsePicker == /\ front = "picker" /\ P!Step
             /\ UNCHANGED <<front, tipVars, languageVars>>

UseTips == /\ front = "settings" /\ T!Step
           /\ UNCHANGED <<front, pickerVars, languageVars>>

UseAppSettings == /\ front = "appSettings" /\ L!Step
                  /\ UNCHANGED <<front, pickerVars, tipVars>>

Init == front = "off" /\ P!Closed /\ T!Closed /\ L!Installed

Next == \/ Launch \/ PhoneLanguage \/ Killed \/ Back \/ ReloadRoot
        \/ TakePhoto \/ OpenSettings \/ OpenAppSettings
        \/ UsePicker \/ UseTips \/ UseAppSettings

Spec == Init /\ [][Next]_vars

------------------------------------------------------------------------------
(* Properties *)

TypeOK == /\ front \in {"off", "home", "picker", "settings", "appSettings"}
          /\ P!PickerTypeOK /\ T!TipsTypeOK /\ L!LanguageTypeOK

\* The words searched for are the words ticked; see TitlePicker.
TitleIsTicked == P!TitleIsTicked

\* Every tip but one is fading, and the next touch dismisses that one; see Tips.
OneTip == T!OneTip

\* Once a language is selected, and whenever App Settings is shown, the bundle
\* and what UserDefaults hold three times agree, through restarts, another
\* language of the phone and reloads that overlap.
LanguagesAgree ==
    front # "off" /\ (selectionMade \/ front = "appSettings") =>
      \E language \in L!Languages : L!Speaks(language)

(* Why they hold: an invariant that every step preserves *)

\* Before a language is selected the app talks that of the phone, which App
\* Settings has taken over; after, what UserDefaults hold agrees even while the
\* app is not running.
LanguageSound ==
    /\ front # "off" => bundle \in L!Languages /\ shortLanguage = bundle
    /\ selectionMade => /\ shortLanguage \in L!Languages /\ userLanguage = shortLanguage
                       /\ L!languagesArray[userLanguageRow + 1] = userLanguage
    /\ ~selectionMade /\ front # "off" => bundle = phone
    /\ ~selectionMade /\ front = "appSettings" =>
         userLanguage = phone /\ L!languagesArray[userLanguageRow + 1] = phone

IInv == TypeOK /\ TitleIsTicked /\ OneTip /\ LanguageSound
=============================================================================
