------------------------------ MODULE Language ------------------------------
(***************************************************************************)
(* The language of the app.                                                *)
(*                                                                         *)
(*   Controller/AppSettingsViewController.swift, AppDelegate.swift,        *)
(*   Extensions/Localization.swift, Model/PickerData.swift                 *)
(*                                                                         *)
(* UserDefaults has it three times: its name, its short name and its row   *)
(* in the picker.  The bundle has it once more, while the app runs.  The   *)
(* language of the phone counts until one is selected.                     *)
(*                                                                         *)
(* A name and the short name of the same language are the same value here. *)
(***************************************************************************)
EXTENDS Integers, Sequences, Functions

CONSTANTS English, Romanian,
          MaxReloads,  \* bound: reloads under way
          None

VARIABLES phone,          \* Bundle.main.preferredLocalizations.first
          selectionMade, userLanguage, shortLanguage, userLanguageRow,
          bundle,         \* the language of Bundle.main; None while not running
          pickerData,     \* the row chosen on this screen; None before
          wheel,          \* the row that the picker shows
          dropdown,       \* the picker and its Done button are shown
          reloads         \* reloadRootVC calls to come

defaults == <<selectionMade, userLanguage, shortLanguage, userLanguageRow>>
screen == <<pickerData, wheel, dropdown>>

languagesArray == <<English, Romanian>>
Languages == Range(languagesArray)
Rows == 0..1

\* Mutant: rows counted from one.
RowOfFromOne(language) == CHOOSE r \in 1..2 : languagesArray[r] = language

RowOf(language) == CHOOSE r \in Rows : languagesArray[r + 1] = language

------------------------------------------------------------------------------
\* Mutant: the selected language is not looked up again.
StartAsPhone == /\ shortLanguage' = phone /\ bundle' = phone
                /\ UNCHANGED <<phone, selectionMade, userLanguage, userLanguageRow, screen,
                               reloads>>

\* initWithUserDefaultLanguage.
Start ==
    /\ bundle' = IF ~selectionMade THEN phone
                 ELSE IF shortLanguage = None THEN English ELSE shortLanguage
    /\ shortLanguage' = bundle'
    /\ UNCHANGED <<phone, selectionMade, userLanguage, userLanguageRow, screen, reloads>>

\* The system ends the apps when its language changes.
PhoneLanguage(language) ==
    /\ bundle = None
    /\ phone' = language
    /\ UNCHANGED <<defaults, bundle, screen, reloads>>

Stop == /\ bundle' = None /\ reloads' = 0
        /\ pickerData' = None /\ wheel' = 0 /\ dropdown' = FALSE
        /\ UNCHANGED <<phone, defaults>>

\* viewDidLoad (setUserLanguage) and viewWillAppear.
Open ==
    /\ IF selectionMade THEN UNCHANGED <<userLanguage, userLanguageRow>>
       ELSE userLanguage' = phone /\ userLanguageRow' = RowOf(phone)
    /\ pickerData' = None /\ wheel' = userLanguageRow' /\ dropdown' = FALSE
    /\ UNCHANGED <<phone, selectionMade, shortLanguage, bundle>>

Close == /\ pickerData' = None /\ wheel' = 0 /\ dropdown' = FALSE
         /\ UNCHANGED <<phone, defaults, bundle, reloads>>

\* userLanguageDropdownPressed; pickerData stays.
PressDropdown == /\ wheel' = userLanguageRow
                 /\ dropdown' = ~dropdown
                 /\ UNCHANGED <<phone, defaults, bundle, pickerData, reloads>>

\* didSelectRow.
Select(r) == /\ dropdown /\ wheel' = r /\ pickerData' = r
             /\ UNCHANGED <<phone, defaults, bundle, dropdown, reloads>>

\* handleDonePressed.  The screens are made anew 0.3 seconds later.
Done ==
    /\ dropdown /\ dropdown' = FALSE
    /\ IF pickerData = None THEN UNCHANGED <<defaults, bundle, reloads>>
       ELSE LET language == languagesArray[pickerData + 1]
            IN  /\ selectionMade' = TRUE
                /\ userLanguage' = language /\ shortLanguage' = language
                /\ userLanguageRow' = pickerData
                /\ IF userLanguage # language
                     THEN /\ reloads < MaxReloads
                          /\ bundle' = language /\ reloads' = reloads + 1
                     ELSE UNCHANGED <<bundle, reloads>>
    /\ UNCHANGED <<phone, pickerData, wheel>>

\* reloadRootVC: the new screen on top is App Settings again.
Reload == reloads > 0 /\ Open /\ reloads' = reloads - 1

Installed == /\ phone \in Languages /\ selectionMade = FALSE
             /\ userLanguage = None /\ shortLanguage = None /\ userLanguageRow = 0
             /\ bundle = None /\ reloads = 0
             /\ pickerData = None /\ wheel = 0 /\ dropdown = FALSE

Step == PressDropdown \/ Done \/ \E r \in Rows : Select(r)

LanguageTypeOK ==
    /\ phone \in Languages /\ selectionMade \in BOOLEAN
    /\ userLanguage \in Languages \cup {None} /\ shortLanguage \in Languages \cup {None}
    /\ userLanguageRow \in Rows /\ bundle \in Languages \cup {None}
    /\ pickerData \in Rows \cup {None} /\ wheel \in Rows /\ dropdown \in BOOLEAN
    /\ reloads \in 0..MaxReloads

\* The language in which the app talks.
Speaks(language) ==
    /\ bundle = language /\ shortLanguage = language /\ userLanguage = language
    /\ languagesArray[userLanguageRow + 1] = language
=============================================================================
