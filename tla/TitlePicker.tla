----------------------------- MODULE TitlePicker -----------------------------
(***************************************************************************)
(* Picking the words of a title from a photo of a cover.                   *)
(*                                                                         *)
(*   Controller/RadioButtonsViewController.swift, the image picker of      *)
(*   HomeViewController.swift, Helpers/Apple/AppleTextRecognizer.swift     *)
(*                                                                         *)
(* The recognised lines are split into words, one cell for each.  A title  *)
(* is the words that are ticked, in the order in which they were.  The     *)
(* strings made of words are sequences of them; a photo is its words.      *)
(***************************************************************************)
EXTENDS Integers, SequencesExt

CONSTANTS Words,
          MaxWords  \* bound: words in a photo

VARIABLES words,    \* titleArrayAux: the cells
          title,    \* titleArray
          text,     \* titleString, also the label
          ticked,   \* ticked[i]: the image in cell i
          enabled   \* the search button

Photos == UNION {[1..n -> Words] : n \in 0..MaxWords}

\* configureArrays, the label, and cells made anew.
Show(photo) == /\ words' = photo /\ title' = photo /\ text' = photo
               /\ ticked' = [i \in DOMAIN photo |-> TRUE]

Open(photo) == Show(photo) /\ enabled' = (photo # <<>>)

\* Mutant: the words of the title are those of the photo before.
RetakeKeepsTitle(photo) ==
    /\ words' = photo /\ text' = photo
    /\ ticked' = [i \in DOMAIN photo |-> photo[i] \in Range(title)]
    /\ UNCHANGED <<title, enabled>>

\* The search button stays as it was.
Retake(photo) == Show(photo) /\ UNCHANGED enabled

\* didHighlightItemAt.
Touch(i) ==
    /\ i \in DOMAIN words
    /\ ticked' = [ticked EXCEPT ![i] = ~@]
    /\ title' = IF words[i] \in Range(title) THEN RemoveFirst(title, words[i])
                ELSE Append(title, words[i])
    /\ text' = title'
    /\ enabled' = (text' # <<>>)
    /\ UNCHANGED words

\* configureCell, for a cell that is scrolled back into view.
Redraw(i) ==
    /\ i \in DOMAIN words
    /\ ticked' = [ticked EXCEPT ![i] = words[i] \in Range(title)]
    /\ UNCHANGED <<words, title, text, enabled>>

Closed == words = <<>> /\ title = <<>> /\ text = <<>> /\ ticked = <<>> /\ enabled = FALSE

Close == /\ words' = <<>> /\ title' = <<>> /\ text' = <<>> /\ ticked' = <<>>
         /\ enabled' = FALSE

Step == \/ \E i \in 1..MaxWords : Touch(i) \/ Redraw(i)
        \/ \E photo \in Photos : Retake(photo)

PickerTypeOK ==
    /\ words \in Photos
    /\ title \in Seq(Words) /\ text \in Seq(Words)
    /\ ticked \in [DOMAIN words -> BOOLEAN]
    /\ enabled \in BOOLEAN

\* Of a photo in which no word comes twice, the words searched for are exactly
\* those ticked, through touches, scrolling and other photos.
TitleIsTicked == IsInjective(words) =>
    /\ text = title /\ IsInjective(title)
    /\ Range(title) = {words[i] : i \in {j \in DOMAIN words : ticked[j]}}
=============================================================================
