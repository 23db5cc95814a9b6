----------------------------- MODULE MCBookClubs -----------------------------
(* Instances of BookClubs for TLC: who uses which device.                    *)
EXTENDS BookClubs, TLC

CONSTANTS ann, bob, phone1, phone2, c1, c2, zoom, teams

\* An owner and a guest, each with a device.
OwnerAndGuest == phone1 :> ann @@ phone2 :> bob

OneDevice == phone1 :> ann

==============================================================================
