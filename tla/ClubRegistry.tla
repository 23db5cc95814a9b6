----------------------------- MODULE ClubRegistry -----------------------------
(***************************************************************************)
(* What the book clubs of BookZone promise, without devices, screens or    *)
(* queued writes: a club belongs for ever to the user who founded it, only *)
(* people its owner has invited are ever its guests, and the owner is not  *)
(* one of them.  A club may vanish and, since a stale copy can be written  *)
(* back, return; it never returns with another owner or with strangers.    *)
(***************************************************************************)
CONSTANTS Clubs, Users, NoUser, NoClub

VARIABLES founder,   \* founder[c]: the user who founded c, or NoUser
          invited,   \* invited[c]: everybody its owner has invited so far
          record     \* record[c]: the owner and guests kept for c, or NoClub

vars == <<founder, invited, record>>

Founded(c) == founder[c] # NoUser

Init ==
    /\ founder = [c \in Clubs |-> NoUser]
    /\ invited = [c \in Clubs |-> {}]
    /\ record = [c \in Clubs |-> NoClub]

Found(c, u, guests) ==
    /\ ~Founded(c)
    /\ u \notin guests
    /\ founder' = [founder EXCEPT ![c] = u]
    /\ invited' = [invited EXCEPT ![c] = guests]
    /\ UNCHANGED record

Invite(c, guests) ==
    /\ Founded(c)
    /\ founder[c] \notin guests
    /\ invited' = [invited EXCEPT ![c] = @ \cup guests]
    /\ UNCHANGED <<founder, record>>

Store(c, guests) ==
    /\ Founded(c)
    /\ guests \subseteq invited[c]
    /\ record' = [record EXCEPT ![c] = [owner |-> founder[c], guests |-> guests]]
    /\ UNCHANGED <<founder, invited>>

Drop(c) ==
    /\ Founded(c)
    /\ record' = [record EXCEPT ![c] = NoClub]
    /\ UNCHANGED <<founder, invited>>

Next == \E c \in Clubs :
    \/ \E u \in Users, guests \in SUBSET Users : Found(c, u, guests)
    \/ \E guests \in SUBSET Users : Invite(c, guests) \/ Store(c, guests)
    \/ Drop(c)

Spec == Init /\ [][Next]_vars
==============================================================================
