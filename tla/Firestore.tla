------------------------------ MODULE Firestore ------------------------------
(***************************************************************************)
(* The document store BookZone keeps its users, books and book clubs in,   *)
(* as API/Service.swift and API/BookClubService.swift see it through the   *)
(* Firestore SDK of Pods/FirebaseFirestore.                                *)
(*                                                                         *)
(*   - A document is replaced as a whole: every write of the app is a      *)
(*     setData without merge, or a delete.                                 *)
(*   - A write is put in a queue on disk, one for each user of the phone,  *)
(*     sent in the order it was made while that user is signed in, and     *)
(*     leaves the queue when its answer has come.  The queue survives the  *)
(*     app; the handlers waiting for the answers do not.                   *)
(*   - A connection that ends takes the answers not yet read with it: what *)
(*     the server has already stored is sent, and stored, once more.       *)
(*   - A read returns the server's document overlaid with the user's own   *)
(*     queued writes, never with those of another device.                  *)
(*                                                                         *)
(* WritePipeline models the part of the SDK that does the sending, and is  *)
(* shown to implement StoreInit and StoreNext.                             *)
(*                                                                         *)
(* An entry of pending[d] is a record with at least the fields key (the    *)
(* document) and value (its new contents, or the marker the extending      *)
(* module uses for "no document").                                         *)
(***************************************************************************)
EXTENDS Integers, Sequences

CONSTANTS Devices,   \* the queues: a phone together with a user of it
          DocIds,    \* the documents of one collection
          MaxPending \* bound: writes a queue may hold

ASSUME MaxPendingAssumption == MaxPending \in Nat

VARIABLES server,    \* the document the server holds under each id
          pending,   \* the writes of each queue, oldest first
          applied    \* how many of them the server has stored on the present
                     \* connection without their answers having been read

store == <<server, pending, applied>>

------------------------------------------------------------------------------
(* Reading *)

WritesTo(q, k) == {i \in 1..Len(q) : q[i].key = k}

LastWriteTo(q, k) ==
    CHOOSE i \in WritesTo(q, k) : \A j \in WritesTo(q, k) : j <= i

\* What a getDocument or getDocuments started on device d finds under id k.
Local(d, k) == IF WritesTo(pending[d], k) = {}
                 THEN server[k]
                 ELSE pending[d][LastWriteTo(pending[d], k)].value

------------------------------------------------------------------------------
(* Writing *)

CanWrite(d) == Len(pending[d]) < MaxPending

\* setData or delete called on device d.
Enqueue(d, write) == pending' = [pending EXCEPT ![d] = Append(@, write)]

\* The server never runs ahead of a queue.
AppliedOK == /\ applied \in [Devices -> Nat]
             /\ \A d \in Devices : applied[d] <= Len(pending[d])

Unstored(d) == applied[d] < Len(pending[d])

\* The server stores the next write of d.
Store(d) ==
    /\ Unstored(d)
    /\ LET write == pending[d][applied[d] + 1]
       IN  server' = [server EXCEPT ![write.key] = write.value]
    /\ applied' = [applied EXCEPT ![d] = @ + 1]

\* The connection of d ends with the answers not yet read: d sends everything
\* in its queue again.
Lost(d) == applied' = [applied EXCEPT ![d] = 0]

\* The oldest write of d is answered.  A write that is refused ends the
\* connection it was sent on.
AnswerRead(d) ==
    /\ applied[d] > 0
    /\ applied' = [applied EXCEPT ![d] = @ - 1]

RefusalRead(d) == Unstored(d) /\ Lost(d)

\* What is left of d's queue then.
Rest(d) == Tail(pending[d])

------------------------------------------------------------------------------
(* What the SDK promises, for writes drawn from a set: they reach the server *)
(* in the order they were made, each at least once.                          *)

StoreInit(documents) ==
    /\ server = documents
    /\ pending = [d \in Devices |-> <<>>]
    /\ applied = [d \in Devices |-> 0]

Taken(d) == pending' = [pending EXCEPT ![d] = Rest(d)]

StoreNext(Writes) == \E d \in Devices :
    \/ \E w \in Writes : Enqueue(d, w) /\ UNCHANGED <<server, applied>>
    \/ Store(d) /\ UNCHANGED pending
    \/ AnswerRead(d) /\ Taken(d) /\ UNCHANGED server
    \/ RefusalRead(d) /\ Taken(d) /\ UNCHANGED server
    \/ Lost(d) /\ UNCHANGED <<server, pending>>

------------------------------------------------------------------------------
(* Reading one's own writes *)

\* No other device has a write of document k queued.
SoleWriter(d, k) == \A q \in Devices \ {d} : WritesTo(pending[q], k) = {}

\* d writes document k, and reads what it has written.
WritesAndReads(d, k) ==
    /\ Len(pending'[d]) = Len(pending[d]) + 1
    /\ LET write == pending'[d][Len(pending'[d])]
       IN  write.key = k /\ Local(d, k)' = write.value

\* What d reads of document k changes with a write of its own or with a refusal,
\* and with nothing else: not with an answer, not when writes are sent again.
ReadsStay(d, k) == [][\/ Local(d, k)' = Local(d, k)
                      \/ WritesAndReads(d, k)
                      \/ RefusalRead(d) /\ Taken(d)]_store
==============================================================================
