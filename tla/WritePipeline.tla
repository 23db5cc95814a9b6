---------------------------- MODULE WritePipeline ----------------------------
(***************************************************************************)
(* How the Firestore SDK in Pods/FirebaseFirestore gets the writes of one  *)
(* phone to the server: the queue of each user on disk (LocalStore,        *)
(* LevelDbMutationQueue), the callbacks of the running app (SyncEngine),   *)
(* the pipeline of writes being sent (RemoteStore) and the stream they are *)
(* sent on (Stream, WriteStream).                                          *)
(*                                                                         *)
(* Every handler runs on the SDK's worker queue, one after the other, so   *)
(* each is one action.  A batch holds one write, as all the app's do.  The *)
(* stream token is left out: it is never sent back (WriteHandshake).       *)
(* A request stands for its batch, and so does the answer to it; but an    *)
(* answer names no batch in the code, and no action here looks inside one. *)
(*                                                                         *)
(* Of the server it is assumed that it takes the requests of a stream in   *)
(* order, ends the stream with an error at the first it refuses, and       *)
(* stores nothing more of a stream that has been broken.                   *)
(***************************************************************************)
EXTENDS Integers, Sequences, FiniteSets

CONSTANTS Users,      \* who uses the phone, in turn
          Keys,       \* the documents
          Window,     \* kMaxPendingWrites
          MaxWrites,  \* bound: writes made altogether
          Hello       \* the handshake, request and answer

ASSUME WindowAssumption == Window \in Nat \ {0}
ASSUME MaxWritesAssumption == MaxWrites \in Nat

\* A write is identified by its place among all the writes made.
Values == 1..MaxWrites

\* A batch id is never above the number of writes made so far.
Batches == [id : Values, key : Keys, value : Values]

ASSUME HelloAssumption == Hello \notin Batches

StreamStates == {"initial", "starting", "open", "error", "backoff"}

VARIABLES
    user,       \* current_user_ of SyncEngine
    rows,       \* rows[u]: u's mutation queue on disk
    nextId,     \* next_batch_id_
    callbacks,  \* callbacks[u]: mutation_callbacks_, batch id and write
    pipeline,   \* write_pipeline_
    stream,     \* state_ of the write stream
    shaken,     \* handshake_complete_
    idle,       \* idleness_timer_ is set
    sent,       \* requests of the stream the server has not taken
    replies,    \* answers of the server the client has not read
    status,     \* the server has ended the stream: "refused", or not: "none"
    server,     \* the documents; 0 is "never written"
    made,       \* history: how many writes were made,
    wrote,      \*   which of them by each user to each document,
    acked,      \*   whose callbacks were told of success,
    failed,     \*   and of an error,
    stored,     \*   which the server has stored,
    refused     \*   and which it has refused

link == <<sent, replies, status>>
history == <<made, wrote, acked, failed, stored, refused>>
vars == <<user, rows, nextId, callbacks, pipeline, stream, shaken, idle,
          sent, replies, status, server, made, wrote, acked, failed, stored,
          refused>>

------------------------------------------------------------------------------
(* LevelDbMutationQueue *)

IdsIn(q) == {q[i].id : i \in 1..Len(q)}

\* Mutant of LoadedId: one more than the rows there are.
IdByCount(disk_) == 1 + Cardinality(UNION {IdsIn(disk_[u]) : u \in Users})

\* LoadNextBatchIdFromDb: one more than the greatest id of any user's queue.
LoadedId(disk_) ==
    CHOOSE n \in 1..(MaxWrites + 1) :
       LET ids == UNION {IdsIn(disk_[u]) : u \in Users}
       IN  /\ \A id \in ids : id < n
           /\ n = 1 \/ n - 1 \in ids

\* Mutant of Without: the batch stays in the queue, to be sent again.
RowKept(q, batch) == q

\* RemoveMutationBatch: the row under the batch's id.
Without(q, batch) ==
    LET i == CHOOSE j \in 1..Len(q) : q[j].id = batch.id
    IN  SubSeq(q, 1, i - 1) \o SubSeq(q, i + 1, Len(q))

------------------------------------------------------------------------------
(* RemoteStore and WriteStream *)

IsStarted(state) == state \in {"starting", "open", "backoff"}

\* Start: after an error the stream waits before it connects again.
Started(state) == IF state = "error" THEN "backoff" ELSE "starting"

\* How many rows of q come up to the last batch of the pipeline p.
Passed(q, p) ==
    CHOOSE n \in 0..Len(q) : \A i \in 1..Len(q) :
       i <= n <=> p # <<>> /\ q[i].id <= p[Len(p)].id

\* Mutant of NewBatches: the pipeline may grow past its limit.
AllNewBatches(q, p) == SubSeq(q, Passed(q, p) + 1, Len(q))

\* The rows FillWritePipeline adds, by NextMutationBatchAfterBatchId, to p.
NewBatches(q, p) ==
    LET n == Passed(q, p)
        room == n + Window - Len(p)
    IN  SubSeq(q, n + 1, IF Len(q) < room THEN Len(q) ELSE room)

\* FillWritePipeline with AddToWritePipeline, MarkIdle and StartWriteStream,
\* from the queue q, the pipeline p and the state of the stream.
FillWritePipeline(q, p, state) ==
    LET new == NewBatches(q, p)
    IN  /\ pipeline' = p \o new
        /\ sent' = IF state = "open" /\ shaken THEN sent \o new
                   ELSE IF state = "open" THEN sent ELSE <<>>
        /\ stream' = IF ~IsStarted(state) /\ p \o new # <<>>
                       THEN Started(state) ELSE state
        /\ idle' = \/ state = "open" /\ p \o new = <<>>
                   \/ idle /\ state = "open" /\ ~(shaken /\ new # <<>>)

\* Mutant of Disconnected: the answers of the old stream are still delivered.
AnswersKept ==
    /\ replies' = replies
    /\ status' = "none"
    /\ shaken' = FALSE

\* Close: what was on its way is lost.
Disconnected ==
    /\ replies' = <<>>
    /\ status' = "none"
    /\ shaken' = FALSE

\* DisableNetworkInternal, InhibitBackoff and EnableNetwork, for the user
\* whose queue is q.
Reconnect(q) == Disconnected /\ FillWritePipeline(q, <<>>, "initial")

------------------------------------------------------------------------------
(* SyncEngine *)

\* `insert` leaves an entry there is alone.
WithCallback(set, id, value) ==
    IF \E c \in set : c.id = id THEN set ELSE set \cup {[id |-> id, value |-> value]}

\* The callbacks NotifyUser finds for a batch of the current user.
Waiting(batch) == {c \in callbacks[user] : c.id = batch.id}

\* Mutant of Notified: the callback stays.
NotifiedKept(batch) == callbacks' = callbacks

Notified(batch) ==
    callbacks' = [callbacks EXCEPT ![user] = @ \ Waiting(batch)]

Told(batch) == {c.value : c \in Waiting(batch)}

\* Mutant of Write: the batch is added twice.
WriteTwice(k) ==
    /\ made < MaxWrites
    /\ LET value == made + 1
           batch == [id |-> nextId, key |-> k, value |-> value]
           again == [batch EXCEPT !.id = nextId + 1]
       IN  /\ rows' = [rows EXCEPT ![user] = @ \o <<batch, again>>]
           /\ nextId' = nextId + 2
           /\ callbacks' = [callbacks EXCEPT ![user] = WithCallback(@, nextId, value)]
           /\ made' = value
           /\ wrote' = [wrote EXCEPT ![user][k] = @ \cup {value}]
           /\ FillWritePipeline(rows[user] \o <<batch, again>>, pipeline, stream)
    /\ UNCHANGED <<user, shaken, replies, status, server, acked, failed, stored,
                   refused>>

\* WriteMutations, with WriteLocally.
Write(k) ==
    /\ made < MaxWrites
    /\ LET value == made + 1
           batch == [id |-> nextId, key |-> k, value |-> value]
       IN  /\ rows' = [rows EXCEPT ![user] = Append(@, batch)]
           /\ nextId' = nextId + 1
           /\ callbacks' = [callbacks EXCEPT ![user] = WithCallback(@, nextId, value)]
           /\ made' = value
           /\ wrote' = [wrote EXCEPT ![user][k] = @ \cup {value}]
           /\ FillWritePipeline(Append(rows[user], batch), pipeline, stream)
    /\ UNCHANGED <<user, shaken, replies, status, server, acked, failed, stored,
                   refused>>

\* The token has come, the connection is there, and the handshake is sent
\* (OnStreamStart, OnWriteStreamOpen).
StreamOpens ==
    /\ stream = "starting"
    /\ stream' = "open"
    /\ sent' = <<Hello>>
    /\ UNCHANGED <<user, rows, nextId, callbacks, pipeline, shaken, idle, replies,
                   status, server, history>>

\* The first response is the handshake's: the whole pipeline is sent
\* (OnWriteStreamHandshakeComplete).
HandshakeAnswered ==
    /\ replies # <<>>
    /\ ~shaken
    /\ replies' = Tail(replies)
    /\ shaken' = TRUE
    /\ sent' = sent \o pipeline
    /\ UNCHANGED <<user, rows, nextId, callbacks, pipeline, stream, idle, status,
                   server, history>>

\* Every other response is a result, taken to be the first batch's
\* (OnWriteStreamMutationResult, HandleSuccessfulWrite, AcknowledgeBatch).
ResultRead ==
    /\ replies # <<>>
    /\ shaken
    /\ LET batch == Head(pipeline)
           left == Without(rows[user], batch)
       IN  /\ replies' = Tail(replies)
           /\ acked' = acked \cup Told(batch)
           /\ Notified(batch)
           /\ rows' = [rows EXCEPT ![user] = left]
           /\ FillWritePipeline(left, Tail(pipeline), stream)
    /\ UNCHANGED <<user, nextId, shaken, status, server, made, wrote, failed, stored,
                   refused>>

\* Mutants of RefusalRead: the handler is told of success; the write is sent
\* again, like after any other error.
RefusalAsResult ==
    /\ status = "refused"
    /\ LET batch == Head(pipeline)
           left == Without(rows[user], batch)
       IN  /\ rows' = [rows EXCEPT ![user] = left]
           /\ acked' = acked \cup Told(batch)
           /\ Notified(batch)
           /\ Disconnected
           /\ FillWritePipeline(left, Tail(pipeline), "initial")
    /\ UNCHANGED <<user, nextId, server, made, wrote, failed, stored, refused>>
RefusalRetried ==
    /\ status = "refused"
    /\ Disconnected
    /\ FillWritePipeline(rows[user], pipeline, "error")
    /\ UNCHANGED <<user, rows, nextId, callbacks, server, history>>

\* The server has refused a request: the stream ends with a permanent error,
\* before which answers may be left unread (FastFinishCompletionsBlocking).
\* The first batch is taken to be the culprit (HandleWriteError,
\* HandleRejectedWrite, RejectBatch).
RefusalRead ==
    /\ status = "refused"
    /\ LET batch == Head(pipeline)
           left == Without(rows[user], batch)
       IN  /\ rows' = [rows EXCEPT ![user] = left]
           /\ failed' = failed \cup Told(batch)
           /\ Notified(batch)
           /\ Disconnected
           /\ FillWritePipeline(left, Tail(pipeline), "initial")
    /\ UNCHANGED <<user, nextId, server, made, wrote, acked, stored, refused>>

------------------------------------------------------------------------------
(* The stream ends *)

\* Mutants of StreamFails: the stream is not started again; every error counts as
\* the server's last word on the first batch.
StreamFailsForGood ==
    /\ stream \in {"starting", "open"}
    /\ Disconnected
    /\ sent' = <<>>
    /\ idle' = FALSE
    /\ stream' = "error"
    /\ UNCHANGED <<user, rows, nextId, callbacks, pipeline, server, history>>
StreamFailsRejecting ==
    /\ stream = "open"
    /\ pipeline # <<>>
    /\ LET left == Without(rows[user], Head(pipeline))
       IN  /\ rows' = [rows EXCEPT ![user] = left]
           /\ Notified(Head(pipeline))
           /\ Disconnected
           /\ FillWritePipeline(left, Tail(pipeline), "error")
    /\ UNCHANGED <<user, nextId, server, history>>

\* The connection fails, or the server ends it with an error that is not
\* permanent (OnStreamFinish, OnWriteStreamClose).
StreamFails ==
    /\ stream \in {"starting", "open"}
    /\ Disconnected
    /\ sent' = <<>>
    /\ idle' = FALSE
    /\ stream' = IF pipeline = <<>> THEN "error" ELSE Started("error")
    /\ UNCHANGED <<user, rows, nextId, callbacks, pipeline, server, history>>

BackoffElapsed ==
    /\ stream = "backoff"
    /\ stream' = "starting"
    /\ UNCHANGED <<user, rows, nextId, callbacks, pipeline, shaken, idle, link,
                   server, history>>

\* The idle timer of a stream with nothing to send (Stop).
IdleTimeout ==
    /\ idle
    /\ Disconnected
    /\ sent' = <<>>
    /\ idle' = FALSE
    /\ stream' = "initial"
    /\ UNCHANGED <<user, rows, nextId, callbacks, pipeline, server, history>>

\* The phone's connectivity has changed (RestartNetwork).
ConnectivityChange ==
    /\ Reconnect(rows[user])
    /\ UNCHANGED <<user, rows, nextId, callbacks, server, history>>

\* HandleCredentialChange: another user has signed in, or the token of the
\* same user has changed.
CredentialChange(u) ==
    /\ user' = u
    /\ nextId' = IF u = user THEN nextId ELSE LoadedId(rows)
    /\ Reconnect(rows[u])
    /\ UNCHANGED <<rows, callbacks, server, history>>

------------------------------------------------------------------------------
(* The app is killed and started again, by whoever is signed in then *)

Launched(disk_, u) ==
    /\ user' = u
    /\ nextId' = LoadedId(disk_)
    /\ callbacks' = [v \in Users |-> {}]
    /\ Reconnect(disk_[u])

Relaunch(u) ==
    /\ Launched(rows, u)
    /\ UNCHANGED <<rows, server, history>>

\* It dies in HandleSuccessfulWrite, after NotifyUser and before the batch is
\* removed.
DiesAcknowledging(u) ==
    /\ replies # <<>>
    /\ shaken
    /\ acked' = acked \cup Told(Head(pipeline))
    /\ Launched(rows, u)
    /\ UNCHANGED <<rows, server, made, wrote, failed, stored, refused>>

\* It dies in HandleRejectedWrite, after RejectBatch and before NotifyUser.
DiesRejecting(u) ==
    /\ status = "refused"
    /\ LET left == [rows EXCEPT ![user] = Without(@, Head(pipeline))]
       IN  rows' = left /\ Launched(left, u)
    /\ UNCHANGED <<server, history>>

------------------------------------------------------------------------------
(* The server *)

Taking == status = "none" /\ sent # <<>>

ServerGreets ==
    /\ Taking
    /\ Head(sent) = Hello
    /\ sent' = Tail(sent)
    /\ replies' = Append(replies, Hello)
    /\ UNCHANGED <<user, rows, nextId, callbacks, pipeline, stream, shaken, idle,
                   status, server, history>>

ServerStores ==
    /\ Taking
    /\ Head(sent) # Hello
    /\ server' = [server EXCEPT ![Head(sent).key] = Head(sent).value]
    /\ sent' = Tail(sent)
    /\ replies' = Append(replies, Head(sent))
    /\ stored' = stored \cup {Head(sent).value}
    /\ UNCHANGED <<user, rows, nextId, callbacks, pipeline, stream, shaken, idle,
                   status, made, wrote, acked, failed, refused>>

\* A rule of the store forbids the write.
ServerRefuses ==
    /\ Taking
    /\ Head(sent) # Hello
    /\ status' = "refused"
    /\ refused' = refused \cup {Head(sent).value}
    /\ UNCHANGED <<user, rows, nextId, callbacks, pipeline, stream, shaken, idle,
                   sent, replies, server, made, wrote, acked, failed, stored>>

------------------------------------------------------------------------------
Init ==
    /\ user \in Users
    /\ rows = [u \in Users |-> <<>>]
    /\ nextId = 1
    /\ callbacks = [u \in Users |-> {}]
    /\ pipeline = <<>>
    /\ stream = "initial"
    /\ shaken = FALSE
    /\ idle = FALSE
    /\ sent = <<>>
    /\ replies = <<>>
    /\ status = "none"
    /\ server = [k \in Keys |-> 0]
    /\ made = 0
    /\ wrote = [u \in Users |-> [k \in Keys |-> {}]]
    /\ acked = {}
    /\ failed = {}
    /\ stored = {}
    /\ refused = {}

Client ==
    \/ \E k \in Keys : Write(k)
    \/ StreamOpens \/ HandshakeAnswered \/ ResultRead \/ RefusalRead
    \/ BackoffElapsed \/ IdleTimeout

Server == ServerGreets \/ ServerStores \/ ServerRefuses

Fault ==
    \/ StreamFails
    \/ ConnectivityChange
    \/ \E u \in Users : \/ CredentialChange(u) \/ Relaunch(u)
                        \/ DiesAcknowledging(u) \/ DiesRejecting(u)

Next == Client \/ Server \/ Fault

Spec == Init /\ [][Next]_vars

\* The user stays signed in, the app keeps running and the network and the
\* server work, all of them long enough and ever again.
FairSpec ==
    /\ Spec
    /\ WF_vars(BackoffElapsed) /\ SF_vars(StreamOpens)
    /\ SF_vars(HandshakeAnswered)
    /\ \A u \in Users : SF_vars(user = u /\ ResultRead) /\ SF_vars(user = u /\ RefusalRead)
    /\ SF_vars(ServerGreets) /\ SF_vars(ServerStores \/ ServerRefuses)

------------------------------------------------------------------------------
(* Properties *)

TypeOK ==
    /\ user \in Users
    /\ rows \in [Users -> Seq(Batches)]
    /\ nextId \in 1..(MaxWrites + 1)
    /\ callbacks \in [Users -> SUBSET [id : Values, value : Values]]
    /\ pipeline \in Seq(Batches)
    /\ stream \in StreamStates
    /\ shaken \in BOOLEAN /\ idle \in BOOLEAN
    /\ sent \in Seq(Batches \cup {Hello}) /\ replies \in Seq(Batches \cup {Hello})
    /\ status \in {"none", "refused"}
    /\ server \in [Keys -> 0..MaxWrites]
    /\ made \in 0..MaxWrites
    /\ wrote \in [Users -> [Keys -> SUBSET (1..made)]]
    /\ acked \subseteq 1..made /\ failed \subseteq 1..made
    /\ stored \subseteq 1..made /\ refused \subseteq 1..made

\* The pipeline is the head of the signed-in user's queue, whatever restarts,
\* refusals and changes of user have refilled it: no write is passed over,
\* sent twice on a stream or sent for another user.
PipelineTracksQueue ==
    LET q == rows[user]
    IN  pipeline = SubSeq(q, 1, IF Len(q) < Window THEN Len(q) ELSE Window)

\* Once the handshake is over, the answers unread and the requests not yet
\* taken are those of the pipeline in its order: the code, which matches an
\* answer to the first batch without looking, matches the right one.  Before,
\* only the handshake is under way.
AnswersMatchPipeline ==
    IF shaken THEN replies \o sent = pipeline
    ELSE replies \o sent = IF stream = "open" THEN <<Hello>> ELSE <<>>

\* The assertions of the code: a stream that is needed is never left stopped
\* (OnWriteStreamClose), and one that has the idle timer set is open and has
\* nothing to send.
StreamNeeded ==
    /\ pipeline # <<>> => IsStarted(stream)
    /\ idle => stream = "open" /\ shaken /\ pipeline = <<>>
    /\ shaken => stream = "open"
    /\ status = "refused" => shaken /\ sent # <<>>

\* Each callback waits for a batch that is in its user's queue and for the
\* write it was made for, though batch ids are reused.
CallbacksMatch ==
    \A u \in Users : \A c \in callbacks[u] :
       \E i \in 1..Len(rows[u]) : rows[u][i].id = c.id /\ rows[u][i].value = c.value

\* Ids increase along each queue and stay below the next one to be given.
IdsIncrease ==
    \A u \in Users : \A i \in 1..Len(rows[u]) :
       /\ rows[u][i].id < nextId \/ u # user
       /\ \A j \in 1..(i - 1) : rows[u][j].id < rows[u][i].id

\* A write whose handler has been told of success is on the server.
AckedIsStored == acked \subseteq stored

\* A write leaves its queue only when the server has stored it or refused it,
\* whatever connection, user or process is lost in between.
NothingLost ==
    \A v \in 1..made :
       \/ v \in stored \cup refused
       \/ \E u \in Users : \E i \in 1..Len(rows[u]) : rows[u][i].value = v

Queued(u, v) == \E i \in 1..Len(rows[u]) : rows[u][i].value = v

\* Once a handler has been told that a write is stored, its document is never
\* again an older write of that user, although whatever has no answer yet is
\* sent again after each failure, restart and change of user.
AckedStays ==
    \A u \in Users, k \in Keys : server[k] \in wrote[u][k] =>
       \A v \in acked \cap wrote[u][k] : v <= server[k]

\* Writes sent again take a document back to an older write of the same user,
\* but not for good: a newer one that the server had stored is still queued,
\* and will be sent again too, unless the server has refused it as well.
OlderIsForNow ==
    \A u \in Users, k \in Keys : server[k] \in wrote[u][k] =>
       \A v \in stored \cap wrote[u][k] :
          v <= server[k] \/ v \in refused \/ Queued(u, v)

\* The pipeline implements the store the app's modules use.
Store == INSTANCE Firestore WITH
    Devices <- Users, DocIds <- Keys, MaxPending <- MaxWrites,
    pending <- rows,
    applied <- [u \in Users |-> IF u = user /\ shaken THEN Len(replies) ELSE 0]

ImplementsStore ==
    Store!StoreInit([k \in Keys |-> 0]) /\ [][Store!StoreNext(Batches)]_Store!store

\* A user who is signed in again and again gets the queue emptied again and
\* again: no refusal, restart or idle stream leaves a write waiting for good.
QueueDrains ==
    \A u \in Users : []<>(user = u) => []<>(rows[u] = <<>>)

------------------------------------------------------------------------------
(* The inductive invariant: the above, and what the answers, the refusal and *)
(* the rows under way say of the history.                                    *)

RepliesStored ==
    \A i \in 1..Len(replies) : replies[i] # Hello => replies[i].value \in stored

RefusedIsNext == status = "refused" => Head(sent).value \in refused

\* Neither an id nor a write is ahead of the number of writes made.
NoneAhead ==
    /\ nextId <= made + 1
    /\ \A u \in Users : \A i \in 1..Len(rows[u]) :
          rows[u][i].id <= made /\ rows[u][i].value <= made

\* The queue of a user is what the user has written of late, in order.
QueueIsLatest ==
    \A u \in Users :
       /\ \A i \in 1..Len(rows[u]) :
             /\ rows[u][i].value \in wrote[u][rows[u][i].key]
             /\ \A j \in 1..(i - 1) : rows[u][j].value < rows[u][i].value
       /\ \A k \in Keys : \A v \in wrote[u][k], i \in 1..Len(rows[u]) :
             rows[u][i].value <= v => Queued(u, v)

\* A write has one author and one document.
WroteOnce ==
    \A t, u \in Users, k, l \in Keys :
       wrote[t][k] \cap wrote[u][l] # {} => t = u /\ k = l

\* What the server holds it has stored, and an acknowledged write has none of
\* its user's before it in the queue.
AckedIsFirst ==
    /\ \A k \in Keys : server[k] = 0 \/ server[k] \in stored
    /\ \A u \in Users, k \in Keys : \A v \in acked \cap wrote[u][k] :
          \A i \in 1..Len(rows[u]) : v <= rows[u][i].value

\* An answer on its way is of a write that is on the server, unless a later
\* one of its user, or one of another's, is.
UnreadIsThere ==
    \A i \in 1..Len(replies) : LET batch == replies[i] IN
       batch # Hello /\ server[batch.key] \in wrote[user][batch.key] =>
          batch.value <= server[batch.key]

\* What the server holds, the queues and what handlers were told agree on the
\* order in which each user wrote.
OrderOK == /\ QueueIsLatest /\ WroteOnce /\ AckedIsFirst /\ UnreadIsThere
           /\ AckedStays /\ OlderIsForNow

\* The queue, the pipeline, the stream and the history agree at every step.
FlowOK == /\ TypeOK /\ PipelineTracksQueue /\ AnswersMatchPipeline /\ StreamNeeded
          /\ CallbacksMatch /\ IdsIncrease /\ AckedIsStored /\ NothingLost
          /\ RepliesStored /\ RefusedIsNext /\ NoneAhead

\* And so does the order of the writes.
IInv == FlowOK /\ OrderOK

------------------------------------------------------------------------------
(* What a comment of the code says and the code does not keep *)

\* HandleWriteError: "If this was a permanent error, the request itself was the
\* problem so it's not going to succeed if we resend it."  A write whose
\* handler is told of an error is one the server has refused.
FailedWasRefused == failed \subseteq refused
==============================================================================
