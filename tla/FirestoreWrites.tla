-------------------------- MODULE FirestoreWrites --------------------------
(***************************************************************************)
(* The write path of the Firestore client the app is built with            *)
(* (Pods/FirebaseFirestore/Firestore/core/src).  setData puts a write into *)
(* the queue of the user signed in, on disk (LocalStore); RemoteStore      *)
(* keeps the first few of them in a pipeline and sends it over a stream    *)
(* that opens with that user's token, greets the server, and is closed and *)
(* opened again when the user changes, the network is disabled, nothing is *)
(* left to send, or anything fails.  A reply settles the first write of    *)
(* the pipeline, whatever that is: replies carry no name.                  *)
(*                                                                         *)
(* Everything runs on one worker queue.  The app, Firebase Auth and the    *)
(* token providers only add tasks to it; timers and the stream's           *)
(* completions run on it too, but are dropped once the stream is closed.   *)
(* Left out: the watch stream, the documents, the stream token (which the  *)
(* handshake does not send) and the lengths of the delays.                 *)
(***************************************************************************)
EXTENDS Naturals, Sequences

CONSTANTS
  Users,         \* accounts, and the one of nobody signed in
  Nobody,        \* no token yet
  MaxPending,    \* kMaxPendingWrites, 10 in the code
  MaxWrites,     \* bound: writes of the app
  MaxEvents      \* bound: its other calls, changes of user, launches and failures

ASSUME WriteUsersAssumption == Nobody \notin Users
ASSUME PendingAssumption == MaxPending \in Nat \ {0}
ASSUME WriteBoundsAssumption == MaxWrites \in Nat /\ MaxEvents \in Nat

Writes == 1..MaxWrites
Batch == [id : Nat \ {0}, write : Writes]
Hello == 0       \* the reply to the handshake

Task == [do : {"write"}, of : Writes] \cup [do : {"credential"}, of : Users]
        \cup [do : {"enable", "disable", "connected"}]
        \cup [do : {"token"}, of : Users, closes : Nat] \cup [do : {"noToken"}, closes : Nat]

VARIABLES
  authUser,      \* the user signed in
  by,            \* history: the user signed in when each write was made
  written,       \* writes made
  events,        \* other calls, changes and failures so far
  work,          \* the worker queue: tasks of other threads
  fetching,      \* requests for tokens, by the closes of their stream
  \* SyncEngine and LocalStore
  user,          \* current_user_
  queue,         \* the mutation queue of each user, on disk
  nextId,        \* next_batch_id_
  callbacks,     \* mutation_callbacks_
  reported,      \* what the app was told of each write
  \* RemoteStore and its write stream
  enabled,       \* is_network_enabled_
  pipeline,      \* write_pipeline_
  state,         \* state_ of the write stream; Open stands for Healthy too
  handshake,     \* handshake_complete_
  closes,        \* close_count_
  idle,          \* the idleness timer runs
  \* the stream's call and the server
  credential,    \* the user whose token the call carries
  wire,          \* writes sent and not handled yet
  replies,       \* replies not read yet
  greeted,       \* the server answered the handshake
  ended,         \* the server refused a write and ended the call
  committed,     \* writes committed at least once
  refused,       \* writes refused at least once
  last           \* the write of each user committed last

appVars == <<authUser, by, written, events>>
localVars == <<user, queue, nextId, callbacks, reported>>
remoteVars == <<enabled, pipeline, state, handshake, closes, idle>>
callVars == <<credential, wire, replies, greeted, ended>>
serverVars == <<committed, refused, last>>
writeVars == <<appVars, work, fetching, localVars, remoteVars, callVars, serverVars>>

WritesOf(batches) == [i \in DOMAIN batches |-> batches[i].write]
Members(s) == {s[i] : i \in DOMAIN s}

IsOpen == state = "Open"
IsStarted == state \in {"Starting", "Backoff", "Open"}

\* What the code asserts (HARD_ASSERT) of the write stream: a result finds a
\* write in the pipeline, which is in the queue (remote_store.cc:437,
\* local_store.cc:237), a stream is stopped as idle only when it is not
\* needed (remote_store.cc:456), and a token that is not too late finds the
\* stream starting (stream.cc:171).
AssertionsHold ==
  /\ IsOpen /\ handshake /\ replies # <<>> => pipeline # <<>>
  /\ ended /\ replies = <<>> => pipeline # <<>>
  /\ idle => IsOpen /\ pipeline = <<>>
  /\ Members(pipeline) \subseteq Members(queue[user])
  /\ \A i \in DOMAIN work :
       work[i].do \in {"token", "noToken"} /\ work[i].closes = closes => state = "Starting"

Types ==
  /\ authUser \in Users /\ user \in Users
  /\ by \in [Writes -> Users]
  /\ written \in 0..MaxWrites /\ events \in 0..MaxEvents
  /\ work \in Seq(Task)
  /\ fetching \subseteq [closes : Nat, got : Users \cup {Nobody}]
  /\ queue \in [Users -> Seq(Batch)]
  /\ nextId \in Nat \ {0}
  /\ callbacks \subseteq [user : Users, id : Nat \ {0}, write : Writes]
  /\ reported \in [Writes -> {"none", "committed", "rejected"}]
  /\ enabled \in BOOLEAN /\ handshake \in BOOLEAN /\ idle \in BOOLEAN
  /\ pipeline \in Seq(Batch) /\ Len(pipeline) <= MaxPending
  /\ state \in {"Initial", "Starting", "Open", "Error", "Backoff"}
  /\ closes \in Nat
  /\ credential \in Users
  /\ wire \in Seq(Writes) /\ replies \in Seq(Writes \cup {Hello})
  /\ greeted \in BOOLEAN /\ ended \in BOOLEAN
  /\ committed \subseteq Writes /\ refused \subseteq Writes
  /\ last \in [Users -> Writes \cup {Hello}]

TypeOK == Types /\ AssertionsHold

Init ==
  /\ authUser \in Users /\ user = authUser
  /\ by = [w \in Writes |-> authUser]
  /\ written = 0 /\ events = 0
  /\ work = <<>> /\ fetching = {}
  /\ queue = [u \in Users |-> <<>>] /\ nextId = 1
  /\ callbacks = {} /\ reported = [w \in Writes |-> "none"]
  /\ enabled = TRUE /\ pipeline = <<>>
  /\ state = "Initial" /\ handshake = FALSE /\ closes = 0 /\ idle = FALSE
  /\ credential = authUser /\ wire = <<>> /\ replies = <<>>
  /\ greeted = FALSE /\ ended = FALSE
  /\ committed = {} /\ refused = {} /\ last = [u \in Users |-> Hello]
-----------------------------------------------------------------------------
(* The app, on its own threads.                                             *)

Enqueue(task) == work' = Append(work, task)

SetData ==
  /\ written < MaxWrites
  /\ written' = written + 1
  /\ by' = [by EXCEPT ![written'] = authUser]
  /\ Enqueue([do |-> "write", of |-> written'])
  /\ UNCHANGED <<authUser, events, fetching, localVars, remoteVars, callVars, serverVars>>

Event == events < MaxEvents /\ events' = events + 1

EnableNetwork ==
  /\ Event
  /\ Enqueue([do |-> "enable"])
  /\ UNCHANGED <<authUser, by, written, fetching, localVars, remoteVars, callVars, serverVars>>

DisableNetwork ==
  /\ Event
  /\ Enqueue([do |-> "disable"])
  /\ UNCHANGED <<authUser, by, written, fetching, localVars, remoteVars, callVars, serverVars>>

\* The connectivity monitor sees another network.
ConnectivityChanges ==
  /\ Event
  /\ Enqueue([do |-> "connected"])
  /\ UNCHANGED <<authUser, by, written, fetching, localVars, remoteVars, callVars, serverVars>>

\* Firebase Auth tells of a change at once; the user may be the same one.
AuthStateDidChange(u) ==
  /\ Event
  /\ authUser' = u
  /\ Enqueue([do |-> "credential", of |-> u])
  /\ UNCHANGED <<by, written, fetching, localVars, remoteVars, callVars, serverVars>>

\* GetToken: a token of the user signed in now; one that comes after a change
\* is asked for again.
AuthToken(f) ==
  /\ f.got = Nobody
  /\ fetching' = (fetching \ {f}) \cup {[f EXCEPT !.got = authUser]}
  /\ UNCHANGED <<appVars, work, localVars, remoteVars, callVars, serverVars>>

\* The App Check token comes on its own, and the stream goes on with both.
CredentialsReady(f) ==
  /\ f.got # Nobody
  /\ fetching' = fetching \ {f}
  /\ Enqueue([do |-> "token", of |-> f.got, closes |-> f.closes])
  /\ UNCHANGED <<appVars, localVars, remoteVars, callVars, serverVars>>

CredentialsFail(f) ==
  /\ Event
  /\ fetching' = fetching \ {f}
  /\ Enqueue([do |-> "noToken", closes |-> f.closes])
  /\ UNCHANGED <<authUser, by, written, localVars, remoteVars, callVars, serverVars>>
-----------------------------------------------------------------------------
(* The write pipeline.                                                      *)

Room(p) == MaxPending - Len(p)

\* How many of q come no later than the last of p.
Retrieved(q, p) ==
  CHOOSE n \in 0..Len(q) :
    \A i \in DOMAIN q : i <= n <=> \E j \in DOMAIN p : q[i].id <= p[j].id

\* NextMutationBatchAfterBatchId, until none is left or the pipeline is full.
NextBatches(q, p) ==
  LET n == Retrieved(q, p)
  IN  SubSeq(q, n + 1, IF Len(q) < n + Room(p) THEN Len(q) ELSE n + Room(p))

\* Mutant: writes are sent as soon as the stream is open.
WritableWhenOpen(s, h) == s = "Open"

Writable(s, h) == s = "Open" /\ h

Request(n) == [closes |-> n, got |-> Nobody]

\* FillWritePipeline, with the queue q of the current user, the pipeline p and
\* the stream in state s: what fits is added, and sent if the stream is ready
\* for it; an open stream with nothing to do is marked idle; and a stream that
\* is needed is started, after a delay if its last call failed.
FillWritePipeline(q, p, s, h, sent, marked, asked) ==
  LET new    == IF enabled' THEN NextBatches(q, p) ELSE <<>>
      needed == enabled' /\ s \in {"Initial", "Error"} /\ p \o new # <<>>
  IN  /\ pipeline' = p \o new
      /\ wire' = IF Writable(s, h) THEN sent \o WritesOf(new) ELSE sent
      /\ idle' = \/ s = "Open" /\ enabled' /\ p \o new = <<>>
                 \/ marked /\ ~(Writable(s, h) /\ new # <<>>)
      /\ state' = CASE needed /\ s = "Error"   -> "Backoff"
                    [] needed /\ s = "Initial" -> "Starting"
                    [] OTHER -> s
      /\ fetching' = IF needed /\ s = "Initial" THEN asked \cup {Request(closes')} ELSE asked

\* The server may have handled some of what was sent before it learns that the
\* call is over; what it answers is lost.  It handles nothing after that.
CallEnds ==
  /\ \E n \in IF ended THEN {0} ELSE 0..Len(wire) :
       /\ committed' = committed \cup {wire[i] : i \in 1..n}
       /\ last' = IF n = 0 THEN last ELSE [last EXCEPT ![by[wire[n]]] = wire[n]]
  /\ replies' = <<>> /\ greeted' = FALSE /\ ended' = FALSE
  /\ UNCHANGED <<credential, refused>>

\* Mutant: stopping a stream does not count.
NotCounted == closes

\* Close: callbacks of the stream's earlier life are known by this count.
Counted == closes + 1

\* Stop, as far as it goes when the stream is started.
Stopped(s) == IF IsStarted THEN "Initial" ELSE s

StopStream ==
  /\ closes' = IF IsStarted THEN Counted ELSE closes
  /\ handshake' = FALSE
  /\ CallEnds
-----------------------------------------------------------------------------
(* The tasks of the worker queue.                                           *)

\* SyncEngine::WriteMutations
WriteMutations(w) ==
  LET b == [id |-> nextId, write |-> w]
  IN  /\ queue' = [queue EXCEPT ![user] = Append(@, b)]
      /\ nextId' = nextId + 1
      /\ callbacks' = callbacks \cup {[user |-> user, id |-> nextId, write |-> w]}
      /\ UNCHANGED <<enabled, closes, handshake>>
      /\ FillWritePipeline(queue'[user], pipeline, state, handshake, wire, idle, fetching)
      /\ UNCHANGED <<user, reported, credential, replies, greeted, ended, serverVars>>

RunEnable ==
  /\ enabled' = TRUE
  /\ UNCHANGED <<closes, handshake>>
  /\ FillWritePipeline(queue[user], pipeline, state, handshake, wire, idle, fetching)
  /\ UNCHANGED <<localVars, credential, replies, greeted, ended, serverVars>>

RunDisable ==
  /\ enabled' = FALSE
  /\ StopStream
  /\ state' = Stopped(state)
  /\ pipeline' = <<>> /\ wire' = <<>> /\ idle' = FALSE
  /\ UNCHANGED <<localVars, fetching>>

HighestId == LET ids == UNION {{queue[u][i].id : i \in DOMAIN queue[u]} : u \in Users}
             IN  IF ids = {} THEN 0 ELSE CHOOSE id \in ids : \A other \in ids : other <= id

\* RestartNetwork, if the network is enabled: the streams are opened anew and
\* the pipeline is filled from the queue of user u.
RestartNetwork(u) ==
  \/ /\ enabled
     /\ StopStream
     /\ FillWritePipeline(queue[u], <<>>, "Initial", FALSE, <<>>, FALSE, fetching)
  \/ ~enabled /\ UNCHANGED <<fetching, pipeline, state, handshake, closes, idle, callVars, serverVars>>

\* HandleCredentialChange: the queue of the other user is swapped in, its ids
\* counted from the highest on disk, and the streams are opened anew.
HandleCredentialChange(u) ==
  /\ user' = u
  /\ nextId' = IF u = user THEN nextId ELSE HighestId + 1
  /\ UNCHANGED <<queue, callbacks, reported, enabled>>
  /\ RestartNetwork(u)

Reconnect == UNCHANGED <<localVars, enabled>> /\ RestartNetwork(user)

\* ResumeStartWithCredentials: the call is made and counts as open at once.
ResumeStart(u) ==
  /\ state' = "Open"
  /\ credential' = u
  /\ UNCHANGED <<fetching, localVars, enabled, pipeline, handshake, closes, idle>>
  /\ UNCHANGED <<wire, replies, greeted, ended, serverVars>>

\* Mutant: it is not made again.
GivesUp == "Error"

\* A failed call is made again after a delay, if it is still needed.
FailedTo == IF enabled /\ pipeline # <<>> THEN "Backoff" ELSE "Error"

StartFails ==
  /\ state' = FailedTo
  /\ closes' = Counted
  /\ UNCHANGED <<fetching, localVars, enabled, pipeline, handshake, idle>>
  /\ UNCHANGED <<callVars, serverVars>>

\* Mutant: the close count is not compared.
AnyLife(task) == state = "Starting"

SameLife(task) == task.closes = closes

RunTask ==
  /\ work # <<>>
  /\ work' = Tail(work)
  /\ LET task == Head(work)
     IN  \/ task.do = "write" /\ WriteMutations(task.of)
         \/ task.do = "enable" /\ RunEnable
         \/ task.do = "disable" /\ RunDisable
         \/ task.do = "connected" /\ Reconnect
         \/ task.do = "credential" /\ HandleCredentialChange(task.of)
         \/ task.do = "token" /\ SameLife(task) /\ ResumeStart(task.of)
         \/ task.do = "noToken" /\ SameLife(task) /\ StartFails
         \/ /\ task.do \in {"token", "noToken"} /\ ~SameLife(task)
            /\ UNCHANGED <<fetching, localVars, remoteVars, callVars, serverVars>>
  /\ UNCHANGED appVars
-----------------------------------------------------------------------------
(* The stream.                                                              *)

\* OnWriteStreamHandshakeComplete: the whole pipeline is sent.
HandshakeComplete ==
  /\ IsOpen /\ replies # <<>> /\ ~handshake
  /\ handshake' = TRUE
  /\ replies' = Tail(replies)
  /\ wire' = wire \o WritesOf(pipeline)
  /\ idle' = (idle /\ pipeline = <<>>)
  /\ UNCHANGED <<appVars, work, fetching, localVars, enabled, pipeline, state, closes>>
  /\ UNCHANGED <<credential, greeted, ended, serverVars>>

\* Mutant: callbacks stay once they are called.
KeptCallbacks(called) == callbacks

WithoutCallbacks(called) == callbacks \ called

Waiting(b) == {c \in callbacks : c.user = user /\ c.id = b.id}

\* NotifyUser: the callback, if this process has one, is called and dropped.
Tell(b, result) ==
  reported' = [w \in Writes |-> IF \E c \in Waiting(b) : c.write = w THEN result
                                                                     ELSE reported[w]]

NotifyUser(b, result) ==
  /\ callbacks' = WithoutCallbacks(Waiting(b))
  /\ Tell(b, result)

Without(q, b) == LET i == CHOOSE i \in DOMAIN q : q[i].id = b.id
                 IN  SubSeq(q, 1, i - 1) \o SubSeq(q, i + 1, Len(q))

RemoveBatch(b) == queue' = [queue EXCEPT ![user] = Without(@, b)]

\* OnWriteStreamMutationResult
Acknowledged == IsOpen /\ replies # <<>> /\ handshake /\ pipeline # <<>>

MutationResult ==
  /\ Acknowledged
  /\ replies' = Tail(replies)
  /\ NotifyUser(Head(pipeline), "committed")
  /\ RemoveBatch(Head(pipeline))
  /\ UNCHANGED <<enabled, closes, handshake>>
  /\ FillWritePipeline(queue'[user], Tail(pipeline), state, handshake, wire, idle, fetching)
  /\ UNCHANGED <<appVars, work, user, nextId, credential, greeted, ended, serverVars>>

\* OnWriteStreamClose with a permanent error: the write at the front is the
\* one that was refused, and the stream is started again without delay.
WriteRejected ==
  /\ IsOpen /\ ended /\ replies = <<>>
  /\ handshake /\ pipeline # <<>>
  /\ closes' = Counted
  /\ NotifyUser(Head(pipeline), "rejected")
  /\ RemoveBatch(Head(pipeline))
  /\ handshake' = FALSE
  /\ CallEnds
  /\ UNCHANGED enabled
  /\ FillWritePipeline(queue'[user], Tail(pipeline), "Initial", FALSE, <<>>, FALSE, fetching)
  /\ UNCHANGED <<appVars, work, user, nextId>>

\* The same with any other error, before the handshake or after it.
StreamFails ==
  /\ IsOpen
  /\ Event
  /\ closes' = Counted
  /\ state' = FailedTo
  /\ handshake' = FALSE
  /\ CallEnds
  /\ wire' = <<>> /\ idle' = FALSE
  /\ UNCHANGED <<authUser, by, written, work, fetching, localVars, enabled, pipeline>>

BackoffElapsed ==
  /\ state = "Backoff"
  /\ state' = "Starting"
  /\ fetching' = fetching \cup {Request(closes)}
  /\ UNCHANGED <<appVars, work, localVars, enabled, pipeline, handshake, closes, idle>>
  /\ UNCHANGED <<callVars, serverVars>>

IdleTimeout ==
  /\ idle
  /\ StopStream
  /\ state' = Stopped(state)
  /\ wire' = <<>> /\ idle' = FALSE
  /\ UNCHANGED <<appVars, work, fetching, localVars, enabled, pipeline>>
-----------------------------------------------------------------------------
(* The server, and the end of the process.                                  *)

Greet ==
  /\ IsOpen /\ ~greeted
  /\ greeted' = TRUE
  /\ replies' = Append(replies, Hello)
  /\ UNCHANGED <<appVars, work, fetching, localVars, remoteVars, credential, wire, ended, serverVars>>

\* The writes of a call are handled in the order they were sent.
Commit ==
  /\ IsOpen /\ ~ended /\ wire # <<>>
  /\ LET w == Head(wire)
     IN  /\ committed' = committed \cup {w}
         /\ last' = [last EXCEPT ![by[w]] = w]
         /\ replies' = Append(replies, w)
  /\ wire' = Tail(wire)
  /\ UNCHANGED <<appVars, work, fetching, localVars, remoteVars, credential, greeted, ended, refused>>

\* A write that can never succeed ends the call, after the replies before it.
Refuse ==
  /\ IsOpen /\ ~ended /\ wire # <<>>
  /\ ended' = TRUE
  /\ refused' = refused \cup {Head(wire)}
  /\ UNCHANGED <<appVars, work, fetching, localVars, remoteVars>>
  /\ UNCHANGED <<credential, wire, replies, greeted, committed, last>>

\* The process ends, and is launched again with the user Auth remembers: the
\* queues are on disk, whoever waited for a write is gone.  It may end when the
\* app was told of a commit and the write is still in the queue: NotifyUser
\* comes before AcknowledgeBatch.
Launch ==
  /\ Event
  /\ work' = <<>>
  /\ user' = authUser
  /\ nextId' = HighestId + 1
  /\ callbacks' = {}
  /\ enabled' = TRUE /\ closes' = 0 /\ handshake' = FALSE
  /\ CallEnds
  /\ FillWritePipeline(queue[authUser], <<>>, "Initial", FALSE, <<>>, FALSE, {})
  /\ UNCHANGED <<authUser, by, written, queue>>
  /\ \/ UNCHANGED reported
     \/ Acknowledged /\ Tell(Head(pipeline), "committed")
-----------------------------------------------------------------------------
Fetched(f) == AuthToken(f) \/ CredentialsReady(f) \/ CredentialsFail(f)

Read == HandshakeComplete \/ MutationResult \/ WriteRejected

Serve == Greet \/ Commit \/ Refuse

Next ==
  \/ SetData \/ EnableNetwork \/ DisableNetwork \/ ConnectivityChanges \/ Launch
  \/ \E u \in Users : AuthStateDidChange(u)
  \/ \E f \in fetching : Fetched(f)
  \/ RunTask \/ Read \/ StreamFails \/ BackoffElapsed \/ IdleTimeout
  \/ Serve

Spec == Init /\ [][Next]_writeVars

\* The worker queue runs, tokens come or fail, delays end, and a server that
\* is reached answers; the app and the user need do nothing.
FairSpec ==
  /\ Spec
  /\ WF_writeVars(RunTask) /\ WF_writeVars(Read) /\ WF_writeVars(BackoffElapsed)
  /\ WF_writeVars(Serve) /\ WF_writeVars(\E f \in fetching : Fetched(f))
-----------------------------------------------------------------------------
\* Every write travels under the credentials of the user who was signed in
\* when the app made it, however late, and whoever signed in meanwhile.
OwnCredentials == \A i \in DOMAIN wire : by[wire[i]] = credential

\* What the app is told of a write is what became of that write, although
\* replies are matched with writes by position and batch ids are used again.
ResultsCorrelate ==
  \A w \in Writes :
    /\ reported[w] = "committed" => w \in committed
    /\ reported[w] = "rejected" => w \in refused

\* Writes are sent again when their reply was lost, so the server may go back
\* to an earlier one for a time; but once a user's queue is empty the last of
\* that user's writes that was never refused is the one that stands.
ServerEndsWithLast ==
  \A u \in Users :
    queue[u] = <<>> => \A w \in committed \ refused : by[w] = u => w <= last[u]

\* The client implements WriteQueue: no write is lost, settled out of turn,
\* or reported twice, whatever fails and whoever signs in.
Promised == INSTANCE WriteQueue WITH unsettled <- [u \in Users |-> WritesOf(queue[u])]
QueueSpec == Promised!Spec

\* A user who stays signed in, with the network enabled, gets every write
\* settled, once streams stop failing.
WritesSettle ==
  \A u \in Users :
    <>[](user = u /\ enabled) => []<>(queue[u] = <<>>)
=============================================================================
