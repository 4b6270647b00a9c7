----------------------------- MODULE LiveFrames -----------------------------
(***************************************************************************)
(* The server's upload_clips handler (model_training_routes.py): a batch   *)
(* of frames is written to ./live_frames, one file per frame.  The app     *)
(* names the frames of every batch alike (frame_0.jpg ... frame_9.jpg), so *)
(* every request writes the same files.                                    *)
(*                                                                         *)
(* Handlers are coroutines of one event loop.  A handler opens a file,     *)
(* which truncates it, and only then awaits the bytes to write: the await  *)
(* is the one place where other handlers run.  Between two awaits a        *)
(* handler writes and closes one file and opens the next.                  *)
(***************************************************************************)
EXTENDS Naturals, FiniteSets

CONSTANTS
  Requests,      \* the upload_clips requests
  BatchSize      \* frames in a request

\* What the handler and its proofs take for granted of a request.
LiveBatchSize == BatchSize \in Nat \ {0}

Files == 1..BatchSize

VARIABLES
  sent,          \* requests handed to the network by the clients
  taken,         \* those that reached their handler, or never will
  handlers,      \* a running handler's open file: request -> file
  live,          \* ./live_frames: the requests whose bytes are in a file
  answered,      \* requests whose handler returned "uploaded successfully"
  undisturbed,   \* history: running requests no other handler ran beside
  whole          \* history: the last request to start, if it was answered
                 \* and no other handler ran beside it

serverVars == <<taken, handlers, live, answered, undisturbed, whole>>
liveVars == <<sent, serverVars>>

Running == DOMAIN handlers

LiveTypeOK ==
  /\ taken \subseteq sent
  /\ Running \subseteq taken
  /\ handlers \in [Running -> Files]
  /\ live \in [Files -> SUBSET taken]
  /\ answered \subseteq taken \ Running
  /\ undisturbed \subseteq Running
  /\ whole \subseteq answered

LiveInit ==
  /\ taken = {}
  /\ handlers = [r \in {} |-> 1]
  /\ live = [i \in Files |-> {}]
  /\ answered = {}
  /\ undisturbed = {}
  /\ whole = {}
-----------------------------------------------------------------------------
\* Mutant: open(path, "ab").
AppendTo(i) == live[i]

\* open(path, "wb")
Truncated(i) == {}

\* The bytes of file i once r has written it.  They start at the offset of
\* r's own handle, so what others wrote since r opened the file survives
\* beyond r's last byte.
Written(r, i) == { {r} \cup rest : rest \in SUBSET live[i] }

Without(r) == [q \in Running \ {r} |-> handlers[q]]

NextFile(i) == i + 1

\* The network delivers each request at most once: the app never retries.  A
\* handler that cannot open its first file changes no more than a lost request.
Lose(r) ==
  /\ r \in sent \ taken
  /\ taken' = taken \cup {r}
  /\ UNCHANGED <<handlers, live, answered, undisturbed, whole>>

\* The handler starts and opens its first file.
UploadClips(r) ==
  /\ r \in sent \ taken
  /\ taken' = taken \cup {r}
  /\ handlers' = [q \in Running \cup {r} |-> IF q = r THEN 1 ELSE handlers[q]]
  /\ live' = [live EXCEPT ![1] = Truncated(1)]
  /\ undisturbed' = IF Running = {} THEN {r} ELSE {}
  /\ whole' = {}
  /\ UNCHANGED answered

\* The bytes of the open file arrive: it is written and the next one opened.
WriteFile(r) ==
  /\ r \in Running
  /\ handlers[r] < BatchSize
  /\ \E bytes \in Written(r, handlers[r]) :
       live' = [live EXCEPT ![handlers[r]] = bytes,
                            ![NextFile(handlers[r])] = Truncated(NextFile(handlers[r]))]
  /\ handlers' = [handlers EXCEPT ![r] = NextFile(@)]
  /\ UNCHANGED <<taken, answered, undisturbed, whole>>

\* The last file is written and the request answered.
Answer(r) ==
  /\ r \in Running
  /\ handlers[r] = BatchSize
  /\ \E bytes \in Written(r, BatchSize) : live' = [live EXCEPT ![BatchSize] = bytes]
  /\ handlers' = Without(r)
  /\ answered' = answered \cup {r}
  /\ undisturbed' = undisturbed \ {r}
  /\ whole' = undisturbed \cap {r}
  /\ UNCHANGED taken

\* The handler ends with status 500 and the files before its own stay written.
\* When the read raised, its file is as it was; when the write did, some of the
\* bytes may be there; when the next file could not be opened, all of them, and
\* that next file was not touched.
Fail(r) ==
  /\ r \in Running
  /\ \E bytes \in Written(r, handlers[r]) \cup {live[handlers[r]]} :
       live' = [live EXCEPT ![handlers[r]] = bytes]
  /\ handlers' = Without(r)
  /\ undisturbed' = undisturbed \ {r}
  /\ UNCHANGED <<taken, answered, whole>>

\* The server process restarts (uvicorn --reload): no handler survives.
Restart ==
  /\ Running # {}
  /\ handlers' = [r \in {} |-> 1]
  /\ undisturbed' = {}
  /\ UNCHANGED <<taken, live, answered, whole>>

ServerStep == \E r \in Requests :
  Lose(r) \/ UploadClips(r) \/ WriteFile(r) \/ Answer(r) \/ Fail(r)

ServerNext == (ServerStep \/ Restart) /\ UNCHANGED sent

\* The event loop resumes every handler whose bytes are there.
Resume(r) == (WriteFile(r) \/ Answer(r) \/ Fail(r)) /\ UNCHANGED sent

\* The clients, when this module is checked on its own.
Send(r) ==
  /\ r \notin sent
  /\ sent' = sent \cup {r}
  /\ UNCHANGED serverVars

Init == sent = {} /\ LiveInit

LiveNext == ServerNext \/ \E r \in Requests : Send(r)

LiveSpec == Init /\ [][LiveNext]_liveVars
-----------------------------------------------------------------------------
\* A request no other handler ran beside leaves exactly its frames in
\* live_frames, each in its file, whatever earlier requests left there, until
\* the next request starts.
WholeClip == \A r \in whole : \A i \in Files : live[i] = {r}

\* "Files uploaded successfully" (model_training_routes.py:18): when a request
\* is answered, its files hold its frames.
AnsweredIsOnDisk ==
  [][\A r \in answered' \ answered : \A i \in Files : live'[i] = {r}]_liveVars
=============================================================================
