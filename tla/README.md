# A verification development for Courtside

Courtside films basketball with a phone and derives players, possession and
events from the film. The repository holds an iOS app (Swift, under
`src/frontend/courtside`), a FastAPI server (Python, under `src/backend`) and a
large amount of vendored dependencies, of which only the part the app's data
depends on most, the write path of the Firestore client, is modelled. This
directory holds TLA+ models of the parts in which steps of several actors meet,
the TLC configurations that check them, and TLAPS proofs of their main
properties.

Paths below are relative to `src/`; *views* is `frontend/courtside/Views`,
*managers* is `frontend/courtside/Managers`, *backend* is `backend`, *firestore*
is `frontend/Pods/FirebaseFirestore/Firestore/core/src`.

## 1. Inventory

| Component | State it keeps | Operations | Talks to |
|---|---|---|---|
| **Live view**: *views*/RealTimeClipView.swift | `isSending`, `frameBuffer`, the capture session, three dispatch queues | appear/disappear, switch camera, start/stop sending, `captureOutput`, append, clear, `sendFrames` | upload_clips over HTTP |
| **Clip receiver**: `upload_clips` in *backend*/routes/model_training_routes.py | the files of `./live_frames` | one handler, awaiting once per file | live view |
| **Training server**: `upload_video`, `train_model`, `test_model`, *backend*/logic/model_training_logic.py | `UPLOAD_DIR`, `DATASET_DIR` with its three splits, `data.yaml` | upload, reset of the dataset, extraction and labelling, training, clearing of the uploads | enrolment; the YOLO library |
| **Game events**: *backend*/logic/predictions_logic.py | window of frame states, previous aggregate, events, `player_stats` | start of a video, one step per frame, end of a video | predict_video route; the detector |
| **Enrolment**: *views*/StartGameView.swift with CameraModel and *managers*/GameManager.swift | wizard step, player index, names, recording flag, `videoURL`, `isGameActive` | edit names, confirm, back, record, stop, upload, train, finish | AVFoundation; upload_video and train_model over HTTP |
| predict_video route: *backend*/routes/predictions_routes.py | none | one handler | game events |
| **Game upload and playback**: *views*/UploadGameView.swift, WatchView.swift, VideoPicker.swift | chosen video, trim range, spinner and message, the export sessions, two fixed files | pick, slide, submit, leave, relaunch, play | upload_game over HTTP, AVFoundation |
| **Game receiver**: `upload_game` in *backend*/routes/model_training_routes.py | the file of the game | one handler, one await | game upload |
| **Authentication and Firestore**: AuthenticationManager, FirestoreManager, the Authentication views | the user shown, the spinner; in Firebase: accounts, the account signed in, profiles, unsent writes | sign up, in and out, fetch and save a user | Firebase |
| **Firestore client, write path** (vendored): *firestore*/core, local, remote | a queue of writes per user on disk, the write pipeline, the write stream, callbacks | write, change of user, network on and off, token, open, handshake, result, refusal, failure, delay, idleness, relaunch | authentication; Firestore's servers |
| Commentary: *backend*/logic/elevenlabsgemini.py, videooverlap.py | segments of audio | one sequential script | two web services |
| Statistics screen: StatsView | fetched games | one fetch | Firestore |
| VideoUploadManager | progress | none that is called | nobody |
| Navigation, static screens, model types | selection | presentation | all screens |

**How they interact.** The live view sends batches of ten frames to the clip
receiver, one HTTP request per batch on connections of their own, with no
acknowledgement looked at. The enrolment sends one video per player and then a
request to train; nothing orders these requests at the server. The game upload
sends one trimmed video and plays what it is answered. Signing up writes a
profile through Firestore, which keeps the write on the phone until its server
has it. The game events are computed by a request of their own, in the same server process. The server
runs all async handlers on one event loop, so its handlers interleave only
where they await; `uvicorn --reload` (backend/app.py:12) restarts the process
whenever a source file changes, whatever is running.

**What is hard, component by component, and what makes it correct.**

* *Live view.* Four threads share the flag and the buffer. `isSending` is written on the
  main thread and tested on the capture queue, the frame is converted, and only then
  is an append queued; the clear of a stop is queued in a statement after
  the one that flips the flag. Correct means: no frame is sent twice or out
  of order, the buffer never passes its limit (it is cut on *equality* with
  10), sessions do not mix, a stop drains the buffer, no batch once cut is
  forgotten, even when the screen is left.
* *Clip receiver.* Every batch writes `frame_0.jpg` to `frame_9.jpg`, and a
  handler opens (truncates) a file *before* it awaits the bytes. Correct means:
  what is on disk is one clip, and every handler ends.
* *Training server.* Uploads truncate before they await; a completed upload
  empties the dataset, a completed training empties the uploads, one that fails
  does neither; classes are positions in a directory listing. Correct means:
  no answered video vanishes untrained, train and validation sets are
  disjoint, labels name the player.
* *Game events.* A sliding window with an exception for the first window,
  an aggregate compared with its predecessor, a precedence among event types,
  statistics that outlive the video. Correct means: each approach of the ball to
  a rim is one shot, the events tell an unbroken history of possession, the
  statistics are the sum of the events.
* *Authentication.* Chains of requests whose answers come late, overlap, fail in
  the middle or get lost, while Firebase keeps the signed-in account apart from the
  user shown. Correct means: the user shown is signed in, a refused chain
  ends, the spinner and the network of Firestore come back.
* *Game upload.* A screen whose Submit stays enabled, one temporary file every
  export is written to and every upload is read from later, one file the answer
  and the WatchView both write. Correct means: a success is the game of that Submit,
  the WatchView plays what it fetched, the spinner ends.
* *Firestore client.* Replies carry no name and are matched by position, tokens
  arrive for streams that were closed since, the user changes while writes are on the wire,
  a reply is lost and its write sent again, ids of writes are used again after a
  restart. Correct means: no write is lost, settled twice or out of turn, sent
  as another user, or reported with another's fate.
* *Enrolment.* A wizard whose "current" player moves while files are still
  being reported by another thread. Correct means: every player has a turn, an
  upload carries the video of its player, the camera films only when the screen
  says so.

`PROJECT.json` lists every component with its status, and under "hazards" the
lines where each of these things bites, with the properties that watch it. Several
properties are about what is undisturbed, in order, or first, because in the other cases the code
does go wrong: a hazard's note then says which part of it is exempt, and a hazard all of
which is exempt names no property.

## 2. The modules

| Module | Models | Built on |
|---|---|---|
| `CaptureSession` | the AVCaptureSession of both camera models: an operation is the set of sessions it may leave behind | - |
| `ClipFeed` | **abstract**: what a receiver is promised, a feed of ordered clips | - |
| `ClipCamera` | the live view | `CaptureSession`; implements `ClipFeed` |
| `LiveFrames` | upload_clips | - |
| `ClipStream` | **composition**: live view, network and receiver | `ClipCamera`, `LiveFrames` |
| `TrainingServer` | the training side of the server | - |
| `EventWindow` | the game events | - |
| `EnrolmentRequests` | what a request of the enrolment is, and the sequence of those sent | - |
| `EnrolmentFeed` | **abstract**: the requests an enrolment may send | `EnrolmentRequests` |
| `StartGame` | the enrolment | `EnrolmentRequests`, `CaptureSession`; implements `EnrolmentFeed` |
| `Enrolment` | **composition**: any such requests, the network and the training server | `EnrolmentFeed`, `TrainingServer` |
| `GameUpload` | **composition**: game upload, playback and upload_game | `LiveFrames` |
| `Authentication` | signing up, in and out, Firestore below it | - |
| `WriteQueue` | **abstract**: what Firestore promises an app that writes | - |
| `FirestoreWrites` | the write path of the Firestore client, and its server | implements `WriteQueue` |
| `*Proofs` | the theorems of a module (`ClipStreamProofs`: of `ClipCamera` too; `EnrolmentProofs`: of `StartGame` too, and of both together) | that module and TLAPS |
| `MC*` | values and symmetries for TLC | that module |

Definitions called "Mutant" in a comment are not part of any specification:
each is a plausible mistake in the definition below it, against which one of
the properties was tried and found to fail, so that the property is known to
depend on the code.

### ClipCamera and CaptureSession

One action per piece of code that runs without another thread getting in
between. The button is two actions (`StopSending`, then `ClearFrameBuffer`),
since the toggle and the queued `removeAll` are two statements; no other
main-thread handler starts between them (`MainThreadFree`). `captureOutput` is
`CaptureOutput` (the guard), then `QueueAppend` or `ConversionFails` (the
image could not be made, or the JPEG). `blocks` is the serial bufferQueue; its
head is run by `RunAppend`, which appends and, on the full count, cuts the
batch, or by `RunClear`. `outbox` is the global concurrent queue.

Two points deserve care. The read of `isSending` on the capture queue races with
the button's write; a frame reads it once, and whatever value the race yields is
one the flag has had, so the race is the same as reading earlier, which the
interleaving of the actions already gives. And leaving the screen (`Disappear`) only
stops the session: what was under way goes on, as long as something holds the model.
A running `captureOutput`, the block of a clear and a batch to send hold it, a queued append
holds it weakly; so a frame queued before a pending clear may still fill a batch. When nothing
of these is left, `Release` drops the queue and the buffer, but never the batches cut.
SwiftUI does not say when it lets go of the model of a view that went, so `Release` may be late.
The view is shown anew only after it: two models alive at once are left out. The guard of `sendFrames` on its URL is on a constant
and cannot fail. The frame's picture, the preview layer and error texts
are left out; a frame is its number and the session it was captured in.

`camera` matters because frames come only from a running session that has an
input: `SwitchCamera` may lose the input for good and `setup` may leave a session
that never runs.

### LiveFrames and ClipStream

A handler is one entry of `handlers`: the file it has open. Between two awaits
it writes and closes one file and opens the next, which truncates it:
`UploadClips`, `WriteFile`, `Answer`. The await of `UploadFile.read` suspends
only when the server has rolled the upload to disk; whether it has depends on its size,
so the model lets every one suspend. A write goes to the offset of the
handle, so bytes another handler wrote to the same file may survive behind it
(`Written`). `Fail` covers the read (the open file stays as it is), the write (some of
its bytes may be there) and the open of the next file (which is then not
truncated); a missing `./live_frames` (no such directory is in the repository, and nothing
makes one) changes no more than a request that was lost.

`ClipStream` instantiates the receiver with the batches of the live view as
its requests. The network (external) delivers each at most once, in any order:
URLSession is not asked to retry.

### TrainingServer

`Open` is an upload handler up to its await; `UploadVideo` and `TestModel` are the
rest. An upload keeps its handle even when a training deletes the file
meanwhile (`linked`): the bytes then go nowhere. `train_model` is one action,
for its handler never awaits; that it may raise at any point, or die, is in the
choices of whether data.yaml was written, how much was extracted and whether the training
completed. `Fail` ends an upload or an image before its answer: while its bytes are read, when some were
written, or with a part of the reset done (`PartOfReset`). `folders` are the splits that
have their directories: the repository has none, the first upload makes them, and an extraction
into a missing one writes no image and raises at the label (`Extract`). The
detector (external) sees nothing, only objects that are not persons, or a
person. It decides whether a label file is rewritten with lines, emptied, or left as it was.

`player_name` and `player_team` are query parameters in the server and form
fields in the app: as the two stand, every video is saved as `_.mov`. The
module leaves the name open (`NameOf`), so this is the instance in which all
videos have one name. `Listed` are the names process_videos takes, those in `.mp4`, `.avi` or `.mov`:
a video of another name (`.MOV` is one: the filter minds case) is kept, never trained on, and deleted
by the next training that completes, which `VideoAccounted` says in its condition. Class numbers are positions counted from 1 here and from 0
in the code.

Left out: a file that cannot be deleted (the code catches that per file); two
names that differ only in their extension, which share their images; the two directories of a split are made and deleted
together.

### EventWindow

The geometry (distance of box centres below 50 pixels) is abstracted to its
answers: for each ball of a frame, the players near it in detection order,
and whether it is near a rim. Everything decided from these is as in the
code: the first ball with a player near it decides possession, the newest frame
the possession of a window, any frame its shot. The first window gives no event
(`FillWindow`); from then on each frame slides the window (`SlideWindow`). `at`
counts frames from 1; the code's `frame_index` counts from 0. `stats` is
not reset by `StartVideo`, as in the code. A shot is always "Undecided", so the
branch that gives two points is dead and `ShotPoints` is 0.

### StartGame

The wizard's steps are `step`; `index` is `currentPlayerIndex`. AVFoundation
(external) is `filming` and `rolling`: files are reported in the order they were
begun, each well or with an error, any time after they were stopped; one that is
still being filmed ends by itself only with an error. `videoURL` is assigned on
the thread of the report and read on the main thread; the race is a read
before or after. A video whose file is gone when it is uploaded is a request
without a file, `NoVideo`.

The number of name fields is abstracted: any of `MaxPlayers` fields of a team can be
edited at step 0. Starting to record without a camera raises and ends the app,
which `Leave` includes. A double tap that reaches a button already replaced is left out.

### EnrolmentRequests, EnrolmentFeed and Enrolment

`EnrolmentFeed` forgets the wizard: what reaches the network is a sequence of
uploads and trainings in any order, in which the recordings uploaded never go
back. `StartGame` implements it (`RequestFeed`, a theorem for all bounds), so
`Enrolment` can take these sequences for the phone and be small enough to
hold the whole of `TrainingServer` beside it; `EnrolmentProofs` puts the wizard back (`SystemSpec`). Requests are named by their position;
each settles once: it reaches its handler (`UploadArrives`, `TrainArrives`), is
refused because it has no file (`Refused`), or is `Lost`. `NewFilename` is
the name upload_video computes when, as here, the form fields of the app do not reach
its query parameters. `Residents` are the videos UPLOAD_DIR comes with (the repository holds `my_vid.mp4`
and `test_a.mov`), under names no upload has; the server starts with any of them and trains on them beside what
is uploaded. `orderly` is history: nothing was lost, overtook another,
or failed.

### GameUpload

Submit begins an export session (`TrimAndUpload`) after removing the temporary
file. An export creates that file, completes or fails on a thread of its
own (`CreateFile`, `ExportCompletes`, `ExportFails`) and queues a block on the
main thread, which reads the file as it is *then* (`UploadVideo`): what a request
`carries` is decided long after Submit. The answer is queued too and saved to
the one output file; `ShowAnswer` opens the WatchView, whose own request
(`fetches`) overwrites that file with whatever the server answers. The handler is
`LiveFrames` with one file. `Leave` and `Relaunch` make the screen anew;
blocks, exports and requests of the old screen go on (a relaunch ends them), and `mine` tells
which of them still have a screen to report to. That an export fails when the file
exists is AVFoundation's documented behaviour; that it may not notice its file being
removed is left open. `overlapped` is history: the last Submit was pressed while something
of an earlier one was under way. Left out: which seconds are trimmed, the preview, a
failure to read the file's bytes, an app without a documents directory (line 211), which no device has.

### WriteQueue and FirestoreWrites

`setData` of the app ends in vendored code (the repository holds its
source). Everything in it runs on one worker queue (`work`), to which the app, Firebase
Auth and the token providers add tasks from other threads; completions of the stream
and timers run on it too, but are dropped with the stream they belong to.
`RunTask` runs one task: a write (`WriteMutations`, of SyncEngine and LocalStore), a
change of user (`HandleCredentialChange`), network on, off or changed, a token.
`FillWritePipeline` is the code's function: fill the pipeline from the queue on
disk, send what the stream is ready for, mark an open stream idle, start a
stream that is needed. The life of the stream is `state`, as in stream.cc;
`closes` is `close_count_`, by which a token asked for on behalf of an earlier life is
told (`SameLife`). A reply settles `Head(pipeline)`, whatever it was meant for.

The app is told of a result before the write is removed from the queue (sync_engine.cc:358 and 362, one
task): the process may end between the two, which is a choice of `Launch` when a commit was read
(`Acknowledged`). The write is then sent and settled again, and nobody is told twice. The same of a refusal differs
in nothing but what an app that is gone was told, and is left out.

The server (external) handles the writes of a call in order, may commit a write whose
reply is lost, and may refuse one, which ends the call. Assumed of
gRPC and the server: a call ends only with an error status; nothing of an ended
call is handled after the client's next call; an error the client takes to be permanent concerns the
write being handled. Left out: the watch stream, documents and overlays,
transactions, the stream token (which the handshake does not send), the
lengths of delays, errors of the disk.

`WriteQueue` is the promise: a durable queue per user, settled in turn, each
write reported at most once and not before its turn: as it leaves the queue, or just before
and then the process ends. `TypeOK` includes `AssertionsHold`, what the code itself
asserts with `HARD_ASSERT` at its lines: of results and refusals, of the idle stream, and of the state a token finds (stream.cc:171).

### Authentication

A press of a button begins a *chain*: requests to Firebase (`asked`), each answered
by a completion that, on the main queue (`main`, in order), asks the next or
ends the chain. `SignUp`, `SignIn`, `SignOut` and `Launch` begin chains; the answers are
`CreateUser`, `SignInAnswered`, `GetDocument`, `DisableNetwork`, `EnableNetwork` and
`Acknowledge`; `RunMain` runs a block: `StopsLoading`, `ShownAfter` and
`Follows` are what it assigns and asks. No button is disabled while a
chain is under way, so chains overlap; `overlapped` is history and says that one
began before the one before it ended.

Firebase is external and modelled by its documented behaviour: it keeps the signed-in account
and writes not yet acknowledged over launches; a write is acknowledged only
while the network is enabled; a profile is read from the server or from the
phone; the answer to `createUser` may be lost after the account was made; every
request may fail. Accounts may exist before the app starts (`Init`). The check of
the repeated password, error texts and the dismissed sheet are left out, and so is
the `catch` of `setData`, which is reached only when a user cannot be encoded.
When signing out throws, only an error text is set: no action.

## 3. Runs

All bounds are constants of the modules and are guards of actions.

| Run | Question | Bounds |
|---|---|---|
| live_view | Is what the live view sends ordered, unmixed, complete, and does it drain? | batches of 3, 6 frames, 3 sessions |
| clip_stream | End to end: is a request nobody ran beside whole, is the clip on disk one clip, does each batch settle? | batches of 3, 6 frames, 2 sessions |
| live_frames_answered | Are the files of an answered request on disk? **No** | 2 requests of 2 files |
| events | Are shots, possession, dribbles and statistics told right? | 2 players, window of 2, 7 frames |
| training_server | Do videos, splits and labels survive every order and failure? | 3 videos (two of one name), 1 image, 2 trainings, 2 splits, videos of 1 frame, all names listed |
| start_game | Has each player a turn, is an own video preferred, is filming visible, are the requests an `EnrolmentFeed`? | 2 names, 2 players a team, 2 recordings, 2 requests |
| start_game_video | Is the video uploaded the current player's? **No** | the same |
| enrolment | What is a training fed when all requests of an enrolment arrive in order? The last video alone, beside those that were there | 1 name, 1 recording, 1 video there before, 4 requests, 1 training |
| enrolment_trained | Is every player whose upload was answered trained on? **No** | 2 names, 1 recording, 1 video there before, 3 requests |
| game_upload | Is a success the game of that Submit, does the WatchView play what it fetched, does the spinner end? | 2 videos (of lengths 1 and 2), 2 submissions |
| authentication | Is the user shown signed in, do refused chains end, do spinner and network come back? | 2 users, 3 chains |
| firestore_writes | Does each write travel as its user, is its fate told right, does the last one stand, is the queue kept, do writes settle? | 2 users, 3 writes, pipeline of 2, 2 events (changes of user, of the network, failures, launches) |

The three violations are the findings in `PROJECT.json`; each quotes the line of
the repository that says otherwise.

**Why the bounds are enough.** *live_view*: with batches of 3 the first frame,
which may be stale, is distinguishable from two that must agree; 6 frames make two full batches, hence an order
between batches; 3 sessions let two clears be pending across a session in between. *clip_stream*: two batches are
two requests, which overlap or follow each other in either order; three files are a first, an inner and a last one.
*events*: a window of 2 has a frame that
enters, one that stays and one that leaves; 7 frames allow a shot to enter,
expire and enter again, and two or three videos after each other; the detections include no
ball, two balls, ties and players near a ball nobody else is near. *training_server*: two videos
of one name collide and a third differs in name so that listing orders
matter; two trainings make a repeated one; two splits let a frame be in both, and one frame per video suffices because
no property relates two frames of a video. The two videos of one name are interchangeable, hence the symmetry; names that are not listed are only in the theorems. *start_game*: both teams can hold the same name or
different ones; two recordings make an earlier and a later report. Names and players are symmetric:
no definition tells two apart, and no liveness is checked in those runs. *enrolment*: four requests are three
uploads and a training anywhere among them, or two trainings, with a video or none; requests are told apart by their position, so one recording suffices (that recordings advance is `NewestRecording`, a theorem).
*game_upload*: two submissions overlap in every way, or follow each other; a picked video may be shorter than the trim of
the one before. *authentication*: three chains
let two overlap and a third follow or sign out; relaunches that ask for nothing are not bounded; two users allow
one to be signed in while another signs up or in. *firestore_writes*: three writes overflow a pipeline of two; two
events leave and return to a user, or lose a reply and then the process; longer histories are covered by the theorems.

The runs without `CHECK_DEADLOCK FALSE` never stop: a view can always
be opened or left. The others may: all requests have been handled, or the bound on
frames is used up.

## 4. Fairness

Fairness is assumed of the machinery only, never of the user, the camera or
the network's success:

* `ClipCamera!Fairness`: a button handler that began ends; a frame being
  converted is queued or dropped; a serial queue with blocks runs them; the
  concurrent queue runs each block it was given. This is what GCD and the run
  loop provide.
* `ClipStream` adds that the event loop resumes each handler whose bytes
  have come (`LiveFrames!Resume`), or it fails: the bytes of a request are in the
  server before its handler starts (FastAPI parses the form first), so no client can
  withhold them. And that a request given to URLSession arrives or is given up,
  which its timeout enforces.
* `GameUpload!Fairness`: an export ends, one way or another; a request is answered
  or times out; the main queue runs. The server is given none: a request it never
  answers times out.
* `FirestoreWrites!FairSpec`: the worker queue runs its tasks, a token comes or
  fails, a delay ends, a server that is reached answers, and what it
  answers is read. Nothing is asked of the user or of the connection:
  failures are bounded by `MaxEvents`, so "once streams stop failing" is part of
  the property's meaning there.
* `Authentication!Fairness`: the main queue runs its blocks and Firebase answers each
  request, with an error if need be (they time out). A write may stay
  unacknowledged for ever, as Firestore says it does offline.

All of it is weak: no step waits for a recurring opportunity. Under it
TLC checks `StopDrains`, `EveryBatchSettles`, `UploadEnds`, `LoadingEnds`,
`NetworkComesBack` and `WritesSettle`.

## 5. Proofs

Each theorem is about all values of the constants that satisfy the named
assumptions of the module (batch size positive, bounds natural numbers, markers
not frames, an image never named like a video, and the like). The bounds
remain, but they are arbitrary.

| Module | Theorems |
|---|---|
| `ClipStreamProofs` | of `ClipCamera`: `TypeCorrect`, `Staleness`, `Order`, `Refinement`, `Clearing`, `Draining`, `Handover`, `BatchesFit`; of the composition: `Wholeness`, `OneClip` |
| `LiveFramesProofs` | `LiveType`, `Wholeness` |
| `EventWindowProofs` | `TypeCorrect`, `Shots`, `Possession`, `Dribbles`, `Statistics` |
| `TrainingServerProofs` | `TypeCorrect`, `Separation`, `Labelling`, `Accounting` |
| `EnrolmentProofs` | of `StartGame`: `TypeCorrect`, `Enrolment`, `Filming`, `OwnTake`, `Teams`, `FeedRefinement`; of `Enrolment`: `LastUpload`, `NewestRecording`, `ServerRefinement`, `ServerPromises`, `PhoneRefinement`; of both together: `SystemRefinement`, `WholeEnrolment` |
| `GameUploadProofs` | `TypeCorrect`, `Stored`, `Fetched`, `SpinnerIsAwaited` |
| `AuthenticationProofs` | `TypeCorrect`, `Accounts`, `SignedIn`, `LoadingIsAwaited`, `OfflineIsAwaited` |
| `FirestoreWritesProofs` | `TypeCorrect`, `Credentials`, `Correlation`, `LastWriteStands`, `QueueRefinement`, `Unstranded` |

Every invariant, action property and refinement that a passing run checks is stated by one
of these theorems. The others state what no run checks: the safety halves of the liveness properties, the lemmas
compositions instantiate, and the composition of the wizard with the server.

*ClipCamera.* The buffer and the queued blocks are seen as one sequence,
`Queue`: an append moves a frame from one to the other without changing
it. `StaleInv` says of the sequence that, between clears, only its first frame can be older than those after it,
and that what was captured before the last stop is behind a pending clear except for the frame in
conversion. `OrderInv` says that batches, queue and the frame in
conversion are numbered in increasing order. `ClearedInv` says that a
queued clear has only frames of ended sessions before it. None of the properties is inductive
without them, since what is cut or cleared was decided when it was queued. `Refinement` is the step
simulation of `ClipFeed`: a cut of a batch is `Emit`, with `AtMostOneStale` and `FramesInOrder`
giving its guards, and every other step a stutter. `BatchesFit` needs `CountInv`: the last frame of batch
k is at least the k-th multiple of the batch size, and the frames in the buffer come after it, each by one more.

*LiveFrames.* `WholeInv`: while an undisturbed handler runs it is the only one,
and the files before its own hold its bytes alone and the open one is empty. Its
step lemmas say nothing of who sends requests, so that compositions can instantiate them.

*ClipStream.* Every step of the composition is a step of the live view, or one of the receiver
beside which requests are only added (`Steps`). So the theorems of the parts hold of
the whole, and `OneClip` combines four of them: the files are one request's (`Wholeness`), which is a
batch that was cut (`LiveTypeOK`), in order (`Order`) and unmixed (`Staleness`).

*GameUpload.* `OnePlace`: a submission is being exported, asks the server, or has one block to run. `LoneInv`:
since a Submit pressed with nothing under way, everything under way is that Submit's (`Alone`); the temporary file,
what the request carries and the server's file are its own at each stage (`OwnGame`); and once a WatchView was opened
the upload is over, so that nothing overwrites what is fetched (`OwnFetch`). The server's types come from
`LiveFramesProofs` by instantiation.

*EventWindow.* `WindowInv`: the window is the tail of the frames
(`WindowIsTail`), the previous aggregate is the aggregate of that window
(`PrevIsAggregate`), and events are dated within the frames (`EventsDated`), so that a new one is later than all before. From
it, one lemma says which frames a slide compares, and each
property follows by cases on the event it yields. `Statistics` counts: `StatsMatchEvents` compares a field
with the number of events of a kind, a step adds at most one event, and that event adds one position to the set
counted for its player and its field, and none to any other.

*TrainingServer.* `DatasetInv`: with no training since the last completed upload
the dataset is empty, after one each image is in one split with the class of this
listing; what an upload that failed deleted does not matter. `DiskInv` ties `uploads`, `linked` and `disturbed`: an
undisturbed reading request has the file of its name to itself, an
undisturbed answered one is whole in it or was trained on.

*StartGame.* `OfferInv`: on the recording screen all players before the
current one were offered since the confirmation. `TakeInv`: reports come in
the order of the recordings, so the recording in `videoURL` is the newest of those
reported well, and those still to come are newer. `SentInv` says the same of what was sent, which is the guard
of `EnrolmentFeed!Send`; every other step is a stutter of the feed.

*Enrolment.* `OrderInv`: as long as all is `orderly`, requests settled in the order they were sent, the one upload the
server may be reading is the last that settled, and what is on disk or being written under the one file name is
the last upload that had a video; all else in UPLOAD_DIR is a video it came with, and while one of those is there so is that upload (`WithResidents`);
and nothing there was trained on before (`Untrained`). So that upload is what a training takes of theirs (`LastUpload`). `NewestRecording` adds that
the feed never goes back. `ServerRefinement` shows that the server of the composition takes only steps of `TrainingServer`, whose
assumptions its constants satisfy (`ServerConstants`); `ServerPromises` is then its theorems, instantiated.
`SystemSpec` is the wizard, the network and the server in one: each of its steps is one of `StartGame` beside an idle
server, in which a request sent is one `EnrolmentFeed` allows, or one of the rest beside an idle wizard (`SystemRefinement`). So all theorems of
`StartGame` and of `Enrolment` hold of it, `LastUpload` and `NewestRecording` with them (`WholeEnrolment`).

*Authentication.* `Placed`, a part of the type invariant: a chain is in one place, a
request or a block. `AccountInv`: all requests and blocks beyond the first answer are of
accounts that exist, and so is the account signed in. `LoneInv`: as long as chains do not
overlap, one request or block at most is under way; once Firebase has signed its account in, that account stays
signed in and nobody is shown until the chain ends; a sign-out under way has signed Firebase out.

*FirestoreWrites.* The inductive invariant is the conjunction of six parts with the types.
`WorkInv`: a write runs under the user it was made by, for changes of user pass through the same
worker queue. `QueueInv`: each queue holds writes of its user in the order of their making and of
their ids, and a callback is of a write in its queue nobody was told of. (One that was told of may still be queued, when the process ended
after telling; it has no callback any more.) `PipelineInv`: the
pipeline is the front of the current user's queue. `StreamInv`: replies not read and then what is on
the wire are the pipeline, write by write, which is why matching by position is right; and a stream that
starts, or was greeted, is needed. `TokenInv`: a stream waits for one token of its current life, and that token, unless a
change of user is ahead of it in the worker queue, is of the current user. `ServerInv`: replies are of committed
writes, a call ends with the refusal of the write at its front, and (`LastStands`) a committed write newer than the
one that stands was refused or is still in the queue. Each of the five properties follows from
these, and none is inductive alone: what a reply settles depends on what was
sent, in which life of the stream, from which queue.

**The safety halves of liveness.** That something happens at last is out of the prover's reach; that
whatever must happen for it is never forgotten is not. For each of the six liveness properties an invariant says so, for all
values of the constants: as long as the wait lasts, the step that ends it, or one that leads there, is under way.

| Liveness, checked | What is proved |
|---|---|
| `StopDrains` | `Draining`: after a stop the button has yet to queue its clear, or a clear is queued, or at most the stale frame is left. From `StaleInv`: the queue of a stopped session is quiet, so a second frame in it is followed by a clear |
| `EveryBatchSettles` | `Handover`: a batch cut is owed to URLSession or handed to it, never both; `BatchesFit`: every batch is one of the requests the property speaks of |
| `UploadEnds` | `SpinnerIsAwaited`: while the spinner turns, a submission of this very screen is being exported, asked for, or has a block to run |
| `LoadingEnds` | `LoadingIsAwaited`: while the spinner turns, a sign-up or sign-in awaits its answer, or the answer is in the main queue |
| `NetworkComesBack` | `OfflineIsAwaited`: while the network is off, the request to enable it is under way, or it was answered with an error (`stranded`) |
| `WritesSettle` | `Unstranded`: while the network is enabled and the user has unsent writes, a delay, a token for this life of the stream, or something to read or handle on it is on its way. `ActiveInv` (a queue that is not empty fills the pipeline, and a pipeline that is not empty has started its stream) and `AwaitedInv` (a stream that starts will be told of its token) are inductive; the second survives the many changes of `closes_` because the token asked for last carries the newest |

**Only model-checked.** The six liveness properties themselves: fairness and ENABLED are out of
the prover's reach. No module declares a RECURSIVE operator, and no proof needs induction over data.

## 6. Not modelled

* predict_video: it cannot be imported (line 2 imports a function that does not exist),
  so the application as committed does not start with it. The logic it would
  call is `EventWindow`.
* saveGame, fetchGames, saveShot and fetchShots of FirestoreManager: single calls without state.
* Commentary (elevenlabsgemini, videooverlap): one sequential script that nothing calls, around
  web services; it keeps no state between runs and no two of its steps can be reordered.
* StatsView, model types and the static screens keep no state whose changes
  could go wrong; VideoUploadManager is not used.
* Of the Firestore client: the watch stream and its views, documents and overlays, transactions,
  bundles, garbage collection. The app listens to nothing, and its single reads are answers in `Authentication`.
* The other vendored pods (gRPC, BoringSSL, abseil, leveldb, nanopb, the rest of Firebase): third-party code
  the app configures nowhere. They are nearly all of the 860,000 lines of C-family code in the
  repository; the application itself is Swift and Python, so the lines modelled here are a very
  small share of that number.
* Everything numerical of the detector and of training: external, an arbitrary outcome.

## 7. What would come next

* The abstract specification of `Authentication`, in which the user shown is the user signed in
  or none; a late `fetchUser` after a sign-out contradicts it when chains overlap (the run checks it for chains that do not).
* `Authentication` composed with `FirestoreWrites`, in place of the documented behaviour it assumes of Firestore.
