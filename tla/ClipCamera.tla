----------------------------- MODULE ClipCamera -----------------------------
(***************************************************************************)
(* The live view of the app (RealTimeClipView.swift): the model object     *)
(* RealTimeClipCameraModel, the button that starts and stops sending, and  *)
(* the four threads they run on.                                           *)
(*                                                                         *)
(*   main thread           the button: flips isSending, then (when         *)
(*                         stopping) queues a clear of the buffer          *)
(*   videoDataOutputQueue  one frame at a time: tests isSending, converts  *)
(*                         the frame to JPEG, queues an append             *)
(*   bufferQueue           serial: runs the queued appends and clears and  *)
(*                         cuts the buffer into batches                    *)
(*   global queue          concurrent: hands the batches to URLSession     *)
(*                                                                         *)
(* isSending is written by the first thread and read by the second, with   *)
(* nothing between the test and the append that runs much later.           *)
(***************************************************************************)
EXTENDS Naturals, Sequences, CaptureSession

CONSTANTS
  BatchSize,     \* frames in a batch: 10 in the code
  MaxFrames,     \* bound: frames that pass the guard of captureOutput
  MaxSessions,   \* bound: times sending is switched on
  NoFrame,       \* no frame is being converted
  Clear          \* a queued removeAll

Frame == [seq: 1..MaxFrames, session: 1..MaxSessions]

ASSUME BatchSizeAssumption == BatchSize \in Nat \ {0}
ASSUME BoundsAssumption == MaxFrames \in Nat /\ MaxSessions \in Nat
ASSUME MarkersAssumption == NoFrame \notin Frame /\ Clear \notin Frame

VARIABLES
  shown,         \* the view is on screen
  model,         \* its model object exists
  camera,        \* its AVCaptureSession
  isSending,
  stopping,      \* main thread: isSending flipped, the clear not yet queued
  session,       \* times sending has been switched on
  captured,      \* frames that passed the guard: the seq of the newest
  capture,       \* the frame being converted, or NoFrame
  blocks,        \* bufferQueue: frames to append and clears to run
  frameBuffer,
  dispatched,    \* every batch cut, in order
  outbox,        \* batches (their index) whose sendFrames has not run
  sent           \* batches (their index) handed to URLSession

mainVars   == <<shown, model, camera, isSending, stopping, session>>
bufferVars == <<frameBuffer, dispatched, outbox>>
vars == <<mainVars, captured, capture, blocks, bufferVars, sent>>

TypeOK ==
  /\ shown \in BOOLEAN /\ model \in BOOLEAN
  /\ shown => model
  /\ camera \in Session
  /\ isSending \in BOOLEAN
  /\ stopping \in BOOLEAN
  /\ session \in 0..MaxSessions
  /\ isSending => session > 0
  /\ captured \in 0..MaxFrames
  /\ capture \in Frame \cup {NoFrame}
  /\ blocks \in Seq(Frame \cup {Clear})
  /\ frameBuffer \in Seq(Frame)
  /\ Len(frameBuffer) < BatchSize
  /\ dispatched \in Seq(Seq(Frame))
  /\ \A k \in 1..Len(dispatched) : Len(dispatched[k]) = BatchSize
  /\ outbox \subseteq 1..Len(dispatched)
  /\ sent \subseteq 1..Len(dispatched)

Init ==
  /\ shown = FALSE
  /\ model = FALSE
  /\ camera = Idle
  /\ isSending = FALSE
  /\ stopping = FALSE
  /\ session = 0
  /\ captured = 0
  /\ capture = NoFrame
  /\ blocks = <<>>
  /\ frameBuffer = <<>>
  /\ dispatched = <<>>
  /\ outbox = {}
  /\ sent = {}
-----------------------------------------------------------------------------
(* The main thread.  Its handlers do not overlap: none starts while the    *)
(* button's is between its two statements.                                 *)

\* Mutant: the clear is queued from another thread.
MainThreadAlwaysFree == TRUE

MainThreadFree == ~stopping

\* Each time the view is shown it has a new model.
Appear ==
  /\ ~shown /\ ~model
  /\ shown' = TRUE /\ model' = TRUE
  /\ camera' \in SetupResults(camera)
  /\ UNCHANGED <<isSending, stopping, session, captured, capture, blocks, bufferVars, sent>>

\* The view goes: the menu opens, another tab is chosen.  The session is
\* stopped; a frame being converted and the queued blocks go on.
Disappear ==
  /\ shown
  /\ MainThreadFree
  /\ shown' = FALSE
  /\ camera' = Idle
  /\ UNCHANGED <<model, isSending, stopping, session, captured, capture, blocks, bufferVars, sent>>

\* Nothing holds the model any more.  captureOutput, a queued clear and a batch
\* to send hold it; a queued append does not, and then finds nothing to append
\* to.  A batch holds it to no effect when nothing is queued.
Release ==
  /\ model /\ ~shown
  /\ capture = NoFrame
  /\ \A i \in DOMAIN blocks : blocks[i] # Clear
  /\ outbox = {} \/ blocks = <<>>
  /\ model' = FALSE
  /\ isSending' = FALSE
  /\ blocks' = <<>>
  /\ frameBuffer' = <<>>
  /\ UNCHANGED <<shown, camera, stopping, session, captured, capture, dispatched, outbox, sent>>

SwitchCamera ==
  /\ shown
  /\ MainThreadFree
  /\ camera' \in SwitchResults(camera)
  /\ UNCHANGED <<shown, model, isSending, stopping, session, captured, capture, blocks, bufferVars, sent>>

StartSending ==
  /\ shown
  /\ ~isSending
  /\ MainThreadFree
  /\ session < MaxSessions
  /\ isSending' = TRUE
  /\ session' = session + 1
  /\ UNCHANGED <<shown, model, camera, stopping, captured, capture, blocks, bufferVars, sent>>

StopSending ==
  /\ shown
  /\ isSending
  /\ isSending' = FALSE
  /\ stopping' = TRUE
  /\ UNCHANGED <<shown, model, camera, session, captured, capture, blocks, bufferVars, sent>>

\* Mutant: a stop forgets to queue the clear.
ClearNothing ==
  /\ stopping
  /\ stopping' = FALSE
  /\ UNCHANGED <<shown, model, camera, isSending, session, captured, capture, blocks, bufferVars, sent>>

ClearFrameBuffer ==
  /\ stopping
  /\ stopping' = FALSE
  /\ blocks' = Append(blocks, Clear)
  /\ UNCHANGED <<shown, model, camera, isSending, session, captured, capture, bufferVars, sent>>
-----------------------------------------------------------------------------
(* videoDataOutputQueue: captureOutput, split where other threads can run   *)
(* between its test of isSending and the append it queues.                  *)

CaptureOutput ==
  /\ Delivers(camera)
  /\ capture = NoFrame
  /\ isSending
  /\ captured < MaxFrames
  /\ captured' = captured + 1
  /\ capture' = [seq |-> captured + 1, session |-> session]
  /\ UNCHANGED <<mainVars, blocks, bufferVars, sent>>

ConversionFails ==
  /\ capture # NoFrame
  /\ capture' = NoFrame
  /\ UNCHANGED <<mainVars, captured, blocks, bufferVars, sent>>

QueueAppend ==
  /\ capture # NoFrame
  /\ capture' = NoFrame
  /\ blocks' = Append(blocks, capture)
  /\ UNCHANGED <<mainVars, captured, bufferVars, sent>>
-----------------------------------------------------------------------------
(* bufferQueue and the global queue.                                        *)

\* Mutant: the last frame of a batch is kept to start the next one.
CutBatchKeepingLast(batch) ==
  /\ frameBuffer' = <<batch[BatchSize]>>
  /\ dispatched' = Append(dispatched, batch)
  /\ outbox' = outbox \cup {Len(dispatched) + 1}

CutBatch(batch) ==
  /\ frameBuffer' = <<>>
  /\ dispatched' = Append(dispatched, batch)
  /\ outbox' = outbox \cup {Len(dispatched) + 1}

\* Mutant: the batch is cut one frame late.
IsFullLate(buffer) == Len(buffer) > BatchSize

IsFull(buffer) == Len(buffer) = BatchSize

RunAppend ==
  /\ blocks # <<>>
  /\ Head(blocks) # Clear
  /\ blocks' = Tail(blocks)
  /\ LET buffer == Append(frameBuffer, Head(blocks))
     IN  \/ IsFull(buffer) /\ CutBatch(buffer)
         \/ /\ ~IsFull(buffer)
            /\ frameBuffer' = buffer
            /\ UNCHANGED <<dispatched, outbox>>
  /\ UNCHANGED <<mainVars, captured, capture, sent>>

RunClear ==
  /\ blocks # <<>>
  /\ Head(blocks) = Clear
  /\ blocks' = Tail(blocks)
  /\ frameBuffer' = <<>>
  /\ UNCHANGED <<mainVars, captured, capture, dispatched, outbox, sent>>

\* Mutant: the block holds the model weakly, as the append blocks do.
StillOwed(k) == k \in outbox /\ shown

Owed(k) == k \in outbox

SendFrames(k) ==
  /\ Owed(k)
  /\ outbox' = outbox \ {k}
  /\ sent' = sent \cup {k}
  /\ UNCHANGED <<mainVars, captured, capture, blocks, frameBuffer, dispatched>>
-----------------------------------------------------------------------------
MaxBatches == MaxFrames \div BatchSize

Next ==
  \/ Appear \/ Disappear \/ Release \/ SwitchCamera
  \/ StartSending \/ StopSending \/ ClearFrameBuffer
  \/ CaptureOutput \/ ConversionFails \/ QueueAppend
  \/ RunAppend \/ RunClear
  \/ \E k \in outbox : SendFrames(k)

Spec == Init /\ [][Next]_vars

\* A handler that has started ends, a queue with blocks runs them, and the
\* global queue runs every block it is given.  Nothing is asked of the user,
\* of the camera, or of the conversion beyond that it ends.
Fairness ==
  /\ WF_vars(ClearFrameBuffer)
  /\ WF_vars(ConversionFails \/ QueueAppend)
  /\ WF_vars(RunAppend \/ RunClear)
  /\ \A k \in 1..MaxBatches : WF_vars(SendFrames(k))

FairSpec == Spec /\ Fairness
-----------------------------------------------------------------------------
\* Frames go out in the order they were captured and none goes out twice:
\* the numbers of the batches cut, and then of the buffer, strictly increase.
FramesInOrder ==
  /\ \A k, l \in 1..Len(dispatched) : \A i, j \in 1..BatchSize :
       (k < l \/ (k = l /\ i < j)) => dispatched[k][i].seq < dispatched[l][j].seq
  /\ \A k \in 1..Len(dispatched) : \A i \in 1..BatchSize, j \in 1..Len(frameBuffer) :
       dispatched[k][i].seq < frameBuffer[j].seq
  /\ \A i, j \in 1..Len(frameBuffer) : i < j => frameBuffer[i].seq < frameBuffer[j].seq

\* A batch mixes frames of two sending sessions only in its first frame: the
\* clear queued by a stop separates the sessions, except from the one frame
\* that passed the guard of captureOutput before the stop and was queued
\* after the clear.
AtMostOneStale ==
  \A k \in 1..Len(dispatched) : \A i, j \in 2..BatchSize :
    dispatched[k][i].session = dispatched[k][j].session

\* While the model lives, a frame leaves the buffer without being sent only
\* when the session it was captured in is over: a late clear never eats into
\* the session that followed the stop.
OnlyEndedSessionsCleared ==
  [][(model' /\ dispatched' = dispatched) =>
       \A i \in 1..Len(frameBuffer) :
         \/ Len(frameBuffer') >= i
         \/ ~isSending
         \/ frameBuffer[i].session < session]_vars

\* After a stop the buffer drains, whatever was queued when the button was
\* pressed, to at most the one stale frame; unless sending is resumed.
StopDrains == ~isSending ~> (isSending \/ Len(frameBuffer) <= 1)

\* The batches cut implement the abstract feed of clips.
Feed == INSTANCE ClipFeed WITH N <- BatchSize, feed <- dispatched
FeedSpec == Feed!Spec
=============================================================================
