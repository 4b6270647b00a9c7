-------------------------- MODULE ClipStreamProofs --------------------------
(***************************************************************************)
(* Proofs about the live view (ClipCamera), and about its composition with *)
(* upload_clips (ClipStream), for every batch size and all bounds: what    *)
(* the live view's batches are, and what LiveFramesProofs shows of the     *)
(* files of a request, brought together in ./live_frames.                  *)
(***************************************************************************)
EXTENDS ClipStream, TLAPS

USE BatchSizeAssumption, BoundsAssumption, MarkersAssumption

\* What SetupResults and SwitchResults leave is a session.
LEMMA CameraResults ==
  ASSUME NEW s \in Session
  PROVE  SetupResults(s) \subseteq Session /\ SwitchResults(s) \subseteq Session
<1> USE DEF Session, Inputs
<1> DEFINE Taking(input) == [s EXCEPT !.input = input]
<1>1. ASSUME NEW input \in Inputs PROVE Taking(input) \in Session
  OBVIOUS
<1>2. [input |-> "front", running |-> TRUE] \in Session
  OBVIOUS
<1>3. Opposite(s.input) \in Inputs
  BY DEF Opposite
<1>4. SetupResults(s) \subseteq {s, Taking("front"), [input |-> "front", running |-> TRUE]}
  BY DEF SetupResults
<1>5. SwitchResults(s) \subseteq {s, Taking("none"), Taking(Opposite(s.input))}
  BY DEF SwitchResults
<1> HIDE DEF Session, Taking
<1> QED
  BY <1>1, <1>2, <1>3, <1>4, <1>5

LEMMA Empty == ASSUME NEW S PROVE <<>> \in Seq(S) /\ Len(<<>>) = 0
OBVIOUS

LEMMA OneMore ==
  ASSUME NEW n \in Nat, NEW S \in SUBSET (1..n)
  PROVE  S \subseteq 1..(n + 1) /\ S \cup {n + 1} \subseteq 1..(n + 1)
OBVIOUS

LEMMA IdleIsSession == Idle \in Session
BY DEF Idle, Session, Inputs

\* The types of the state, with the facts about the button's two statements.
LEMMA TypeInvariant == Spec => []TypeOK
<1>1. Init => TypeOK
  <2> SUFFICES ASSUME Init PROVE TypeOK
    OBVIOUS
  <2>1. /\ blocks \in Seq(Frame \cup {Clear}) /\ frameBuffer \in Seq(Frame)
        /\ dispatched \in Seq(Seq(Frame)) /\ Len(frameBuffer) = 0 /\ Len(dispatched) = 0
    BY Empty DEF Init
  <2>2. /\ Len(frameBuffer) < BatchSize
        /\ \A k \in 1..Len(dispatched) : Len(dispatched[k]) = BatchSize
    BY <2>1
  <2>3. outbox \subseteq 1..Len(dispatched) /\ sent \subseteq 1..Len(dispatched)
    BY DEF Init
  <2>4. camera \in Session
    BY IdleIsSession DEF Init
  <2>5. session \in 0..MaxSessions /\ captured \in 0..MaxFrames /\ ~isSending
    BY DEF Init
  <2>6. /\ capture \in Frame \cup {NoFrame}
        /\ shown \in BOOLEAN /\ model \in BOOLEAN /\ (shown => model)
        /\ isSending \in BOOLEAN /\ stopping \in BOOLEAN
    BY DEF Init
  <2> QED
    BY <2>1, <2>2, <2>3, <2>4, <2>5, <2>6 DEF TypeOK
<1>2. TypeOK /\ [Next]_vars => TypeOK'
  <2> SUFFICES ASSUME TypeOK, [Next]_vars PROVE TypeOK'
    OBVIOUS
  <2> USE DEF TypeOK
  <2>1. CASE Appear
    BY <2>1, CameraResults DEF Appear, bufferVars
  <2>2. CASE Disappear
    BY <2>2, IdleIsSession DEF Disappear, bufferVars
  <2>3. CASE SwitchCamera
    BY <2>3, CameraResults DEF SwitchCamera, bufferVars
  <2>4. CASE StartSending
    BY <2>4 DEF StartSending, bufferVars
  <2>5. CASE StopSending
    BY <2>5 DEF StopSending, bufferVars
  <2>6. CASE ClearFrameBuffer
    <3>1. blocks' \in Seq(Frame \cup {Clear})
      BY <2>6 DEF ClearFrameBuffer
    <3> QED
      BY <2>6, <3>1 DEF ClearFrameBuffer, bufferVars
  <2>7. CASE CaptureOutput
    <3>1. capture' \in Frame
      BY <2>7 DEF CaptureOutput, Frame
    <3> QED
      BY <2>7, <3>1 DEF CaptureOutput, bufferVars, mainVars
  <2>8. CASE ConversionFails
    BY <2>8 DEF ConversionFails, bufferVars, mainVars
  <2>9. CASE QueueAppend
    BY <2>9 DEF QueueAppend, bufferVars, mainVars
  <2>10. CASE RunAppend
    <3> DEFINE buffer == Append(frameBuffer, Head(blocks))
    <3>1. Head(blocks) \in Frame /\ Tail(blocks) \in Seq(Frame \cup {Clear})
      BY <2>10 DEF RunAppend
    <3>2. buffer \in Seq(Frame) /\ Len(buffer) <= BatchSize
      BY <3>1
    <3>3. CASE IsFull(buffer)
      <4>1. Append(dispatched, buffer) \in Seq(Seq(Frame))
        BY <3>2
      <4>2. \A k \in 1..Len(Append(dispatched, buffer)) : Len(Append(dispatched, buffer)[k]) = BatchSize
        BY <3>2, <3>3 DEF IsFull
      <4> HIDE DEF buffer
      <4>3. frameBuffer' \in Seq(Frame) /\ Len(frameBuffer') = 0
        BY <2>10, <3>3, Empty DEF RunAppend, CutBatch, buffer
      <4>4. dispatched' = Append(dispatched, buffer) /\ outbox' = outbox \cup {Len(dispatched) + 1}
        BY <2>10, <3>3 DEF RunAppend, CutBatch, buffer
      <4>5. Len(dispatched') = Len(dispatched) + 1
        BY <4>4, <3>2
      <4>6. UNCHANGED <<mainVars, captured, capture, sent>> /\ blocks' = Tail(blocks)
        BY <2>10 DEF RunAppend
      <4>7. dispatched' \in Seq(Seq(Frame)) /\ \A k \in 1..Len(dispatched') : Len(dispatched'[k]) = BatchSize
        BY <4>1, <4>2, <4>4
      <4>8. outbox' \subseteq 1..Len(dispatched') /\ sent' \subseteq 1..Len(dispatched')
        <5>1. /\ Len(dispatched) \in Nat /\ sent' = sent
              /\ outbox \subseteq 1..Len(dispatched) /\ sent \subseteq 1..Len(dispatched)
          BY <4>6
        <5>2. outbox' = outbox \cup {Len(dispatched) + 1}
          BY <4>4
        <5> HIDE DEF TypeOK
        <5> QED
          BY <4>5, <5>1, <5>2, OneMore
      <4> QED
        BY <3>1, <4>3, <4>6, <4>7, <4>8 DEF mainVars
    <3>4. CASE ~IsFull(buffer)
      <4>1. frameBuffer' = buffer /\ blocks' = Tail(blocks)
        BY <2>10, <3>4 DEF RunAppend
      <4>2. UNCHANGED <<mainVars, captured, capture, sent, dispatched, outbox>>
        BY <2>10, <3>4 DEF RunAppend
      <4>3. Len(buffer) < BatchSize
        BY <3>2, <3>4 DEF IsFull
      <4> HIDE DEF buffer
      <4> QED
        BY <3>1, <3>2, <4>1, <4>2, <4>3 DEF mainVars
    <3> QED
      BY <3>3, <3>4
  <2>11. CASE RunClear
    BY <2>11 DEF RunClear, mainVars
  <2>12. ASSUME NEW k \in outbox, SendFrames(k) PROVE TypeOK'
    BY <2>12 DEF SendFrames, mainVars
  <2>13. CASE Release
    <3>1. blocks' \in Seq(Frame \cup {Clear}) /\ frameBuffer' \in Seq(Frame) /\ Len(frameBuffer') = 0
      BY <2>13, Empty DEF Release
    <3>2. Len(frameBuffer') < BatchSize
      BY <3>1
    <3>3. /\ shown' = FALSE /\ model' = FALSE /\ isSending' = FALSE
          /\ UNCHANGED <<camera, stopping, session, captured, capture, dispatched, outbox, sent>>
      BY <2>13 DEF Release
    <3> QED
      BY <3>1, <3>2, <3>3
  <2>14. CASE UNCHANGED vars
    BY <2>14 DEF vars, mainVars, bufferVars
  <2> QED
    BY <2>1, <2>2, <2>3, <2>4, <2>5, <2>6, <2>7, <2>8, <2>9, <2>10, <2>11, <2>12, <2>13, <2>14
    DEF Next
<1> QED
  BY <1>1, <1>2, PTL DEF Spec
-----------------------------------------------------------------------------
(***************************************************************************)
(* The sessions of a batch.  What the buffer queue still has to work off   *)
(* is one sequence, Queue: the frames already in the buffer, then the      *)
(* queued appends and clears.  A run of it is a stretch without a clear.   *)
(*   Separated    in every run, all frames but the first share a session   *)
(*   CurrentTail  in the last run, that session is the one going on        *)
(*   Quiet        no run that reaches the end has a second frame           *)
(* A batch is cut from the front of Queue, out of its first run.           *)
(***************************************************************************)

Item == Frame \cup {Clear}

Queue == frameBuffer \o blocks

Unbroken(q, i, j) == \A n \in i..j : q[n] # Clear

EndsWithFrame(q) == Len(q) > 0 /\ q[Len(q)] # Clear

Separated(q) ==
  \A i, j \in 2..Len(q) :
    (i <= j /\ Unbroken(q, i - 1, j)) => q[i].session = q[j].session

CurrentTail(q, s) ==
  \A i \in 2..Len(q) : Unbroken(q, i - 1, Len(q)) => q[i].session = s

Quiet(q) == \A i \in 2..Len(q) : ~Unbroken(q, i - 1, Len(q))

\* The inductive invariant.  The frame being converted is the one that can
\* still end up behind a clear: then it starts a run, or it belongs to the
\* session going on.
StaleInv ==
  /\ Separated(Queue)
  /\ CurrentTail(Queue, session)
  /\ (~isSending /\ ~stopping) => Quiet(Queue)
  /\ (capture # NoFrame /\ EndsWithFrame(Queue)) =>
       ((isSending \/ stopping) /\ capture.session = session)
  /\ AtMostOneStale

\* r is q with x appended.
Extends(r, q, x) ==
  /\ Len(r) = Len(q) + 1
  /\ \A i \in 1..Len(q) : r[i] = q[i]
  /\ r[Len(q) + 1] = x

\* r is what is left of q without its first m items.
Leaves(r, q, m) ==
  /\ Len(q) = m + Len(r)
  /\ \A i \in 1..Len(r) : r[i] = q[i + m]

LEMMA ExtendByFrame ==
  ASSUME NEW q \in Seq(Item), NEW r \in Seq(Item), NEW x \in Frame, NEW s,
         Extends(r, q, x), Separated(q), CurrentTail(q, s),
         EndsWithFrame(q) => x.session = s
  PROVE  Separated(r) /\ CurrentTail(r, s)
<1>1. Len(q) \in Nat /\ Len(r) = Len(q) + 1
  BY DEF Extends
<1>2. ASSUME NEW i \in 2..Len(r), NEW j \in 2..Len(r), i <= j, Unbroken(r, i - 1, j)
      PROVE  r[i].session = r[j].session /\ (j = Len(r) => r[i].session = s)
  <2>1. CASE j <= Len(q)
    <3>1. Unbroken(q, i - 1, j)
      BY <1>1, <1>2, <2>1 DEF Unbroken, Extends
    <3>2. q[i].session = q[j].session /\ r[i] = q[i] /\ r[j] = q[j] /\ j # Len(r)
      BY <1>1, <1>2, <2>1, <3>1 DEF Separated, Extends
    <3> QED
      BY <3>2
  <2>2. CASE j = Len(r)
    <3>1. r[Len(q)] # Clear /\ r[Len(q)] = q[Len(q)] /\ Len(q) > 0 /\ r[j] = x
      BY <1>1, <1>2, <2>2 DEF Unbroken, Extends
    <3>2. x.session = s
      BY <3>1 DEF EndsWithFrame
    <3>3. CASE i = Len(r)
      BY <3>1, <3>2, <3>3, <2>2
    <3>4. CASE i <= Len(q)
      <4>1. Unbroken(q, i - 1, Len(q)) /\ r[i] = q[i]
        BY <1>1, <1>2, <2>2, <3>4 DEF Unbroken, Extends
      <4>2. q[i].session = s
        BY <1>1, <1>2, <3>4, <4>1 DEF CurrentTail
      <4> QED
        BY <3>1, <3>2, <4>1, <4>2
    <3> QED
      BY <1>1, <1>2, <3>3, <3>4
  <2> QED
    BY <1>1, <1>2, <2>1, <2>2
<1>3. ASSUME NEW i \in 2..Len(r) PROVE Len(r) \in 2..Len(r) /\ i <= Len(r)
  BY <1>1, <1>3
<1> QED
  BY <1>2, <1>3 DEF Separated, CurrentTail

LEMMA ExtendQuietly ==
  ASSUME NEW q \in Seq(Item), NEW r \in Seq(Item), NEW x,
         Extends(r, q, x), ~EndsWithFrame(q)
  PROVE  Quiet(r)
<1>1. Len(q) \in Nat /\ Len(r) = Len(q) + 1
  BY DEF Extends
<1>2. SUFFICES ASSUME NEW i \in 2..Len(r), Unbroken(r, i - 1, Len(r)) PROVE FALSE
  BY DEF Quiet
<1>3. Len(q) \in (i - 1)..Len(r) /\ Len(q) > 0
  BY <1>1, <1>2
<1>4. r[Len(q)] # Clear /\ r[Len(q)] = q[Len(q)]
  BY <1>1, <1>2, <1>3 DEF Unbroken, Extends
<1> QED
  BY <1>3, <1>4 DEF EndsWithFrame

LEMMA ExtendByClear ==
  ASSUME NEW q \in Seq(Item), NEW r \in Seq(Item), NEW s,
         Extends(r, q, Clear), Separated(q)
  PROVE  Separated(r) /\ CurrentTail(r, s) /\ Quiet(r) /\ ~EndsWithFrame(r)
<1>1. Len(q) \in Nat /\ Len(r) = Len(q) + 1 /\ r[Len(r)] = Clear
  BY DEF Extends
<1>2. ~EndsWithFrame(r)
  BY <1>1 DEF EndsWithFrame
<1>3. ASSUME NEW i \in 2..Len(r) PROVE ~Unbroken(r, i - 1, Len(r))
  BY <1>1, <1>3 DEF Unbroken
<1>4. ASSUME NEW i \in 2..Len(r), NEW j \in 2..Len(r), i <= j, Unbroken(r, i - 1, j)
      PROVE  r[i].session = r[j].session
  <2>1. j <= Len(q)
    BY <1>1, <1>3, <1>4
  <2>2. Unbroken(q, i - 1, j) /\ r[i] = q[i] /\ r[j] = q[j]
    BY <1>1, <1>4, <2>1 DEF Unbroken, Extends
  <2>3. i \in 2..Len(q) /\ j \in 2..Len(q)
    BY <1>1, <1>4, <2>1
  <2> QED
    BY <1>4, <2>2, <2>3 DEF Separated
<1> QED
  BY <1>2, <1>3, <1>4 DEF Separated, CurrentTail, Quiet

LEMMA DropFront ==
  ASSUME NEW q \in Seq(Item), NEW r \in Seq(Item), NEW m \in Nat, NEW s,
         Leaves(r, q, m)
  PROVE  /\ Separated(q) => Separated(r)
         /\ CurrentTail(q, s) => CurrentTail(r, s)
         /\ Quiet(q) => Quiet(r)
         /\ EndsWithFrame(r) => EndsWithFrame(q)
<1>1. Len(q) \in Nat /\ Len(r) \in Nat /\ Len(q) = m + Len(r)
  BY DEF Leaves
<1>2. ASSUME NEW i \in 2..Len(r)
      PROVE  i + m \in 2..Len(q) /\ r[i] = q[i + m] /\ r[i - 1] = q[i - 1 + m]
  BY <1>1, <1>2 DEF Leaves
<1>3. ASSUME NEW i \in 2..Len(r), NEW j \in 2..Len(r), Unbroken(r, i - 1, j)
      PROVE  Unbroken(q, (i + m) - 1, j + m)
  <2> SUFFICES ASSUME NEW n \in ((i + m) - 1)..(j + m) PROVE q[n] # Clear
    BY DEF Unbroken
  <2>1. n - m \in (i - 1)..j /\ n - m \in 1..Len(r) /\ (n - m) + m = n
    BY <1>1, <1>3
  <2> QED
    BY <1>3, <2>1 DEF Unbroken, Leaves
<1>4. ASSUME NEW i \in 2..Len(r)
      PROVE  Len(r) \in 2..Len(r) /\ Len(r) + m = Len(q)
  BY <1>1, <1>4
<1>5. Separated(q) => Separated(r)
  <2> SUFFICES ASSUME Separated(q), NEW i \in 2..Len(r), NEW j \in 2..Len(r),
                      i <= j, Unbroken(r, i - 1, j)
               PROVE  r[i].session = r[j].session
    BY DEF Separated
  <2>1. i + m <= j + m /\ i + m \in 2..Len(q) /\ j + m \in 2..Len(q)
    BY <1>1
  <2>2. Unbroken(q, (i + m) - 1, j + m)
    BY <1>3
  <2>3. q[i + m].session = q[j + m].session
    BY <2>1, <2>2 DEF Separated
  <2> QED
    BY <1>2, <2>3
<1>6. ASSUME NEW i \in 2..Len(r), Unbroken(r, i - 1, Len(r))
      PROVE  Unbroken(q, (i + m) - 1, Len(q))
  BY <1>3, <1>4, <1>6
<1>7. (CurrentTail(q, s) => CurrentTail(r, s)) /\ (Quiet(q) => Quiet(r))
  BY <1>2, <1>6 DEF CurrentTail, Quiet
<1>8. EndsWithFrame(r) => EndsWithFrame(q)
  BY <1>1 DEF EndsWithFrame, Leaves
<1> QED
  BY <1>5, <1>7, <1>8
-----------------------------------------------------------------------------
(* How the steps change Queue.                                              *)

LEMMA QueueType == TypeOK => Queue \in Seq(Item)
BY DEF TypeOK, Queue, Item

LEMMA QueueExtended ==
  ASSUME TypeOK, TypeOK', NEW x \in Item,
         frameBuffer' = frameBuffer, blocks' = Append(blocks, x)
  PROVE  Extends(Queue', Queue, x)
BY DEF TypeOK, Queue, Item, Extends

LEMMA QueueMoved ==
  ASSUME TypeOK, blocks # <<>>, Head(blocks) \in Frame
  PROVE  Append(frameBuffer, Head(blocks)) \o Tail(blocks) = Queue
BY DEF TypeOK, Queue

LEMMA QueueCleared ==
  ASSUME TypeOK, blocks # <<>>
  PROVE  Leaves(<<>> \o Tail(blocks), Queue, Len(frameBuffer) + 1)
BY DEF TypeOK, Queue, Leaves

\* The batch is the first items of the queue, and what follows is left.
LEMMA QueueCut ==
  ASSUME TypeOK, blocks # <<>>, Head(blocks) \in Frame,
         Len(frameBuffer) + 1 = BatchSize
  PROVE  /\ Leaves(<<>> \o Tail(blocks), Queue, BatchSize)
         /\ \A i \in 1..BatchSize : Append(frameBuffer, Head(blocks))[i] = Queue[i]
         /\ BatchSize <= Len(Queue)
<1>1. Leaves(<<>> \o Tail(blocks), Queue, BatchSize)
  BY QueueCleared
<1>2. ASSUME NEW i \in 1..BatchSize PROVE Append(frameBuffer, Head(blocks))[i] = Queue[i]
  <2>1. CASE i <= Len(frameBuffer)
    BY <1>2, <2>1 DEF TypeOK, Queue
  <2>2. CASE i = Len(frameBuffer) + 1
    BY <1>2, <2>2 DEF TypeOK, Queue
  <2> QED
    BY <1>2, <2>1, <2>2 DEF TypeOK
<1>3. BatchSize <= Len(Queue)
  BY DEF TypeOK, Queue
<1> QED
  BY <1>1, <1>2, <1>3

LEMMA QueueEmptied ==
  /\ Separated(<<>> \o <<>>) /\ Quiet(<<>> \o <<>>) /\ ~EndsWithFrame(<<>> \o <<>>)
  /\ \A s : CurrentTail(<<>> \o <<>>, s)
<1>1. Len(<<>> \o <<>>) = 0
  OBVIOUS
<1> QED
  BY <1>1 DEF Separated, Quiet, CurrentTail, EndsWithFrame
-----------------------------------------------------------------------------
LEMMA StaleInvInit == Init => StaleInv
<1> SUFFICES ASSUME Init PROVE StaleInv
  OBVIOUS
<1>1. Queue = <<>> \o <<>> /\ capture = NoFrame
  BY DEF Init, Queue
<1>2. AtMostOneStale
  BY DEF Init, AtMostOneStale
<1> QED
  BY <1>1, <1>2, QueueEmptied DEF StaleInv

\* A step that leaves the queue and the batches alone.
LEMMA StaleInvQueueKept ==
  ASSUME StaleInv, Queue' = Queue, dispatched' = dispatched,
         session' = session \/ (~isSending /\ ~stopping),
         (isSending \/ stopping) => (isSending' \/ stopping'),
         capture' = capture \/ capture' = NoFrame
           \/ ((isSending' \/ stopping') /\ capture'.session = session')
  PROVE  StaleInv'
<1>1. AtMostOneStale'
  BY DEF StaleInv, AtMostOneStale
<1>2. Separated(Queue)'
  BY DEF StaleInv, Separated, Unbroken
<1>3. CurrentTail(Queue, session)'
  BY DEF StaleInv, CurrentTail, Quiet
<1>4. ((~isSending /\ ~stopping) => Quiet(Queue))'
  BY DEF StaleInv, Quiet, Unbroken
<1>5. ((capture # NoFrame /\ EndsWithFrame(Queue)) =>
       ((isSending \/ stopping) /\ capture.session = session))'
  BY DEF StaleInv, EndsWithFrame
<1> QED
  BY <1>1, <1>2, <1>3, <1>4, <1>5 DEF StaleInv

\* A step that drops the first items of the queue and cuts no batch.
LEMMA StaleInvQueueShorter ==
  ASSUME TypeOK, TypeOK', StaleInv, NEW m \in Nat, Leaves(Queue', Queue, m),
         dispatched' = dispatched \/ AtMostOneStale',
         UNCHANGED <<isSending, stopping, session, capture>>
  PROVE  StaleInv'
<1>1. Queue \in Seq(Item) /\ Queue' \in Seq(Item)
  BY QueueType DEF TypeOK, Queue, Item
<1>2. AtMostOneStale'
  BY DEF StaleInv, AtMostOneStale
<1>3. Separated(Queue') /\ CurrentTail(Queue', session)
  BY <1>1, DropFront DEF StaleInv
<1>4. (~isSending /\ ~stopping) => Quiet(Queue')
  BY <1>1, DropFront DEF StaleInv
<1>5. EndsWithFrame(Queue') => EndsWithFrame(Queue)
  BY <1>1, DropFront
<1> QED
  BY <1>2, <1>3, <1>4, <1>5 DEF StaleInv
\* What is left of the queue when its first block has run.
LEMMA RunAppendQueue ==
  ASSUME TypeOK, TypeOK', StaleInv, RunAppend PROVE StaleInv'
<1> DEFINE buffer == Append(frameBuffer, Head(blocks))
<1>1. blocks # <<>> /\ Head(blocks) \in Frame
  BY DEF RunAppend, TypeOK
<1>2. UNCHANGED <<isSending, stopping, session, capture>> /\ blocks' = Tail(blocks)
  BY DEF RunAppend, mainVars
<1>3. CASE IsFull(buffer)
  <2>1. dispatched' = Append(dispatched, buffer) /\ frameBuffer' = <<>>
    BY <1>3 DEF RunAppend, CutBatch
  <2>2. Len(frameBuffer) + 1 = BatchSize
    BY <1>1, <1>3 DEF IsFull, TypeOK
  <2>3. /\ Leaves(Queue', Queue, BatchSize)
        /\ \A i \in 1..BatchSize : buffer[i] = Queue[i]
        /\ BatchSize <= Len(Queue)
    BY <1>1, <1>2, <2>1, <2>2, QueueCut DEF Queue
  <2>4. \A i \in 1..BatchSize : Queue[i] # Clear
    <3>1. buffer \in Seq(Frame) /\ Len(buffer) = BatchSize
      BY <1>1, <2>2 DEF TypeOK
    <3> QED
      BY <2>3, <3>1
  <2>5. ASSUME NEW i \in 2..BatchSize, NEW j \in 2..BatchSize
        PROVE  buffer[i].session = buffer[j].session
    <3>1. /\ i \in 2..Len(Queue) /\ j \in 2..Len(Queue)
          /\ Unbroken(Queue, i - 1, j) /\ Unbroken(Queue, j - 1, i)
      <4>1. Len(Queue) \in Nat
        BY QueueType
      <4> QED
        BY <2>3, <2>4, <4>1 DEF Unbroken
    <3>2. i <= j \/ j <= i
      OBVIOUS
    <3>3. i \in 1..BatchSize /\ j \in 1..BatchSize
      OBVIOUS
    <3>4. buffer[i] = Queue[i] /\ buffer[j] = Queue[j]
      BY <2>3, <3>3
    <3>5. Queue[i].session = Queue[j].session
      BY <3>1, <3>2 DEF StaleInv, Separated
    <3> QED
      BY <3>4, <3>5
  <2>6. AtMostOneStale'
    <3>1. ASSUME NEW k \in 1..Len(dispatched') PROVE k \in 1..Len(dispatched) \/ dispatched'[k] = buffer
      BY <2>1, <3>1 DEF TypeOK
    <3>2. ASSUME NEW k \in 1..Len(dispatched) PROVE dispatched'[k] = dispatched[k]
      BY <2>1, <3>2 DEF TypeOK
    <3> HIDE DEF buffer
    <3> QED
      BY <2>5, <3>1, <3>2 DEF StaleInv, AtMostOneStale
  <2> QED
    BY <1>2, <2>3, <2>6, StaleInvQueueShorter
<1>4. CASE ~IsFull(buffer)
  <2>1. frameBuffer' = buffer /\ dispatched' = dispatched
    BY <1>4 DEF RunAppend
  <2>2. Queue' = Queue
    BY <1>1, <1>2, <2>1, QueueMoved DEF Queue
  <2> QED
    BY <1>2, <2>1, <2>2, StaleInvQueueKept
<1> QED
  BY <1>3, <1>4

LEMMA RunClearQueue ==
  ASSUME TypeOK, TypeOK', StaleInv, RunClear PROVE StaleInv'
<1>1. Leaves(Queue', Queue, Len(frameBuffer) + 1) /\ Len(frameBuffer) + 1 \in Nat
  BY QueueCleared DEF RunClear, Queue, TypeOK
<1> QED
  BY <1>1, StaleInvQueueShorter DEF RunClear, mainVars

LEMMA QueueAppendQueue ==
  ASSUME TypeOK, TypeOK', StaleInv, QueueAppend PROVE StaleInv'
<1>1. capture \in Frame /\ capture \in Item /\ capture # NoFrame
  BY DEF QueueAppend, TypeOK, Item
<1>2. UNCHANGED <<isSending, stopping, session, dispatched, frameBuffer>> /\ capture' = NoFrame
  BY DEF QueueAppend, mainVars, bufferVars
<1>3. Extends(Queue', Queue, capture)
  BY <1>1, <1>2, QueueExtended DEF QueueAppend
<1>4. Queue \in Seq(Item) /\ Queue' \in Seq(Item)
  BY QueueType DEF TypeOK, Queue, Item
<1>5. Separated(Queue') /\ CurrentTail(Queue', session)
  BY <1>1, <1>3, <1>4, ExtendByFrame DEF StaleInv
<1>6. (~isSending /\ ~stopping) => Quiet(Queue')
  BY <1>1, <1>3, <1>4, ExtendQuietly DEF StaleInv
<1>7. AtMostOneStale'
  BY <1>2 DEF StaleInv, AtMostOneStale
<1> QED
  BY <1>2, <1>5, <1>6, <1>7 DEF StaleInv

LEMMA ClearFrameBufferQueue ==
  ASSUME TypeOK, TypeOK', StaleInv, ClearFrameBuffer PROVE StaleInv'
<1>1. UNCHANGED <<isSending, session, dispatched, frameBuffer, capture>>
  BY DEF ClearFrameBuffer, bufferVars
<1>2. Extends(Queue', Queue, Clear)
  BY <1>1, QueueExtended DEF ClearFrameBuffer, Item
<1>3. Queue \in Seq(Item) /\ Queue' \in Seq(Item)
  BY QueueType DEF TypeOK, Queue, Item
<1>4. Separated(Queue') /\ CurrentTail(Queue', session) /\ Quiet(Queue') /\ ~EndsWithFrame(Queue')
  BY <1>2, <1>3, ExtendByClear DEF StaleInv
<1>5. AtMostOneStale'
  BY <1>1 DEF StaleInv, AtMostOneStale
<1> QED
  BY <1>1, <1>4, <1>5 DEF StaleInv

\* Every step keeps StaleInv.
LEMMA StaleInvNext ==
  ASSUME TypeOK, TypeOK', StaleInv, [Next]_vars PROVE StaleInv'
<1>1. CASE Appear
  BY <1>1, StaleInvQueueKept DEF Appear, bufferVars, Queue
<1>2. CASE Disappear
  BY <1>2, StaleInvQueueKept DEF Disappear, bufferVars, Queue
<1>3. CASE SwitchCamera
  BY <1>3, StaleInvQueueKept DEF SwitchCamera, bufferVars, Queue
<1>4. CASE StartSending
  BY <1>4, StaleInvQueueKept DEF StartSending, MainThreadFree, bufferVars, Queue
<1>5. CASE StopSending
  BY <1>5, StaleInvQueueKept DEF StopSending, bufferVars, Queue
<1>6. CASE ClearFrameBuffer
  BY <1>6, ClearFrameBufferQueue
<1>7. CASE CaptureOutput
  BY <1>7, StaleInvQueueKept DEF CaptureOutput, mainVars, bufferVars, Queue
<1>8. CASE ConversionFails
  BY <1>8, StaleInvQueueKept DEF ConversionFails, mainVars, bufferVars, Queue
<1>9. CASE QueueAppend
  BY <1>9, QueueAppendQueue
<1>10. CASE RunAppend
  BY <1>10, RunAppendQueue
<1>11. CASE RunClear
  BY <1>11, RunClearQueue
<1>12. ASSUME NEW k \in outbox, SendFrames(k) PROVE StaleInv'
  BY <1>12, StaleInvQueueKept DEF SendFrames, mainVars, Queue
<1>13. CASE UNCHANGED vars
  BY <1>13, StaleInvQueueKept DEF vars, mainVars, bufferVars, Queue
<1>14. CASE Release
  <2>1. /\ Separated(Queue') /\ CurrentTail(Queue', session') /\ Quiet(Queue')
        /\ ~EndsWithFrame(Queue')
    BY <1>14, QueueEmptied DEF Release, Queue
  <2>2. AtMostOneStale'
    BY <1>14 DEF Release, StaleInv, AtMostOneStale
  <2> QED
    BY <2>1, <2>2 DEF StaleInv
<1> QED
  BY <1>1, <1>2, <1>3, <1>4, <1>5, <1>6, <1>7, <1>8, <1>9, <1>10, <1>11, <1>12, <1>13, <1>14
  DEF Next
-----------------------------------------------------------------------------
\* The type invariant holds in every reachable state, whatever the batch
\* size and the bounds: the buffer never reaches BatchSize frames between
\* two blocks, and every batch cut has exactly BatchSize frames.
THEOREM TypeCorrect == Spec => []TypeOK
BY TypeInvariant

\* No batch mixes two sending sessions beyond its first frame
\* (RealTimeClipView.swift: the button, captureOutput and the two queues).
THEOREM Staleness == Spec => []AtMostOneStale
<1>1. Init => StaleInv
  BY StaleInvInit
<1>2. TypeOK /\ TypeOK' /\ StaleInv /\ [Next]_vars => StaleInv'
  BY StaleInvNext
<1>3. StaleInv => AtMostOneStale
  BY DEF StaleInv
<1> QED
  BY <1>1, <1>2, <1>3, TypeInvariant, PTL DEF Spec
-----------------------------------------------------------------------------
(***************************************************************************)
(* The order of the frames.  Batches, Queue, the frame being converted and *)
(* the count of captured frames: each holds later frames than the one      *)
(* before it.                                                              *)
(***************************************************************************)

\* Every frame of every batch satisfies a bound.
BatchesBelow(n) ==
  \A k \in 1..Len(dispatched) : \A i \in 1..BatchSize : dispatched[k][i].seq < n

QueueBelow(n) == \A i \in 1..Len(Queue) : Queue[i] # Clear => Queue[i].seq < n

BatchesOrdered ==
  \A k, l \in 1..Len(dispatched) : \A i, j \in 1..BatchSize :
    (k < l \/ (k = l /\ i < j)) => dispatched[k][i].seq < dispatched[l][j].seq

BatchesBelowQueue ==
  \A i \in 1..Len(Queue) : Queue[i] # Clear => BatchesBelow(Queue[i].seq)

QueueOrdered ==
  \A i, j \in 1..Len(Queue) :
    (i < j /\ Queue[i] # Clear /\ Queue[j] # Clear) => Queue[i].seq < Queue[j].seq

OrderInv ==
  /\ BatchesOrdered
  /\ BatchesBelowQueue
  /\ QueueOrdered
  /\ capture # NoFrame =>
       (BatchesBelow(capture.seq) /\ QueueBelow(capture.seq) /\ capture.seq <= captured)
  /\ BatchesBelow(captured + 1)
  /\ QueueBelow(captured + 1)

LEMMA OrderInvInit == Init => OrderInv
<1> SUFFICES ASSUME Init PROVE OrderInv
  OBVIOUS
<1>1. Len(Queue) = 0 /\ Len(dispatched) = 0 /\ capture = NoFrame
  BY DEF Init, Queue
<1> QED
  BY <1>1 DEF OrderInv, BatchesOrdered, BatchesBelowQueue, QueueOrdered, BatchesBelow, QueueBelow

\* A step that leaves the queue and the batches alone.
LEMMA OrderInvQueueKept ==
  ASSUME OrderInv, Queue' = Queue, dispatched' = dispatched, captured' = captured,
         capture' = capture \/ capture' = NoFrame
  PROVE  OrderInv'
<1>1. BatchesOrdered' /\ \A n : BatchesBelow(n) <=> BatchesBelow(n)'
  BY DEF OrderInv, BatchesOrdered, BatchesBelow
<1>2. BatchesBelowQueue' /\ QueueOrdered' /\ \A n : QueueBelow(n) <=> QueueBelow(n)'
  BY DEF OrderInv, BatchesBelowQueue, BatchesBelow, QueueOrdered, QueueBelow
<1> QED
  BY <1>1, <1>2 DEF OrderInv, BatchesBelow, QueueBelow

\* A step that drops the first items of the queue and cuts no batch.
LEMMA OrderInvQueueShorter ==
  ASSUME TypeOK, TypeOK', OrderInv, NEW m \in Nat, Leaves(Queue', Queue, m),
         UNCHANGED <<captured, capture, dispatched>>
  PROVE  OrderInv'
<1>1. Len(Queue) \in Nat /\ Len(Queue') \in Nat
  BY QueueType DEF TypeOK, Queue
<1>2. ASSUME NEW i \in 1..Len(Queue')
      PROVE  i + m \in 1..Len(Queue) /\ Queue'[i] = Queue[i + m]
  BY <1>1, <1>2 DEF Leaves
<1>3. BatchesOrdered' /\ \A n : BatchesBelow(n) => BatchesBelow(n)'
  BY DEF OrderInv, BatchesOrdered, BatchesBelow
<1>4. ASSUME NEW n, QueueBelow(n) PROVE QueueBelow(n)'
  BY <1>2, <1>4 DEF QueueBelow
<1>5. BatchesBelowQueue'
  BY <1>2, <1>3 DEF OrderInv, BatchesBelowQueue, BatchesBelow
<1>6. QueueOrdered'
  <2> SUFFICES ASSUME NEW i \in 1..Len(Queue'), NEW j \in 1..Len(Queue'),
                      i < j, Queue'[i] # Clear, Queue'[j] # Clear
               PROVE  Queue'[i].seq < Queue'[j].seq
    BY DEF QueueOrdered
  <2>1. i + m < j + m
    BY <1>1
  <2> QED
    BY <1>2, <2>1 DEF OrderInv, QueueOrdered
<1>7. capture' # NoFrame =>
        (BatchesBelow(capture.seq)' /\ QueueBelow(capture.seq)' /\ capture'.seq <= captured')
  BY <1>3, <1>4 DEF OrderInv, BatchesBelow, QueueBelow
<1>8. BatchesBelow(captured + 1)' /\ QueueBelow(captured + 1)'
  BY <1>3, <1>4 DEF OrderInv, BatchesBelow, QueueBelow
<1> QED
  BY <1>3, <1>5, <1>6, <1>7, <1>8 DEF OrderInv
\* What a cut takes from the queue.
LEMMA CutFacts ==
  ASSUME TypeOK, RunAppend, IsFull(Append(frameBuffer, Head(blocks)))
  PROVE  LET buffer == Append(frameBuffer, Head(blocks))
         IN  /\ dispatched' = Append(dispatched, buffer)
             /\ Len(dispatched') = Len(dispatched) + 1
             /\ \A k \in 1..Len(dispatched) : dispatched'[k] = dispatched[k]
             /\ dispatched'[Len(dispatched) + 1] = buffer
             /\ Leaves(Queue', Queue, BatchSize)
             /\ \A i \in 1..BatchSize :
                  i \in 1..Len(Queue) /\ buffer[i] = Queue[i] /\ Queue[i] # Clear
             /\ Len(buffer) = BatchSize
             /\ UNCHANGED <<captured, capture>>
<1> DEFINE buffer == Append(frameBuffer, Head(blocks))
<1>1. blocks # <<>> /\ Head(blocks) \in Frame
  BY DEF RunAppend, TypeOK
<1>2. UNCHANGED <<captured, capture>> /\ blocks' = Tail(blocks)
  BY DEF RunAppend
<1>3. dispatched' = Append(dispatched, buffer) /\ frameBuffer' = <<>>
  BY DEF RunAppend, CutBatch
<1>4. Len(frameBuffer) + 1 = BatchSize /\ buffer \in Seq(Frame) /\ Len(buffer) = BatchSize
  BY <1>1 DEF IsFull, TypeOK
<1>5. /\ Leaves(Queue', Queue, BatchSize)
      /\ \A i \in 1..BatchSize : buffer[i] = Queue[i]
      /\ BatchSize <= Len(Queue)
  BY <1>1, <1>2, <1>3, <1>4, QueueCut DEF Queue
<1>6. ASSUME NEW i \in 1..BatchSize
      PROVE  i \in 1..Len(Queue) /\ buffer[i] = Queue[i] /\ Queue[i] # Clear
  <2>1. Len(Queue) \in Nat
    BY QueueType
  <2>2. buffer[i] \in Frame
    BY <1>4
  <2>3. i \in 1..Len(Queue) /\ buffer[i] = Queue[i]
    <3> HIDE DEF buffer
    <3> QED
      BY <1>5, <2>1
  <2> HIDE DEF buffer
  <2> QED
    BY <2>2, <2>3
<1>7. /\ Len(dispatched') = Len(dispatched) + 1
      /\ \A k \in 1..Len(dispatched) : dispatched'[k] = dispatched[k]
      /\ dispatched'[Len(dispatched) + 1] = buffer
  <2> HIDE DEF buffer
  <2> QED
    BY <1>3 DEF TypeOK
<1> QED
  BY <1>2, <1>3, <1>4, <1>5, <1>6, <1>7

LEMMA OrderInvCut ==
  ASSUME TypeOK, TypeOK', OrderInv, RunAppend, IsFull(Append(frameBuffer, Head(blocks)))
  PROVE  OrderInv'
<1> DEFINE buffer == Append(frameBuffer, Head(blocks))
<1>1. /\ Len(dispatched') = Len(dispatched) + 1
      /\ \A k \in 1..Len(dispatched) : dispatched'[k] = dispatched[k]
      /\ dispatched'[Len(dispatched) + 1] = buffer
      /\ UNCHANGED <<captured, capture>>
      /\ Leaves(Queue', Queue, BatchSize)
  BY CutFacts
<1>2. \A i \in 1..BatchSize :
        i \in 1..Len(Queue) /\ buffer[i] = Queue[i] /\ Queue[i] # Clear
  BY CutFacts
<1> HIDE DEF buffer
<1>3. Len(Queue) \in Nat /\ Len(Queue') \in Nat /\ Len(dispatched) \in Nat
  BY QueueType DEF TypeOK, Queue
<1>4. ASSUME NEW k \in 1..Len(dispatched')
      PROVE  \/ k \in 1..Len(dispatched) /\ dispatched'[k] = dispatched[k]
             \/ k = Len(dispatched) + 1 /\ dispatched'[k] = buffer
  BY <1>1, <1>3
<1>5. ASSUME NEW i \in 1..Len(Queue')
      PROVE  /\ i + BatchSize \in 1..Len(Queue) /\ Queue'[i] = Queue[i + BatchSize]
             /\ \A j \in 1..BatchSize : j < i + BatchSize
  BY <1>1, <1>3 DEF Leaves
<1>6. ASSUME NEW n, BatchesBelow(n), \A i \in 1..BatchSize : buffer[i].seq < n
      PROVE  BatchesBelow(n)'
  BY <1>4, <1>6 DEF BatchesBelow
<1>7. BatchesOrdered'
  <2> SUFFICES ASSUME NEW k \in 1..Len(dispatched'), NEW l \in 1..Len(dispatched'),
                      NEW i \in 1..BatchSize, NEW j \in 1..BatchSize,
                      k < l \/ (k = l /\ i < j)
               PROVE  dispatched'[k][i].seq < dispatched'[l][j].seq
    BY DEF BatchesOrdered
  <2>1. CASE l \in 1..Len(dispatched)
    <3>1. k \in 1..Len(dispatched)
      BY <1>3, <1>4, <2>1
    <3> QED
      BY <1>1, <2>1, <3>1 DEF OrderInv, BatchesOrdered
  <2>2. CASE l = Len(dispatched) + 1 /\ k \in 1..Len(dispatched)
    <3>1. dispatched'[k] = dispatched[k] /\ dispatched'[l][j] = Queue[j]
      BY <1>1, <1>2, <2>2
    <3> QED
      BY <1>2, <2>2, <3>1 DEF OrderInv, BatchesBelowQueue, BatchesBelow
  <2>3. CASE l = Len(dispatched) + 1 /\ k = l
    <3>1. dispatched'[k][i] = Queue[i] /\ dispatched'[l][j] = Queue[j] /\ i < j
      BY <1>1, <1>2, <2>3
    <3> QED
      BY <1>2, <3>1 DEF OrderInv, QueueOrdered
  <2> QED
    BY <1>4, <2>1, <2>2, <2>3
<1>8. BatchesBelowQueue'
  <2>1. ASSUME NEW i \in 1..Len(Queue'), Queue'[i] # Clear,
               NEW k \in 1..Len(dispatched'), NEW j \in 1..BatchSize
        PROVE  dispatched'[k][j].seq < Queue'[i].seq
    <3>1. CASE k \in 1..Len(dispatched) /\ dispatched'[k] = dispatched[k]
      BY <1>5, <2>1, <3>1 DEF OrderInv, BatchesBelowQueue, BatchesBelow
    <3>2. CASE dispatched'[k] = buffer
      BY <1>2, <1>5, <2>1, <3>2 DEF OrderInv, QueueOrdered
    <3> QED
      BY <1>4, <2>1, <3>1, <3>2
  <2> QED
    BY <2>1 DEF BatchesBelowQueue, BatchesBelow
<1>9. QueueOrdered'
  <2> SUFFICES ASSUME NEW i \in 1..Len(Queue'), NEW j \in 1..Len(Queue'),
                      i < j, Queue'[i] # Clear, Queue'[j] # Clear
               PROVE  Queue'[i].seq < Queue'[j].seq
    BY DEF QueueOrdered
  <2>1. i + BatchSize < j + BatchSize
    BY <1>3
  <2> QED
    BY <1>5, <2>1 DEF OrderInv, QueueOrdered
<1>10. ASSUME NEW n, BatchesBelow(n), QueueBelow(n)
       PROVE  BatchesBelow(n)' /\ QueueBelow(n)'
  <2>1. \A i \in 1..BatchSize : buffer[i].seq < n
    BY <1>2, <1>10 DEF QueueBelow
  <2>2. QueueBelow(n)'
    BY <1>5, <1>10 DEF QueueBelow
  <2> QED
    BY <1>6, <1>10, <2>1, <2>2
<1>11. capture' # NoFrame =>
         (BatchesBelow(capture.seq)' /\ QueueBelow(capture.seq)' /\ capture'.seq <= captured')
  BY <1>1, <1>10 DEF OrderInv, BatchesBelow, QueueBelow
<1>12. BatchesBelow(captured + 1)' /\ QueueBelow(captured + 1)'
  BY <1>1, <1>10 DEF OrderInv, BatchesBelow, QueueBelow
<1> QED
  BY <1>7, <1>8, <1>9, <1>11, <1>12 DEF OrderInv

LEMMA OrderInvRunAppend ==
  ASSUME TypeOK, TypeOK', OrderInv, RunAppend PROVE OrderInv'
<1> DEFINE buffer == Append(frameBuffer, Head(blocks))
<1>1. CASE IsFull(buffer)
  BY <1>1, OrderInvCut
<1>2. CASE ~IsFull(buffer)
  <2>1. blocks # <<>> /\ Head(blocks) \in Frame /\ blocks' = Tail(blocks)
    BY DEF RunAppend, TypeOK
  <2>2. frameBuffer' = buffer /\ UNCHANGED <<dispatched, captured, capture>>
    BY <1>2 DEF RunAppend
  <2>3. Queue' = Queue
    BY <2>1, <2>2, QueueMoved DEF Queue
  <2> QED
    BY <2>2, <2>3, OrderInvQueueKept
<1> QED
  BY <1>1, <1>2

\* A step that queues a block: a clear, or the frame that was converted.
LEMMA OrderInvQueueLonger ==
  ASSUME TypeOK, TypeOK', OrderInv, NEW x \in Item, Extends(Queue', Queue, x),
         UNCHANGED <<captured, dispatched>>,
         \/ x = Clear /\ capture' = capture
         \/ x = capture /\ x # NoFrame /\ capture' = NoFrame
  PROVE  OrderInv'
<1>1. Len(Queue) \in Nat /\ Len(Queue') = Len(Queue) + 1
  BY QueueType DEF Extends
<1>2. ASSUME NEW i \in 1..Len(Queue')
      PROVE  \/ i \in 1..Len(Queue) /\ Queue'[i] = Queue[i]
             \/ i = Len(Queue) + 1 /\ Queue'[i] = x
  BY <1>1 DEF Extends
<1>3. BatchesOrdered' /\ \A n : BatchesBelow(n) => BatchesBelow(n)'
  BY DEF OrderInv, BatchesOrdered, BatchesBelow
<1>4. x # Clear => (BatchesBelow(x.seq) /\ QueueBelow(x.seq) /\ x.seq <= captured)
  BY DEF OrderInv
<1>5. BatchesBelowQueue'
  <2>1. ASSUME NEW i \in 1..Len(Queue'), Queue'[i] # Clear,
               NEW k \in 1..Len(dispatched), NEW j \in 1..BatchSize
        PROVE  dispatched[k][j].seq < Queue'[i].seq
    <3>1. CASE i \in 1..Len(Queue) /\ Queue'[i] = Queue[i]
      BY <2>1, <3>1 DEF OrderInv, BatchesBelowQueue, BatchesBelow
    <3>2. CASE Queue'[i] = x
      BY <1>4, <2>1, <3>2 DEF BatchesBelow
    <3> QED
      BY <1>2, <2>1, <3>1, <3>2
  <2> QED
    BY <2>1 DEF BatchesBelowQueue, BatchesBelow
<1>6. QueueOrdered'
  <2> SUFFICES ASSUME NEW i \in 1..Len(Queue'), NEW j \in 1..Len(Queue'),
                      i < j, Queue'[i] # Clear, Queue'[j] # Clear
               PROVE  Queue'[i].seq < Queue'[j].seq
    BY DEF QueueOrdered
  <2>1. i \in 1..Len(Queue) /\ Queue'[i] = Queue[i]
    BY <1>1, <1>2
  <2> QED
    BY <1>2, <1>4, <2>1 DEF OrderInv, QueueOrdered, QueueBelow
<1>7. ASSUME NEW n, QueueBelow(n), x # Clear => x.seq < n PROVE QueueBelow(n)'
  BY <1>2, <1>7 DEF QueueBelow
<1>8. BatchesBelow(captured + 1)' /\ QueueBelow(captured + 1)'
  <2>1. x # Clear => x.seq < captured + 1
    <3>1. x # Clear => x.seq \in Nat
      BY DEF Item, Frame
    <3> QED
      BY <1>4, <3>1 DEF TypeOK
  <2>2. QueueBelow(captured + 1)'
    BY <1>7, <2>1 DEF OrderInv, QueueBelow
  <2> QED
    BY <1>3, <2>2 DEF OrderInv, BatchesBelow
<1>9. capture' # NoFrame =>
        (BatchesBelow(capture.seq)' /\ QueueBelow(capture.seq)' /\ capture'.seq <= captured')
  <2> SUFFICES ASSUME capture' # NoFrame
               PROVE  BatchesBelow(capture.seq)' /\ QueueBelow(capture.seq)' /\ capture'.seq <= captured'
    OBVIOUS
  <2>1. x = Clear /\ capture' = capture
    OBVIOUS
  <2>2. BatchesBelow(capture.seq) /\ QueueBelow(capture.seq) /\ capture.seq <= captured
    BY <2>1 DEF OrderInv
  <2>3. QueueBelow(capture.seq)'
    BY <1>7, <2>1, <2>2 DEF QueueBelow
  <2> QED
    BY <1>3, <2>1, <2>2, <2>3 DEF BatchesBelow
<1> QED
  BY <1>3, <1>5, <1>6, <1>8, <1>9 DEF OrderInv
LEMMA OrderInvCapture ==
  ASSUME TypeOK, TypeOK', OrderInv, CaptureOutput PROVE OrderInv'
<1>1. /\ UNCHANGED <<dispatched, frameBuffer, blocks>> /\ Queue' = Queue
      /\ captured' = captured + 1 /\ capture'.seq = captured + 1
  BY DEF CaptureOutput, bufferVars, Queue
<1>2. BatchesOrdered' /\ BatchesBelowQueue' /\ QueueOrdered'
  BY <1>1 DEF OrderInv, BatchesOrdered, BatchesBelowQueue, BatchesBelow, QueueOrdered
<1>3. BatchesBelow(captured + 1) /\ QueueBelow(captured + 1) /\ captured \in Nat
  BY DEF OrderInv, TypeOK
<1>4. BatchesBelow(captured + 2) /\ QueueBelow(captured + 2)
  <2>1. ASSUME NEW k \in 1..Len(dispatched), NEW i \in 1..BatchSize
        PROVE  dispatched[k][i].seq < captured + 2
    <3>1. dispatched[k][i].seq \in Nat
      <4>1. dispatched[k] \in Seq(Frame) /\ Len(dispatched[k]) = BatchSize
        BY <2>1 DEF TypeOK
      <4>2. dispatched[k][i] \in Frame
        BY <2>1, <4>1
      <4> QED
        BY <4>2 DEF Frame
    <3> QED
      BY <1>3, <2>1, <3>1 DEF BatchesBelow
  <2>2. ASSUME NEW i \in 1..Len(Queue), Queue[i] # Clear PROVE Queue[i].seq < captured + 2
    <3>1. Queue[i] \in Item
      BY QueueType
    <3>2. Queue[i].seq \in Nat
      BY <2>2, <3>1 DEF Item, Frame
    <3> QED
      BY <1>3, <2>2, <3>2 DEF QueueBelow
  <2> QED
    BY <2>1, <2>2 DEF BatchesBelow, QueueBelow
<1>5. BatchesBelow(capture.seq)' /\ QueueBelow(capture.seq)' /\ capture'.seq <= captured'
  BY <1>1, <1>3 DEF BatchesBelow, QueueBelow
<1>6. BatchesBelow(captured + 1)' /\ QueueBelow(captured + 1)'
  BY <1>1, <1>3, <1>4 DEF BatchesBelow, QueueBelow
<1> QED
  BY <1>2, <1>5, <1>6 DEF OrderInv

LEMMA OrderInvNext ==
  ASSUME TypeOK, TypeOK', OrderInv, [Next]_vars PROVE OrderInv'
<1>1. CASE Appear
  BY <1>1, OrderInvQueueKept DEF Appear, bufferVars, Queue
<1>2. CASE Disappear
  BY <1>2, OrderInvQueueKept DEF Disappear, bufferVars, Queue
<1>3. CASE SwitchCamera
  BY <1>3, OrderInvQueueKept DEF SwitchCamera, bufferVars, Queue
<1>4. CASE StartSending
  BY <1>4, OrderInvQueueKept DEF StartSending, bufferVars, Queue
<1>5. CASE StopSending
  BY <1>5, OrderInvQueueKept DEF StopSending, bufferVars, Queue
<1>6. CASE ClearFrameBuffer
  <2>1. Extends(Queue', Queue, Clear) /\ Clear \in Item
    BY <1>6, QueueExtended DEF ClearFrameBuffer, bufferVars, Item
  <2> QED
    BY <1>6, <2>1, OrderInvQueueLonger DEF ClearFrameBuffer, bufferVars
<1>7. CASE CaptureOutput
  BY <1>7, OrderInvCapture
<1>8. CASE ConversionFails
  BY <1>8, OrderInvQueueKept DEF ConversionFails, mainVars, bufferVars, Queue
<1>9. CASE QueueAppend
  <2>1. capture \in Item /\ capture # NoFrame
    BY <1>9 DEF QueueAppend, TypeOK, Item
  <2>2. Extends(Queue', Queue, capture)
    BY <1>9, <2>1, QueueExtended DEF QueueAppend, bufferVars
  <2> QED
    BY <1>9, <2>1, <2>2, OrderInvQueueLonger DEF QueueAppend, bufferVars
<1>10. CASE RunAppend
  BY <1>10, OrderInvRunAppend
<1>11. CASE RunClear
  <2>1. Leaves(Queue', Queue, Len(frameBuffer) + 1) /\ Len(frameBuffer) + 1 \in Nat
    BY <1>11, QueueCleared DEF RunClear, Queue, TypeOK
  <2> QED
    BY <1>11, <2>1, OrderInvQueueShorter DEF RunClear
<1>12. ASSUME NEW k \in outbox, SendFrames(k) PROVE OrderInv'
  BY <1>12, OrderInvQueueKept DEF SendFrames, mainVars, Queue
<1>13. CASE UNCHANGED vars
  BY <1>13, OrderInvQueueKept DEF vars, mainVars, bufferVars, Queue
<1>14. CASE Release
  <2>1. Len(Queue') = 0 /\ capture' = NoFrame /\ UNCHANGED <<captured, dispatched>>
    BY <1>14 DEF Release, Queue
  <2>2. BatchesOrdered' /\ BatchesBelowQueue' /\ QueueOrdered' /\ QueueBelow(captured + 1)'
    BY <2>1 DEF OrderInv, BatchesOrdered, BatchesBelowQueue, QueueOrdered, QueueBelow
  <2>3. BatchesBelow(captured + 1)'
    BY <2>1 DEF OrderInv, BatchesBelow
  <2> QED
    BY <2>1, <2>2, <2>3 DEF OrderInv
<1> QED
  BY <1>1, <1>2, <1>3, <1>4, <1>5, <1>6, <1>7, <1>8, <1>9, <1>10, <1>11, <1>12, <1>13, <1>14
  DEF Next

LEMMA OrderInvImplies == TypeOK /\ OrderInv => FramesInOrder
<1> SUFFICES ASSUME TypeOK, OrderInv PROVE FramesInOrder
  OBVIOUS
<1>1. ASSUME NEW i \in 1..Len(frameBuffer)
      PROVE  i \in 1..Len(Queue) /\ Queue[i] = frameBuffer[i] /\ Queue[i] # Clear
  <2>1. frameBuffer[i] \in Frame
    BY <1>1 DEF TypeOK
  <2>2. i \in 1..Len(Queue) /\ Queue[i] = frameBuffer[i]
    BY <1>1 DEF TypeOK, Queue
  <2> QED
    BY <2>1, <2>2
<1>2. \A k \in 1..Len(dispatched) : \A i \in 1..BatchSize, j \in 1..Len(frameBuffer) :
        dispatched[k][i].seq < frameBuffer[j].seq
  BY <1>1 DEF OrderInv, BatchesBelowQueue, BatchesBelow
<1>3. \A i, j \in 1..Len(frameBuffer) : i < j => frameBuffer[i].seq < frameBuffer[j].seq
  BY <1>1 DEF OrderInv, QueueOrdered
<1> QED
  BY <1>2, <1>3 DEF OrderInv, BatchesOrdered, FramesInOrder

\* Frames go out in capture order and none goes out twice
\* (RealTimeClipView.swift: captureOutput and its blocks).
THEOREM Order == Spec => []FramesInOrder
<1>1. Init => OrderInv
  BY OrderInvInit
<1>2. TypeOK /\ TypeOK' /\ OrderInv /\ [Next]_vars => OrderInv'
  BY OrderInvNext
<1>3. TypeOK /\ OrderInv => FramesInOrder
  BY OrderInvImplies
<1> QED
  BY <1>1, <1>2, <1>3, TypeInvariant, PTL DEF Spec
-----------------------------------------------------------------------------
(***************************************************************************)
(* The refinement of ClipFeed: a cut emits a clip, every other step leaves *)
(* the feed alone.  Whether the batch cut is a clip newer than the others  *)
(* is what the two invariants say of the state after the step.             *)
(***************************************************************************)

LEMMA FeedStep ==
  ASSUME TypeOK, [Next]_vars, FramesInOrder', AtMostOneStale'
  PROVE  [Feed!Next]_dispatched
<1>1. CASE RunAppend
  <2> DEFINE buffer == Append(frameBuffer, Head(blocks))
  <2>1. CASE IsFull(buffer)
    <3>1. /\ dispatched' = Append(dispatched, buffer)
          /\ Len(dispatched') = Len(dispatched) + 1
          /\ \A k \in 1..Len(dispatched) : dispatched'[k] = dispatched[k]
          /\ dispatched'[Len(dispatched) + 1] = buffer
          /\ Len(buffer) = BatchSize
      BY <1>1, <2>1, CutFacts
    <3> HIDE DEF buffer
    <3>2. Len(dispatched) \in Nat /\ Len(dispatched) + 1 \in 1..Len(dispatched')
      BY <3>1 DEF TypeOK
    <3>3. \A k \in 1..Len(dispatched) : k \in 1..Len(dispatched') /\ k < Len(dispatched) + 1
      BY <3>1, <3>2
    <3>4. Feed!IsClip(buffer)
      <4>1. \A i, j \in 1..BatchSize : i < j => buffer[i].seq < buffer[j].seq
        BY <3>1, <3>2 DEF FramesInOrder
      <4>2. \A i, j \in 2..BatchSize : buffer[i].session = buffer[j].session
        BY <3>1, <3>2 DEF AtMostOneStale
      <4> QED
        BY <3>1, <4>1, <4>2 DEF Feed!IsClip
    <3>5. Feed!Newer(buffer)
      BY <3>1, <3>2, <3>3 DEF FramesInOrder, Feed!Newer
    <3>6. dispatched' # <<>> /\ dispatched'[Len(dispatched')] = buffer
      BY <3>1, <3>2
    <3> QED
      BY <3>1, <3>4, <3>5, <3>6 DEF Feed!Next, Feed!Emit
  <2>2. CASE ~IsFull(buffer)
    BY <1>1, <2>2 DEF RunAppend
  <2> QED
    BY <2>1, <2>2
<1>2. CASE UNCHANGED dispatched
  BY <1>2
<1> QED
  BY <1>1, <1>2 DEF Next, vars, bufferVars, Appear, Disappear, Release, SwitchCamera, StartSending,
    StopSending, ClearFrameBuffer, CaptureOutput, ConversionFails, QueueAppend, RunClear, SendFrames

\* The batches the live view cuts implement the abstract feed of clips.
THEOREM Refinement == Spec => FeedSpec
<1>1. Init => Feed!Init
  BY DEF Init, Feed!Init
<1>2. TypeOK /\ [Next]_vars /\ FramesInOrder' /\ AtMostOneStale' => [Feed!Next]_dispatched
  BY FeedStep
<1> QED
  BY <1>1, <1>2, TypeInvariant, Order, Staleness, PTL DEF Spec, FeedSpec, Feed!Spec
-----------------------------------------------------------------------------
(***************************************************************************)
(* What a clear removes.  A clear is queued after sending has stopped, so  *)
(* the frames ahead of it are of sessions that are over; and sending only  *)
(* starts again once it is queued.                                         *)
(***************************************************************************)

Past(x) == ~isSending \/ x.session < session

ClearedInv ==
  /\ stopping => ~isSending
  /\ \A i \in 1..Len(Queue) : Queue[i] # Clear => Queue[i].session <= session
  /\ capture # NoFrame => capture.session <= session
  /\ \A i, j \in 1..Len(Queue) :
       (i < j /\ Queue[i] # Clear /\ Queue[j] = Clear) => Past(Queue[i])

LEMMA ClearedInvInit == Init => ClearedInv
<1> SUFFICES ASSUME Init PROVE ClearedInv
  OBVIOUS
<1>1. Len(Queue) = 0 /\ capture = NoFrame /\ ~stopping
  BY DEF Init, Queue
<1> QED
  BY <1>1 DEF ClearedInv

LEMMA ClearedInvQueueShorter ==
  ASSUME TypeOK, TypeOK', ClearedInv, NEW m \in Nat, Leaves(Queue', Queue, m),
         capture' = capture \/ capture' = NoFrame,
         UNCHANGED <<stopping, session>>, isSending' = isSending \/ ~isSending'
  PROVE  ClearedInv'
<1>1. Len(Queue) \in Nat /\ Len(Queue') \in Nat
  BY QueueType DEF TypeOK, Queue
<1>2. ASSUME NEW i \in 1..Len(Queue')
      PROVE  i + m \in 1..Len(Queue) /\ Queue'[i] = Queue[i + m]
  BY <1>1, <1>2 DEF Leaves
<1>3. \A i \in 1..Len(Queue') : Queue'[i] # Clear => Queue'[i].session <= session'
  BY <1>2 DEF ClearedInv
<1>4. ASSUME NEW i \in 1..Len(Queue'), NEW j \in 1..Len(Queue'),
             i < j, Queue'[i] # Clear, Queue'[j] = Clear
      PROVE  ~isSending' \/ Queue'[i].session < session'
  <2>1. i + m < j + m
    BY <1>1, <1>4
  <2> QED
    BY <1>2, <1>4, <2>1 DEF ClearedInv, Past
<1> QED
  BY <1>3, <1>4 DEF ClearedInv, Past

LEMMA ClearedInvQueueLonger ==
  ASSUME TypeOK, TypeOK', ClearedInv, NEW x \in Item, Extends(Queue', Queue, x),
         UNCHANGED <<isSending, session>>, stopping' => stopping,
         capture' = capture \/ capture' = NoFrame,
         (x = Clear /\ stopping) \/ (x = capture /\ x # NoFrame /\ x # Clear)
  PROVE  ClearedInv'
<1>1. Len(Queue) \in Nat /\ Len(Queue') = Len(Queue) + 1
  BY QueueType DEF Extends
<1>2. ASSUME NEW i \in 1..Len(Queue')
      PROVE  \/ i \in 1..Len(Queue) /\ Queue'[i] = Queue[i]
             \/ i = Len(Queue) + 1 /\ Queue'[i] = x
  BY <1>1 DEF Extends
<1>3. \A i \in 1..Len(Queue') : Queue'[i] # Clear => Queue'[i].session <= session'
  BY <1>2 DEF ClearedInv
<1>4. ASSUME NEW i \in 1..Len(Queue'), NEW j \in 1..Len(Queue'),
             i < j, Queue'[i] # Clear, Queue'[j] = Clear
      PROVE  ~isSending' \/ Queue'[i].session < session'
  <2>1. i \in 1..Len(Queue) /\ Queue'[i] = Queue[i]
    BY <1>1, <1>2, <1>4
  <2> QED
    BY <1>2, <1>4, <2>1 DEF ClearedInv, Past
<1> QED
  BY <1>3, <1>4 DEF ClearedInv, Past
LEMMA ClearedInvNext ==
  ASSUME TypeOK, TypeOK', ClearedInv, [Next]_vars PROVE ClearedInv'
<1>1. Len(Queue) \in Nat /\ \A i \in 1..Len(Queue) : Queue[i] \in Item
  BY QueueType
<1>2. ASSUME NEW x \in Frame PROVE x.session \in Nat
  BY <1>2 DEF Frame
<1>3. ASSUME Queue' = Queue, session' = session \/ (~isSending /\ session' = session + 1),
             isSending' = isSending \/ ~isSending' \/ session' = session + 1,
             stopping' => ~isSending',
             capture' = capture \/ capture' = NoFrame \/ capture'.session = session'
      PROVE  ClearedInv'
  <2>1. ASSUME NEW i \in 1..Len(Queue), Queue[i] # Clear
        PROVE  Queue[i].session <= session' /\ (session' = session + 1 => Queue[i].session < session')
    <3>1. Queue[i].session \in Nat /\ session \in Nat /\ Queue[i].session <= session
      BY <1>1, <1>2, <2>1 DEF Item, ClearedInv, TypeOK
    <3> QED
      BY <1>3, <3>1
  <2>2. (capture # NoFrame => capture.session <= session)'
    <3>1. capture # NoFrame => (capture.session \in Nat /\ capture.session <= session)
      BY <1>2 DEF ClearedInv, TypeOK
    <3> QED
      BY <1>3, <3>1 DEF TypeOK
  <2>3. ASSUME NEW i \in 1..Len(Queue), NEW j \in 1..Len(Queue),
               i < j, Queue[i] # Clear, Queue[j] = Clear
        PROVE  ~isSending' \/ Queue[i].session < session'
    BY <1>3, <2>1, <2>3 DEF ClearedInv, Past
  <2> QED
    BY <1>3, <2>1, <2>2, <2>3 DEF ClearedInv, Past
<1>4. CASE Appear
  BY <1>3, <1>4 DEF Appear, bufferVars, Queue, ClearedInv
<1>5. CASE Disappear
  BY <1>3, <1>5 DEF Disappear, bufferVars, Queue, ClearedInv
<1>6. CASE SwitchCamera
  BY <1>3, <1>6 DEF SwitchCamera, bufferVars, Queue, ClearedInv
<1>7. CASE StartSending
  BY <1>3, <1>7 DEF StartSending, MainThreadFree, bufferVars, Queue
<1>8. CASE StopSending
  BY <1>3, <1>8 DEF StopSending, bufferVars, Queue
<1>9. CASE ClearFrameBuffer
  <2>1. Extends(Queue', Queue, Clear) /\ Clear \in Item
    BY <1>9, QueueExtended DEF ClearFrameBuffer, bufferVars, Item
  <2> QED
    BY <1>9, <2>1, ClearedInvQueueLonger DEF ClearFrameBuffer
<1>10. CASE CaptureOutput
  BY <1>3, <1>10 DEF CaptureOutput, mainVars, bufferVars, Queue, ClearedInv
<1>11. CASE ConversionFails
  BY <1>3, <1>11 DEF ConversionFails, mainVars, bufferVars, Queue, ClearedInv
<1>12. CASE QueueAppend
  <2>1. capture \in Item /\ capture # NoFrame /\ capture # Clear
    BY <1>12 DEF QueueAppend, TypeOK, Item
  <2>2. Extends(Queue', Queue, capture)
    BY <1>12, <2>1, QueueExtended DEF QueueAppend, bufferVars
  <2> QED
    BY <1>12, <2>1, <2>2, ClearedInvQueueLonger DEF QueueAppend, mainVars
<1>13. CASE RunAppend
  <2> DEFINE buffer == Append(frameBuffer, Head(blocks))
  <2>1. CASE IsFull(buffer)
    BY <1>13, <2>1, CutFacts, ClearedInvQueueShorter DEF RunAppend, mainVars
  <2>2. CASE ~IsFull(buffer)
    <3>1. blocks # <<>> /\ Head(blocks) \in Frame /\ blocks' = Tail(blocks)
      BY <1>13 DEF RunAppend, TypeOK
    <3>2. frameBuffer' = buffer
      BY <1>13, <2>2 DEF RunAppend
    <3>3. Queue' = Queue
      BY <3>1, <3>2, QueueMoved DEF Queue
    <3> QED
      BY <1>3, <1>13, <3>3 DEF RunAppend, mainVars, ClearedInv
  <2> QED
    BY <2>1, <2>2
<1>14. CASE RunClear
  <2>1. Leaves(Queue', Queue, Len(frameBuffer) + 1) /\ Len(frameBuffer) + 1 \in Nat
    BY <1>14, QueueCleared DEF RunClear, Queue, TypeOK
  <2> QED
    BY <1>14, <2>1, ClearedInvQueueShorter DEF RunClear, mainVars
<1>15. ASSUME NEW k \in outbox, SendFrames(k) PROVE ClearedInv'
  BY <1>3, <1>15 DEF SendFrames, mainVars, Queue, ClearedInv
<1>16. CASE UNCHANGED vars
  BY <1>3, <1>16 DEF vars, mainVars, bufferVars, Queue, ClearedInv
<1>17. CASE Release
  <2>1. Len(Queue') = 0 /\ capture' = NoFrame /\ ~isSending'
    BY <1>17 DEF Release, Queue
  <2> QED
    BY <2>1 DEF ClearedInv
<1> QED
  BY <1>4, <1>5, <1>6, <1>7, <1>8, <1>9, <1>10, <1>11, <1>12, <1>13, <1>14, <1>15, <1>16, <1>17
  DEF Next

LEMMA ClearedStep ==
  ASSUME TypeOK, ClearedInv, [Next]_vars, model', dispatched' = dispatched,
         NEW i \in 1..Len(frameBuffer)
  PROVE  Len(frameBuffer') >= i \/ ~isSending \/ frameBuffer[i].session < session
<1>1. Len(frameBuffer) \in Nat
  BY DEF TypeOK
<1>2. CASE RunAppend
  <2>1. CASE IsFull(Append(frameBuffer, Head(blocks)))
    <3>1. Len(dispatched') = Len(dispatched) + 1 /\ Len(dispatched) \in Nat
      BY <1>2, <2>1, CutFacts DEF TypeOK
    <3> QED
      BY <3>1
  <2>2. CASE ~IsFull(Append(frameBuffer, Head(blocks)))
    <3>1. frameBuffer' = Append(frameBuffer, Head(blocks)) /\ Head(blocks) \in Frame
      BY <1>2, <2>2 DEF RunAppend, TypeOK
    <3>2. Len(frameBuffer') = Len(frameBuffer) + 1
      BY <3>1 DEF TypeOK
    <3> QED
      BY <1>1, <3>2
  <2> QED
    BY <2>1, <2>2
<1>3. CASE RunClear
  <2>1. /\ i \in 1..Len(Queue) /\ Queue[i] = frameBuffer[i]
        /\ Len(frameBuffer) + 1 \in 1..Len(Queue) /\ Queue[Len(frameBuffer) + 1] = Clear
    BY <1>3 DEF RunClear, TypeOK, Queue
  <2>2. frameBuffer[i] # Clear
    <3>1. frameBuffer[i] \in Frame
      BY DEF TypeOK
    <3> QED
      BY <3>1
  <2>3. i < Len(frameBuffer) + 1
    BY <1>1
  <2> QED
    BY <2>1, <2>2, <2>3 DEF ClearedInv, Past
<1>4. CASE UNCHANGED frameBuffer
  BY <1>1, <1>4
<1> QED
  BY <1>2, <1>3, <1>4 DEF Next, vars, bufferVars, Appear, Disappear, Release, SwitchCamera, StartSending,
    StopSending, ClearFrameBuffer, CaptureOutput, ConversionFails, QueueAppend, SendFrames

\* A clear only removes frames of sessions that are over
\* (RealTimeClipView.swift: the button and clearFrameBuffer).
THEOREM Clearing == Spec => OnlyEndedSessionsCleared
<1>1. Init => ClearedInv
  BY ClearedInvInit
<1>2. TypeOK /\ TypeOK' /\ ClearedInv /\ [Next]_vars => ClearedInv'
  BY ClearedInvNext
<1>3. TypeOK /\ ClearedInv /\ [Next]_vars =>
        [(model' /\ dispatched' = dispatched) =>
           \A i \in 1..Len(frameBuffer) :
             \/ Len(frameBuffer') >= i
             \/ ~isSending
             \/ frameBuffer[i].session < session]_vars
  BY ClearedStep
<1> QED
  BY <1>1, <1>2, <1>3, TypeInvariant, PTL DEF Spec, OnlyEndedSessionsCleared
-----------------------------------------------------------------------------
(***************************************************************************)
(* What StopDrains and EveryBatchSettles rest on, proved as invariants:    *)
(* after a stop the clear that drains the buffer is on its way, a batch    *)
(* cut is owed to URLSession or handed to it, never both, and there are    *)
(* no more batches than the frames captured make.                          *)
(***************************************************************************)

Drains ==
  (~isSending /\ Len(frameBuffer) > 1) => stopping \/ \E i \in DOMAIN blocks : blocks[i] = Clear

HandedOver ==
  /\ outbox \cup sent = 1..Len(dispatched)
  /\ outbox \cap sent = {}

Fits == Len(dispatched) \in 0..MaxBatches

\* A quiet queue behind two frames in the buffer holds a clear.
LEMMA QuietDrains ==
  ASSUME TypeOK, StaleInv
  PROVE  Drains
<1> SUFFICES ASSUME ~isSending, Len(frameBuffer) > 1, ~stopping
             PROVE  \E i \in DOMAIN blocks : blocks[i] = Clear
  BY DEF Drains
<1>1. /\ frameBuffer \in Seq(Frame) /\ blocks \in Seq(Item)
      /\ Len(frameBuffer) \in Nat /\ Len(blocks) \in Nat
  BY DEF TypeOK, Item
<1>2. Len(Queue) = Len(frameBuffer) + Len(blocks) /\ 2 \in 2..Len(Queue)
  BY <1>1 DEF Queue
<1>3. PICK n \in 1..Len(Queue) : Queue[n] = Clear
  <2>1. ~Unbroken(Queue, 1, Len(Queue))
    BY <1>2 DEF StaleInv, Quiet
  <2> QED
    BY <2>1 DEF Unbroken
<1>4. n > Len(frameBuffer)
  <2>1. ASSUME n <= Len(frameBuffer) PROVE FALSE
    <3>1. Queue[n] = frameBuffer[n] /\ frameBuffer[n] \in Frame
      BY <1>1, <2>1 DEF Queue
    <3> QED
      BY <1>3, <3>1, MarkersAssumption
  <2> QED
    BY <1>1, <2>1
<1>5. n - Len(frameBuffer) \in DOMAIN blocks /\ Queue[n] = blocks[n - Len(frameBuffer)]
  BY <1>1, <1>2, <1>4 DEF Queue
<1> QED
  BY <1>3, <1>5

\* Once sending is stopped, either the button has still to queue its clear,
\* or a clear is queued, or there is at most the one stale frame to drain
\* (RealTimeClipView.swift: the button's two statements and bufferQueue).
THEOREM Draining == Spec => []Drains
<1>1. Init => StaleInv
  BY StaleInvInit
<1>2. TypeOK /\ TypeOK' /\ StaleInv /\ [Next]_vars => StaleInv'
  BY StaleInvNext
<1>3. TypeOK /\ StaleInv => Drains
  BY QuietDrains
<1> QED
  BY <1>1, <1>2, <1>3, TypeInvariant, PTL DEF Spec

\* Every batch cut is handed to URLSession at most once, and is owed to it
\* until then, whether the view is still there or not
\* (RealTimeClipView.swift: sendFrames, on the global queue).
THEOREM Handover == Spec => []HandedOver
<1>1. Init => HandedOver
  BY DEF Init, HandedOver
<1>2. TypeOK /\ HandedOver /\ [Next]_vars => HandedOver'
  <2> SUFFICES ASSUME TypeOK, HandedOver, [Next]_vars PROVE HandedOver'
    OBVIOUS
  <2>1. CASE RunAppend
    <3> DEFINE buffer == Append(frameBuffer, Head(blocks))
    <3>1. CASE IsFull(buffer)
      <4>1. Len(dispatched') = Len(dispatched) + 1 /\ Len(dispatched) \in Nat
        BY <2>1, <3>1, CutFacts DEF TypeOK
      <4>2. outbox' = outbox \cup {Len(dispatched) + 1} /\ sent' = sent
        BY <2>1, <3>1 DEF RunAppend, CutBatch
      <4> QED
        BY <4>1, <4>2 DEF HandedOver
    <3>2. CASE ~IsFull(buffer)
      BY <2>1, <3>2 DEF RunAppend, HandedOver
    <3> QED
      BY <3>1, <3>2
  <2>2. ASSUME NEW k \in outbox, SendFrames(k) PROVE HandedOver'
    BY <2>2 DEF SendFrames, HandedOver
  <2>3. CASE UNCHANGED <<dispatched, outbox, sent>>
    BY <2>3 DEF HandedOver
  <2> QED
    BY <2>1, <2>2, <2>3 DEF Next, vars, bufferVars, mainVars, Appear, Disappear, Release, SwitchCamera,
      StartSending, StopSending, ClearFrameBuffer, CaptureOutput, ConversionFails, QueueAppend,
      RunClear
<1> QED
  BY <1>1, <1>2, TypeInvariant, PTL DEF Spec

\* The frames are numbered as they are captured: the last of batch k is at
\* least the k * BatchSize-th, and those in the buffer come after.
CountInv ==
  /\ \A k \in 1..Len(dispatched) : dispatched[k][BatchSize].seq >= k * BatchSize
  /\ \A i \in 1..Len(frameBuffer) : frameBuffer[i].seq >= Len(dispatched) * BatchSize + i

\* The types of the numbers compared.
LEMMA SeqTypes ==
  ASSUME TypeOK
  PROVE  /\ BatchSize \in Nat \ {0} /\ Len(dispatched) \in Nat /\ Len(frameBuffer) \in Nat
         /\ \A k \in 1..Len(dispatched), i \in 1..BatchSize : dispatched[k][i].seq \in 1..MaxFrames
         /\ \A i \in 1..Len(frameBuffer) : frameBuffer[i].seq \in 1..MaxFrames
<1>1. ASSUME NEW k \in 1..Len(dispatched), NEW i \in 1..BatchSize
      PROVE  dispatched[k][i].seq \in 1..MaxFrames
  <2>1. dispatched[k] \in Seq(Frame) /\ Len(dispatched[k]) = BatchSize
    BY <1>1 DEF TypeOK
  <2>2. dispatched[k][i] \in Frame
    BY <1>1, <2>1
  <2> QED
    BY <2>2 DEF Frame
<1>2. ASSUME NEW i \in 1..Len(frameBuffer) PROVE frameBuffer[i].seq \in 1..MaxFrames
  <2>1. frameBuffer[i] \in Frame
    BY <1>2 DEF TypeOK
  <2> QED
    BY <2>1 DEF Frame
<1> QED
  BY <1>1, <1>2, BatchSizeAssumption DEF TypeOK

\* The frame appended is above all those before it.
LEMMA HeadAbove ==
  ASSUME TypeOK, OrderInv, CountInv, RunAppend
  PROVE  Head(blocks).seq >= Len(dispatched) * BatchSize + Len(frameBuffer) + 1
<1> DEFINE n == Len(dispatched)
           l == Len(frameBuffer)
           h == Head(blocks)
<1> SUFFICES h.seq >= n * BatchSize + l + 1
  OBVIOUS
<1>1. /\ n \in Nat /\ l \in Nat /\ BatchSize \in Nat \ {0} /\ n * BatchSize \in Nat
      /\ frameBuffer \in Seq(Frame) /\ h \in Frame /\ h.seq \in Nat \ {0}
  <2>1. n \in Nat /\ l \in Nat /\ BatchSize \in Nat \ {0} /\ frameBuffer \in Seq(Frame)
    BY SeqTypes DEF TypeOK
  <2>2. n * BatchSize \in Nat
    BY <2>1
  <2>3. blocks \in Seq(Frame \cup {Clear}) /\ blocks # <<>> /\ h # Clear
    BY DEF TypeOK, RunAppend
  <2>4. h \in Frame
    BY <2>3
  <2>5. h.seq \in Nat \ {0}
    BY <2>4, BoundsAssumption DEF Frame
  <2> QED
    BY <2>1, <2>2, <2>4, <2>5
<1>2. l + 1 \in 1..Len(Queue) /\ Queue[l + 1] = h /\ h # Clear
  <2>1. blocks \in Seq(Item) /\ blocks # <<>> /\ h = blocks[1] /\ frameBuffer \in Seq(Item)
    BY DEF TypeOK, RunAppend, Item
  <2>2. Len(blocks) \in Nat \ {0} /\ Len(Queue) = l + Len(blocks)
    BY <2>1 DEF Queue
  <2>3. Queue[l + 1] = blocks[1]
    BY <1>1, <2>1, <2>2 DEF Queue
  <2>4. l + 1 \in 1..Len(Queue)
    BY <1>1, <2>2
  <2>5. h # Clear
    BY <1>1, MarkersAssumption
  <2> QED
    BY <2>1, <2>3, <2>4, <2>5
<1>3. CASE l > 0
  <2>1. l \in 1..Len(Queue) /\ Queue[l] = frameBuffer[l] /\ frameBuffer[l] \in Frame
    BY <1>1, <1>2, <1>3 DEF Queue, TypeOK
  <2>2. frameBuffer[l].seq < h.seq
    BY <1>1, <1>2, <2>1, MarkersAssumption DEF OrderInv, QueueOrdered
  <2>3. frameBuffer[l].seq >= n * BatchSize + l /\ frameBuffer[l].seq \in Nat
    BY <1>1, <1>3, SeqTypes DEF CountInv
  <2> HIDE DEF n, l, h
  <2> QED
    BY <1>1, <2>2, <2>3
<1>4. CASE l = 0 /\ n > 0
  <2>1. n \in 1..n /\ BatchSize \in 1..BatchSize
    BY <1>1, <1>4
  <2>2. dispatched[n][BatchSize].seq < h.seq
    BY <1>2, <2>1 DEF OrderInv, BatchesBelowQueue, BatchesBelow
  <2>3. dispatched[n][BatchSize].seq >= n * BatchSize /\ dispatched[n][BatchSize].seq \in Nat
    BY <2>1, SeqTypes DEF CountInv
  <2> HIDE DEF n, l, h
  <2> QED
    BY <1>1, <1>4, <2>2, <2>3
<1>5. CASE l = 0 /\ n = 0
  BY <1>1, <1>5
<1> QED
  BY <1>1, <1>3, <1>4, <1>5

\* Appending a frame, and cutting the batch it fills, keep CountInv.
LEMMA CountAppend ==
  ASSUME TypeOK, TypeOK', OrderInv, CountInv, RunAppend
  PROVE  CountInv'
<1> DEFINE buffer == Append(frameBuffer, Head(blocks))
           n == Len(dispatched)
           l == Len(frameBuffer)
<1>1. /\ n \in Nat /\ l \in Nat /\ BatchSize \in Nat \ {0}
      /\ frameBuffer \in Seq(Frame) /\ Head(blocks) \in Frame
  BY SeqTypes DEF TypeOK, RunAppend
<1>2. /\ Len(buffer) = l + 1 /\ buffer[l + 1] = Head(blocks)
      /\ \A i \in 1..l : buffer[i] = frameBuffer[i]
  BY <1>1
<1>3. buffer[l + 1].seq >= n * BatchSize + l + 1
  BY <1>2, HeadAbove
<1>4. CASE IsFull(buffer)
  <2>1. /\ Len(dispatched') = n + 1 /\ dispatched'[n + 1] = buffer /\ l + 1 = BatchSize
        /\ \A k \in 1..n : dispatched'[k] = dispatched[k]
    BY <1>2, <1>4, CutFacts DEF IsFull
  <2>2. Len(frameBuffer') = 0
    BY <1>4 DEF RunAppend, CutBatch
  <2> HIDE DEF buffer, n, l
  <2>3. (n + 1) * BatchSize = n * BatchSize + l + 1
    BY <1>1, <2>1
  <2>4. dispatched'[n + 1][BatchSize].seq >= (n + 1) * BatchSize
    BY <1>3, <2>1, <2>3
  <2>5. ASSUME NEW k \in 1..n PROVE dispatched'[k][BatchSize].seq >= k * BatchSize
    BY <2>1, <2>5 DEF CountInv, n
  <2>6. \A k \in 1..Len(dispatched') : k \in 1..n \/ k = n + 1
    BY <1>1, <2>1
  <2> QED
    BY <2>2, <2>4, <2>5, <2>6 DEF CountInv
<1>5. CASE ~IsFull(buffer)
  <2>1. dispatched' = dispatched /\ frameBuffer' = buffer
    BY <1>5 DEF RunAppend
  <2>2. ASSUME NEW i \in 1..Len(buffer) PROVE buffer[i].seq >= n * BatchSize + i
    <3>1. CASE i \in 1..l
      BY <1>2, <3>1 DEF CountInv
    <3>2. CASE i = l + 1
      <4> HIDE DEF buffer, n, l
      <4>1. n * BatchSize + (l + 1) = n * BatchSize + l + 1
        BY <1>1
      <4> QED
        BY <1>3, <3>2, <4>1
    <3> QED
      BY <1>1, <1>2, <3>1, <3>2
  <2> QED
    BY <2>1, <2>2 DEF CountInv
<1> QED
  BY <1>4, <1>5

\* Every step keeps CountInv.
LEMMA CountNext ==
  ASSUME TypeOK, TypeOK', OrderInv, CountInv, [Next]_vars
  PROVE  CountInv'
<1>1. CASE RunAppend
  BY <1>1, CountAppend
<1>2. CASE RunClear \/ Release
  <2>1. dispatched' = dispatched /\ Len(frameBuffer') = 0
    BY <1>2 DEF RunClear, Release
  <2> QED
    BY <2>1 DEF CountInv
<1>3. CASE UNCHANGED <<dispatched, frameBuffer>>
  BY <1>3 DEF CountInv
<1> QED
  BY <1>1, <1>2, <1>3 DEF Next, vars, bufferVars, Appear, Disappear, SwitchCamera, StartSending,
    StopSending, ClearFrameBuffer, CaptureOutput, ConversionFails, QueueAppend, SendFrames

\* A batch of frames that were all captured is one of the MaxBatches.
LEMMA CountFits ==
  ASSUME TypeOK, CountInv
  PROVE  Fits
<1> DEFINE n == Len(dispatched)
<1>1. n \in Nat /\ BatchSize \in Nat \ {0} /\ MaxFrames \in Nat
  BY SeqTypes, BoundsAssumption
<1>2. n * BatchSize <= MaxFrames
  <2>1. CASE n > 0
    <3>1. n \in 1..n /\ BatchSize \in 1..BatchSize
      BY <1>1, <2>1
    <3>2. dispatched[n][BatchSize].seq >= n * BatchSize
      BY <3>1 DEF CountInv
    <3>3. dispatched[n][BatchSize].seq \in 1..MaxFrames
      BY <3>1, SeqTypes
    <3> HIDE DEF n
    <3>4. n * BatchSize \in Nat
      BY <1>1
    <3> QED
      BY <1>1, <3>2, <3>3, <3>4
  <2>2. CASE n = 0
    BY <1>1, <2>2
  <2> QED
    BY <1>1, <2>1, <2>2
<1> HIDE DEF n
<1>3. n <= MaxFrames \div BatchSize /\ MaxFrames \div BatchSize \in Nat
  BY <1>1, <1>2
<1> QED
  BY <1>1, <1>3 DEF Fits, MaxBatches, n

\* No more batches go out than the frames captured fill, however the buffer
\* is cleared and sending resumed: every batch cut is one of the requests
\* EveryBatchSettles speaks of (RealTimeClipView.swift: captureOutput).
THEOREM BatchesFit == Spec => []Fits
<1>1. Init => OrderInv /\ CountInv
  <2>1. Init => CountInv
    BY DEF Init, CountInv
  <2> QED
    BY <2>1, OrderInvInit
<1>2. TypeOK /\ TypeOK' /\ OrderInv /\ CountInv /\ [Next]_vars => OrderInv' /\ CountInv'
  BY OrderInvNext, CountNext
<1>3. TypeOK /\ CountInv => Fits
  BY CountFits
<1> QED
  BY <1>1, <1>2, <1>3, TypeInvariant, PTL DEF Spec
-----------------------------------------------------------------------------
(***************************************************************************)
(* The composition with the receiver.                                      *)
(***************************************************************************)

Receiver == INSTANCE LiveFramesProofs WITH Requests <- 1..MaxBatches

\* The composition asks of a batch what the receiver takes for granted.
LEMMA BatchSizeFits == Receiver!LiveBatchSize
BY BatchSizeAssumption DEF Receiver!LiveBatchSize

\* The live view and the server each step on their own, and whatever the
\* live view does it takes no request back.
LEMMA Steps ==
  ASSUME [PhoneStep \/ ServerStep]_clipVars
  PROVE  /\ [Next]_vars
         /\ Receiver!Sends
         /\ Receiver!ServerStep \/ Receiver!Restart \/ UNCHANGED Receiver!serverVars
<1>1. CASE PhoneStep
  <2>1. Next /\ UNCHANGED Receiver!serverVars
    BY <1>1 DEF PhoneStep, serverVars, Receiver!serverVars
  <2>2. sent \subseteq sent'
    BY <2>1 DEF Next, mainVars, bufferVars, Appear, Disappear, Release, SwitchCamera, StartSending,
      StopSending, ClearFrameBuffer, CaptureOutput, ConversionFails, QueueAppend, RunAppend,
      RunClear, SendFrames
  <2> QED
    BY <2>1, <2>2 DEF Receiver!Sends
<1>2. CASE ServerStep
  <2>1. UNCHANGED vars /\ sent' = sent
    BY <1>2 DEF ServerStep, vars
  <2>2. Server!ServerStep \/ Server!Restart
    BY <1>2 DEF ServerStep, Server!ServerNext
  <2>3. Receiver!ServerStep \/ Receiver!Restart
    BY <2>2 DEF Server!ServerStep, Server!Restart, Receiver!ServerStep, Receiver!Restart,
      Server!Lose, Server!UploadClips, Server!WriteFile, Server!Answer, Server!Fail,
      Receiver!Lose, Receiver!UploadClips, Receiver!WriteFile, Receiver!Answer, Receiver!Fail,
      Server!Running, Receiver!Running, Server!Written, Receiver!Written,
      Server!Truncated, Receiver!Truncated, Server!NextFile, Receiver!NextFile,
      Server!Without, Receiver!Without
  <2> QED
    BY <2>1, <2>3 DEF Receiver!Sends
<1>3. CASE UNCHANGED clipVars
  BY <1>3 DEF clipVars, serverVars, vars, Receiver!serverVars, Receiver!Sends
<1> QED
  BY <1>1, <1>2, <1>3

\* The live view does in the composition what it does on its own.
LEMMA LiveViewKept == StreamSpec => Spec
<1>1. StreamInit => Init
  BY DEF StreamInit
<1>2. [PhoneStep \/ ServerStep]_clipVars => [Next]_vars
  BY Steps
<1> QED
  BY <1>1, <1>2, PTL DEF StreamSpec, Spec

\* The types of the receiver and what it has written of an undisturbed request.
LEMMA ReceiverKept ==
  StreamSpec => [](Receiver!LiveTypeOK /\ Receiver!WholeInv)
<1>1. StreamInit => Receiver!LiveTypeOK /\ Receiver!WholeInv
  <2> SUFFICES ASSUME StreamInit PROVE Receiver!LiveTypeOK /\ Receiver!WholeInv
    OBVIOUS
  <2>1. /\ taken = {} /\ handlers = [r \in {} |-> 1] /\ answered = {}
        /\ undisturbed = {} /\ whole = {} /\ live = [i \in Receiver!Files |-> {}]
        /\ sent = {}
    BY DEF StreamInit, Init, Server!LiveInit, Server!Files, Receiver!Files
  <2> QED
    BY <2>1 DEF Receiver!LiveTypeOK, Receiver!WholeInv, Receiver!WholeClip, Receiver!Running
<1>2. /\ Receiver!LiveTypeOK /\ Receiver!WholeInv
      /\ [PhoneStep \/ ServerStep]_clipVars
      => (Receiver!LiveTypeOK /\ Receiver!WholeInv)'
  BY Steps, BatchSizeFits, Receiver!TypeStep, Receiver!WholeStep
<1> QED
  BY <1>1, <1>2, PTL DEF StreamSpec

\* A request no other handler ran beside leaves exactly its frames in
\* live_frames, whatever the live view sends (model_training_routes.py:
\* upload_clips).
THEOREM Wholeness == StreamSpec => []WholeClip
<1>1. Receiver!WholeInv => WholeClip
  BY DEF Receiver!WholeInv, Receiver!WholeClip, WholeClip, Server!WholeClip,
    Server!Files, Receiver!Files
<1> QED
  BY <1>1, ReceiverKept, PTL

\* Where the files are one request's, they are its batch: in capture order
\* and, but for the first frame, of one sending session.
LEMMA ClipOfBatch ==
  ASSUME TypeOK, AtMostOneStale, FramesInOrder, Receiver!LiveTypeOK, WholeClip
  PROVE  ClipOnDisk
<1> SUFFICES ASSUME NEW k \in whole
             PROVE  LET OnDisk(i) == dispatched[CHOOSE r \in live[i] : TRUE][i]
                    IN  /\ \A i \in 1..BatchSize : live[i] # {}
                        /\ \A i, j \in 1..BatchSize : i < j => OnDisk(i).seq < OnDisk(j).seq
                        /\ \A i, j \in 2..BatchSize : OnDisk(i).session = OnDisk(j).session
  BY DEF ClipOnDisk
<1> DEFINE OnDisk(i) == dispatched[CHOOSE r \in live[i] : TRUE][i]
<1>1. k \in 1..Len(dispatched)
  BY DEF TypeOK, Receiver!LiveTypeOK
<1>2. \A i \in 1..BatchSize : live[i] = {k}
  BY DEF WholeClip, Server!WholeClip, Server!Files
<1>3. \A i \in 1..BatchSize : OnDisk(i) = dispatched[k][i]
  <2>1. (CHOOSE r \in {k} : TRUE) = k
    OBVIOUS
  <2> QED
    BY <1>2, <2>1
<1> HIDE DEF OnDisk
<1>4. \A i, j \in 1..BatchSize : i < j => OnDisk(i).seq < OnDisk(j).seq
  BY <1>1, <1>3 DEF FramesInOrder
<1>5. \A i, j \in 2..BatchSize : OnDisk(i).session = OnDisk(j).session
  <2>1. \A i \in 2..BatchSize : i \in 1..BatchSize
    BY BatchSizeAssumption
  <2> QED
    BY <1>1, <1>3, <2>1 DEF AtMostOneStale
<1> QED
  BY <1>2, <1>4, <1>5 DEF OnDisk

\* The last request, when nothing ran beside it, leaves one clip on disk
\* (RealTimeClipView.swift: sendFrames; model_training_routes.py: upload_clips).
THEOREM OneClip == StreamSpec => []ClipOnDisk
BY ClipOfBatch, LiveViewKept, ReceiverKept, TypeCorrect, Staleness, Order, Wholeness, PTL
=============================================================================
