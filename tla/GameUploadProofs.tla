-------------------------- MODULE GameUploadProofs --------------------------
(***************************************************************************)
(* Proofs about GameUpload, for every set of videos and any number of      *)
(* submissions.  The server's side is what LiveFramesProofs shows of       *)
(* requests of one file.                                                   *)
(***************************************************************************)
EXTENDS GameUpload, TLAPS

Receiver == INSTANCE LiveFramesProofs WITH Requests <- Submits, BatchSize <- 1

USE VideosAssumption, LengthAssumption, SubmitsAssumption

Positions == 1..Len(main)

\* The blocks of a submission, as opposed to those of a WatchView.
OfUpload(b) == b.does \in {"trimmed", "trimFailed", "answered", "failed"}

Pending(k) == \E i \in Positions : OfUpload(main[i]) /\ main[i].of = k

Types ==
  /\ TypeOK
  /\ sent \subseteq 1..submits
  /\ \A i \in Positions : main[i].of \in 1..submits
-----------------------------------------------------------------------------
(* The main queue.                                                          *)

\* A block is put behind the others.
LEMMA Appended ==
  ASSUME main \in Seq(Block), NEW d \in Blocks, NEW k \in Submits, Queue(d, k)
  PROVE  /\ main' \in Seq(Block)
         /\ Positions' = Positions \cup {Len(main) + 1}
         /\ \A i \in Positions : main'[i] = main[i] /\ i # Len(main) + 1
         /\ main'[Len(main) + 1] = [does |-> d, of |-> k]
<1>1. [does |-> d, of |-> k] \in Block
  BY DEF Block
<1> DEFINE b == [does |-> d, of |-> k]
<1> HIDE DEF b
<1>2. main' = Append(main, b) /\ b \in Block
  BY <1>1 DEF Queue, b
<1>3. /\ main' \in Seq(Block) /\ Len(main') = Len(main) + 1 /\ Len(main) \in Nat
      /\ \A i \in 1..Len(main) : main'[i] = main[i]
      /\ main'[Len(main) + 1] = b
  BY <1>2
<1> QED
  BY <1>3 DEF b, Positions

\* The first block is taken.
LEMMA Popped ==
  ASSUME main \in Seq(Block), main # <<>>, main' = Tail(main)
  PROVE  /\ main' \in Seq(Block)
         /\ Head(main) = main[1] /\ 1 \in Positions /\ main[1] \in Block
         /\ \A i \in Positions' : main'[i] = main[i + 1] /\ i + 1 \in Positions /\ i + 1 # 1
BY DEF Positions
-----------------------------------------------------------------------------
(* The types.                                                               *)

\* The server keeps its types whatever the phone does.
LEMMA ServerTypes ==
  ASSUME Server!LiveTypeOK, sent \subseteq sent',
         Server!ServerNext \/ UNCHANGED serverVars
  PROVE  Server!LiveTypeOK'
<1>1. Receiver!LiveBatchSize
  BY DEF Receiver!LiveBatchSize
<1>2. Receiver!LiveTypeOK
  BY DEF Receiver!LiveTypeOK, Server!LiveTypeOK, Receiver!Files, Server!Files,
    Receiver!Running, Server!Running
<1>3. Receiver!ServerStep \/ Receiver!Restart \/ UNCHANGED Receiver!serverVars
  BY DEF Server!ServerNext, serverVars, Receiver!serverVars,
    Server!ServerStep, Server!Restart, Receiver!ServerStep, Receiver!Restart,
    Server!Lose, Server!UploadClips, Server!WriteFile, Server!Answer, Server!Fail,
    Receiver!Lose, Receiver!UploadClips, Receiver!WriteFile, Receiver!Answer, Receiver!Fail,
    Server!Running, Receiver!Running, Server!Written, Receiver!Written,
    Server!Truncated, Receiver!Truncated, Server!NextFile, Receiver!NextFile,
    Server!Without, Receiver!Without
<1>4. Receiver!LiveTypeOK'
  BY <1>1, <1>2, <1>3, Receiver!TypeStep DEF Receiver!Sends
<1> QED
  BY <1>4 DEF Receiver!LiveTypeOK, Server!LiveTypeOK, Receiver!Files, Server!Files,
    Receiver!Running, Server!Running

\* The types hold at the start.
LEMMA TypesInit == Init => Types
<1> SUFFICES ASSUME Init PROVE Types
  OBVIOUS
<1>1. Server!LiveTypeOK
  BY DEF Init, Server!LiveInit, Server!LiveTypeOK, Server!Running
<1>2. NoFile \in Content
  BY DEF Content
<1>3. exports \in [DOMAIN exports -> BOOLEAN] /\ DOMAIN exports = {}
  BY DEF Init
<1>4. main \in Seq(Block) /\ Positions = {}
  BY DEF Init, Positions
<1>5. carries \in [Submits -> Content] /\ trimmedVideo \in Content
  BY <1>2 DEF Init
<1>6. /\ video \in Videos \cup {NoVideo} /\ trimStart = 0 /\ trimEnd = 0 /\ isUploading = FALSE
      /\ message = "none" /\ watch = 0 /\ player = "loading" /\ submits = 0 /\ mine = {}
      /\ asked = {} /\ fetches = {} /\ sent = {} /\ finalOutput = "nothing" /\ overlapped = FALSE
  BY DEF Init, Nobody
<1>7. 0 \in 0..MaxSubmits /\ 0 \in Nat /\ 0 <= 0
  OBVIOUS
<1>8. TypeOK
  BY <1>1, <1>3, <1>4, <1>5, <1>6, <1>7 DEF TypeOK, Nobody
<1> QED
  BY <1>4, <1>6, <1>8 DEF Types

\* What the phone does leaves the server alone, but for what it sends.
LEMMA ServerAlone ==
  ASSUME [Next]_uploadVars
  PROVE  /\ sent \subseteq sent'
         /\ Server!ServerNext \/ UNCHANGED serverVars
<1> USE DEF screenVars, exportVars, requestVars
<1>1. ASSUME NEW v \in Videos, Pick(v) PROVE UNCHANGED <<sent, serverVars>>
  BY <1>1 DEF Pick
<1>2. CASE SlideStart \/ SlideEnd \/ PresetNotSupported
  BY <1>2 DEF SlideStart, SlideEnd, PresetNotSupported
<1>3. CASE TrimAndUpload \/ CloseWatch \/ Leave \/ Relaunch
  BY <1>3 DEF TrimAndUpload, CloseWatch, Leave, Relaunch
<1>4. ASSUME NEW k \in Submits, Export(k) \/ UploadAnswered(k) \/ FetchAnswered(k)
      PROVE  UNCHANGED <<sent, serverVars>>
  BY <1>4 DEF Export, CreateFile, ExportCompletes, ExportFails, UploadAnswered, FetchAnswered
<1>5. CASE RunMain
  <2>1. UNCHANGED serverVars
    BY <1>5 DEF RunMain
  <2>2. sent \subseteq sent'
    BY <1>5 DEF RunMain, UploadVideo, NoteFailure, ShowAnswer, AnswerNotSaved, ShowProcessed
  <2> QED
    BY <2>1, <2>2
<1>6. CASE ServerStep
  BY <1>6 DEF ServerStep, Server!ServerNext
<1>7. CASE UNCHANGED uploadVars
  BY <1>7 DEF uploadVars
<1> QED
  BY <1>1, <1>2, <1>3, <1>4, <1>5, <1>6, <1>7 DEF Next

\* What is queued is of a submission made.
LEMMA QueueTypes ==
  ASSUME Types, submits' = submits, NEW d \in Blocks, NEW k \in 1..submits, Queue(d, k)
  PROVE  main' \in Seq(Block) /\ \A i \in Positions' : main'[i].of \in 1..submits'
<1>1. main \in Seq(Block) /\ k \in Submits /\ \A i \in Positions : main[i].of \in 1..submits
  BY DEF Types, TypeOK, Submits
<1>2. /\ main' \in Seq(Block)
      /\ Positions' = Positions \cup {Len(main) + 1}
      /\ \A i \in Positions : main'[i] = main[i]
      /\ main'[Len(main) + 1] = [does |-> d, of |-> k]
  BY <1>1, Appended
<1> QED
  BY <1>1, <1>2

\* The actions of the screen.
LEMMA ScreenTypes ==
  ASSUME Types, Server!LiveTypeOK',
         \/ \E v \in Videos : Pick(v)
         \/ SlideStart \/ SlideEnd \/ PresetNotSupported \/ CloseWatch \/ Leave
  PROVE  Types'
<1> USE DEF exportVars, requestVars
<1>1. UNCHANGED <<exportVars, requestVars, sent>>
  BY DEF Pick, SlideStart, SlideEnd, PresetNotSupported, CloseWatch, Leave
<1>2. sent' \subseteq 1..submits' /\ \A i \in Positions' : main'[i].of \in 1..submits'
  BY <1>1 DEF Types, Positions
<1> USE DEF Types, TypeOK
<1> SUFFICES TypeOK'
  BY <1>2
<1> USE <1>1
<1>3. ASSUME NEW v \in Videos, Pick(v) PROVE TypeOK'
  BY <1>3 DEF Pick, EndFor, Larger
<1>4. CASE SlideStart
  BY <1>4 DEF SlideStart, StartFor, Smaller
<1>5. CASE SlideEnd
  BY <1>5 DEF SlideEnd, EndFor, Larger
<1>6. CASE PresetNotSupported
  BY <1>6 DEF PresetNotSupported
<1>7. CASE CloseWatch
  BY <1>7 DEF CloseWatch
<1>8. CASE Leave
  <2>1. /\ video' \in Videos \cup {NoVideo} /\ trimStart' = 0 /\ trimEnd' = 0
        /\ isUploading' = FALSE /\ message' = "none" /\ mine' = {}
        /\ watch' = Nobody /\ player' = "loading" /\ overlapped' = overlapped
    BY <1>8 DEF Leave, NewScreen
  <2>2. trimStart' \in Nat /\ trimEnd' \in Nat /\ trimStart' <= trimEnd'
    BY <2>1
  <2> QED
    BY <2>1, <2>2
<1> QED
  BY <1>3, <1>4, <1>5, <1>6, <1>7, <1>8

\* A Submit and a relaunch.
LEMMA SubmitTypes ==
  ASSUME Types, Server!LiveTypeOK', TrimAndUpload \/ Relaunch
  PROVE  Types'
<1> USE DEF exportVars, requestVars, Types
<1>1. CASE TrimAndUpload
  <2>1. submits' = submits + 1 /\ submits \in Nat /\ submits' \in 0..MaxSubmits /\ submits' \in 1..submits'
    BY <1>1 DEF TrimAndUpload, TypeOK
  <2>2. 1..submits \subseteq 1..submits'
    BY <2>1
  <2>3. /\ exports' \in [DOMAIN exports' -> BOOLEAN]
        /\ DOMAIN exports' = DOMAIN exports \cup {submits'}
    BY <1>1 DEF TrimAndUpload, TypeOK
  <2>4. DOMAIN exports' \subseteq 1..submits' /\ mine' \subseteq 1..submits'
    BY <1>1, <2>1, <2>2, <2>3 DEF TrimAndUpload, TypeOK
  <2>5. asked' \subseteq 1..submits' /\ fetches' \subseteq 1..submits' /\ sent' \subseteq 1..submits'
    BY <1>1, <2>2 DEF TrimAndUpload, TypeOK
  <2>6. trimmedVideo' \in Content
    BY <1>1 DEF TrimAndUpload, Content
  <2>7. /\ UNCHANGED <<video, trimStart, trimEnd, watch, player, requestVars>>
        /\ isUploading' \in BOOLEAN /\ message' = "none" /\ overlapped' \in BOOLEAN
    BY <1>1 DEF TrimAndUpload
  <2>8. TypeOK'
    BY <2>1, <2>3, <2>4, <2>5, <2>6, <2>7 DEF TypeOK
  <2>9. \A i \in Positions' : main'[i].of \in 1..submits'
    BY <2>2, <2>7 DEF Positions
  <2> QED
    BY <2>5, <2>8, <2>9
<1>2. CASE Relaunch
  <2>1. /\ video' \in Videos \cup {NoVideo} /\ trimStart' = 0 /\ trimEnd' = 0
        /\ isUploading' = FALSE /\ message' = "none" /\ mine' = {}
        /\ watch' = Nobody /\ player' = "loading" /\ overlapped' = overlapped
        /\ asked' = {} /\ fetches' = {} /\ DOMAIN exports' = {}
        /\ UNCHANGED <<submits, trimmedVideo, carries, finalOutput, sent>>
    BY <1>2 DEF Relaunch, NewScreen
  <2>2. exports' \in [DOMAIN exports' -> BOOLEAN]
    BY <1>2 DEF Relaunch
  <2>3. main' \in Seq(Block) /\ Positions' = {}
    BY <1>2 DEF Relaunch, Positions
  <2>4. trimStart' \in Nat /\ trimEnd' \in Nat /\ trimStart' <= trimEnd'
    BY <2>1
  <2>5. TypeOK'
    BY <2>1, <2>2, <2>3, <2>4 DEF TypeOK
  <2> QED
    BY <2>1, <2>3, <2>5
<1> QED
  BY <1>1, <1>2

\* The exports and the answers of requests.
LEMMA ReportTypes ==
  ASSUME Types, Server!LiveTypeOK', NEW k \in Submits,
         Export(k) \/ UploadAnswered(k) \/ FetchAnswered(k)
  PROVE  Types'
<1> USE DEF exportVars, requestVars, Types
<1>1. CASE CreateFile(k)
  <2>1. /\ exports' \in [DOMAIN exports' -> BOOLEAN] /\ DOMAIN exports' = DOMAIN exports
        /\ trimmedVideo' \in Content
    BY <1>1 DEF CreateFile, TypeOK, Content
  <2>2. UNCHANGED <<submits, screenVars, requestVars, sent, overlapped>>
    BY <1>1 DEF CreateFile
  <2>3. TypeOK'
    BY <2>1, <2>2 DEF TypeOK, screenVars
  <2> QED
    BY <2>2, <2>3 DEF Positions
<1>2. ASSUME ExportCompletes(k) \/ ExportFails(k)
      PROVE  Types'
  <2>1. /\ k \in 1..submits /\ UNCHANGED <<submits, screenVars, carries, asked, fetches, finalOutput, sent, overlapped>>
        /\ Queue("trimmed", k) \/ Queue("trimFailed", k)
    BY <1>2 DEF ExportCompletes, ExportFails, TypeOK
  <2>2. main' \in Seq(Block) /\ \A i \in Positions' : main'[i].of \in 1..submits'
    BY <2>1, QueueTypes DEF Blocks
  <2>3. /\ exports' \in [DOMAIN exports' -> BOOLEAN] /\ DOMAIN exports' \subseteq 1..submits
    <3>1. exports' = Without(k)
      BY <1>2 DEF ExportCompletes, ExportFails
    <3>2. exports \in [DOMAIN exports -> BOOLEAN] /\ DOMAIN exports \subseteq 1..submits
      BY DEF TypeOK
    <3> QED
      BY <3>1, <3>2 DEF Without
  <2>4. trimmedVideo' \in Content
    <3>1. trimmedVideo \in Content /\ NoFile \in Content
      BY DEF TypeOK, Content, NoFile
    <3>2. CASE ExportCompletes(k)
      <4>1. CASE trimmedVideo.of = k
        <5>1. NoFile.of # k
          BY DEF NoFile, Nobody, Submits
        <5>2. trimmedVideo \in [of : Submits, complete : BOOLEAN]
          BY <3>1, <4>1, <5>1 DEF Content
        <5>3. [trimmedVideo EXCEPT !.complete = TRUE] \in [of : Submits, complete : BOOLEAN]
          BY <5>2
        <5> QED
          BY <3>2, <4>1, <5>3 DEF ExportCompletes, Content
      <4>2. CASE trimmedVideo.of # k
        BY <3>1, <3>2, <4>2 DEF ExportCompletes
      <4> QED
        BY <4>1, <4>2
    <3>3. CASE ExportFails(k)
      BY <3>1, <3>3 DEF ExportFails
    <3> QED
      BY <1>2, <3>2, <3>3
  <2>5. TypeOK'
    BY <2>1, <2>2, <2>3, <2>4 DEF TypeOK, screenVars
  <2> QED
    BY <2>1, <2>2, <2>5
<1>3. ASSUME UploadAnswered(k) \/ FetchAnswered(k)
      PROVE  Types'
  <2>1. /\ k \in 1..submits /\ UNCHANGED <<screenVars, exportVars, carries, sent, overlapped>>
        /\ asked' \subseteq asked /\ fetches' \subseteq fetches
        /\ finalOutput' \in {"nothing", "answer", "fetched"}
    BY <1>3 DEF UploadAnswered, FetchAnswered, TypeOK
  <2>2. \E d \in Blocks : Queue(d, k)
    BY <1>3 DEF UploadAnswered, FetchAnswered, Blocks
  <2>3. main' \in Seq(Block) /\ \A i \in Positions' : main'[i].of \in 1..submits'
    BY <2>1, <2>2, QueueTypes
  <2>4. TypeOK'
    BY <2>1, <2>3 DEF TypeOK, screenVars
  <2> QED
    BY <2>1, <2>3, <2>4
<1> QED
  BY <1>1, <1>2, <1>3 DEF Export

\* The blocks of the main queue.
LEMMA BlockTypes ==
  ASSUME Types, Server!LiveTypeOK', RunMain
  PROVE  Types'
<1> USE DEF exportVars, Types
<1>1. /\ main' \in Seq(Block) /\ Head(main) = main[1] /\ 1 \in Positions /\ main[1] \in Block
      /\ \A i \in Positions' : main'[i] = main[i + 1] /\ i + 1 \in Positions
      /\ UNCHANGED <<exportVars, overlapped>>
  BY Popped DEF RunMain, TypeOK
<1>2. \A i \in Positions' : main'[i].of \in 1..submits'
  BY <1>1
<1> DEFINE b == Head(main)
<1>3. b.of \in 1..submits /\ b.of \in Submits /\ b.does \in Blocks
  BY <1>1 DEF Block
<1> USE DEF TypeOK
<1>4. CASE UploadVideo(b)
  <2>1. carries' \in [Submits -> Content]
    BY <1>4 DEF UploadVideo
  <2>2. asked' \subseteq 1..submits' /\ sent' \subseteq 1..submits'
    BY <1>1, <1>3, <1>4 DEF UploadVideo
  <2> QED
    BY <1>1, <1>2, <1>4, <2>1, <2>2 DEF UploadVideo, screenVars
<1>5. CASE NoteFailure(b)
  BY <1>1, <1>2, <1>5 DEF NoteFailure
<1>6. CASE ShowAnswer(b)
  <2>1. sent' = sent /\ asked' = asked /\ carries' = carries /\ finalOutput' = "answer"
        /\ UNCHANGED <<video, trimStart, trimEnd, mine>>
    BY <1>6 DEF ShowAnswer
  <2>2. isUploading' \in BOOLEAN /\ message' \in {"none", "success", "failure"}
    BY <1>6 DEF ShowAnswer, StopsSpinning
  <2>3. watch' \in Submits \cup {Nobody} /\ player' \in {"loading", "playing", "error"}
        /\ fetches' \subseteq 1..submits
    BY <1>3, <1>6 DEF ShowAnswer
  <2> QED
    BY <1>1, <1>2, <2>1, <2>2, <2>3
<1>7. CASE AnswerNotSaved(b)
  BY <1>1, <1>2, <1>7 DEF AnswerNotSaved, StopsSpinning
<1>8. CASE ShowProcessed(b)
  BY <1>1, <1>2, <1>8 DEF ShowProcessed, Plays
<1> QED
  BY <1>4, <1>5, <1>6, <1>7, <1>8 DEF RunMain

\* Every step keeps the types.
LEMMA TypesStep ==
  ASSUME Types, [Next]_uploadVars
  PROVE  Types'
<1>1. Server!LiveTypeOK'
  BY ServerAlone, ServerTypes DEF Types, TypeOK
<1>2. CASE ServerStep \/ UNCHANGED uploadVars
  <2>1. UNCHANGED <<screenVars, exportVars, requestVars, sent, overlapped>>
    BY <1>2 DEF ServerStep, Server!ServerNext, uploadVars
  <2> QED
    BY <1>1, <2>1 DEF Types, TypeOK, screenVars, exportVars, requestVars, Positions
<1> QED
  BY <1>1, <1>2, ScreenTypes, SubmitTypes, ReportTypes, BlockTypes DEF Next

\* Everything the screen, the exports, the requests and the server keep is of
\* its type; the trim never ends before it starts (UploadGameView.swift: the
\* sliders), and the server answers only what was sent.
THEOREM TypeCorrect == Spec => []TypeOK
<1>1. Types => TypeOK
  BY DEF Types
<1> QED
  BY <1>1, TypesInit, TypesStep, PTL DEF Spec
-----------------------------------------------------------------------------
(* Where a submission is.                                                   *)

\* A submission is being exported, asks the server, or has a block to run,
\* never two of these and never two blocks; "answered" is queued only for what
\* the server answered.
OnePlace ==
  /\ \A k \in DOMAIN exports : k \notin asked /\ ~Pending(k)
  /\ \A k \in asked : ~Pending(k)
  /\ \A i, j \in Positions :
       (OfUpload(main[i]) /\ OfUpload(main[j]) /\ main[i].of = main[j].of) => i = j
  /\ \A i \in Positions : main[i].does = "answered" => main[i].of \in answered

\* What is under way since a Submit pressed while nothing was.
Alone ==
  /\ DOMAIN exports \cup asked \cup fetches \subseteq {submits}
  /\ sent \ taken \subseteq {submits} /\ DOMAIN handlers \subseteq {submits}
  /\ \A i \in Positions : main[i].of = submits
  /\ watch \in {Nobody, submits}

\* The temporary file, the request and the server's game are that Submit's.
OwnGame ==
  /\ \A k \in DOMAIN exports : exports[k] => trimmedVideo = [of |-> k, complete |-> FALSE]
  /\ \A i \in Positions : main[i].does = "trimmed" =>
       trimmedVideo = [of |-> submits, complete |-> TRUE]
  /\ submits \in sent => carries[submits] = [of |-> submits, complete |-> TRUE]
  /\ submits \in DOMAIN handlers => live[1] = {}
  /\ submits \in answered => live[1] = {submits}
  /\ message = "success" => submits \in answered

\* Once a WatchView was opened, the upload is over.
OwnFetch ==
  /\ \/ watch # Nobody \/ fetches # {} \/ \E i \in Positions : ~OfUpload(main[i])
     => DOMAIN exports = {} /\ asked = {} /\ \A i \in Positions : ~OfUpload(main[i])
  /\ \A i \in Positions : main[i].does = "fetched" => finalOutput = "fetched"
  /\ (watch # Nobody /\ player = "playing") => finalOutput = "fetched"

LoneInv == ~overlapped => Alone /\ OwnGame /\ OwnFetch

IInv == Types /\ OnePlace /\ LoneInv
-----------------------------------------------------------------------------
\* An answered request stays answered.
LEMMA StaysAnswered ==
  ASSUME [Next]_uploadVars PROVE answered \subseteq answered'
BY ServerAlone DEF serverVars, Server!ServerNext, Server!ServerStep, Server!Restart, Server!Lose,
  Server!UploadClips, Server!WriteFile, Server!Answer, Server!Fail

\* Nothing is queued: whatever ends leaves its place.
LEMMA PlacesKept ==
  ASSUME OnePlace, answered \subseteq answered', main' = main,
         DOMAIN exports' \subseteq DOMAIN exports, asked' \subseteq asked
  PROVE  OnePlace'
BY DEF OnePlace, Pending, Positions

\* What ends queues a block.
LEMMA PlacesQueued ==
  ASSUME Types, OnePlace, answered \subseteq answered', submits' = submits,
         DOMAIN exports' \subseteq DOMAIN exports, asked' \subseteq asked,
         NEW d \in Blocks, NEW k \in 1..submits, Queue(d, k),
         d \notin {"fetched", "notFetched"} =>
           k \notin DOMAIN exports' /\ k \notin asked' /\ ~Pending(k),
         d = "answered" => k \in answered
  PROVE  OnePlace'
<1> DEFINE n == Len(main) + 1
<1>1. main \in Seq(Block) /\ k \in Submits
  BY DEF Types, TypeOK, Submits
<1>2. /\ Positions' = Positions \cup {n}
      /\ \A i \in Positions : main'[i] = main[i] /\ i # n
      /\ main'[n] = [does |-> d, of |-> k]
  BY <1>1, Appended
<1> HIDE DEF n
<1>3. main'[n].does = d /\ main'[n].of = k
  BY <1>2
<1>4. d \in {"fetched", "notFetched"} <=> ~OfUpload(main'[n])
  BY <1>3 DEF OfUpload, Blocks
<1>5. \A j \in Submits : Pending(j)' => Pending(j) \/ (j = k /\ OfUpload(main'[n]))
  BY <1>2, <1>3 DEF Pending, OfUpload
<1>6. \A j \in DOMAIN exports' : j \notin asked' /\ ~Pending(j)'
  <2> SUFFICES ASSUME NEW j \in DOMAIN exports' PROVE j \notin asked' /\ ~Pending(j)'
    OBVIOUS
  <2>1. j \in DOMAIN exports /\ j \notin asked /\ ~Pending(j) /\ j \in Submits
    BY DEF OnePlace, Types, TypeOK, Submits
  <2> QED
    BY <1>4, <1>5, <2>1
<1>7. \A j \in asked' : ~Pending(j)'
  <2> SUFFICES ASSUME NEW j \in asked' PROVE ~Pending(j)'
    OBVIOUS
  <2>1. j \in asked /\ ~Pending(j) /\ j \in Submits
    BY DEF OnePlace, Types, TypeOK, Submits
  <2> QED
    BY <1>4, <1>5, <2>1
<1>8. ASSUME NEW i \in Positions', NEW j \in Positions', OfUpload(main'[i]), OfUpload(main'[j]),
             main'[i].of = main'[j].of
      PROVE  i = j
  <2>1. CASE i \in Positions /\ j \in Positions
    BY <1>2, <1>8, <2>1 DEF OnePlace
  <2>2. CASE i = n /\ j \in Positions
    BY <1>2, <1>3, <1>4, <1>8, <2>2 DEF Pending
  <2>3. CASE i \in Positions /\ j = n
    BY <1>2, <1>3, <1>4, <1>8, <2>3 DEF Pending
  <2> QED
    BY <1>2, <2>1, <2>2, <2>3
<1>9. \A i \in Positions' : main'[i].does = "answered" => main'[i].of \in answered'
  BY <1>2, <1>3 DEF OnePlace
<1> QED
  BY <1>6, <1>7, <1>8, <1>9 DEF OnePlace, OfUpload

\* A block is run: no other of its submission is queued.
LEMMA PlacesRun ==
  ASSUME Types, OnePlace, RunMain, answered \subseteq answered'
  PROVE  OnePlace'
<1> DEFINE b == Head(main)
<1>1. /\ b = main[1] /\ 1 \in Positions
      /\ \A i \in Positions' : main'[i] = main[i + 1] /\ i + 1 \in Positions /\ i + 1 # 1
      /\ \A i, j \in Positions' : i + 1 = j + 1 => i = j
  BY Popped DEF RunMain, Types, TypeOK, Positions
<1>2. \A k : Pending(k)' => Pending(k) /\ (OfUpload(b) => b.of # k)
  BY <1>1 DEF Pending, OnePlace, OfUpload
<1>3. exports' = exports /\ asked' \subseteq asked \cup IF OfUpload(b) THEN {b.of} ELSE {}
  BY DEF RunMain, exportVars, UploadVideo, Uploads, OfUpload, NoteFailure, ShowAnswer,
    AnswerNotSaved, ShowProcessed, screenVars
<1>4. OfUpload(b) => b.of \notin DOMAIN exports
  BY <1>1 DEF OnePlace, Pending
<1>5. \A k \in DOMAIN exports' : k \notin asked' /\ ~Pending(k)'
  BY <1>2, <1>3, <1>4 DEF OnePlace
<1>6. \A k \in asked' : ~Pending(k)'
  BY <1>2, <1>3 DEF OnePlace
<1>7. \A i, j \in Positions' :
        (OfUpload(main'[i]) /\ OfUpload(main'[j]) /\ main'[i].of = main'[j].of) => i = j
  BY <1>1 DEF OnePlace
<1>8. \A i \in Positions' : main'[i].does = "answered" => main'[i].of \in answered'
  BY <1>1 DEF OnePlace
<1> QED
  BY <1>5, <1>6, <1>7, <1>8 DEF OnePlace, OfUpload

\* Every step leaves a submission in one place.
LEMMA PlacesStep ==
  ASSUME Types, OnePlace, [Next]_uploadVars
  PROVE  OnePlace'
<1>1. answered \subseteq answered'
  BY StaysAnswered
<1> USE DEF screenVars, exportVars, requestVars
<1>2. CASE \/ \E v \in Videos : Pick(v)
           \/ SlideStart \/ SlideEnd \/ PresetNotSupported \/ CloseWatch \/ Leave
           \/ ServerStep \/ UNCHANGED uploadVars
  <2>1. UNCHANGED <<exportVars, requestVars>>
    BY <1>2 DEF Pick, SlideStart, SlideEnd, PresetNotSupported, CloseWatch, Leave, ServerStep,
      uploadVars
  <2> QED
    BY <1>1, <2>1, PlacesKept
<1>3. CASE TrimAndUpload
  <2>1. main' = main /\ asked' = asked /\ DOMAIN exports' = DOMAIN exports \cup {submits + 1}
    BY <1>3 DEF TrimAndUpload
  <2>2. submits + 1 \notin asked /\ ~Pending(submits + 1)
    BY DEF Types, TypeOK, Pending
  <2> QED
    BY <1>1, <2>1, <2>2 DEF OnePlace, Pending, Positions
<1>4. CASE Relaunch
  <2>1. DOMAIN exports' = {} /\ asked' = {} /\ Positions' = {}
    BY <1>4 DEF Relaunch, Positions
  <2> QED
    BY <2>1 DEF OnePlace
<1>5. ASSUME NEW k \in Submits, Export(k) PROVE OnePlace'
  <2>1. CASE CreateFile(k)
    <3>1. main' = main /\ asked' = asked /\ DOMAIN exports' = DOMAIN exports
      BY <2>1 DEF CreateFile
    <3> QED
      BY <1>1, <3>1, PlacesKept
  <2>2. CASE ExportCompletes(k) \/ ExportFails(k)
    <3>1. /\ k \in 1..submits /\ k \in DOMAIN exports /\ asked' = asked /\ submits' = submits
          /\ DOMAIN exports' = DOMAIN exports \ {k}
          /\ Queue("trimmed", k) \/ Queue("trimFailed", k)
      BY <2>2 DEF ExportCompletes, ExportFails, Without, Types, TypeOK
    <3>2. k \notin asked /\ ~Pending(k)
      BY <3>1 DEF OnePlace
    <3>3. "trimmed" \in Blocks /\ "trimFailed" \in Blocks
      BY DEF Blocks
    <3> QED
      BY <1>1, <3>1, <3>2, <3>3, PlacesQueued
  <2> QED
    BY <1>5, <2>1, <2>2 DEF Export
<1>6. ASSUME NEW k \in Submits, UploadAnswered(k) PROVE OnePlace'
  <2>1. /\ k \in 1..submits /\ k \in asked /\ asked' = asked \ {k} /\ exports' = exports
        /\ submits' = submits
        /\ (k \in answered /\ Queue("answered", k)) \/ Queue("failed", k)
    BY <1>6 DEF UploadAnswered, Types, TypeOK
  <2>2. k \notin DOMAIN exports /\ ~Pending(k)
    BY <2>1 DEF OnePlace
  <2>3. "answered" \in Blocks /\ "failed" \in Blocks
    BY DEF Blocks
  <2> QED
    BY <1>1, <2>1, <2>2, <2>3, PlacesQueued
<1>7. ASSUME NEW k \in Submits, FetchAnswered(k) PROVE OnePlace'
  <2>1. /\ k \in 1..submits /\ UNCHANGED <<asked, exports, submits>>
        /\ Queue("fetched", k) \/ Queue("notFetched", k)
    BY <1>7 DEF FetchAnswered, Types, TypeOK
  <2>2. "fetched" \in Blocks /\ "notFetched" \in Blocks
    BY DEF Blocks
  <2> QED
    BY <1>1, <2>1, <2>2, PlacesQueued
<1>8. CASE RunMain
  BY <1>1, <1>8, PlacesRun
<1> QED
  BY <1>2, <1>3, <1>4, <1>5, <1>6, <1>7, <1>8 DEF Next
-----------------------------------------------------------------------------
(* After a Submit pressed while nothing was under way.                      *)

\* An export, an unanswered request or a block of the upload is all there is.
LEMMA Single ==
  ASSUME OnePlace, Alone, OwnFetch
  PROVE  /\ \A k \in DOMAIN exports :
              /\ k = submits /\ DOMAIN exports = {k} /\ asked = {} /\ fetches = {}
              /\ Positions = {} /\ watch = Nobody
         /\ \A k \in asked :
              /\ k = submits /\ asked = {k} /\ DOMAIN exports = {} /\ fetches = {}
              /\ Positions = {} /\ watch = Nobody
         /\ \A i \in Positions : OfUpload(main[i]) =>
              /\ main[i].of = submits /\ Positions = {i} /\ asked = {} /\ DOMAIN exports = {}
              /\ fetches = {} /\ watch = Nobody
<1>1. ASSUME NEW i \in Positions, OfUpload(main[i])
      PROVE  /\ main[i].of = submits /\ Positions = {i} /\ asked = {} /\ DOMAIN exports = {}
             /\ fetches = {} /\ watch = Nobody
  <2>1. watch = Nobody /\ fetches = {} /\ \A j \in Positions : OfUpload(main[j])
    BY <1>1 DEF OwnFetch
  <2>2. \A j \in Positions : main[j].of = submits
    BY DEF Alone
  <2>3. Positions = {i}
    BY <1>1, <2>1, <2>2 DEF OnePlace
  <2>4. Pending(submits)
    BY <1>1, <2>2 DEF Pending
  <2>5. asked = {} /\ DOMAIN exports = {}
    BY <2>4 DEF OnePlace, Alone
  <2> QED
    BY <2>1, <2>2, <2>3, <2>5
<1>2. ASSUME DOMAIN exports # {} \/ asked # {}
      PROVE  Positions = {} /\ watch = Nobody /\ fetches = {}
  <2>1. ~ \E i \in Positions : OfUpload(main[i])
    BY <1>1, <1>2
  <2>2. watch = Nobody /\ fetches = {} /\ ~ \E i \in Positions : ~OfUpload(main[i])
    BY <1>2 DEF OwnFetch
  <2> QED
    BY <2>1, <2>2
<1>3. \A k \in DOMAIN exports : k = submits /\ DOMAIN exports = {k} /\ asked = {}
  BY DEF Alone, OnePlace
<1>4. \A k \in asked : k = submits /\ asked = {k} /\ DOMAIN exports = {}
  BY DEF Alone, OnePlace
<1> QED
  BY <1>1, <1>2, <1>3, <1>4

\* The screen alone changes, and nothing is opened or succeeds on it.
LEMMA LoneKept ==
  ASSUME LoneInv, ~overlapped' => ~overlapped,
         UNCHANGED <<exportVars, requestVars, sent, serverVars>>,
         watch' \in {watch, Nobody}, message' = "success" => message = "success",
         watch' # Nobody => player' = player
  PROVE  LoneInv'
<1> SUFFICES ASSUME ~overlapped' PROVE (Alone /\ OwnGame /\ OwnFetch)'
  BY DEF LoneInv
<1>1. Alone /\ OwnGame /\ OwnFetch
  BY DEF LoneInv
<1>2. Positions' = Positions /\ main' = main
  BY DEF requestVars, Positions
<1> USE DEF exportVars, requestVars, serverVars
<1>3. Alone'
  BY <1>1, <1>2 DEF Alone
<1>4. OwnGame'
  BY <1>1, <1>2 DEF OwnGame
<1>5. OwnFetch'
  BY <1>1, <1>2 DEF OwnFetch, OfUpload
<1> QED
  BY <1>3, <1>4, <1>5

\* With nothing under way, a Submit starts with nothing of an earlier one.
LEMMA LoneSubmit ==
  ASSUME Types, TrimAndUpload
  PROVE  LoneInv'
<1> SUFFICES ASSUME ~overlapped' PROVE (Alone /\ OwnGame /\ OwnFetch)'
  BY DEF LoneInv
<1>1. Quiet
  BY DEF TrimAndUpload
<1>2. submits \in Nat /\ submits' = submits + 1
  BY DEF TrimAndUpload, Types, TypeOK
<1>3. DOMAIN exports = {} /\ asked = {} /\ fetches = {} /\ sent \subseteq taken /\ DOMAIN handlers = {}
  BY <1>1 DEF Quiet, UnderWay
<1>4. Positions' = {}
  BY <1>1 DEF TrimAndUpload, requestVars, Quiet, Positions
<1>5. exports' = [k \in {submits'} |-> FALSE]
  BY <1>3 DEF TrimAndUpload
<1>6. submits' \notin sent /\ submits' \notin answered
  BY <1>2 DEF Types, TypeOK, Server!LiveTypeOK
<1>7. /\ UNCHANGED <<requestVars, sent, serverVars>>
      /\ watch' = Nobody /\ message' = "none"
  BY DEF TrimAndUpload, AtScreen
<1> USE DEF requestVars, serverVars
<1>8. Alone'
  BY <1>3, <1>4, <1>5, <1>7 DEF Alone
<1>9. OwnGame'
  BY <1>3, <1>4, <1>5, <1>6, <1>7 DEF OwnGame
<1>10. OwnFetch'
  BY <1>3, <1>4, <1>7 DEF OwnFetch
<1> QED
  BY <1>8, <1>9, <1>10

\* A relaunch forgets all but the file and the server.
LEMMA LoneRelaunch ==
  ASSUME LoneInv, Relaunch
  PROVE  LoneInv'
<1> SUFFICES ASSUME ~overlapped' PROVE (Alone /\ OwnGame /\ OwnFetch)'
  BY DEF LoneInv
<1>1. Alone /\ OwnGame /\ OwnFetch
  BY DEF LoneInv, Relaunch
<1>2. /\ DOMAIN exports' = {} /\ asked' = {} /\ fetches' = {} /\ Positions' = {}
      /\ watch' = Nobody /\ message' = "none"
      /\ UNCHANGED <<submits, carries, sent, serverVars>>
  BY DEF Relaunch, NewScreen, Positions
<1> QED
  BY <1>1, <1>2 DEF Alone, OwnGame, OwnFetch, serverVars

\* The one export writes its file, and ends.
LEMMA LoneExport ==
  ASSUME Types, OnePlace, LoneInv, NEW k \in Submits, Export(k)
  PROVE  LoneInv'
<1> SUFFICES ASSUME ~overlapped' PROVE (Alone /\ OwnGame /\ OwnFetch)'
  BY DEF LoneInv
<1> USE DEF screenVars, requestVars, serverVars
<1>1. Alone /\ OwnGame /\ OwnFetch /\ k \in DOMAIN exports
  BY DEF LoneInv, Export, CreateFile, ExportCompletes, ExportFails
<1>2. /\ k = submits /\ DOMAIN exports = {k} /\ asked = {} /\ fetches = {}
      /\ Positions = {} /\ watch = Nobody
  BY <1>1, Single
<1>3. /\ UNCHANGED <<submits, asked, fetches, watch, message, carries, sent, serverVars>>
  BY DEF Export, CreateFile, ExportCompletes, ExportFails
<1>4. CASE CreateFile(k)
  <2>1. /\ DOMAIN exports' = {k} /\ Positions' = {}
        /\ trimmedVideo' = [of |-> k, complete |-> FALSE]
    BY <1>2, <1>4 DEF CreateFile, Positions
  <2> QED
    BY <1>1, <1>2, <1>3, <2>1 DEF Alone, OwnGame, OwnFetch
<1>5. ASSUME ExportCompletes(k) \/ ExportFails(k) PROVE (Alone /\ OwnGame /\ OwnFetch)'
  <2> DEFINE n == Len(main) + 1
  <2>1. DOMAIN exports' = {} /\ (Queue("trimmed", k) \/ Queue("trimFailed", k))
    BY <1>2, <1>5 DEF ExportCompletes, ExportFails, Without
  <2>2. main \in Seq(Block) /\ "trimmed" \in Blocks /\ "trimFailed" \in Blocks
    BY DEF Types, TypeOK, Blocks
  <2>3. /\ Positions' = {n}
        /\ \/ main'[n] = [does |-> "trimmed", of |-> k]
           \/ main'[n] = [does |-> "trimFailed", of |-> k]
    BY <1>2, <2>1, <2>2, Appended
  <2>4. main'[n].does = "trimmed" => trimmedVideo' = [of |-> k, complete |-> TRUE]
    <3>1. CASE ExportCompletes(k)
      <4>1. trimmedVideo = [of |-> k, complete |-> FALSE]
        BY <1>1, <3>1 DEF ExportCompletes, OwnGame
      <4> QED
        BY <3>1, <4>1 DEF ExportCompletes
    <3>2. CASE ExportFails(k)
      <4>1. Queue("trimFailed", k)
        BY <3>2 DEF ExportFails
      <4>2. main'[n] = [does |-> "trimFailed", of |-> k]
        BY <2>2, <4>1, Appended
      <4> QED
        BY <4>2
    <3> QED
      BY <1>5, <3>1, <3>2
  <2>5. main'[n].of = k /\ OfUpload(main'[n])
    BY <2>3 DEF OfUpload
  <2> HIDE DEF n
  <2>6. Alone'
    BY <1>1, <1>2, <1>3, <2>1, <2>3, <2>5 DEF Alone
  <2>7. OwnGame'
    BY <1>1, <1>2, <1>3, <2>1, <2>3, <2>4 DEF OwnGame
  <2>8. OwnFetch'
    BY <1>2, <1>3, <2>1, <2>3, <2>5 DEF OwnFetch, OfUpload
  <2> QED
    BY <2>6, <2>7, <2>8
<1> QED
  BY <1>4, <1>5 DEF Export

\* The one request, or the one fetch, is answered.
LEMMA LoneAnswer ==
  ASSUME Types, OnePlace, LoneInv, NEW k \in Submits, UploadAnswered(k) \/ FetchAnswered(k)
  PROVE  LoneInv'
<1> SUFFICES ASSUME ~overlapped' PROVE (Alone /\ OwnGame /\ OwnFetch)'
  BY DEF LoneInv
<1> USE DEF screenVars, exportVars, serverVars
<1>1. Alone /\ OwnGame /\ OwnFetch
  BY DEF LoneInv, UploadAnswered, FetchAnswered
<1>2. UNCHANGED <<watch, message, player, exportVars, carries, sent, serverVars>>
  BY DEF UploadAnswered, FetchAnswered
<1>3. main \in Seq(Block)
  BY DEF Types, TypeOK
<1> DEFINE n == Len(main) + 1
<1>4. ASSUME NEW d \in Blocks, Queue(d, k)
      PROVE  /\ Positions' = Positions \cup {n}
             /\ \A i \in Positions : main'[i] = main[i] /\ i # n
             /\ main'[n] = [does |-> d, of |-> k]
  BY <1>3, <1>4, Appended
<1> HIDE DEF n
<1>5. CASE UploadAnswered(k)
  <2>1. k \in asked /\ asked' = asked \ {k} /\ fetches' = fetches /\ finalOutput' = finalOutput
        /\ (Queue("answered", k) \/ Queue("failed", k))
    BY <1>5 DEF UploadAnswered
  <2>2. /\ k = submits /\ asked = {k} /\ DOMAIN exports = {} /\ fetches = {}
        /\ Positions = {} /\ watch = Nobody
    BY <1>1, <2>1, Single
  <2>3. PICK d \in {"answered", "failed"} : Queue(d, k)
    BY <2>1
  <2>4. Positions' = {n} /\ main'[n] = [does |-> d, of |-> k]
    BY <1>4, <2>2, <2>3 DEF Blocks
  <2>5. main'[n].of = k /\ OfUpload(main'[n]) /\ main'[n].does # "trimmed"
    BY <2>4 DEF OfUpload
  <2>6. Alone'
    BY <1>1, <1>2, <2>1, <2>2, <2>4, <2>5 DEF Alone
  <2>7. OwnGame'
    BY <1>1, <1>2, <2>4, <2>5 DEF OwnGame
  <2>8. OwnFetch'
    BY <1>2, <2>1, <2>2, <2>4, <2>5 DEF OwnFetch, OfUpload
  <2> QED
    BY <2>6, <2>7, <2>8
<1>6. CASE FetchAnswered(k)
  <2>1. k \in fetches /\ fetches' = fetches \ {k} /\ asked' = asked
    BY <1>6 DEF FetchAnswered
  <2>2. PICK d \in {"fetched", "notFetched"} :
          /\ Queue(d, k)
          /\ d = "fetched" => finalOutput' = "fetched"
          /\ d = "notFetched" => finalOutput' = finalOutput
    BY <1>6 DEF FetchAnswered
  <2>3. /\ DOMAIN exports = {} /\ asked = {} /\ \A i \in Positions : ~OfUpload(main[i])
        /\ k = submits
    BY <1>1, <2>1 DEF OwnFetch, Alone
  <2>4. /\ Positions' = Positions \cup {n}
        /\ \A i \in Positions : main'[i] = main[i] /\ i # n
        /\ main'[n] = [does |-> d, of |-> k]
    BY <1>4, <2>2 DEF Blocks
  <2>5. main'[n].does = d /\ main'[n].of = k /\ ~OfUpload(main'[n])
    BY <2>4 DEF OfUpload
  <2>6. Alone'
    BY <1>1, <1>2, <2>1, <2>3, <2>4, <2>5 DEF Alone
  <2>7. OwnGame'
    BY <1>1, <1>2, <2>3, <2>4, <2>5 DEF OwnGame, OfUpload
  <2>8. \A i \in Positions' : ~OfUpload(main'[i])
    BY <2>3, <2>4, <2>5
  <2>9. finalOutput = "fetched" => finalOutput' = "fetched"
    BY <2>2
  <2>10. \A i \in Positions' : main'[i].does = "fetched" => finalOutput' = "fetched"
    BY <1>1, <2>2, <2>4, <2>5, <2>9 DEF OwnFetch
  <2>11. OwnFetch'
    BY <1>1, <1>2, <2>1, <2>3, <2>8, <2>9, <2>10 DEF OwnFetch, OfUpload
  <2> QED
    BY <2>6, <2>7, <2>11
<1> QED
  BY <1>5, <1>6

\* The one block of the upload is run, or one of the WatchView.
LEMMA LoneRun ==
  ASSUME Types, OnePlace, LoneInv, RunMain
  PROVE  LoneInv'
<1> SUFFICES ASSUME ~overlapped' PROVE (Alone /\ OwnGame /\ OwnFetch)'
  BY DEF LoneInv
<1> DEFINE b == Head(main)
<1>1. Alone /\ OwnGame /\ OwnFetch
  BY DEF LoneInv, RunMain
<1>2. UNCHANGED <<submits, exports, trimmedVideo, serverVars>>
  BY DEF RunMain, exportVars
<1>3. /\ b = main[1] /\ 1 \in Positions
      /\ \A i \in Positions' : main'[i] = main[i + 1] /\ i + 1 \in Positions /\ i + 1 # 1
  BY Popped DEF RunMain, Types, TypeOK
<1>4. b.of = submits
  BY <1>1, <1>3 DEF Alone
<1> USE DEF serverVars
<1>5. ASSUME OfUpload(b)
      PROVE  /\ Positions' = {} /\ asked = {} /\ DOMAIN exports = {} /\ fetches = {}
             /\ watch = Nobody
  <2>1. Positions = {1} /\ asked = {} /\ DOMAIN exports = {} /\ fetches = {} /\ watch = Nobody
    BY <1>1, <1>3, <1>5, Single
  <2> QED
    BY <1>3, <2>1
<1> HIDE DEF b
<1>6. CASE UploadVideo(b)
  <2>1. OfUpload(b) /\ b.does = "trimmed"
    BY <1>6 DEF UploadVideo, Uploads, OfUpload
  <2>2. trimmedVideo = [of |-> submits, complete |-> TRUE]
    BY <1>1, <1>3, <2>1 DEF OwnGame
  <2>3. carries' = [carries EXCEPT ![submits] = trimmedVideo]
    BY <1>4, <1>6 DEF UploadVideo
  <2>4. carries \in [Submits -> Content] /\ submits \in Submits
    BY <1>3, <1>4 DEF Types, TypeOK, Submits
  <2>5. carries'[submits] = [of |-> submits, complete |-> TRUE]
    BY <2>2, <2>3, <2>4
  <2>6. /\ asked' = asked \cup {submits} /\ sent' \subseteq sent \cup {submits}
        /\ UNCHANGED <<message, watch, player, fetches, finalOutput>>
    BY <1>4, <1>6 DEF UploadVideo, screenVars
  <2>7. Alone'
    BY <1>1, <1>2, <1>5, <2>1, <2>6 DEF Alone
  <2>8. OwnGame'
    BY <1>1, <1>2, <1>5, <2>1, <2>5, <2>6 DEF OwnGame
  <2>9. OwnFetch'
    BY <1>5, <2>1, <2>6 DEF OwnFetch
  <2> QED
    BY <2>7, <2>8, <2>9
<1>7. ASSUME NoteFailure(b) \/ AnswerNotSaved(b) PROVE (Alone /\ OwnGame /\ OwnFetch)'
  <2>1. OfUpload(b)
    BY <1>7 DEF NoteFailure, AnswerNotSaved, OfUpload
  <2>2. /\ UNCHANGED <<watch, player, carries, asked, fetches, finalOutput, sent>>
        /\ message' = "success" => message = "success"
    BY <1>7 DEF NoteFailure, AnswerNotSaved
  <2> QED
    BY <1>1, <1>2, <1>5, <2>1, <2>2 DEF Alone, OwnGame, OwnFetch
<1>8. CASE ShowAnswer(b)
  <2>1. OfUpload(b) /\ b.does = "answered"
    BY <1>8 DEF ShowAnswer, OfUpload
  <2>2. submits \in answered
    BY <1>3, <1>4, <2>1 DEF OnePlace
  <2>3. /\ UNCHANGED <<carries, asked, sent>>
        /\ watch' \in {watch, submits} /\ fetches' \subseteq fetches \cup {submits}
        /\ watch' # watch => player' = "loading"
    BY <1>4, <1>8 DEF ShowAnswer
  <2>4. Alone'
    BY <1>1, <1>2, <1>5, <2>1, <2>3 DEF Alone
  <2>5. OwnGame'
    BY <1>1, <1>2, <1>5, <2>1, <2>2, <2>3 DEF OwnGame
  <2>6. OwnFetch'
    BY <1>2, <1>5, <2>1, <2>3 DEF OwnFetch
  <2> QED
    BY <2>4, <2>5, <2>6
<1>9. CASE ShowProcessed(b)
  <2>1. b.does \in {"fetched", "notFetched"} /\ ~OfUpload(b)
    BY <1>9 DEF ShowProcessed, OfUpload
  <2>2. UNCHANGED <<message, watch, carries, asked, fetches, finalOutput, sent>>
    BY <1>9 DEF ShowProcessed
  <2>3. DOMAIN exports = {} /\ asked = {} /\ \A i \in Positions : ~OfUpload(main[i])
    BY <1>1, <1>3, <2>1 DEF OwnFetch
  <2>4. \A i \in Positions' : /\ main'[i].of = submits /\ ~OfUpload(main'[i])
                              /\ main'[i].does = "fetched" => finalOutput' = "fetched"
    BY <1>1, <1>3, <2>2, <2>3 DEF Alone, OwnFetch
  <2>5. (watch' # Nobody /\ player' = "playing") => finalOutput' = "fetched"
    <3>1. player' = player \/ (player' = Plays(b))
      BY <1>9 DEF ShowProcessed
    <3>2. Plays(b) = "playing" => finalOutput = "fetched"
      BY <1>1, <1>3 DEF Plays, OwnFetch
    <3> QED
      BY <1>1, <2>2, <3>1, <3>2 DEF OwnFetch
  <2>6. Alone'
    BY <1>1, <1>2, <2>2, <2>4 DEF Alone
  <2>7. OwnGame'
    BY <1>1, <1>2, <2>2, <2>3, <2>4 DEF OwnGame, OfUpload
  <2>8. OwnFetch'
    BY <1>2, <2>2, <2>3, <2>4, <2>5 DEF OwnFetch, OfUpload
  <2> QED
    BY <2>6, <2>7, <2>8
<1> QED
  BY <1>6, <1>7, <1>8, <1>9 DEF RunMain, b

\* Of one submission there is one handler, which truncates and then writes.
LEMMA LoneServer ==
  ASSUME Types, LoneInv, ServerStep
  PROVE  LoneInv'
<1> SUFFICES ASSUME ~overlapped' PROVE (Alone /\ OwnGame /\ OwnFetch)'
  BY DEF LoneInv
<1> USE DEF screenVars, exportVars, requestVars
<1>1. Alone /\ OwnGame /\ OwnFetch
  BY DEF LoneInv, ServerStep
<1>2. UNCHANGED <<screenVars, exportVars, requestVars, sent>> /\ Positions' = Positions
  BY DEF ServerStep, Server!ServerNext, Positions
<1>3. OwnFetch'
  BY <1>1, <1>2 DEF OwnFetch, OfUpload
<1>4. /\ taken \subseteq sent /\ DOMAIN handlers \subseteq taken
      /\ answered \subseteq taken \ DOMAIN handlers
      /\ handlers \in [DOMAIN handlers -> {1}] /\ live \in [{1} -> SUBSET taken]
  BY DEF Types, TypeOK, Server!LiveTypeOK, Server!Running, Server!Files
<1> SUFFICES /\ sent' \ taken' \subseteq {submits} /\ DOMAIN handlers' \subseteq {submits}
             /\ submits \in DOMAIN handlers' => live'[1] = {}
             /\ submits \in answered' => live'[1] = {submits}
             /\ answered \subseteq answered'
  BY <1>1, <1>2, <1>3 DEF Alone, OwnGame
<1>5. /\ sent \ taken \subseteq {submits} /\ DOMAIN handlers \subseteq {submits}
      /\ submits \in DOMAIN handlers => live[1] = {}
      /\ submits \in answered => live[1] = {submits}
  BY <1>1 DEF Alone, OwnGame
<1> USE DEF Server!Running
<1>6. ASSUME NEW r \in Submits, Server!Lose(r)
      PROVE  /\ taken \subseteq taken' /\ DOMAIN handlers' \subseteq DOMAIN handlers
             /\ live' = live /\ answered' = answered
  BY <1>6 DEF Server!Lose
<1>6f. ASSUME NEW r \in Submits, Server!Fail(r)
       PROVE  /\ taken' = taken /\ DOMAIN handlers' = {}
              /\ answered' = answered /\ submits \notin answered'
  <2>1. r \in DOMAIN handlers /\ DOMAIN handlers' = DOMAIN handlers \ {r}
        /\ taken' = taken /\ answered' = answered
    BY <1>6f DEF Server!Fail, Server!Without
  <2>2. r = submits
    BY <1>5, <2>1
  <2> QED
    BY <1>4, <1>5, <2>1, <2>2
<1>7. CASE Server!Restart
  BY <1>2, <1>5, <1>7 DEF Server!Restart
<1>8. ASSUME NEW r \in Submits, Server!UploadClips(r)
      PROVE  /\ r = submits /\ taken' = taken \cup {r} /\ DOMAIN handlers' = {submits}
             /\ live'[1] = {} /\ answered' = answered /\ submits \notin answered'
  BY <1>4, <1>5, <1>8 DEF Server!UploadClips, Server!Truncated
<1>9. ASSUME NEW r \in Submits, Server!WriteFile(r) PROVE FALSE
  BY <1>4, <1>9 DEF Server!WriteFile
<1>10. ASSUME NEW r \in Submits, Server!Answer(r)
       PROVE  /\ r = submits /\ taken' = taken /\ DOMAIN handlers' = {}
              /\ live'[1] = {submits} /\ answered \subseteq answered'
  <2>1. PICK bytes \in Server!Written(r, 1) : live' = [live EXCEPT ![1] = bytes]
    BY <1>10 DEF Server!Answer
  <2>2. r = submits /\ live[1] = {}
    BY <1>5, <1>10 DEF Server!Answer
  <2>3. bytes = {r}
    BY <2>1, <2>2 DEF Server!Written
  <2>4. live'[1] = {submits}
    BY <1>4, <2>1, <2>2, <2>3
  <2>5. DOMAIN handlers' = {} /\ taken' = taken /\ answered \subseteq answered'
    BY <1>5, <1>10, <2>2 DEF Server!Answer, Server!Without
  <2> QED
    BY <2>2, <2>4, <2>5
<1>11. CASE \E r \in Submits : Server!Lose(r)
  BY <1>2, <1>5, <1>6, <1>11
<1>11f. CASE \E r \in Submits : Server!Fail(r)
  BY <1>2, <1>5, <1>6f, <1>11f
<1>12. CASE \E r \in Submits : Server!UploadClips(r)
  BY <1>2, <1>5, <1>8, <1>12
<1>13. CASE \E r \in Submits : Server!Answer(r)
  BY <1>2, <1>5, <1>10, <1>13
<1> QED
  BY <1>7, <1>9, <1>11, <1>12, <1>13, <1>11f DEF ServerStep, Server!ServerNext, Server!ServerStep

\* Every step keeps what is said of a lone submission.
LEMMA LoneStep ==
  ASSUME Types, OnePlace, LoneInv, [Next]_uploadVars
  PROVE  LoneInv'
<1>1. CASE \/ \E v \in Videos : Pick(v)
           \/ SlideStart \/ SlideEnd \/ PresetNotSupported \/ CloseWatch \/ Leave
           \/ UNCHANGED uploadVars
  <2>1. ~overlapped' => ~overlapped
    <3>1. CASE PresetNotSupported
      <4>1. overlapped' = (overlapped \/ ~Quiet)
        BY <3>1 DEF PresetNotSupported
      <4> QED
        BY <4>1
    <3>2. CASE ~PresetNotSupported
      <4>1. overlapped' = overlapped
        BY <1>1, <3>2 DEF Pick, SlideStart, SlideEnd, CloseWatch, Leave, uploadVars
      <4> QED
        BY <4>1
    <3> QED
      BY <3>1, <3>2
  <2>2. /\ UNCHANGED <<exportVars, requestVars, sent, serverVars>>
        /\ watch' \in {watch, Nobody} /\ (message' = "success" => message = "success")
        /\ watch' # Nobody => player' = player
    BY <1>1 DEF Pick, SlideStart, SlideEnd, PresetNotSupported, CloseWatch, Leave, NewScreen,
      uploadVars, screenVars
  <2> QED
    BY <2>1, <2>2, LoneKept
<1> QED
  BY <1>1, LoneSubmit, LoneRelaunch, LoneExport, LoneAnswer, LoneRun, LoneServer DEF Next

\* The inductive invariant.
LEMMA Invariance == Spec => []IInv
<1>1. Init => IInv
  <2> SUFFICES ASSUME Init PROVE IInv
    OBVIOUS
  <2>1. /\ DOMAIN exports = {} /\ asked = {} /\ fetches = {} /\ sent = {} /\ answered = {}
        /\ DOMAIN handlers = {} /\ Positions = {} /\ watch = Nobody /\ message = "none"
    BY DEF Init, Server!LiveInit, Positions
  <2>2. OnePlace
    BY <2>1 DEF OnePlace
  <2>3. Alone
    BY <2>1 DEF Alone
  <2>4. OwnGame
    BY <2>1 DEF OwnGame
  <2>5. OwnFetch
    BY <2>1 DEF OwnFetch
  <2> QED
    BY <2>2, <2>3, <2>4, <2>5, TypesInit DEF IInv, LoneInv
<1>2. IInv /\ [Next]_uploadVars => IInv'
  BY TypesStep, PlacesStep, LoneStep DEF IInv
<1> QED
  BY <1>1, <1>2, PTL DEF Spec

\* "Video uploaded successfully!" after a Submit pressed with nothing under way
\* means that the server's game is that Submit's trim, whole
\* (UploadGameView.swift: trimAndUpload, uploadVideo; upload_game).
THEOREM Stored == Spec => []SuccessIsStored
<1>1. IInv => SuccessIsStored
  BY DEF IInv, Types, TypeOK, Server!LiveTypeOK, LoneInv, OwnGame, SuccessIsStored
<1> QED
  BY <1>1, Invariance, PTL

\* The WatchView plays what it fetched, though the answer of the upload is
\* written to the same file (WatchView.swift: fetchProcessedVideo).
THEOREM Fetched == Spec => []PlaysFetched
<1>1. IInv => PlaysFetched
  BY DEF IInv, LoneInv, OwnFetch, PlaysFetched, AtScreen
<1> QED
  BY <1>1, Invariance, PTL
-----------------------------------------------------------------------------
(* The spinner: the safety half of UploadEnds.                              *)

\* A submission of the screen there is, on its way to an answer.
Waited(k) == k \in mine /\ (k \in DOMAIN exports \/ k \in asked \/ Pending(k))

SpinnerHasCause == isUploading => \E k \in Submits : Waited(k)

\* What is waited for stays so while nothing is answered to the screen.
LEMMA WaitedOn ==
  ASSUME SpinnerHasCause, isUploading' => isUploading, mine \subseteq mine',
         DOMAIN exports \subseteq DOMAIN exports', asked \subseteq asked', main' = main
  PROVE  SpinnerHasCause'
BY DEF SpinnerHasCause, Waited, Pending, Positions

\* What ends of submission k, and queues a block of the upload.
LEMMA WaitedQueued ==
  ASSUME Types, SpinnerHasCause, isUploading' = isUploading, mine' = mine,
         NEW k \in Submits, NEW d \in Blocks, Queue(d, k),
         \A j \in DOMAIN exports : j = k \/ j \in DOMAIN exports',
         \A j \in asked : j = k \/ j \in asked',
         OfUpload([does |-> d, of |-> k]) \/ (asked' = asked /\ exports' = exports)
  PROVE  SpinnerHasCause'
<1> DEFINE n == Len(main) + 1
<1>1. main \in Seq(Block)
  BY DEF Types, TypeOK
<1>2. /\ Positions' = Positions \cup {n}
      /\ \A i \in Positions : main'[i] = main[i]
      /\ main'[n] = [does |-> d, of |-> k]
  BY <1>1, Appended
<1> HIDE DEF n
<1>3. main'[n].of = k
  BY <1>2
<1>4. ASSUME NEW j \in Submits, Waited(j) PROVE Waited(j)'
  <2>1. Pending(j) => Pending(j)'
    BY <1>2 DEF Pending, OfUpload
  <2>2. CASE j = k /\ OfUpload([does |-> d, of |-> k])
    BY <1>2, <1>3, <1>4, <2>2 DEF Waited, Pending, OfUpload
  <2>3. CASE j # k \/ (asked' = asked /\ exports' = exports)
    BY <1>4, <2>1, <2>3 DEF Waited
  <2> QED
    BY <2>2, <2>3
<1> QED
  BY <1>4 DEF SpinnerHasCause

\* A block is run: one that answers the screen stops the spinner, and one that
\* ends an export asks the server.
LEMMA WaitedRun ==
  ASSUME Types, SpinnerHasCause, RunMain
  PROVE  SpinnerHasCause'
<1> DEFINE b == Head(main)
<1>1. /\ b = main[1] /\ b \in Block
      /\ \A i \in Positions : i # 1 => i - 1 \in Positions' /\ main'[i - 1] = main[i]
  <2>1. main # <<>> /\ main' = Tail(main) /\ main \in Seq(Block)
    BY DEF RunMain, Types, TypeOK
  <2> QED
    BY <2>1 DEF Positions
<1>2. exports' = exports /\ asked \subseteq asked' /\ mine' = mine
  BY DEF RunMain, exportVars, UploadVideo, NoteFailure, ShowAnswer, AnswerNotSaved,
    ShowProcessed, screenVars
<1>3. isUploading' => isUploading
  BY DEF RunMain, UploadVideo, NoteFailure, ShowAnswer, AnswerNotSaved, ShowProcessed,
    screenVars, StopsSpinning
<1>4. isUploading' /\ OfUpload(b) => b.of \notin mine \/ b.of \in asked'
  BY DEF RunMain, UploadVideo, NoteFailure, ShowAnswer, AnswerNotSaved, ShowProcessed,
    StopsSpinning, OfUpload, Uploads
<1> HIDE DEF b
<1>5. ASSUME isUploading', NEW j \in Submits, Waited(j) PROVE Waited(j)'
  <2>1. CASE j \in DOMAIN exports \/ j \in asked
    BY <1>2, <1>5, <2>1 DEF Waited
  <2>2. CASE Pending(j)
    <3>1. PICK i \in Positions : OfUpload(main[i]) /\ main[i].of = j
      BY <2>2 DEF Pending
    <3>2. CASE i = 1
      BY <1>1, <1>2, <1>4, <1>5, <3>1, <3>2 DEF Waited
    <3>3. CASE i # 1
      BY <1>1, <1>2, <1>5, <3>1, <3>3 DEF Waited, Pending, OfUpload
    <3> QED
      BY <3>2, <3>3
  <2> QED
    BY <1>5, <2>1, <2>2 DEF Waited
<1> QED
  BY <1>3, <1>5 DEF SpinnerHasCause

LEMMA SpinnerStep ==
  ASSUME Types, SpinnerHasCause, [Next]_uploadVars
  PROVE  SpinnerHasCause'
<1> USE DEF screenVars, exportVars, requestVars
<1>1. CASE \/ \E v \in Videos : Pick(v)
           \/ SlideStart \/ SlideEnd \/ PresetNotSupported \/ CloseWatch
           \/ ServerStep \/ UNCHANGED uploadVars
  <2>1. /\ UNCHANGED <<mine, exports, asked, main>>
        /\ isUploading' = isUploading \/ ~isUploading'
    BY <1>1 DEF Pick, SlideStart, SlideEnd, PresetNotSupported, CloseWatch, ServerStep, uploadVars
  <2> QED
    BY <2>1, WaitedOn
<1>2. CASE Leave \/ Relaunch
  BY <1>2 DEF Leave, Relaunch, NewScreen, SpinnerHasCause
<1>3. CASE TrimAndUpload
  <2>1. submits' \in Submits /\ submits' \in mine' /\ submits' \in DOMAIN exports'
    BY <1>3 DEF TrimAndUpload, Types, TypeOK, Submits
  <2> QED
    BY <2>1 DEF SpinnerHasCause, Waited
<1>4. ASSUME NEW k \in Submits, Export(k) PROVE SpinnerHasCause'
  <2>1. CASE CreateFile(k)
    <3>1. DOMAIN exports' = DOMAIN exports /\ UNCHANGED <<isUploading, mine, asked, main>>
      BY <2>1 DEF CreateFile
    <3> QED
      BY <3>1, WaitedOn
  <2>2. CASE ExportCompletes(k) \/ ExportFails(k)
    <3>1. /\ DOMAIN exports' = DOMAIN exports \ {k} /\ UNCHANGED <<isUploading, mine, asked>>
          /\ Queue("trimmed", k) \/ Queue("trimFailed", k)
      BY <2>2 DEF ExportCompletes, ExportFails, Without
    <3>2. /\ "trimmed" \in Blocks /\ "trimFailed" \in Blocks
          /\ OfUpload([does |-> "trimmed", of |-> k]) /\ OfUpload([does |-> "trimFailed", of |-> k])
      BY DEF Blocks, OfUpload
    <3> QED
      BY <3>1, <3>2, WaitedQueued
  <2> QED
    BY <1>4, <2>1, <2>2 DEF Export
<1>5. ASSUME NEW k \in Submits, UploadAnswered(k) PROVE SpinnerHasCause'
  <2>1. /\ asked' = asked \ {k} /\ UNCHANGED <<isUploading, mine, exports>>
        /\ Queue("answered", k) \/ Queue("failed", k)
    BY <1>5 DEF UploadAnswered
  <2>2. /\ "answered" \in Blocks /\ "failed" \in Blocks
        /\ OfUpload([does |-> "answered", of |-> k]) /\ OfUpload([does |-> "failed", of |-> k])
    BY DEF Blocks, OfUpload
  <2> QED
    BY <2>1, <2>2, WaitedQueued
<1>6. ASSUME NEW k \in Submits, FetchAnswered(k) PROVE SpinnerHasCause'
  <2>1. /\ UNCHANGED <<isUploading, mine, exports, asked>>
        /\ Queue("fetched", k) \/ Queue("notFetched", k)
    BY <1>6 DEF FetchAnswered
  <2>2. "fetched" \in Blocks /\ "notFetched" \in Blocks
    BY DEF Blocks
  <2> QED
    BY <2>1, <2>2, WaitedQueued
<1>7. CASE RunMain
  BY <1>7, WaitedRun
<1> QED
  BY <1>1, <1>2, <1>3, <1>4, <1>5, <1>6, <1>7 DEF Next

\* While the spinner turns, a submission made on this screen is being exported,
\* waits for the server, or has a block to run that stops it: it never turns
\* for a submission of a screen that was left, nor for none
\* (UploadGameView.swift: trimAndUpload, uploadVideo).
THEOREM SpinnerIsAwaited == Spec => []SpinnerHasCause
<1>1. Init => SpinnerHasCause
  BY DEF Init, SpinnerHasCause
<1>2. IInv => Types
  BY DEF IInv
<1> QED
  BY <1>1, <1>2, SpinnerStep, Invariance, PTL DEF Spec
=============================================================================
