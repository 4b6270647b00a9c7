----------------------------- MODULE GameUpload -----------------------------
(***************************************************************************)
(* Uploading a game and watching the result (UploadGameView.swift,         *)
(* WatchView.swift).  Submit exports the trimmed video to one fixed        *)
(* temporary file; when the export ends the main queue reads that file and *)
(* sends what it finds; the answer is saved to one fixed file and opens    *)
(* the WatchView, which overwrites that file with an answer of its own.    *)
(* Submit stays enabled all the while, and nothing is cancelled when the   *)
(* screen is left.                                                         *)
(*                                                                         *)
(* The server's upload_game is upload_clips with a single file.            *)
(***************************************************************************)
EXTENDS Naturals, Sequences, FiniteSets

CONSTANTS
  Videos,        \* the videos of the photo library
  NoVideo,
  Length,        \* the length of each
  MaxSubmits     \* bound: exports begun

ASSUME VideosAssumption == NoVideo \notin Videos
ASSUME LengthAssumption == Length \in [Videos -> Nat]
ASSUME SubmitsAssumption == MaxSubmits \in Nat

Submits == 1..MaxSubmits
Nobody == 0

\* The temporary file, and what a request carries: what the export of a
\* submission wrote, complete or not, or no file.
NoFile == [of |-> Nobody, complete |-> FALSE]
Content == [of : Submits, complete : BOOLEAN] \cup {NoFile}

Blocks == {"trimmed", "trimFailed", "answered", "failed", "fetched", "notFetched"}
Block == [does : Blocks, of : Submits]

VARIABLES
  video,         \* selectedVideoURL
  trimStart, trimEnd,
  isUploading,
  message,       \* uploadMessage
  mine,          \* the submissions made on the screen there is
  watch,         \* the submission whose answer opened the WatchView, if shown
  player,        \* what the WatchView shows
  submits,       \* submissions so far
  exports,       \* the running export sessions, and whether each has its file
  trimmedVideo,  \* the temporary file trimmedVideo.mov
  carries,       \* what each request carries
  asked,         \* requests whose answer the phone waits for
  fetches,       \* WatchViews whose own request is not answered yet
  main,          \* the main queue
  finalOutput,   \* what wrote final_output_video.mp4 last
  sent, taken, handlers, live, answered, undisturbed, whole,   \* the server
  overlapped     \* history: the last Submit was pressed while something of
                 \* an earlier one was still under way

screenVars == <<video, trimStart, trimEnd, isUploading, message, mine, watch, player>>
exportVars == <<submits, exports, trimmedVideo>>
requestVars == <<carries, asked, fetches, main, finalOutput>>
serverVars == <<taken, handlers, live, answered, undisturbed, whole>>
uploadVars == <<screenVars, exportVars, requestVars, sent, serverVars, overlapped>>

Server == INSTANCE LiveFrames WITH Requests <- Submits, BatchSize <- 1

Queued(does) == { main[i].of : i \in { j \in DOMAIN main : main[j].does \in does } }

\* Submissions the phone is still busy with.
UnderWay ==
  DOMAIN exports \cup asked \cup Queued({"trimmed", "trimFailed", "answered", "failed"})

Quiet ==
  /\ UnderWay = {} /\ fetches = {} /\ main = <<>>
  /\ sent \subseteq taken /\ DOMAIN handlers = {}

TypeOK ==
  /\ video \in Videos \cup {NoVideo}
  /\ trimStart \in Nat /\ trimEnd \in Nat /\ trimStart <= trimEnd
  /\ isUploading \in BOOLEAN
  /\ message \in {"none", "success", "failure"}
  /\ watch \in Submits \cup {Nobody}
  /\ player \in {"loading", "playing", "error"}
  /\ submits \in 0..MaxSubmits
  /\ mine \subseteq 1..submits
  /\ DOMAIN exports \subseteq 1..submits /\ exports \in [DOMAIN exports -> BOOLEAN]
  /\ trimmedVideo \in Content
  /\ carries \in [Submits -> Content]
  /\ asked \subseteq 1..submits /\ fetches \subseteq 1..submits
  /\ main \in Seq(Block)
  /\ finalOutput \in {"nothing", "answer", "fetched"}
  /\ Server!LiveTypeOK
  /\ overlapped \in BOOLEAN
-----------------------------------------------------------------------------
Init ==
  /\ video = NoVideo /\ trimStart = 0 /\ trimEnd = 0
  /\ isUploading = FALSE /\ message = "none"
  /\ mine = {} /\ watch = Nobody /\ player = "loading"
  /\ submits = 0 /\ exports = << >> /\ trimmedVideo = NoFile
  /\ carries = [k \in Submits |-> NoFile]
  /\ asked = {} /\ fetches = {} /\ main = <<>> /\ finalOutput = "nothing"
  /\ sent = {} /\ Server!LiveInit
  /\ overlapped = FALSE
-----------------------------------------------------------------------------
(* The screen.                                                              *)

AtScreen == watch = Nobody

Larger(a, b) == IF a > b THEN a ELSE b
Smaller(a, b) == IF a < b THEN a ELSE b

\* Mutant: the second slider is not held back by the first.
Unclamped(a, b) == a

\* onChange(of: trimStart) and onChange(of: trimEnd), which also runs when it
\* was the picker that changed trimEnd.
StartFor(t, end) == Smaller(t, end)
EndFor(t, start) == Larger(t, start)

\* The picker sets the duration and the end of the trim, but not its start.
Pick(v) ==
  /\ AtScreen
  /\ video' = v
  /\ trimEnd' = EndFor(Length[v], trimStart)
  /\ UNCHANGED <<trimStart, isUploading, message, mine, watch, player>>
  /\ UNCHANGED <<exportVars, requestVars, sent, serverVars, overlapped>>

SlideStart ==
  /\ AtScreen /\ video # NoVideo
  /\ \E t \in 0..Length[video] : trimStart' = StartFor(t, trimEnd)
  /\ UNCHANGED <<video, trimEnd, isUploading, message, mine, watch, player>>
  /\ UNCHANGED <<exportVars, requestVars, sent, serverVars, overlapped>>

SlideEnd ==
  /\ AtScreen /\ video # NoVideo
  /\ \E t \in 0..Length[video] : trimEnd' = EndFor(t, trimStart)
  /\ UNCHANGED <<video, trimStart, isUploading, message, mine, watch, player>>
  /\ UNCHANGED <<exportVars, requestVars, sent, serverVars, overlapped>>

\* Submit, when the video can be exported.
TrimAndUpload ==
  /\ AtScreen /\ video # NoVideo
  /\ submits < MaxSubmits
  /\ submits' = submits + 1
  /\ isUploading' = TRUE /\ message' = "none"
  /\ mine' = mine \cup {submits'}
  /\ trimmedVideo' = NoFile           \* try? removeItem(at: outputURL)
  /\ exports' = [k \in DOMAIN exports \cup {submits'} |->
                   IF k = submits' THEN FALSE ELSE exports[k]]
  /\ overlapped' = ~Quiet
  /\ UNCHANGED <<video, trimStart, trimEnd, watch, player>>
  /\ UNCHANGED <<requestVars, sent, serverVars>>

\* Submit, when the export preset is not supported.
PresetNotSupported ==
  /\ AtScreen /\ video # NoVideo
  /\ isUploading' = FALSE /\ message' = "failure"
  /\ overlapped' = (overlapped \/ ~Quiet)
  /\ UNCHANGED <<video, trimStart, trimEnd, mine, watch, player>>
  /\ UNCHANGED <<exportVars, requestVars, sent, serverVars>>

\* Back from the WatchView.
CloseWatch ==
  /\ ~AtScreen
  /\ watch' = Nobody
  /\ UNCHANGED <<video, trimStart, trimEnd, isUploading, message, mine, player>>
  /\ UNCHANGED <<exportVars, requestVars, sent, serverVars, overlapped>>

\* The screen's state is made anew.
NewScreen ==
  /\ video' = NoVideo /\ trimStart' = 0 /\ trimEnd' = 0
  /\ isUploading' = FALSE /\ message' = "none"
  /\ mine' = {} /\ watch' = Nobody /\ player' = "loading"

\* Another entry of the menu: the blocks of this screen go on without it.
Leave ==
  /\ NewScreen
  /\ UNCHANGED <<exportVars, requestVars, sent, serverVars, overlapped>>

\* The app ends and is launched again: only its files stay, and what the
\* server has received.
Relaunch ==
  /\ NewScreen
  /\ exports' = << >> /\ asked' = {} /\ fetches' = {} /\ main' = <<>>
  /\ UNCHANGED <<submits, trimmedVideo, carries, finalOutput, sent, serverVars, overlapped>>
-----------------------------------------------------------------------------
(* Export sessions, on threads of their own.                                *)

Queue(does, k) == main' = Append(main, [does |-> does, of |-> k])

Without(k) == [j \in DOMAIN exports \ {k} |-> exports[j]]

\* An export creates its file; it fails when there is one.
CreateFile(k) ==
  /\ k \in DOMAIN exports /\ ~exports[k]
  /\ trimmedVideo = NoFile
  /\ exports' = [exports EXCEPT ![k] = TRUE]
  /\ trimmedVideo' = [of |-> k, complete |-> FALSE]
  /\ UNCHANGED <<submits, screenVars, requestVars, sent, serverVars, overlapped>>

\* An export whose file was removed under it may end without noticing.
ExportCompletes(k) ==
  /\ k \in DOMAIN exports /\ exports[k]
  /\ exports' = Without(k)
  /\ trimmedVideo' = IF trimmedVideo.of = k THEN [trimmedVideo EXCEPT !.complete = TRUE]
                                            ELSE trimmedVideo
  /\ Queue("trimmed", k)
  /\ UNCHANGED <<submits, screenVars, carries, asked, fetches, finalOutput>>
  /\ UNCHANGED <<sent, serverVars, overlapped>>

\* What a failed export wrote may stay.
ExportFails(k) ==
  /\ k \in DOMAIN exports
  /\ exports' = Without(k)
  /\ trimmedVideo' \in {trimmedVideo, IF trimmedVideo.of = k THEN NoFile ELSE trimmedVideo}
  /\ Queue("trimFailed", k)
  /\ UNCHANGED <<submits, screenVars, carries, asked, fetches, finalOutput>>
  /\ UNCHANGED <<sent, serverVars, overlapped>>
-----------------------------------------------------------------------------
(* URLSession, and the server.                                              *)

\* The answer of upload_game reaches the phone, or the request ends with an
\* error or another status: refused, failed, lost or timed out.  A request
\* without a file is always refused.
UploadAnswered(k) ==
  /\ k \in asked
  /\ asked' = asked \ {k}
  /\ \/ k \in answered /\ Queue("answered", k)
     \/ Queue("failed", k)
  /\ UNCHANGED <<screenVars, exportVars, carries, fetches, finalOutput>>
  /\ UNCHANGED <<sent, serverVars, overlapped>>

\* fetchProcessedVideo: whatever the server answers is written, without a look
\* at its status; the server has no such route.
FetchAnswered(k) ==
  /\ k \in fetches
  /\ fetches' = fetches \ {k}
  /\ \/ finalOutput' = "fetched" /\ Queue("fetched", k)
     \/ UNCHANGED finalOutput /\ Queue("notFetched", k)
  /\ UNCHANGED <<screenVars, exportVars, carries, asked, sent, serverVars, overlapped>>

ServerStep == Server!ServerNext /\ UNCHANGED <<screenVars, exportVars, requestVars, overlapped>>
-----------------------------------------------------------------------------
(* The blocks of the main queue.                                            *)

\* Mutant: the file is uploaded whether or not the export completed.
UploadsAnyway(b) == b.does \in {"trimmed", "trimFailed"}

\* exportSession.status == .completed
Uploads(b) == b.does = "trimmed"

\* uploadVideo reads the file as it is now; without one the request has no
\* file part, and the server refuses it before its handler runs.
UploadVideo(b) ==
  /\ Uploads(b)
  /\ carries' = [carries EXCEPT ![b.of] = trimmedVideo]
  /\ sent' = IF trimmedVideo = NoFile THEN sent ELSE sent \cup {b.of}
  /\ asked' = asked \cup {b.of}
  /\ UNCHANGED <<screenVars, fetches, finalOutput>>

\* An error is shown, if its screen is still there.
NoteFailure(b) ==
  /\ ~Uploads(b) /\ b.does \in {"trimFailed", "failed"}
  /\ IF b.of \in mine THEN isUploading' = FALSE /\ message' = "failure"
                      ELSE UNCHANGED <<isUploading, message>>
  /\ UNCHANGED <<video, trimStart, trimEnd, mine, watch, player>>
  /\ UNCHANGED <<carries, asked, fetches, finalOutput, sent>>

\* Mutant: an answered upload leaves the spinner to the WatchView.
KeepsSpinning == UNCHANGED isUploading

StopsSpinning == isUploading' = FALSE

\* The answer is saved as the processed video, which opens a WatchView (unless
\* one is open); that asks for the processed video as soon as it appears.
ShowAnswer(b) ==
  /\ b.does = "answered"
  /\ finalOutput' = "answer"
  /\ IF b.of \in mine
       THEN /\ StopsSpinning /\ message' = "success"
            /\ IF AtScreen
                 THEN watch' = b.of /\ player' = "loading" /\ fetches' = fetches \cup {b.of}
                 ELSE UNCHANGED <<watch, player, fetches>>
       ELSE UNCHANGED <<isUploading, message, watch, player, fetches>>
  /\ UNCHANGED <<video, trimStart, trimEnd, mine, carries, asked, sent>>

\* The answer cannot be saved.
AnswerNotSaved(b) ==
  /\ b.does = "answered"
  /\ IF b.of \in mine THEN StopsSpinning /\ message' = "failure"
                      ELSE UNCHANGED <<isUploading, message>>
  /\ UNCHANGED <<video, trimStart, trimEnd, mine, watch, player>>
  /\ UNCHANGED <<carries, asked, fetches, finalOutput, sent>>

\* Mutant: a WatchView plays what is in the file at once.
PlaysAtOnce(b) == "playing"

Plays(b) == IF b.does = "fetched" THEN "playing" ELSE "error"

ShowProcessed(b) ==
  /\ b.does \in {"fetched", "notFetched"}
  /\ player' = IF b.of = watch THEN Plays(b) ELSE player
  /\ UNCHANGED <<video, trimStart, trimEnd, isUploading, message, mine, watch>>
  /\ UNCHANGED <<carries, asked, fetches, finalOutput, sent>>

RunMain ==
  /\ main # <<>>
  /\ main' = Tail(main)
  /\ LET b == Head(main)
     IN  \/ UploadVideo(b) \/ NoteFailure(b) \/ ShowAnswer(b) \/ AnswerNotSaved(b)
         \/ ShowProcessed(b)
  /\ UNCHANGED <<exportVars, serverVars, overlapped>>
-----------------------------------------------------------------------------
Export(k) == CreateFile(k) \/ ExportCompletes(k) \/ ExportFails(k)

Next ==
  \/ \E v \in Videos : Pick(v)
  \/ SlideStart \/ SlideEnd \/ TrimAndUpload \/ PresetNotSupported
  \/ CloseWatch \/ Leave \/ Relaunch
  \/ \E k \in Submits : Export(k) \/ UploadAnswered(k) \/ FetchAnswered(k)
  \/ RunMain \/ ServerStep

Spec == Init /\ [][Next]_uploadVars

\* Exports end, requests are answered or time out, the main queue runs.
Fairness ==
  /\ WF_uploadVars(RunMain)
  /\ \A k \in Submits : WF_uploadVars(Export(k)) /\ WF_uploadVars(UploadAnswered(k))

FairSpec == Spec /\ Fairness
-----------------------------------------------------------------------------
\* "Video uploaded successfully!" (UploadGameView.swift:215) after a Submit
\* pressed with nothing under way: the server's game is, whole, the trim that
\* Submit was pressed for, whatever failed, was left or restarted before.
SuccessIsStored ==
  (message = "success" /\ ~overlapped) =>
    /\ live[1] = {submits}
    /\ carries[submits] = [of |-> submits, complete |-> TRUE]

\* A WatchView plays what it fetched, never the answer of an upload, although
\* both are written to the same file, unless submissions overlap.
PlaysFetched == (~AtScreen /\ player = "playing" /\ ~overlapped) => finalOutput = "fetched"

\* Whatever fails, the spinner ends.
UploadEnds == isUploading ~> ~isUploading
=============================================================================
