----------------------------- MODULE StartGame -----------------------------
(***************************************************************************)
(* The enrolment of the players (StartGameView.swift): names are entered,  *)
(* every player is shown in turn to be filmed and uploaded, and a summary  *)
(* lets the user train the model and start the game.  CameraModel films    *)
(* into files; AVFoundation reports each file later, on a thread of its    *)
(* own, and videoURL holds the last one that ended well.                   *)
(*                                                                         *)
(* Which video an upload carries depends on when that report comes, not on *)
(* which player is shown: videoURL is never cleared.                       *)
(***************************************************************************)
EXTENDS EnrolmentRequests, CaptureSession

CONSTANT MaxPlayers    \* bound: name fields of a team

ASSUME PlayersAssumption == MaxPlayers \in Nat

VARIABLES
  step,          \* currentStep: 0 names, 1 videos, 2 summary
  index,         \* currentPlayerIndex
  teamA, teamB,
  camera,        \* CameraModel's AVCaptureSession
  isRecording,
  rolling,       \* AVFoundation is filming
  started,       \* recordings started, each named by its number
  filming,       \* those not reported yet
  videoURL,      \* the recording uploaded next, or NoVideo
  isGameActive,  \* of the GameManager
  offered,       \* history: indices uploaded since the players were confirmed
  since,         \* history: value of started when the player was shown
  good           \* history: recordings reported without an error

cameraVars == <<isRecording, rolling, started, filming, videoURL, good>>
wizardVars == <<step, index, teamA, teamB, offered, since>>
gameVars == <<wizardVars, camera, cameraVars, isGameActive, sent>>

players == teamA \o teamB
Shown == step = 1 /\ index < Len(players)
currentPlayer == players[index + 1]

TypeOK ==
  /\ step \in 0..2
  /\ index \in 0..(2 * MaxPlayers)
  /\ teamA \in Seq(Names) /\ Len(teamA) <= MaxPlayers
  /\ teamB \in Seq(Names) /\ Len(teamB) <= MaxPlayers
  /\ camera \in Session
  /\ isRecording \in BOOLEAN
  /\ rolling \in BOOLEAN
  /\ started \in 0..MaxRecordings
  /\ filming \in Seq(1..started)
  /\ videoURL \in 0..started
  /\ isGameActive \in BOOLEAN
  /\ sent \in Seq(Upload \cup {Train})
  /\ offered \subseteq 0..(2 * MaxPlayers)
  /\ since \in 0..started
  /\ good \subseteq 1..started

Init ==
  /\ step = 0 /\ index = 0
  /\ teamA = <<>> /\ teamB = <<>>
  /\ camera = Idle
  /\ isRecording = FALSE /\ rolling = FALSE
  /\ started = 0 /\ filming = <<>> /\ videoURL = NoVideo
  /\ isGameActive = FALSE
  /\ sent = <<>>
  /\ offered = {} /\ since = 0 /\ good = {}
-----------------------------------------------------------------------------
(* The names.                                                               *)

\* Mutant: every edit of a field adds a name.
AlwaysAdded(team, field, name) == Append(team, name)

\* The setter of a name field.  A name typed into a field beyond the names
\* there are becomes the next one, whichever field that was.
Entered(team, field, name) ==
  IF Len(team) < field THEN Append(team, name) ELSE [team EXCEPT ![field] = name]

EnterName(field, name) ==
  /\ step = 0
  /\ \/ teamA' = Entered(teamA, field, name) /\ UNCHANGED teamB
     \/ teamB' = Entered(teamB, field, name) /\ UNCHANGED teamA
  /\ UNCHANGED <<step, index, offered, since, camera, cameraVars, isGameActive, sent>>

\* setup(), run whenever the recording screen appears: a refused input or
\* output is passed over, and the session is started all the same.
CameraSetup(s) ==
  {s} \cup {[input |-> i, running |-> TRUE] :
              i \in IF s.input = "none" THEN {"none", "front"} ELSE {s.input}}

\* Mutant: the player shown before stays the current one.
KeepPlayer == index' = index

FirstPlayer == index' = 0

ConfirmPlayers ==
  /\ step = 0
  /\ step' = 1
  /\ FirstPlayer
  /\ camera' \in CameraSetup(camera)
  /\ offered' = {}
  /\ since' = started
  /\ UNCHANGED <<teamA, teamB, cameraVars, isGameActive, sent>>
-----------------------------------------------------------------------------
(* The recording screen.                                                    *)

SwitchCamera ==
  /\ Shown
  /\ camera' \in SwitchResults(camera)
  /\ UNCHANGED <<wizardVars, cameraVars, isGameActive, sent>>

\* Without a camera input the call raises and the app dies (see Leave).
StartRecording ==
  /\ Shown
  /\ ~isRecording
  /\ Delivers(camera)
  /\ started < MaxRecordings
  /\ isRecording' = TRUE
  /\ rolling' = TRUE
  /\ started' = started + 1
  /\ filming' = Append(filming, started + 1)
  /\ UNCHANGED <<wizardVars, camera, videoURL, good, isGameActive, sent>>

\* Mutant: the flag is cleared and the output left filming.
KeepRolling == rolling' = rolling

StopOutput == rolling' = FALSE

StopRecording ==
  /\ Shown
  /\ isRecording
  /\ isRecording' = FALSE
  /\ StopOutput
  /\ UNCHANGED <<wizardVars, camera, started, filming, videoURL, good, isGameActive, sent>>

\* Mutant: a later recording does not replace an earlier one.
FirstKept(recording) == IF videoURL = NoVideo THEN recording ELSE videoURL

Stored(recording) == recording

\* Mutant: every recording has an output of its own, and the latest is
\* reported first.
LatestReport == [file |-> filming[Len(filming)], rest |-> SubSeq(filming, 1, Len(filming) - 1)]

NextReport == [file |-> Head(filming), rest |-> Tail(filming)]

\* fileOutput: files are reported in the order they were begun.  One that is
\* being filmed ends by itself only with an error (its camera was switched,
\* the disk is full), and the code leaves isRecording as it is.
FileOutput ==
  /\ filming # <<>>
  /\ filming' = NextReport.rest
  /\ \/ /\ ~(rolling /\ Len(filming) = 1)
        /\ videoURL' = Stored(NextReport.file)
        /\ good' = good \cup {NextReport.file}
     \/ UNCHANGED <<videoURL, good>>
  /\ rolling' = (rolling /\ Len(filming) > 1)
  /\ UNCHANGED <<wizardVars, camera, isRecording, started, isGameActive, sent>>

\* Mutant: the teams are asked in the other order.
TeamAFirst(name) == IF \E k \in DOMAIN teamA : teamA[k] = name THEN "A" ELSE "B"

TeamOf(name) == IF \E k \in DOMAIN teamB : teamB[k] = name THEN "B" ELSE "A"

\* The request is sent if there is a video; its file may have gone.
SendVideo ==
  \/ /\ videoURL # NoVideo
     /\ Len(sent) < MaxRequests
     /\ \E video \in {videoURL, NoVideo} :
          sent' = Append(sent, [player |-> currentPlayer,
                                team |-> TeamOf(currentPlayer),
                                video |-> video])
  \/ videoURL = NoVideo /\ UNCHANGED sent

\* The next player is shown, or the summary, whether or not one was sent.
UploadVideo ==
  /\ Shown
  /\ SendVideo
  /\ \/ /\ index < Len(players) - 1
        /\ index' = index + 1
        /\ since' = started
        /\ UNCHANGED step
     \/ /\ ~(index < Len(players) - 1)
        /\ step' = 2
        /\ UNCHANGED <<index, since>>
  /\ offered' = offered \cup {index}
  /\ UNCHANGED <<teamA, teamB, camera, cameraVars, isGameActive>>

\* From the summary the last player is shown again.
GoBack ==
  /\ step > 0
  /\ step' = step - 1
  /\ camera' \in IF step = 2 THEN CameraSetup(camera) ELSE {camera}
  /\ UNCHANGED <<index, teamA, teamB, offered, since, cameraVars, isGameActive, sent>>
-----------------------------------------------------------------------------
(* The summary.                                                             *)

TrainModel ==
  /\ step = 2
  /\ Len(sent) < MaxRequests
  /\ sent' = Append(sent, Train)
  /\ UNCHANGED <<wizardVars, camera, cameraVars, isGameActive>>

FinishInitialization ==
  /\ step = 2
  /\ isGameActive' = TRUE
  /\ UNCHANGED <<wizardVars, camera, cameraVars, sent>>

\* Another screen is chosen, and the view's state and camera are lost; or the
\* app dies, and the GameManager with it.
Leave ==
  /\ step' = 0 /\ index' = 0
  /\ teamA' = <<>> /\ teamB' = <<>>
  /\ camera' = Idle
  /\ isRecording' = FALSE /\ rolling' = FALSE
  /\ filming' = <<>> /\ videoURL' = NoVideo
  /\ offered' = {} /\ since' = started /\ good' = {}
  /\ isGameActive' \in {isGameActive, FALSE}
  /\ UNCHANGED <<started, sent>>
-----------------------------------------------------------------------------
Next ==
  \/ \E field \in 1..MaxPlayers, name \in Names : EnterName(field, name)
  \/ ConfirmPlayers \/ GoBack
  \/ SwitchCamera \/ StartRecording \/ StopRecording \/ FileOutput
  \/ UploadVideo
  \/ TrainModel \/ FinishInitialization
  \/ Leave

Spec == Init /\ [][Next]_gameVars

Feed == INSTANCE EnrolmentFeed
-----------------------------------------------------------------------------
\* Training and the game can be started only after every confirmed player was
\* shown and its upload pressed, whatever the user went back to and changed.
EveryPlayerOffered ==
  step = 2 => players # <<>> /\ offered = 0..(Len(players) - 1)

\* An upload carries the current player's own video as soon as one begun for
\* that player was reported well: no late report puts an earlier player's
\* video back.
UploadSent == Len(sent') > Len(sent) /\ sent'[Len(sent')] # Train

OwnTakeSent ==
  [][UploadSent /\ (\E g \in good : g > since) =>
       sent'[Len(sent')].video \in {NoVideo} \cup {g \in good : g > since}]_gameVars

\* The enrolment implements EnrolmentFeed: however late files are reported, no
\* upload goes back to a recording before one already uploaded.
RequestFeed == Feed!FeedSpec

\* The camera never films when the screen says that it does not.
NoHiddenFilming == rolling => isRecording

\* A player is uploaded under a team the name is in, and one of team A under
\* "B" only when team B has a player of the same name.
UploadedUnderTeam ==
  [][UploadSent =>
       LET upload == sent'[Len(sent')]
           OnTeam(team) == \E k \in DOMAIN team : team[k] = upload.player
       IN  /\ upload.team = "A" => index < Len(teamA)
           /\ upload.team = "B" => OnTeam(teamB)]_gameVars

\* "Upload video for the current player" (StartGameView.swift:167): the video
\* uploaded was begun when that player was shown.
UploadIsOfCurrentPlayer ==
  [][UploadSent =>
       sent'[Len(sent')].video \in {NoVideo} \cup ((since + 1)..started)]_gameVars
=============================================================================
