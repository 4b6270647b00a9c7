----------------------------- MODULE Enrolment -----------------------------
(***************************************************************************)
(* Enrolment from end to end: the requests of StartGame, as EnrolmentFeed  *)
(* abstracts them, are the uploads and trainings of TrainingServer, each   *)
(* named by its position in the order they were sent.  They travel on      *)
(* connections of their own, so they arrive in any order and some do not   *)
(* arrive; the app looks at no answer.                                     *)
(*                                                                         *)
(* The app sends player and team as form fields, upload_video declares     *)
(* them as query parameters: for the server every upload is of the player  *)
(* "" of team "", and is saved under one name.                             *)
(*                                                                         *)
(* UPLOAD_DIR is in the repository with two videos in it, so the server    *)
(* starts with those, or what an earlier training left of them.            *)
(***************************************************************************)
EXTENDS EnrolmentFeed, FiniteSets

CONSTANTS
  Residents,                                  \* the videos UPLOAD_DIR comes with
  Splits, Sightings, Length, MaxTrainings     \* of the server

ASSUME ServerAssumption ==
  /\ Sightings \subseteq {"nothing", "other", "person"}
  /\ Length \in Nat /\ MaxTrainings \in Nat

VARIABLES
  settled,       \* requests that reached their handler, or never will
  status, uploads, linked, folders, images, labels, names,
  trainings, processed, trainedOn, disturbed,
  orderly        \* history: every request reached the server, alone and in
                 \* the order it was sent, and none failed there

Positions == 1..MaxRequests

\* new_filename, with the defaults of player_name and player_team.
NewFilename(k) == "_.mov"

\* A resident video has its own name: it is not among the requests.
ASSUME ResidentsAssumption ==
  /\ IsFiniteSet(Residents)
  /\ Residents \cap Positions = {}
  /\ "_.mov" \notin Residents

SavedAs(v) == IF v \in Residents THEN v ELSE NewFilename(v)

\* All of them end in .mov or .mp4.
SavedNames == {SavedAs(v) : v \in Positions \cup Residents}

Server == INSTANCE TrainingServer WITH
            Videos <- Positions \cup Residents,
            Images <- {},
            NameOf <- [v \in Positions \cup Residents |-> SavedAs(v)],
            Listed <- SavedNames,
            Order  <- SavedNames \X SavedNames

trainingVars == <<status, uploads, linked, folders, images, labels, names,
                  trainings, processed, trainedOn, disturbed>>
enrolmentVars == <<sent, settled, trainingVars, orderly>>

Travelling == DOMAIN sent \ settled

EnrolmentInit ==
  /\ FeedInit
  /\ Server!Init /\ Server!Answered \subseteq Residents
  /\ settled = {}
  /\ orderly = TRUE

PhoneStep == FeedNext /\ UNCHANGED <<settled, trainingVars, orderly>>
-----------------------------------------------------------------------------
\* In the order sent, and with nothing else at the server.
InOrder(k) == (\A j \in 1..k : j = k \/ j \in settled) /\ Server!Reading = {}

Arrives(k) ==
  /\ k \in Travelling
  /\ settled' = settled \cup {k}
  /\ orderly' = (orderly /\ InOrder(k))
  /\ UNCHANGED sent

\* Mutant: an upload without a file is let through.
AnyBody(upload) == TRUE

\* file: UploadFile = File(...) refuses a request without one.
HasFile(upload) == upload.video # NoVideo

UploadArrives(k) ==
  /\ Arrives(k)
  /\ sent[k] # Train /\ HasFile(sent[k])
  /\ Server!Open(k)

\* A training starts and ends in one step of the event loop.
TrainArrives(k) ==
  /\ Arrives(k)
  /\ sent[k] = Train
  /\ Server!train_model

\* Refused, or lost on the way.
Refused(k) ==
  /\ Arrives(k)
  /\ sent[k] # Train /\ ~HasFile(sent[k])
  /\ UNCHANGED trainingVars

Lost(k) ==
  /\ k \in Travelling
  /\ settled' = settled \cup {k}
  /\ orderly' = FALSE
  /\ UNCHANGED <<sent, trainingVars>>

Settle(k) == UploadArrives(k) \/ TrainArrives(k) \/ Refused(k) \/ Lost(k)

UploadEnds(k) ==
  \/ Server!UploadVideo(k) /\ UNCHANGED <<sent, settled, orderly>>
  \/ Server!Fail(k) /\ orderly' = FALSE /\ UNCHANGED <<sent, settled>>

ServerRestarts == Server!Restart /\ orderly' = FALSE /\ UNCHANGED <<sent, settled>>
-----------------------------------------------------------------------------
EnrolmentNext ==
  \/ PhoneStep
  \/ \E k \in Positions : Settle(k) \/ UploadEnds(k)
  \/ ServerRestarts

EnrolmentSpec == EnrolmentInit /\ [][EnrolmentNext]_enrolmentVars
-----------------------------------------------------------------------------
VideosSettled == {k \in settled : sent[k] # Train /\ sent[k].video # NoVideo}

\* However many players were enrolled, and though every request was handled
\* well and in turn, a training is fed one video of theirs: the last uploaded,
\* beside those UPLOAD_DIR came with.
TrainsOnLastUpload ==
  [][(orderly' /\ trainedOn' # trainedOn) =>
       (trainedOn' \ trainedOn) \ Residents =
         {k \in VideosSettled : \A j \in VideosSettled : j <= k}]_enrolmentVars

\* "Create a new file name based on player_name and player_team"
\* (model_training_routes.py:32): after a training every player whose upload
\* was answered has been trained on.
EveryPlayerTrained ==
  [][(orderly' /\ trainedOn' # trainedOn) =>
       \A k \in Server!Answered \ Residents :
         \E v \in trainedOn' \ Residents : sent[v].player = sent[k].player]_enrolmentVars
=============================================================================
