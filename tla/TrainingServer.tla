--------------------------- MODULE TrainingServer ---------------------------
(***************************************************************************)
(* The training side of the server (model_training_routes.py and           *)
(* model_training_logic.py): videos of players are uploaded into UPLOAD_DIR,*)
(* a training run extracts their frames into DATASET_DIR, labels them with  *)
(* the player's class, trains, and then empties UPLOAD_DIR.  Every completed*)
(* upload empties DATASET_DIR.                                              *)
(*                                                                          *)
(* Handlers are coroutines of one event loop.  upload_video and test_model  *)
(* open their file and then await its bytes, which is where other handlers  *)
(* run; train_model never awaits, so nothing runs beside it, but it may     *)
(* raise, or the process may die, at any point of it.                       *)
(***************************************************************************)
EXTENDS Naturals, Sequences, FiniteSets

CONSTANTS
  Videos,        \* the upload_video requests
  Images,        \* the test_model requests
  NameOf,        \* the file name each request is saved under
  Listed,        \* the video names that end in .mp4, .avi or .mov, so written
  Order,         \* the pairs of them os.listdir may list in this order
  Splits,        \* "train", "valid" and "test" in the code
  Sightings,     \* what the detector may find in a frame
  Length,        \* bound: frames of a video
  MaxTrainings   \* bound: training runs between two completed uploads

Requests == Videos \cup Images
FileNames == {NameOf[r] : r \in Requests}
VideoNames == {NameOf[r] : r \in Videos}

ASSUME KindsAssumption ==
  /\ IsFiniteSet(VideoNames)
  /\ Videos \cap Images = {}
  /\ DOMAIN NameOf = Requests
  /\ \A v \in Videos, i \in Images : NameOf[v] # NameOf[i]
ASSUME ListedAssumption == Listed \subseteq VideoNames
ASSUME OrderAssumption == Order \subseteq Listed \X Listed
ASSUME SightingsAssumption == Sightings \subseteq {"nothing", "other", "person"}
ASSUME TrainingBoundsAssumption == Length \in Nat /\ MaxTrainings \in Nat

Path == [split: Splits, name: Listed, frame: 1..Length]

VARIABLES
  status,        \* of each request
  uploads,       \* UPLOAD_DIR: name -> the requests whose bytes are there
  linked,        \* reading requests whose open file still has its name
  folders,       \* the splits with their directories in DATASET_DIR
  images,        \* the image files in it
  labels,        \* its non-empty label files: path -> class
  names,         \* the class names in data.yaml
  trainings,     \* history: training runs since the last completed upload
  processed,     \* history: the last of them ended process_videos
  trainedOn,     \* history: videos a completed training was made of
  disturbed      \* history: requests whose file another handler opened
                 \* too, or a training deleted while it was being read

datasetVars == <<folders, images, labels, names>>
historyVars == <<trainings, processed, trainedOn, disturbed>>
trainingVars == <<status, uploads, linked, datasetVars, historyVars>>

Reading == {r \in Requests : status[r] = "reading"}
Answered == {r \in Requests : status[r] = "answered"}

TypeOK ==
  /\ status \in [Requests -> {"new", "reading", "answered", "failed"}]
  /\ DOMAIN uploads \subseteq FileNames
  /\ \A n \in DOMAIN uploads : uploads[n] \subseteq {r \in Requests : NameOf[r] = n}
  /\ linked \subseteq Reading
  /\ \A r \in linked : NameOf[r] \in DOMAIN uploads
  /\ folders \subseteq Splits
  /\ images \subseteq Path
  /\ DOMAIN labels \subseteq images
  /\ \A p \in DOMAIN labels : labels[p] \in Nat
  /\ names \in Seq(Listed)
  /\ trainings \in 0..MaxTrainings
  /\ processed \in BOOLEAN
  /\ trainedOn \subseteq Videos
  /\ disturbed \subseteq Requests

\* A server may start with videos in UPLOAD_DIR (the repository holds two)
\* but without the directories of the dataset.  The data.yaml it holds names
\* no label: it counts as empty.
Init ==
  /\ \E given \in SUBSET Videos :
       /\ \A v, w \in given : NameOf[v] = NameOf[w] => v = w
       /\ status = [r \in Requests |-> IF r \in given THEN "answered" ELSE "new"]
       /\ uploads = [n \in {NameOf[v] : v \in given} |-> {v \in given : NameOf[v] = n}]
  /\ linked = {}
  /\ folders = {}
  /\ images = {}
  /\ labels = [p \in {} |-> 0]
  /\ names = <<>>
  /\ trainings = 0
  /\ processed = FALSE
  /\ trainedOn = {}
  /\ disturbed = {}
-----------------------------------------------------------------------------
(* Uploads.                                                                 *)

SameFile(r) == {q \in Requests \ {r} : NameOf[q] = NameOf[r]}

\* open(path, "wb"), up to the await: the file is created, or truncated.
Open(r) ==
  /\ status[r] = "new"
  /\ status' = [status EXCEPT ![r] = "reading"]
  /\ uploads' = [n \in DOMAIN uploads \cup {NameOf[r]} |->
                   IF n = NameOf[r] THEN {} ELSE uploads[n]]
  /\ linked' = linked \cup {r}
  /\ disturbed' = disturbed
       \cup {q \in SameFile(r) : status[q] # "new"}
       \cup {q \in {r} : SameFile(r) \cap Reading # {}}
  /\ UNCHANGED <<datasetVars, trainings, processed, trainedOn>>

\* The bytes go to the file r opened: under its name, over what others wrote
\* to it since, or nowhere when it was deleted meanwhile.
WriteBytes(r) ==
  /\ linked' = linked \ {r}
  /\ \/ /\ r \in linked
        /\ \E rest \in SUBSET uploads[NameOf[r]] :
             uploads' = [uploads EXCEPT ![NameOf[r]] = {r} \cup rest]
     \/ r \notin linked /\ UNCHANGED uploads

\* Mutant: the dataset of the videos before stays.
KeepDataset == folders' = Splits /\ UNCHANGED <<images, labels, names>>

\* Mutant: only the directories of the images are emptied.
KeepLabels == folders' = Splits /\ images' = {} /\ names' = <<>> /\ UNCHANGED labels

reset_dataset_dir ==
  /\ folders' = Splits
  /\ images' = {}
  /\ labels' = [p \in {} |-> 0]
  /\ names' = <<>>

\* It is cut short by an exception or the end of the process: data.yaml and
\* the splits are deleted in any order, and all of them before the directories
\* of a split are made again.
PartOfReset ==
  \/ /\ folders' \in SUBSET folders
     /\ images' = {p \in images : p.split \in folders'}
     /\ labels' = [p \in {q \in DOMAIN labels : q.split \in folders'} |-> labels[p]]
     /\ names' \in {names, <<>>}
  \/ /\ folders' \in SUBSET Splits
     /\ images' = {}
     /\ labels' = [p \in {} |-> 0]
     /\ names' = <<>>

UploadVideo(r) ==
  /\ r \in Videos
  /\ status[r] = "reading"
  /\ WriteBytes(r)
  /\ reset_dataset_dir
  /\ status' = [status EXCEPT ![r] = "answered"]
  /\ trainings' = 0
  /\ processed' = FALSE
  /\ UNCHANGED <<trainedOn, disturbed>>

\* The detector reads the image back by its name.
test_model_logic(r) ==
  \/ r \in linked /\ status' = [status EXCEPT ![r] = "answered"]
  \/ status' = [status EXCEPT ![r] = "failed"]

TestModel(r) ==
  /\ r \in Images
  /\ status[r] = "reading"
  /\ WriteBytes(r)
  /\ test_model_logic(r)
  /\ UNCHANGED <<datasetVars, historyVars>>

\* The handler ends before it answers: the read raised and the file stays as
\* open() left it, or bytes were written to it, and then the handler of a video
\* may have come as far as a part of the reset.
Fail(r) ==
  /\ status[r] = "reading"
  /\ status' = [status EXCEPT ![r] = "failed"]
  /\ \/ linked' = linked \ {r} /\ UNCHANGED <<uploads, datasetVars>>
     \/ WriteBytes(r) /\ UNCHANGED datasetVars
     \/ r \in Videos /\ WriteBytes(r) /\ PartOfReset
  /\ UNCHANGED historyVars

Restart ==
  /\ Reading # {}
  /\ status' = [r \in Requests |-> IF r \in Reading THEN "failed" ELSE status[r]]
  /\ linked' = {}
  /\ UNCHANGED <<uploads, datasetVars, historyVars>>
-----------------------------------------------------------------------------
(* Training.                                                                *)

\* The videos of UPLOAD_DIR with such a name, as os.listdir may list them.
Listings ==
  LET there == Listed \cap DOMAIN uploads
  IN  {s \in [1..Cardinality(there) -> there] :
         /\ \A n \in there : \E k \in DOMAIN s : s[k] = n
         /\ \A k, l \in DOMAIN s : k < l => <<s[k], s[l]>> \in Order}

\* Mutant: the classes are counted from the other end of the list.
ClassFromEnd(list, n) == CHOOSE k \in DOMAIN list : list[Len(list) + 1 - k] = n

\* person_id: the position of the video, from 1 here and from 0 in the code.
ClassOf(list, n) == CHOOSE k \in DOMAIN list : list[k] = n

\* The frames in UPLOAD_DIR: none in a file whose bytes have not arrived.
FramesThere ==
  [name: {n \in Listed \cap DOMAIN uploads : uploads[n] # {}}, frame: 1..Length]

\* A run that raises or dies has extracted a part of them.
Extractions ==
  {extracted \in SUBSET FramesThere :
     \A f \in extracted : \A i \in 1..f.frame : [f EXCEPT !.frame = i] \in extracted}

At(f, split) == [split |-> split, name |-> f.name, frame |-> f.frame]

\* Each frame goes to a split drawn at random.  Without its directories the
\* image is not written, and the label file raises.  That file is rewritten
\* when the detector finds anything: with lines when it found a person, empty
\* (no class) otherwise; when it finds nothing an older file stays.
Extract(extracted, drawn, seen) ==
  LET put     == {At(f, drawn[f]) : f \in {g \in extracted : drawn[g] \in folders}}
      written == {At(f, drawn[f]) : f \in {g \in extracted : seen[g] # "nothing"}}
      persons == {At(f, drawn[f]) : f \in {g \in extracted : seen[g] = "person"}}
  IN  /\ \A p \in written : p.split \in folders
      /\ images' = images \cup put
      /\ labels' = [p \in (DOMAIN labels \ written) \cup persons |->
                      IF p \in persons THEN ClassOf(names', p.name) ELSE labels[p]]

\* It lists the videos, writes data.yaml and extracts; where it raises or dies
\* it may have opened data.yaml, which empties it, and labelled nothing of its
\* last frame.
process_videos ==
  \/ /\ names' \in Listings
     /\ \E extracted \in Extractions :
        \E drawn \in [extracted -> Splits],
           seen \in [extracted -> Sightings] :
          /\ Extract(extracted, drawn, seen)
          /\ processed' \in {FALSE, extracted = FramesThere}
  \/ /\ names' \in {names, <<>>}
     /\ processed' = FALSE
     /\ UNCHANGED <<images, labels>>

\* Mutant: UPLOAD_DIR is emptied whether or not the training succeeded.
ClearsAlways(completed) == TRUE

ClearsUploads(completed) == completed

\* It trains on the dataset process_videos left, which raises without any
\* directory, and when it gets that far empties UPLOAD_DIR.
train_model_logic ==
  \E completed \in BOOLEAN :
    /\ completed => processed' /\ folders # {}
    /\ trainedOn' = IF completed
         THEN trainedOn \cup {v \in Videos : \E n \in Listed \cap DOMAIN uploads : uploads[n] = {v}}
         ELSE trainedOn
    /\ \/ /\ ClearsUploads(completed)
          /\ uploads' = [n \in {} |-> {}]
          /\ linked' = {}
          /\ disturbed' = disturbed \cup Reading
       \/ ~ClearsUploads(completed) /\ UNCHANGED <<uploads, linked, disturbed>>

train_model ==
  /\ trainings < MaxTrainings
  /\ trainings' = trainings + 1
  /\ process_videos
  /\ train_model_logic
  /\ UNCHANGED <<status, folders>>
-----------------------------------------------------------------------------
Next ==
  \/ \E r \in Requests : Open(r) \/ UploadVideo(r) \/ TestModel(r) \/ Fail(r)
  \/ train_model \/ Restart

Spec == Init /\ [][Next]_trainingVars
-----------------------------------------------------------------------------
\* No answered video process_videos lists vanishes untrained: its bytes are
\* whole under its name, unless a completed training was made of them,
\* another request used the same name, or a training emptied UPLOAD_DIR while they were
\* being read.  One with another extension, or ".MOV", is deleted untrained.
VideoAccounted ==
  \A v \in Videos \cap Answered :
    NameOf[v] \in Listed /\ v \notin trainedOn \cup disturbed =>
      NameOf[v] \in DOMAIN uploads /\ uploads[NameOf[v]] = {v}

\* No frame is both trained on and validated against: only a training that is
\* repeated before the next upload completes puts one into two splits.
OneSplitPerFrame ==
  trainings <= 1 =>
    \A p, q \in images : p.name = q.name /\ p.frame = q.frame => p.split = q.split

\* Every label says the player whose video the frame is of, in the words of
\* the data.yaml beside it, while there is one and under the same condition.
LabelsNamePlayers ==
  trainings <= 1 /\ names # <<>> =>
    \A p \in DOMAIN labels : labels[p] \in DOMAIN names /\ names[labels[p]] = p.name
=============================================================================
