------------------------ MODULE TrainingServerProofs ------------------------
(***************************************************************************)
(* Proofs about TrainingServer, for every set of requests and file names,  *)
(* every order of listing, every detector and all bounds.                  *)
(***************************************************************************)
EXTENDS TrainingServer, FiniteSetTheorems, TLAPS

USE KindsAssumption, ListedAssumption, OrderAssumption, SightingsAssumption, TrainingBoundsAssumption
-----------------------------------------------------------------------------
(* The operators of a training.                                             *)

\* A listed video has a class, and the class names it.
LEMMA ClassOfListed ==
  ASSUME NEW list \in Listings, NEW n \in Listed \cap DOMAIN uploads
  PROVE  ClassOf(list, n) \in DOMAIN list /\ list[ClassOf(list, n)] = n
<1>1. \E k \in DOMAIN list : list[k] = n
  BY DEF Listings
<1> QED
  BY <1>1 DEF ClassOf

\* What an extraction leaves in the dataset.
LEMMA ExtractFacts ==
  ASSUME NEW list \in Listings, names' = list,
         NEW extracted \in Extractions,
         NEW drawn \in [extracted -> Splits], NEW seen \in [extracted -> Sightings],
         Extract(extracted, drawn, seen)
  PROVE  /\ \A p \in images' \ images :
              \E f \in extracted : p = At(f, drawn[f])
         /\ images \subseteq images'
         /\ \A p \in DOMAIN labels' :
              \/ p \in DOMAIN labels /\ labels'[p] = labels[p]
              \/ \E f \in extracted : p = At(f, drawn[f]) /\ p \in images'
                                      /\ labels'[p] = ClassOf(list, f.name)
<1> DEFINE put     == {At(f, drawn[f]) : f \in {g \in extracted : drawn[g] \in folders}}
           written == {At(f, drawn[f]) : f \in {g \in extracted : seen[g] # "nothing"}}
           persons == {At(f, drawn[f]) : f \in {g \in extracted : seen[g] = "person"}}
<1>1. /\ \A p \in written : p.split \in folders
      /\ images' = images \cup put
      /\ labels' = [p \in (DOMAIN labels \ written) \cup persons |->
                      IF p \in persons THEN ClassOf(names', p.name) ELSE labels[p]]
  BY DEF Extract
<1>2. \A p \in put : \E f \in extracted : p = At(f, drawn[f])
  OBVIOUS
<1>3. \A p \in persons : \E f \in extracted : p = At(f, drawn[f]) /\ p \in put /\ p.name = f.name
  BY <1>1 DEF At
<1> HIDE DEF put, written, persons
<1> QED
  BY <1>1, <1>2, <1>3

\* The frames extracted are frames of videos that are there.
LEMMA ExtractedFrames ==
  ASSUME NEW extracted \in Extractions, NEW f \in extracted, NEW split \in Splits
  PROVE  /\ f.name \in Listed \cap DOMAIN uploads
         /\ f = [name |-> f.name, frame |-> f.frame]
         /\ At(f, split) \in Path
<1>1. f \in FramesThere
  BY DEF Extractions
<1> QED
  BY <1>1 DEF FramesThere, At, Path

LEMMA ListingType == Listings \subseteq Seq(Listed)
<1> DEFINE there == Listed \cap DOMAIN uploads
           n == Cardinality(there)
<1>1. n \in Nat
  <2>1. there \subseteq VideoNames
    OBVIOUS
  <2> HIDE DEF there
  <2> QED
    BY <2>1, FS_Subset, FS_CardinalityType
<1> SUFFICES ASSUME NEW s \in Listings PROVE s \in Seq(Listed)
  OBVIOUS
<1>2. s \in [1..n -> there]
  BY DEF Listings
<1>3. there \subseteq Listed
  OBVIOUS
<1> HIDE DEF n, there
<1> QED
  BY <1>1, <1>2, <1>3

LEMMA EmptyFunctions ==
  /\ DOMAIN [p \in {} |-> 0] = {}
  /\ DOMAIN [n \in {} |-> {}] = {}
OBVIOUS

\* data.yaml may stay as it is or be emptied.
LEMMA KeptOrEmpty ==
  ASSUME names \in Seq(Listed), names' \in {names, <<>>}
  PROVE  names' \in Seq(Listed)
<1>1. CASE names' = names
  BY <1>1
<1>2. CASE names' = <<>>
  BY <1>2
<1> QED
  BY <1>1, <1>2

\* The types of the state.
LEMMA TypeInvariant == Spec => []TypeOK
<1>1. Init => TypeOK
  <2> SUFFICES ASSUME Init PROVE TypeOK
    OBVIOUS
  <2>1. PICK given \in SUBSET Videos :
          /\ status = [r \in Requests |-> IF r \in given THEN "answered" ELSE "new"]
          /\ uploads = [n \in {NameOf[v] : v \in given} |-> {v \in given : NameOf[v] = n}]
    BY DEF Init
  <2>2. given \subseteq Requests
    BY DEF Requests
  <2>3. status \in [Requests -> {"new", "reading", "answered", "failed"}]
    BY <2>1
  <2>4. /\ DOMAIN uploads \subseteq FileNames
        /\ \A n \in DOMAIN uploads : uploads[n] \subseteq {r \in Requests : NameOf[r] = n}
    BY <2>1, <2>2 DEF FileNames
  <2>5. linked = {} /\ images = {} /\ trainedOn = {} /\ disturbed = {} /\ DOMAIN labels = {}
    BY EmptyFunctions DEF Init
  <2>6. names \in Seq(Listed)
    BY DEF Init
  <2>7. trainings \in 0..MaxTrainings
    BY DEF Init
  <2>8. folders \subseteq Splits
    BY DEF Init
  <2>9. processed \in BOOLEAN
    BY Zenon DEF Init
  <2> QED
    BY <2>3, <2>4, <2>5, <2>6, <2>7, <2>8, <2>9 DEF TypeOK
<1>2. TypeOK /\ [Next]_trainingVars => TypeOK'
  <2> SUFFICES ASSUME TypeOK, [Next]_trainingVars PROVE TypeOK'
    OBVIOUS
  <2> USE DEF TypeOK
  <2>1. ASSUME NEW r \in Requests, Open(r) PROVE TypeOK'
    <3>1. /\ status' = [status EXCEPT ![r] = "reading"]
          /\ uploads' = [n \in DOMAIN uploads \cup {NameOf[r]} |->
                           IF n = NameOf[r] THEN {} ELSE uploads[n]]
          /\ linked' = linked \cup {r}
          /\ UNCHANGED <<folders, images, labels, names, trainings, processed, trainedOn>>
          /\ disturbed' = disturbed
               \cup {q \in SameFile(r) : status[q] # "new"}
               \cup {q \in {r} : SameFile(r) \cap Reading # {}}
      BY <2>1 DEF Open, datasetVars
    <3>2. NameOf[r] \in FileNames
      BY DEF FileNames
    <3>3. status' \in [Requests -> {"new", "reading", "answered", "failed"}]
      BY <3>1
    <3>4. /\ DOMAIN uploads' \subseteq FileNames
          /\ \A n \in DOMAIN uploads' : uploads'[n] \subseteq {q \in Requests : NameOf[q] = n}
      BY <3>1, <3>2
    <3>5. linked' \subseteq Reading' /\ \A q \in linked' : NameOf[q] \in DOMAIN uploads'
      BY <3>1 DEF Reading
    <3>6. disturbed' \subseteq Requests
      BY <3>1 DEF SameFile
    <3> QED
      BY <3>1, <3>3, <3>4, <3>5, <3>6
  <2>2. ASSUME NEW r \in Requests, status[r] = "reading", WriteBytes(r),
               status' \in {[status EXCEPT ![r] = "answered"], [status EXCEPT ![r] = "failed"]}
        PROVE  /\ status' \in [Requests -> {"new", "reading", "answered", "failed"}]
               /\ DOMAIN uploads' \subseteq FileNames
               /\ \A n \in DOMAIN uploads' : uploads'[n] \subseteq {q \in Requests : NameOf[q] = n}
               /\ linked' \subseteq Reading'
               /\ \A q \in linked' : NameOf[q] \in DOMAIN uploads'
    <3>1. linked' = linked \ {r}
      BY <2>2 DEF WriteBytes
    <3>2. linked' \subseteq Reading'
      BY <2>2, <3>1 DEF Reading
    <3>3. CASE UNCHANGED uploads
      BY <2>2, <3>1, <3>2, <3>3
    <3>4. ASSUME NEW rest \in SUBSET uploads[NameOf[r]],
                 uploads' = [uploads EXCEPT ![NameOf[r]] = {r} \cup rest], r \in linked
          PROVE  /\ DOMAIN uploads' = DOMAIN uploads
                 /\ \A n \in DOMAIN uploads' : uploads'[n] \subseteq {q \in Requests : NameOf[q] = n}
      BY <3>4
    <3> QED
      BY <2>2, <3>1, <3>2, <3>3, <3>4 DEF WriteBytes
  <2>3. ASSUME NEW r \in Requests, UploadVideo(r) PROVE TypeOK'
    <3>1. /\ status[r] = "reading" /\ WriteBytes(r)
          /\ status' = [status EXCEPT ![r] = "answered"]
          /\ UNCHANGED <<trainedOn, disturbed>>
      BY <2>3 DEF UploadVideo
    <3>2. /\ folders' = Splits /\ processed' = FALSE /\ images' = {} /\ trainings' = 0
          /\ DOMAIN labels' = {} /\ names' = <<>>
      BY <2>3, EmptyFunctions DEF UploadVideo, reset_dataset_dir
    <3>3. names' \in Seq(Listed) /\ trainings' \in 0..MaxTrainings
      BY <3>2
    <3> QED
      BY <2>2, <3>1, <3>2, <3>3
  <2>4. ASSUME NEW r \in Requests, TestModel(r) PROVE TypeOK'
    <3>1. /\ status[r] = "reading" /\ WriteBytes(r)
          /\ status' \in {[status EXCEPT ![r] = "answered"], [status EXCEPT ![r] = "failed"]}
          /\ UNCHANGED <<folders, images, labels, names, trainings, processed, trainedOn, disturbed>>
      BY <2>4 DEF TestModel, test_model_logic, datasetVars, historyVars
    <3> QED
      BY <2>2, <3>1
  <2>5. ASSUME NEW r \in Requests, Fail(r) PROVE TypeOK'
    <3>1. /\ status[r] = "reading"
          /\ status' \in {[status EXCEPT ![r] = "answered"], [status EXCEPT ![r] = "failed"]}
          /\ UNCHANGED <<trainings, processed, trainedOn, disturbed>>
      BY <2>5 DEF Fail, historyVars
    <3>2. CASE linked' = linked \ {r} /\ UNCHANGED <<uploads, datasetVars>>
      BY <3>1, <3>2 DEF datasetVars, Reading
    <3>3. CASE WriteBytes(r) /\ UNCHANGED datasetVars
      BY <2>2, <3>1, <3>3 DEF datasetVars
    <3>4. CASE WriteBytes(r) /\ PartOfReset
      <4>1. folders' \subseteq Splits /\ images' \subseteq Path
        BY <3>4 DEF PartOfReset
      <4>3. names' \in {names, <<>>}
        BY <3>4 DEF PartOfReset
      <4>4. names' \in Seq(Listed)
        BY <4>3, KeptOrEmpty
      <4>2. DOMAIN labels' \subseteq images' /\ \A p \in DOMAIN labels' : labels'[p] \in Nat
        BY <3>4, EmptyFunctions DEF PartOfReset
      <4> QED
        BY <2>2, <3>1, <3>4, <4>1, <4>2, <4>4
    <3> QED
      BY <2>5, <3>2, <3>3, <3>4 DEF Fail
  <2>6. CASE Restart
    BY <2>6 DEF Restart, datasetVars, historyVars, Reading
  <2>7. CASE train_model
    <3>1. /\ trainings < MaxTrainings /\ trainings' = trainings + 1
          /\ names' \in Listings \cup {names, <<>>} /\ UNCHANGED <<status, folders>>
      BY <2>7 DEF train_model, process_videos
    <3>2. names' \in Seq(Listed) /\ trainings' \in 0..MaxTrainings
      <4>1. CASE names' \in Listings
        BY <3>1, <4>1, ListingType
      <4>2. CASE names' \in {names, <<>>}
        BY <3>1, <4>2, KeptOrEmpty
      <4> QED
        BY <3>1, <4>1, <4>2
    <3>3. processed' \in BOOLEAN
      BY <2>7 DEF train_model, process_videos
    <3>4. /\ images' \subseteq Path /\ DOMAIN labels' \subseteq images'
          /\ \A p \in DOMAIN labels' : labels'[p] \in Nat
      <4>1. CASE UNCHANGED <<images, labels>>
        BY <4>1
      <4>2. ASSUME NEW extracted \in Extractions, NEW drawn \in [extracted -> Splits],
                   NEW seen \in [extracted -> Sightings], Extract(extracted, drawn, seen),
                   names' \in Listings
            PROVE  /\ images' \subseteq Path /\ DOMAIN labels' \subseteq images'
                   /\ \A p \in DOMAIN labels' : labels'[p] \in Nat
        <5> DEFINE list == names'
        <5>1. \A f \in extracted :
                /\ f.name \in Listed \cap DOMAIN uploads
                /\ At(f, drawn[f]) \in Path
          BY ExtractedFrames
        <5>2. /\ \A p \in images' \ images : \E f \in extracted : p = At(f, drawn[f])
              /\ images \subseteq images'
              /\ \A p \in DOMAIN labels' :
                   \/ p \in DOMAIN labels /\ labels'[p] = labels[p]
                   \/ \E f \in extracted : p = At(f, drawn[f]) /\ p \in images'
                                           /\ labels'[p] = ClassOf(list, f.name)
          BY <4>2, ExtractFacts
        <5> HIDE DEF list
        <5>3. \A f \in extracted : ClassOf(list, f.name) \in Nat
          <6>1. ASSUME NEW f \in extracted PROVE ClassOf(list, f.name) \in DOMAIN list
            BY <4>2, <5>1, ClassOfListed DEF list
          <6>2. DOMAIN list \subseteq Nat
            BY <3>2 DEF list
          <6> QED
            BY <6>1, <6>2
        <5> QED
          BY <5>1, <5>2, <5>3
      <4> QED
        BY <2>7, <4>1, <4>2 DEF train_model, process_videos
    <3>5. /\ DOMAIN uploads' \subseteq FileNames
          /\ \A n \in DOMAIN uploads' : uploads'[n] \subseteq {r \in Requests : NameOf[r] = n}
          /\ linked' \subseteq Reading'
          /\ \A r \in linked' : NameOf[r] \in DOMAIN uploads'
          /\ trainedOn' \subseteq Videos /\ disturbed' \subseteq Requests
      BY <2>7, EmptyFunctions DEF train_model, train_model_logic, Reading
    <3> QED
      BY <3>1, <3>2, <3>3, <3>4, <3>5
  <2>8. CASE UNCHANGED trainingVars
    BY <2>8 DEF trainingVars, datasetVars, historyVars, Reading
  <2> QED
    BY <2>1, <2>3, <2>4, <2>5, <2>6, <2>7, <2>8 DEF Next
<1> QED
  BY <1>1, <1>2, PTL DEF Spec

\* Every state has the types of TypeOK.
THEOREM TypeCorrect == Spec => []TypeOK
BY TypeInvariant
-----------------------------------------------------------------------------
(* The dataset.                                                             *)

\* A completed upload leaves nothing of the videos before it.
DatasetInv ==
  /\ trainings = 0 => images = {} /\ DOMAIN labels = {}
  /\ OneSplitPerFrame
  /\ LabelsNamePlayers

\* The first training after an upload writes all that is in the dataset.
LEMMA FirstTraining ==
  ASSUME TypeOK, DatasetInv, train_model
  PROVE  DatasetInv'
<1>1. trainings \in Nat /\ trainings' = trainings + 1
  BY DEF TypeOK, train_model, process_videos
<1>2. ~(trainings' = 0)
  BY <1>1
<1>3. SUFFICES ASSUME trainings' <= 1
               PROVE  /\ \A p, q \in images' :
                           p.name = q.name /\ p.frame = q.frame => p.split = q.split
                      /\ \A p \in DOMAIN labels' :
                           labels'[p] \in DOMAIN names' /\ names'[labels'[p]] = p.name
  BY <1>2 DEF DatasetInv, OneSplitPerFrame, LabelsNamePlayers
<1>4. images = {} /\ DOMAIN labels = {}
  BY <1>1, <1>3 DEF DatasetInv
<1>5. CASE UNCHANGED <<images, labels>>
  BY <1>4, <1>5
<1>6. ASSUME NEW extracted \in Extractions, NEW drawn \in [extracted -> Splits],
             NEW seen \in [extracted -> Sightings], Extract(extracted, drawn, seen),
             names' \in Listings
      PROVE  /\ \A p, q \in images' :
                  p.name = q.name /\ p.frame = q.frame => p.split = q.split
             /\ \A p \in DOMAIN labels' :
                  labels'[p] \in DOMAIN names' /\ names'[labels'[p]] = p.name
  <2> DEFINE list == names'
  <2>1. /\ \A p \in images' : \E f \in extracted : p = At(f, drawn[f])
        /\ \A p \in DOMAIN labels' :
             \E f \in extracted : p = At(f, drawn[f]) /\ labels'[p] = ClassOf(list, f.name)
    BY <1>4, <1>6, ExtractFacts
  <2>2. \A f \in extracted :
          /\ f.name \in Listed \cap DOMAIN uploads
          /\ f = [name |-> f.name, frame |-> f.frame]
    BY ExtractedFrames
  <2>3. \A f \in extracted :
          ClassOf(list, f.name) \in DOMAIN list /\ list[ClassOf(list, f.name)] = f.name
    BY <1>6, <2>2, ClassOfListed
  <2> HIDE DEF list
  <2>4. \A p, q \in images' :
          p.name = q.name /\ p.frame = q.frame => p.split = q.split
    BY <2>1, <2>2 DEF At
  <2>5. \A p \in DOMAIN labels' : labels'[p] \in DOMAIN list /\ list[labels'[p]] = p.name
    BY <2>1, <2>3 DEF At
  <2> QED
    BY <2>4, <2>5 DEF list
<1> QED
  BY <1>5, <1>6 DEF train_model, process_videos

LEMMA DatasetInvariant == Spec => []DatasetInv
<1>1. Init => DatasetInv
  BY EmptyFunctions DEF Init, DatasetInv, OneSplitPerFrame, LabelsNamePlayers
<1>2. TypeOK /\ DatasetInv /\ [Next]_trainingVars => DatasetInv'
  <2> SUFFICES ASSUME TypeOK, DatasetInv, [Next]_trainingVars PROVE DatasetInv'
    OBVIOUS
  <2>1. ASSUME UNCHANGED <<images, labels, names, trainings>> PROVE DatasetInv'
    BY <2>1 DEF DatasetInv, OneSplitPerFrame, LabelsNamePlayers
  <2>2. ASSUME NEW r \in Requests, Open(r) PROVE DatasetInv'
    BY <2>1, <2>2 DEF Open, datasetVars
  <2>3. ASSUME NEW r \in Requests, UploadVideo(r) PROVE DatasetInv'
    BY <2>3, EmptyFunctions
       DEF UploadVideo, reset_dataset_dir, DatasetInv, OneSplitPerFrame, LabelsNamePlayers
  <2>4. ASSUME NEW r \in Requests, TestModel(r) PROVE DatasetInv'
    BY <2>1, <2>4 DEF TestModel, test_model_logic, datasetVars, historyVars
  <2>5. ASSUME NEW r \in Requests, Fail(r) PROVE DatasetInv'
    <3>1. trainings' = trainings
      BY <2>5 DEF Fail, historyVars
    <3>2. CASE UNCHANGED datasetVars
      BY <2>1, <3>1, <3>2 DEF datasetVars
    <3>3. CASE PartOfReset
      <4>1. /\ images' \subseteq images /\ DOMAIN labels' \subseteq DOMAIN labels
            /\ \A p \in DOMAIN labels' : labels'[p] = labels[p]
            /\ names' # <<>> => names' = names
        BY <3>3, EmptyFunctions DEF PartOfReset
      <4> QED
        BY <3>1, <4>1 DEF DatasetInv, OneSplitPerFrame, LabelsNamePlayers
    <3> QED
      BY <2>5, <3>2, <3>3 DEF Fail
  <2>6. CASE Restart
    BY <2>1, <2>6 DEF Restart, datasetVars, historyVars
  <2>7. CASE train_model
    BY <2>7, FirstTraining
  <2>8. CASE UNCHANGED trainingVars
    BY <2>1, <2>8 DEF trainingVars, datasetVars, historyVars
  <2> QED
    BY <2>2, <2>3, <2>4, <2>5, <2>6, <2>7, <2>8 DEF Next
<1> QED
  BY <1>1, <1>2, TypeInvariant, PTL DEF Spec

\* No frame is in two splits of a dataset trained on once since the upload
\* that emptied it, whatever extraction the training got through.
THEOREM Separation == Spec => []OneSplitPerFrame
<1>1. DatasetInv => OneSplitPerFrame
  BY DEF DatasetInv
<1> QED
  BY <1>1, DatasetInvariant, PTL

\* The labels of such a dataset name the players their frames are of.
THEOREM Labelling == Spec => []LabelsNamePlayers
<1>1. DatasetInv => LabelsNamePlayers
  BY DEF DatasetInv
<1> QED
  BY <1>1, DatasetInvariant, PTL
-----------------------------------------------------------------------------
(* The videos on disk.                                                      *)

\* A request nobody disturbed is the only one at its file: what it reads goes
\* into an empty file that still has its name.
DiskInv ==
  /\ \A r \in Requests \ disturbed :
       status[r] \in {"reading", "answered"} =>
         \A q \in Requests \ {r} : NameOf[q] = NameOf[r] => status[q] # "reading"
  /\ \A r \in Requests \ disturbed :
       status[r] = "reading" => r \in linked /\ uploads[NameOf[r]] = {}
  /\ \A v \in Videos \ (trainedOn \cup disturbed) :
       status[v] = "answered" /\ NameOf[v] \in Listed =>
         NameOf[v] \in DOMAIN uploads /\ uploads[NameOf[v]] = {v}

LEMMA BytesArrive ==
  ASSUME TypeOK, DiskInv, NEW r \in Requests, status[r] = "reading", WriteBytes(r),
         status' \in {[status EXCEPT ![r] = "answered"], [status EXCEPT ![r] = "failed"]},
         UNCHANGED <<trainedOn, disturbed>>
  PROVE  DiskInv'
<1>1. /\ status'[r] # "reading" /\ linked' = linked \ {r}
      /\ \A q \in Requests \ {r} : status'[q] = status[q]
  BY DEF WriteBytes, TypeOK
<1>2. \A q \in Requests \ disturbed :
        status'[q] \in {"reading", "answered"} =>
          \A p \in Requests \ {q} : NameOf[p] = NameOf[q] => status'[p] # "reading"
  BY <1>1 DEF DiskInv
<1>3. \A q \in Requests \ disturbed : status'[q] = "reading" =>
        q # r /\ NameOf[q] # NameOf[r]
  BY <1>1 DEF DiskInv
<1>4. \A v \in Requests \ disturbed : v # r /\ status'[v] = "answered" =>
        NameOf[v] # NameOf[r]
  BY <1>1 DEF DiskInv
<1>5. ASSUME NEW n \in DOMAIN uploads, n # NameOf[r]
      PROVE  n \in DOMAIN uploads' /\ uploads'[n] = uploads[n]
  BY <1>5 DEF WriteBytes
<1>6. \A q \in linked : NameOf[q] \in DOMAIN uploads
  BY DEF TypeOK
<1>7. \A q \in Requests \ disturbed :
        status'[q] = "reading" => q \in linked' /\ uploads'[NameOf[q]] = {}
  BY <1>1, <1>3, <1>5, <1>6 DEF DiskInv
<1>8. r \notin disturbed => NameOf[r] \in DOMAIN uploads' /\ uploads'[NameOf[r]] = {r}
  <2> SUFFICES ASSUME r \notin disturbed
               PROVE  NameOf[r] \in DOMAIN uploads' /\ uploads'[NameOf[r]] = {r}
    OBVIOUS
  <2>1. r \in linked /\ uploads[NameOf[r]] = {} /\ NameOf[r] \in DOMAIN uploads
    BY <1>6 DEF DiskInv
  <2>2. PICK rest \in SUBSET uploads[NameOf[r]] :
          uploads' = [uploads EXCEPT ![NameOf[r]] = {r} \cup rest]
    BY <2>1 DEF WriteBytes
  <2>3. rest = {}
    BY <2>1
  <2> QED
    BY <2>1, <2>2, <2>3
<1>9. \A v \in Videos \ (trainedOn \cup disturbed) :
        status'[v] = "answered" /\ NameOf[v] \in Listed =>
          NameOf[v] \in DOMAIN uploads' /\ uploads'[NameOf[v]] = {v}
  <2> SUFFICES ASSUME NEW v \in Videos \ (trainedOn \cup disturbed),
                      status'[v] = "answered", NameOf[v] \in Listed
               PROVE  NameOf[v] \in DOMAIN uploads' /\ uploads'[NameOf[v]] = {v}
    OBVIOUS
  <2>1. v \in Requests
    BY DEF Requests
  <2>2. CASE v = r
    BY <1>8, <2>2
  <2>3. CASE v # r
    BY <1>1, <1>4, <1>5, <2>1, <2>3 DEF DiskInv
  <2> QED
    BY <2>2, <2>3
<1> QED
  BY <1>2, <1>7, <1>9 DEF DiskInv

LEMMA DiskInvariant == Spec => []DiskInv
<1>1. Init => DiskInv
  <2> SUFFICES ASSUME Init PROVE DiskInv
    OBVIOUS
  <2>1. PICK given \in SUBSET Videos :
          /\ \A v, w \in given : NameOf[v] = NameOf[w] => v = w
          /\ status = [r \in Requests |-> IF r \in given THEN "answered" ELSE "new"]
          /\ uploads = [n \in {NameOf[v] : v \in given} |-> {v \in given : NameOf[v] = n}]
    BY DEF Init
  <2>2. \A r \in Requests : status[r] # "reading" /\ (status[r] = "answered" => r \in given)
    BY <2>1
  <2>3. ASSUME NEW v \in given
        PROVE  NameOf[v] \in DOMAIN uploads /\ uploads[NameOf[v]] = {v}
    BY <2>1
  <2> QED
    BY <2>2, <2>3 DEF DiskInv, Requests
<1>2. TypeOK /\ DiskInv /\ [Next]_trainingVars => DiskInv'
  <2> SUFFICES ASSUME TypeOK, DiskInv, [Next]_trainingVars PROVE DiskInv'
    OBVIOUS
  <2>1. ASSUME UNCHANGED <<status, uploads, linked, trainedOn, disturbed>> PROVE DiskInv'
    BY <2>1 DEF DiskInv
  <2>2. ASSUME NEW r \in Requests, Open(r) PROVE DiskInv'
    <3>1. /\ status[r] = "new" /\ status' = [status EXCEPT ![r] = "reading"]
          /\ uploads' = [n \in DOMAIN uploads \cup {NameOf[r]} |->
                           IF n = NameOf[r] THEN {} ELSE uploads[n]]
          /\ linked' = linked \cup {r} /\ trainedOn' = trainedOn
          /\ disturbed \subseteq disturbed'
          /\ \A q \in Requests \ {r} :
               NameOf[q] = NameOf[r] /\ status[q] # "new" => q \in disturbed'
          /\ \A q \in Requests \ {r} :
               NameOf[q] = NameOf[r] /\ status[q] = "reading" => r \in disturbed'
      BY <2>2 DEF Open, SameFile, Reading
    <3>2. /\ status'[r] = "reading" /\ \A q \in Requests \ {r} : status'[q] = status[q]
      BY <3>1 DEF TypeOK
    <3>3. \A q \in Requests \ disturbed' :
            q # r /\ status'[q] \in {"reading", "answered"} => NameOf[q] # NameOf[r]
      BY <3>1, <3>2
    <3>4. \A q \in Requests \ disturbed' :
            status'[q] \in {"reading", "answered"} =>
              \A p \in Requests \ {q} : NameOf[p] = NameOf[q] => status'[p] # "reading"
      BY <3>1, <3>2, <3>3 DEF DiskInv
    <3>5. \A q \in linked : NameOf[q] \in DOMAIN uploads
      BY DEF TypeOK
    <3>6. \A q \in Requests \ disturbed' :
            status'[q] = "reading" => q \in linked' /\ uploads'[NameOf[q]] = {}
      BY <3>1, <3>2, <3>3, <3>5 DEF DiskInv
    <3>7. \A v \in Videos \ (trainedOn' \cup disturbed') :
            status'[v] = "answered" /\ NameOf[v] \in Listed =>
              NameOf[v] \in DOMAIN uploads' /\ uploads'[NameOf[v]] = {v}
      BY <3>1, <3>2, <3>3 DEF DiskInv, Requests
    <3> QED
      BY <3>4, <3>6, <3>7 DEF DiskInv
  <2>3. ASSUME NEW r \in Requests, UploadVideo(r) PROVE DiskInv'
    BY <2>3, BytesArrive DEF UploadVideo
  <2>4. ASSUME NEW r \in Requests, TestModel(r) PROVE DiskInv'
    BY <2>4, BytesArrive DEF TestModel, test_model_logic, historyVars
  <2>5. ASSUME NEW r \in Requests, Fail(r) PROVE DiskInv'
    <3>1. /\ status[r] = "reading" /\ status' = [status EXCEPT ![r] = "failed"]
          /\ UNCHANGED <<trainedOn, disturbed>>
      BY <2>5 DEF Fail, historyVars
    <3>2. CASE WriteBytes(r)
      BY <3>1, <3>2, BytesArrive
    <3>3. CASE linked' = linked \ {r} /\ UNCHANGED uploads
      BY <3>1, <3>3 DEF DiskInv, TypeOK, Requests
    <3> QED
      BY <2>5, <3>2, <3>3 DEF Fail
  <2>6. CASE Restart
    <3>1. /\ \A q \in Requests : /\ status'[q] # "reading"
                                 /\ status'[q] = "answered" => status[q] = "answered"
          /\ UNCHANGED <<uploads, trainedOn, disturbed>>
      BY <2>6 DEF Restart, historyVars, Reading
    <3> QED
      BY <3>1 DEF DiskInv, Requests
  <2>7. CASE train_model
    <3>1. CASE UNCHANGED <<uploads, linked, disturbed, trainedOn>>
      BY <2>1, <2>7, <3>1 DEF train_model, train_model_logic
    <3>2. ASSUME trainedOn' = trainedOn \cup
                   {v \in Videos : \E n \in Listed \cap DOMAIN uploads : uploads[n] = {v}},
                 disturbed' = disturbed \cup Reading
          PROVE  DiskInv'
      <4>1. status' = status
        BY <2>7 DEF train_model
      <4>2. \A q \in Requests \ disturbed' : q \notin disturbed /\ status[q] # "reading"
        BY <3>2 DEF Reading
      <4>3. \A v \in Videos \ (trainedOn' \cup disturbed') :
              ~(status[v] = "answered" /\ NameOf[v] \in Listed)
        BY <3>2 DEF DiskInv
      <4>4. \A q \in Requests \ disturbed' :
              status[q] = "answered" =>
                \A p \in Requests \ {q} : NameOf[p] = NameOf[q] => status[p] # "reading"
        BY <4>2 DEF DiskInv
      <4> QED
        BY <4>1, <4>2, <4>3, <4>4 DEF DiskInv
    <3> QED
      BY <2>7, <3>1, <3>2 DEF train_model, train_model_logic, ClearsUploads
  <2>8. CASE UNCHANGED trainingVars
    BY <2>1, <2>8 DEF trainingVars, historyVars
  <2> QED
    BY <2>2, <2>3, <2>4, <2>5, <2>6, <2>7, <2>8 DEF Next
<1> QED
  BY <1>1, <1>2, TypeInvariant, PTL DEF Spec

\* An answered video stays whole until a completed training was fed it, for
\* every number of uploads, trainings, failures and restarts.
THEOREM Accounting == Spec => []VideoAccounted
<1>1. DiskInv => VideoAccounted
  BY DEF DiskInv, VideoAccounted, Answered, Requests
<1> QED
  BY <1>1, DiskInvariant, PTL
=============================================================================
