-------------------------- MODULE EnrolmentProofs --------------------------
(***************************************************************************)
(* Proofs about the enrolment, for every set of names and all bounds: the  *)
(* phone (StartGame), what a training at the server is fed (Enrolment),    *)
(* and both together.                                                      *)
(***************************************************************************)
EXTENDS StartGame, Enrolment, FiniteSetTheorems, TLAPS

USE RequestBoundsAssumption, PlayersAssumption, TrainAssumption, ServerAssumption,
    ResidentsAssumption
-----------------------------------------------------------------------------
(* The operators of the model.                                              *)

LEMMA CameraResults ==
  /\ Idle \in Session
  /\ \A s \in Session : CameraSetup(s) \subseteq Session /\ SwitchResults(s) \subseteq Session
<1>1. Idle \in Session
  BY DEF Idle, Session, Inputs
<1>2. ASSUME NEW s \in Session PROVE CameraSetup(s) \subseteq Session
  <2>1. s.input \in Inputs
    BY DEF Session
  <2>2. \A i \in Inputs : [input |-> i, running |-> TRUE] \in Session
    BY Zenon DEF Session
  <2> QED
    BY <2>1, <2>2 DEF CameraSetup, Inputs
<1>3. ASSUME NEW s \in Session PROVE SwitchResults(s) \subseteq Session
  <2>1. Opposite(s.input) \in Inputs /\ "none" \in Inputs
    BY DEF Opposite, Inputs
  <2>2. [s EXCEPT !.input = "none"] \in Session
    BY <2>1 DEF Session
  <2>3. [s EXCEPT !.input = Opposite(s.input)] \in Session
    BY <2>1 DEF Session
  <2> QED
    BY <2>2, <2>3 DEF SwitchResults
<1> QED
  BY <1>1, <1>2, <1>3

\* Entering a name changes one name, or adds one: it never removes any.
LEMMA EnteredFacts ==
  ASSUME NEW team \in Seq(Names), Len(team) <= MaxPlayers,
         NEW field \in 1..MaxPlayers, NEW name \in Names
  PROVE  /\ Entered(team, field, name) \in Seq(Names)
         /\ Len(Entered(team, field, name)) <= MaxPlayers
<1>1. CASE Len(team) < field
  BY <1>1 DEF Entered
<1>2. CASE ~(Len(team) < field)
  <2>1. Entered(team, field, name) = [team EXCEPT ![field] = name]
    BY <1>2 DEF Entered
  <2>2. field \in 1..Len(team)
    BY <1>2
  <2> QED
    BY <2>1, <2>2
<1> QED
  BY <1>1, <1>2

LEMMA PlayersType ==
  ASSUME TypeOK
  PROVE  /\ players \in Seq(Names)
         /\ Len(players) = Len(teamA) + Len(teamB)
         /\ Len(players) \in 0..(2 * MaxPlayers)
         /\ Len(players) = 0 <=> players = <<>>
         /\ \A i \in 1..Len(players) :
              players[i] = IF i <= Len(teamA) THEN teamA[i] ELSE teamB[i - Len(teamA)]
<1>1. teamA \in Seq(Names) /\ teamB \in Seq(Names)
      /\ Len(teamA) <= MaxPlayers /\ Len(teamB) <= MaxPlayers
  BY DEF TypeOK
<1>2. players \in Seq(Names) /\ Len(players) = Len(teamA) + Len(teamB)
  BY <1>1 DEF players
<1>3. \A i \in 1..Len(players) :
        players[i] = IF i <= Len(teamA) THEN teamA[i] ELSE teamB[i - Len(teamA)]
  BY <1>1 DEF players
<1>4. Len(players) = 0 <=> players = <<>>
  BY <1>2
<1>5. Len(players) \in 0..(2 * MaxPlayers)
  BY <1>1, <1>2
<1> QED
  BY <1>2, <1>3, <1>4, <1>5

\* What pressing "Upload Video" sends.
LEMMA UploadType ==
  ASSUME TypeOK, Shown, NEW video \in {videoURL, NoVideo}
  PROVE  [player |-> currentPlayer, team |-> TeamOf(currentPlayer), video |-> video] \in Upload
<1>1. currentPlayer \in Names
  BY PlayersType DEF Shown, currentPlayer, TypeOK
<1>2. TeamOf(currentPlayer) \in {"A", "B"}
  BY DEF TeamOf
<1>3. video \in 0..MaxRecordings
  BY DEF TypeOK, NoVideo
<1> QED
  BY <1>1, <1>2, <1>3 DEF Upload
-----------------------------------------------------------------------------
\* The types of the state.
LEMMA TypeInvariant == Spec => []TypeOK
<1>1. Init => TypeOK
  <2> SUFFICES ASSUME Init PROVE TypeOK
    OBVIOUS
  <2>1. /\ step \in 0..2 /\ index \in 0..(2 * MaxPlayers)
        /\ started \in 0..MaxRecordings /\ videoURL \in 0..started /\ since \in 0..started
    BY DEF Init, NoVideo
  <2>2. /\ teamA \in Seq(Names) /\ Len(teamA) <= MaxPlayers
        /\ teamB \in Seq(Names) /\ Len(teamB) <= MaxPlayers
    BY DEF Init
  <2>3. filming \in Seq(1..started) /\ sent \in Seq(Upload \cup {Train})
    BY DEF Init
  <2>4. isRecording \in BOOLEAN /\ rolling \in BOOLEAN /\ isGameActive \in BOOLEAN
    BY Zenon DEF Init
  <2>5. camera \in Session
    BY CameraResults DEF Init
  <2>6. offered \subseteq 0..(2 * MaxPlayers) /\ good \subseteq 1..started
    BY DEF Init
  <2> QED
    BY <2>1, <2>2, <2>3, <2>4, <2>5, <2>6 DEF TypeOK
<1>2. TypeOK /\ [Next]_gameVars => TypeOK'
  <2> SUFFICES ASSUME TypeOK, [Next]_gameVars PROVE TypeOK'
    OBVIOUS
  <2> USE DEF TypeOK
  <2>1. ASSUME NEW field \in 1..MaxPlayers, NEW name \in Names, EnterName(field, name)
        PROVE  TypeOK'
    <3>1. /\ UNCHANGED <<step, index, offered, since, camera, isRecording, rolling, started,
                         filming, videoURL, good, isGameActive, sent>>
          /\ \/ teamA' = Entered(teamA, field, name) /\ UNCHANGED teamB
             \/ teamB' = Entered(teamB, field, name) /\ UNCHANGED teamA
      BY <2>1 DEF EnterName, cameraVars
    <3>2. /\ teamA' \in Seq(Names) /\ Len(teamA') <= MaxPlayers
          /\ teamB' \in Seq(Names) /\ Len(teamB') <= MaxPlayers
      BY <3>1, EnteredFacts
    <3> QED
      BY <3>1, <3>2
  <2>2. CASE ConfirmPlayers
    <3>1. camera' \in Session
      BY <2>2, CameraResults DEF ConfirmPlayers
    <3> QED
      BY <2>2, <3>1 DEF ConfirmPlayers, FirstPlayer, cameraVars
  <2>3. CASE GoBack
    <3>1. camera' \in Session
      BY <2>3, CameraResults DEF GoBack
    <3>2. step' \in 0..2
      BY <2>3 DEF GoBack
    <3> QED
      BY <2>3, <3>1, <3>2 DEF GoBack, cameraVars
  <2>4. CASE SwitchCamera
    <3>1. camera' \in Session
      BY <2>4, CameraResults DEF SwitchCamera
    <3> QED
      BY <2>4, <3>1 DEF SwitchCamera, cameraVars, wizardVars
  <2>5. CASE StartRecording
    <3>1. /\ started' = started + 1 /\ started < MaxRecordings
          /\ filming' = Append(filming, started + 1)
          /\ isRecording' = TRUE /\ rolling' = TRUE
          /\ UNCHANGED <<step, index, teamA, teamB, offered, since, camera, videoURL, good,
                         isGameActive, sent>>
      BY <2>5 DEF StartRecording, wizardVars
    <3>2. started' \in 0..MaxRecordings /\ 0..started \subseteq 0..started'
      BY <3>1
    <3>3. filming' \in Seq(1..started')
      <4>1. filming \in Seq(1..started')
        BY <3>1
      <4> QED
        BY <3>1, <4>1
    <3>4. videoURL' \in 0..started' /\ since' \in 0..started' /\ good' \subseteq 1..started'
      BY <3>1, <3>2
    <3> QED
      BY <3>1, <3>2, <3>3, <3>4
  <2>6. CASE StopRecording
    BY <2>6 DEF StopRecording, StopOutput, wizardVars
  <2>7. CASE FileOutput
    <3>1. /\ filming # <<>> /\ filming' = Tail(filming)
          /\ \/ videoURL' = Head(filming) /\ good' = good \cup {Head(filming)}
             \/ UNCHANGED <<videoURL, good>>
          /\ UNCHANGED <<step, index, teamA, teamB, offered, since, camera, isRecording, started,
                         isGameActive, sent>>
      BY <2>7 DEF FileOutput, NextReport, Stored, wizardVars
    <3>2. Head(filming) \in 1..started /\ filming' \in Seq(1..started)
      BY <3>1
    <3>3. videoURL' \in 0..started /\ good' \subseteq 1..started
      <4> DEFINE h == Head(filming)
      <4>1. \/ videoURL' = h /\ good' = good \cup {h}
            \/ UNCHANGED <<videoURL, good>>
        BY <3>1
      <4>2. h \in 1..started
        BY <3>2
      <4> HIDE DEF h
      <4>3. h \in 0..started
        BY <4>2
      <4> QED
        BY <4>1, <4>2, <4>3
    <3>4. rolling' \in BOOLEAN
      BY <2>7, Zenon DEF FileOutput
    <3> QED
      BY <3>1, <3>2, <3>3, <3>4
  <2>8. CASE UploadVideo
    <3>1. /\ Shown
          /\ UNCHANGED <<teamA, teamB, camera, isRecording, rolling, started, filming, videoURL,
                         good, isGameActive>>
          /\ offered' = offered \cup {index}
      BY <2>8 DEF UploadVideo, SendVideo, cameraVars
    <3>2. sent' \in Seq(Upload \cup {Train})
      <4>1. ASSUME NEW video \in {videoURL, NoVideo},
                   sent' = Append(sent, [player |-> currentPlayer,
                                         team |-> TeamOf(currentPlayer), video |-> video])
            PROVE  sent' \in Seq(Upload \cup {Train})
        <5> DEFINE upload == [player |-> currentPlayer,
                              team |-> TeamOf(currentPlayer), video |-> video]
        <5>1. upload \in Upload
          BY <3>1, UploadType
        <5> HIDE DEF upload
        <5>2. Append(sent, upload) \in Seq(Upload \cup {Train})
          BY <5>1
        <5> QED
          BY <4>1, <5>2 DEF upload
      <4> QED
        BY <2>8, <4>1 DEF UploadVideo, SendVideo
    <3>3. /\ step' \in 0..2 /\ index' \in 0..(2 * MaxPlayers) /\ since' \in 0..started
      <4>1. CASE index < Len(players) - 1 /\ index' = index + 1 /\ since' = started /\ step' = step
        BY <4>1, PlayersType
      <4>2. CASE step' = 2 /\ UNCHANGED <<index, since>>
        BY <4>2
      <4> QED
        BY <2>8, <4>1, <4>2 DEF UploadVideo, SendVideo
    <3> QED
      BY <3>1, <3>2, <3>3
  <2>9. CASE TrainModel
    BY <2>9 DEF TrainModel, wizardVars, cameraVars
  <2>10. CASE FinishInitialization
    BY <2>10 DEF FinishInitialization, wizardVars, cameraVars
  <2>11. CASE Leave
    <3>1. isGameActive' \in BOOLEAN /\ isRecording' \in BOOLEAN /\ rolling' \in BOOLEAN
      BY <2>11, Zenon DEF Leave
    <3>2. /\ step' \in 0..2 /\ index' \in 0..(2 * MaxPlayers)
          /\ started' \in 0..MaxRecordings /\ videoURL' \in 0..started' /\ since' \in 0..started'
      BY <2>11 DEF Leave, NoVideo
    <3>3. /\ teamA' \in Seq(Names) /\ Len(teamA') <= MaxPlayers
          /\ teamB' \in Seq(Names) /\ Len(teamB') <= MaxPlayers
      BY <2>11 DEF Leave
    <3>4. filming' \in Seq(1..started') /\ sent' \in Seq(Upload \cup {Train})
      BY <2>11 DEF Leave
    <3>5. camera' \in Session
      BY <2>11, CameraResults DEF Leave
    <3>6. offered' \subseteq 0..(2 * MaxPlayers) /\ good' \subseteq 1..started'
      BY <2>11 DEF Leave
    <3> QED
      BY <3>1, <3>2, <3>3, <3>4, <3>5, <3>6
  <2>12. CASE UNCHANGED gameVars
    BY <2>12 DEF gameVars, wizardVars, cameraVars
  <2> QED
    BY <2>1, <2>2, <2>3, <2>4, <2>5, <2>6, <2>7, <2>8, <2>9, <2>10, <2>11, <2>12 DEF Next
<1> QED
  BY <1>1, <1>2, PTL DEF Spec

\* Every state has the types of TypeOK.
THEOREM TypeCorrect == Spec => []TypeOK
BY TypeInvariant
-----------------------------------------------------------------------------
(* The order of the players.                                                *)

\* While the recording screen is up, the players before the current one have
\* been offered; going back keeps what was offered until the next Confirm.
OfferInv ==
  /\ step = 1 /\ players # <<>> =>
       /\ index < Len(players)
       /\ 0..(index - 1) \subseteq offered
       /\ offered \subseteq 0..(Len(players) - 1)
  /\ step = 2 =>
       /\ players # <<>>
       /\ index = Len(players) - 1
       /\ offered = 0..(Len(players) - 1)

LEMMA OfferInvariant == Spec => []OfferInv
<1>1. Init => OfferInv
  BY DEF Init, OfferInv
<1>2. TypeOK /\ OfferInv /\ [Next]_gameVars => OfferInv'
  <2> SUFFICES ASSUME TypeOK, OfferInv, [Next]_gameVars PROVE OfferInv'
    OBVIOUS
  <2> USE DEF OfferInv
  <2>1. ASSUME UNCHANGED wizardVars PROVE OfferInv'
    BY <2>1 DEF wizardVars, players
  <2>2. ASSUME NEW field \in 1..MaxPlayers, NEW name \in Names, EnterName(field, name)
        PROVE  OfferInv'
    BY <2>2 DEF EnterName
  <2>3. CASE ConfirmPlayers
    <3>1. step' = 1 /\ index' = 0 /\ offered' = {} /\ players' = players
      BY <2>3 DEF ConfirmPlayers, FirstPlayer, players
    <3>2. players # <<>> => 0 < Len(players)
      BY PlayersType
    <3> QED
      BY <3>1, <3>2
  <2>4. CASE GoBack
    <3>1. step' = step - 1 /\ UNCHANGED <<index, players, offered>> /\ step \in 1..2
      BY <2>4 DEF GoBack, players, TypeOK
    <3>2. index \in Nat /\ Len(players) \in Nat
      BY PlayersType DEF TypeOK
    <3> QED
      BY <3>1, <3>2
  <2>5. CASE UploadVideo
    <3>1. /\ step = 1 /\ index < Len(players) /\ players' = players
          /\ offered' = offered \cup {index}
      BY <2>5 DEF UploadVideo, SendVideo, Shown, players
    <3>2. index \in Nat /\ Len(players) \in Nat /\ players # <<>>
      BY <3>1, PlayersType DEF TypeOK
    <3>3. CASE index < Len(players) - 1 /\ index' = index + 1 /\ step' = step
      BY <3>1, <3>2, <3>3
    <3>4. CASE ~(index < Len(players) - 1) /\ step' = 2 /\ index' = index
      BY <3>1, <3>2, <3>4
    <3> QED
      BY <2>5, <3>3, <3>4 DEF UploadVideo, SendVideo
  <2>6. CASE Leave
    BY <2>6 DEF Leave
  <2>7. CASE SwitchCamera \/ StartRecording \/ StopRecording \/ FileOutput
             \/ TrainModel \/ FinishInitialization \/ UNCHANGED gameVars
    <3>1. UNCHANGED wizardVars
      BY <2>7 DEF SwitchCamera, StartRecording, StopRecording, FileOutput, TrainModel,
                  FinishInitialization, gameVars
    <3> QED
      BY <2>1, <3>1
  <2> QED
    BY <2>2, <2>3, <2>4, <2>5, <2>6, <2>7 DEF Next
<1> QED
  BY <1>1, <1>2, TypeInvariant, PTL DEF Spec

\* The summary, from which training and the game start, is reached only with
\* every player offered, for teams of any size.
THEOREM Enrolment == Spec => []EveryPlayerOffered
<1>1. OfferInv => EveryPlayerOffered
  BY DEF OfferInv, EveryPlayerOffered
<1> QED
  BY <1>1, OfferInvariant, PTL
-----------------------------------------------------------------------------
(* The recordings.                                                          *)

\* The screen says that it films whenever the camera does: a stop ends both.
THEOREM Filming == Spec => []NoHiddenFilming
<1>1. Init => NoHiddenFilming
  BY DEF Init, NoHiddenFilming
<1>2. NoHiddenFilming /\ [Next]_gameVars => NoHiddenFilming'
  <2> SUFFICES ASSUME NoHiddenFilming, [Next]_gameVars PROVE NoHiddenFilming'
    OBVIOUS
  <2>1. ASSUME UNCHANGED <<isRecording, rolling>> PROVE NoHiddenFilming'
    BY <2>1 DEF NoHiddenFilming
  <2>2. CASE StartRecording
    BY <2>2 DEF StartRecording, NoHiddenFilming
  <2>3. CASE StopRecording
    BY <2>3 DEF StopRecording, StopOutput, NoHiddenFilming
  <2>4. CASE FileOutput
    <3>1. (rolling' => rolling) /\ isRecording' = isRecording
      BY <2>4, Zenon DEF FileOutput
    <3> QED
      BY <3>1 DEF NoHiddenFilming
  <2>5. CASE Leave
    BY <2>5 DEF Leave, NoHiddenFilming
  <2>6. CASE \/ \E field \in 1..MaxPlayers, name \in Names : EnterName(field, name)
             \/ ConfirmPlayers \/ GoBack \/ SwitchCamera \/ UploadVideo
             \/ TrainModel \/ FinishInitialization \/ UNCHANGED gameVars
    <3>1. UNCHANGED <<isRecording, rolling>>
      BY <2>6 DEF EnterName, ConfirmPlayers, GoBack, SwitchCamera, UploadVideo, SendVideo,
                  TrainModel, FinishInitialization, gameVars, cameraVars
    <3> QED
      BY <2>1, <3>1
  <2> QED
    BY <2>2, <2>3, <2>4, <2>5, <2>6 DEF Next
<1> QED
  BY <1>1, <1>2, PTL DEF Spec

\* Recordings are reported in the order they were begun, and videoURL is the
\* newest of those that ended well.
TakeInv ==
  /\ \A i, j \in 1..Len(filming) : i < j => filming[i] < filming[j]
  /\ \A g \in good : \A i \in 1..Len(filming) : g < filming[i]
  /\ \A g \in good : g <= videoURL
  /\ videoURL \in {NoVideo} \cup good

LEMMA TakeInvariant == Spec => []TakeInv
<1>1. Init => TakeInv
  BY DEF Init, TakeInv
<1>2. TypeOK /\ TakeInv /\ [Next]_gameVars => TakeInv'
  <2> SUFFICES ASSUME TypeOK, TakeInv, [Next]_gameVars PROVE TakeInv'
    OBVIOUS
  <2>1. ASSUME UNCHANGED <<filming, videoURL, good>> PROVE TakeInv'
    BY <2>1 DEF TakeInv
  <2>2. CASE StartRecording
    <3>1. filming' = Append(filming, started + 1) /\ UNCHANGED <<videoURL, good>>
      BY <2>2 DEF StartRecording
    <3>2. filming \in Seq(1..started) /\ started \in Nat /\ good \subseteq 1..started
      BY DEF TypeOK
    <3>3. /\ Len(filming') = Len(filming) + 1
          /\ \A i \in 1..Len(filming) : filming'[i] = filming[i]
          /\ filming'[Len(filming) + 1] = started + 1
      BY <3>1, <3>2
    <3>4. \A i \in 1..Len(filming) : filming[i] \in 1..started
      BY <3>2
    <3>5. \A i, j \in 1..Len(filming') : i < j => filming'[i] < filming'[j]
      <4>1. ASSUME NEW i \in 1..Len(filming'), NEW j \in 1..Len(filming'), i < j
            PROVE  filming'[i] < filming'[j]
        <5>1. i \in 1..Len(filming) /\ filming[i] < started + 1
          BY <3>2, <3>3, <3>4, <4>1
        <5>2. CASE j = Len(filming) + 1
          BY <3>3, <5>1, <5>2
        <5>3. CASE j \in 1..Len(filming)
          BY <3>3, <4>1, <5>1, <5>3 DEF TakeInv
        <5> QED
          BY <3>3, <5>2, <5>3
      <4> QED
        BY <4>1
    <3>6. \A g \in good : \A i \in 1..Len(filming') : g < filming'[i]
      BY <3>2, <3>3 DEF TakeInv
    <3> QED
      BY <3>1, <3>5, <3>6 DEF TakeInv
  <2>3. CASE FileOutput
    <3> DEFINE h == Head(filming)
    <3>1. /\ filming # <<>> /\ filming' = Tail(filming)
          /\ \/ videoURL' = h /\ good' = good \cup {h}
             \/ UNCHANGED <<videoURL, good>>
      BY <2>3 DEF FileOutput, NextReport, Stored
    <3>2. filming \in Seq(1..started) /\ started \in Nat /\ good \subseteq 1..started
      BY DEF TypeOK
    <3>3. /\ Len(filming') = Len(filming) - 1 /\ Len(filming) \in Nat \ {0}
          /\ \A i \in 1..Len(filming') : filming'[i] = filming[i + 1]
          /\ h = filming[1] /\ h \in 1..started
      BY <3>1, <3>2
    <3>4. \A i \in 1..Len(filming) : filming[i] \in 1..started
      BY <3>2
    <3> HIDE DEF h
    <3>5. ASSUME NEW i \in 1..Len(filming'), NEW j \in 1..Len(filming'), i < j
          PROVE  filming'[i] < filming'[j]
      <4>1. i + 1 \in 1..Len(filming) /\ j + 1 \in 1..Len(filming) /\ i + 1 < j + 1
        BY <3>3, <3>5
      <4>2. filming[i + 1] < filming[j + 1]
        BY <4>1 DEF TakeInv
      <4> QED
        BY <3>3, <4>2
    <3>6. \A i \in 1..Len(filming') : h < filming'[i]
      BY <3>3, <3>4 DEF TakeInv
    <3>7. \A g \in good : g <= h /\ \A i \in 1..Len(filming') : g < filming'[i]
      <4> SUFFICES ASSUME NEW g \in good
                   PROVE  g <= h /\ \A i \in 1..Len(filming') : g < filming'[i]
        OBVIOUS
      <4>1. \A i \in 1..Len(filming) : g < filming[i]
        BY DEF TakeInv
      <4>2. g \in Nat /\ h \in Nat /\ g < h
        BY <3>2, <3>3, <4>1
      <4>3. g <= h
        BY <4>2
      <4>4. \A i \in 1..Len(filming') : i + 1 \in 1..Len(filming)
        BY <3>3
      <4>5. \A i \in 1..Len(filming') : g < filming'[i]
        BY <3>3, <4>1, <4>4
      <4> QED
        BY <4>3, <4>5
    <3>8. CASE videoURL' = h /\ good' = good \cup {h}
      BY <3>3, <3>5, <3>6, <3>7, <3>8 DEF TakeInv
    <3>9. CASE UNCHANGED <<videoURL, good>>
      BY <3>5, <3>7, <3>9 DEF TakeInv
    <3> QED
      BY <3>1, <3>8, <3>9
  <2>4. CASE Leave
    BY <2>4 DEF Leave, TakeInv
  <2>5. CASE \/ \E field \in 1..MaxPlayers, name \in Names : EnterName(field, name)
             \/ ConfirmPlayers \/ GoBack \/ SwitchCamera \/ StopRecording \/ UploadVideo
             \/ TrainModel \/ FinishInitialization \/ UNCHANGED gameVars
    <3>1. UNCHANGED <<filming, videoURL, good>>
      BY <2>5 DEF EnterName, ConfirmPlayers, GoBack, SwitchCamera, StopRecording, UploadVideo, SendVideo,
                  TrainModel, FinishInitialization, gameVars, cameraVars
    <3> QED
      BY <2>1, <3>1
  <2> QED
    BY <2>2, <2>3, <2>4, <2>5 DEF Next
<1> QED
  BY <1>1, <1>2, TypeInvariant, PTL DEF Spec

\* A step that sends an upload is the upload button.
LEMMA UploadStep ==
  ASSUME TypeOK, [Next]_gameVars, UploadSent
  PROVE  /\ UploadVideo
         /\ sent'[Len(sent')].player = currentPlayer
         /\ sent'[Len(sent')].team = TeamOf(currentPlayer)
         /\ sent'[Len(sent')].video \in {videoURL, NoVideo}
<1>1. sent \in Seq(Upload \cup {Train})
  BY DEF TypeOK
<1>2. ~(UNCHANGED sent)
  BY <1>1 DEF UploadSent
<1>3. ~TrainModel
  <2> SUFFICES ASSUME TrainModel PROVE FALSE
    OBVIOUS
  <2>1. sent' = Append(sent, Train)
    BY DEF TrainModel
  <2>2. sent'[Len(sent')] = Train
    BY <1>1, <2>1
  <2> QED
    BY <2>2 DEF UploadSent
<1>4. UploadVideo
  BY <1>2, <1>3 DEF Next, EnterName, ConfirmPlayers, GoBack, SwitchCamera, StartRecording,
     StopRecording, FileOutput, FinishInitialization, Leave, gameVars
<1>5. ASSUME NEW video \in {videoURL, NoVideo},
             sent' = Append(sent, [player |-> currentPlayer,
                                   team |-> TeamOf(currentPlayer), video |-> video])
      PROVE  sent'[Len(sent')] = [player |-> currentPlayer,
                                  team |-> TeamOf(currentPlayer), video |-> video]
  <2> DEFINE upload == [player |-> currentPlayer, team |-> TeamOf(currentPlayer), video |-> video]
  <2>1. sent' = Append(sent, upload)
    BY <1>5
  <2> HIDE DEF upload
  <2>2. sent'[Len(sent')] = upload
    BY <1>1, <2>1
  <2> QED
    BY <2>2 DEF upload
<1>6. \E video \in {videoURL, NoVideo} :
        sent' = Append(sent, [player |-> currentPlayer,
                              team |-> TeamOf(currentPlayer), video |-> video])
  BY <1>2, <1>4 DEF UploadVideo, SendVideo
<1> QED
  BY <1>4, <1>5, <1>6

\* Once a video of the current player is there, no other player's is sent
\* for them, however many recordings were begun, failed or came late.
THEOREM OwnTake == Spec => OwnTakeSent
<1>1. TypeOK /\ TakeInv /\ [Next]_gameVars =>
        (UploadSent /\ (\E g \in good : g > since) =>
           sent'[Len(sent')].video \in {NoVideo} \cup {g \in good : g > since})
  <2> SUFFICES ASSUME TypeOK, TakeInv, [Next]_gameVars, UploadSent,
                      NEW g \in good, g > since
               PROVE  sent'[Len(sent')].video \in {NoVideo} \cup {h \in good : h > since}
    OBVIOUS
  <2>1. g \in Nat /\ since \in Nat /\ videoURL \in Nat /\ g <= videoURL /\ g >= 1
    BY DEF TypeOK, TakeInv
  <2>2. videoURL > since /\ videoURL # NoVideo
    BY <2>1 DEF NoVideo
  <2>3. videoURL \in good
    BY <2>2 DEF TakeInv
  <2> QED
    BY <2>2, <2>3, UploadStep
<1> QED
  BY <1>1, TypeInvariant, TakeInvariant, PTL DEF Spec, OwnTakeSent

\* The team an upload names has a player of the name it names.
THEOREM Teams == Spec => UploadedUnderTeam
<1> DEFINE upload == sent'[Len(sent')]
           Labelled == /\ upload.team = "A" => index < Len(teamA)
                       /\ upload.team = "B" => \E k \in DOMAIN teamB : teamB[k] = upload.player
<1>1. TypeOK /\ [Next]_gameVars => (UploadSent => Labelled)
  <2> SUFFICES ASSUME TypeOK, [Next]_gameVars, UploadSent PROVE Labelled
    OBVIOUS
  <2>1. UploadVideo /\ upload.player = currentPlayer /\ upload.team = TeamOf(currentPlayer)
    BY UploadStep
  <2>2. index \in Nat /\ index < Len(players)
    BY <2>1 DEF UploadVideo, SendVideo, Shown, TypeOK
  <2> HIDE DEF upload
  <2>3. ASSUME upload.team = "B" PROVE \E k \in DOMAIN teamB : teamB[k] = upload.player
    BY <2>1, <2>3 DEF TeamOf
  <2>4. ASSUME upload.team = "A", ~(index < Len(teamA)) PROVE FALSE
    <3>1. teamA \in Seq(Names) /\ teamB \in Seq(Names)
      BY DEF TypeOK
    <3>2. /\ Len(players) = Len(teamA) + Len(teamB)
          /\ players[index + 1] = IF index + 1 <= Len(teamA) THEN teamA[index + 1]
                                  ELSE teamB[index + 1 - Len(teamA)]
      BY <2>2, PlayersType
    <3>3. index + 1 - Len(teamA) \in DOMAIN teamB
      BY <2>2, <2>4, <3>1, <3>2
    <3>4. teamB[index + 1 - Len(teamA)] = currentPlayer
      BY <2>2, <2>4, <3>1, <3>2 DEF currentPlayer
    <3> QED
      BY <2>1, <2>4, <3>3, <3>4 DEF TeamOf
  <2> QED
    BY <2>3, <2>4
<1>2. (UploadSent => Labelled) =>
        (UploadSent =>
           LET u == sent'[Len(sent')]
               OnTeam(team) == \E k \in DOMAIN team : team[k] = u.player
           IN  /\ u.team = "A" => index < Len(teamA)
               /\ u.team = "B" => OnTeam(teamB))
  OBVIOUS
<1> QED
  BY <1>1, <1>2, TypeInvariant, PTL DEF Spec, UploadedUnderTeam
-----------------------------------------------------------------------------
(* The implementation of EnrolmentFeed.                                     *)

\* What was uploaded is older than what is still to be reported, and no newer
\* than what would be uploaded now.
SentInv ==
  /\ \A k \in DOMAIN sent : Feed!VideoOf(sent[k]) \in 0..started
  /\ \A k \in DOMAIN sent : \A i \in 1..Len(filming) : Feed!VideoOf(sent[k]) < filming[i]
  /\ videoURL # NoVideo => \A k \in DOMAIN sent : Feed!VideoOf(sent[k]) <= videoURL

\* A request added to those sent: an upload of the current video or of none,
\* or a training.
Adds(request) ==
  /\ Len(sent) < MaxRequests
  /\ request \in Upload \cup {Train}
  /\ Feed!VideoOf(request) \in {videoURL, NoVideo}
  /\ sent' = Append(sent, request)

LEMMA SendSteps ==
  ASSUME TypeOK, TypeOK', [Next]_gameVars
  PROVE  \/ UNCHANGED sent
         \/ /\ UNCHANGED <<started, filming, videoURL>>
            /\ \E request \in Upload \cup {Train} : Adds(request)
<1>1. sent \in Seq(Upload \cup {Train})
  BY DEF TypeOK
<1>2. CASE TrainModel
  <2>1. Feed!VideoOf(Train) = NoVideo
    BY DEF Feed!VideoOf, Feed!NoVideo, NoVideo
  <2>2. Adds(Train) /\ UNCHANGED <<started, filming, videoURL>>
    BY <1>2, <2>1 DEF TrainModel, Adds, cameraVars
  <2> QED
    BY <2>2
<1>3. CASE UploadVideo
  <2>1. UNCHANGED <<started, filming, videoURL>>
    BY <1>3 DEF UploadVideo, cameraVars
  <2>2. ASSUME NEW video \in {videoURL, NoVideo}, Len(sent) < MaxRequests,
               sent' = Append(sent, [player |-> currentPlayer,
                                     team |-> TeamOf(currentPlayer), video |-> video])
        PROVE  \E request \in Upload \cup {Train} : Adds(request)
    <3> DEFINE upload == [player |-> currentPlayer, team |-> TeamOf(currentPlayer), video |-> video]
    <3>1. upload.video = video
      OBVIOUS
    <3>2. sent' = Append(sent, upload)
      BY <2>2
    <3> HIDE DEF upload
    <3>3. upload \in Upload \cup {Train}
      <4>1. sent' \in Seq(Upload \cup {Train})
        BY DEF TypeOK
      <4>2. Len(sent') = Len(sent) + 1 /\ sent'[Len(sent) + 1] = upload /\ Len(sent) \in Nat
        BY <1>1, <3>2
      <4>3. Len(sent) + 1 \in 1..Len(sent')
        BY <4>2
      <4> QED
        BY <4>1, <4>2, <4>3
    <3>4. Feed!VideoOf(upload) \in {videoURL, NoVideo}
      BY <2>2, <3>1 DEF Feed!VideoOf, Feed!NoVideo, NoVideo
    <3>5. Adds(upload)
      BY <2>2, <3>2, <3>3, <3>4 DEF Adds
    <3> QED
      BY <3>3, <3>5
  <2> QED
    BY <1>3, <2>1, <2>2 DEF UploadVideo, SendVideo
<1>4. CASE ~TrainModel /\ ~UploadVideo
  BY <1>4 DEF Next, EnterName, ConfirmPlayers, GoBack, SwitchCamera, StartRecording,
     StopRecording, FileOutput, FinishInitialization, Leave, gameVars
<1> QED
  BY <1>2, <1>3, <1>4

LEMMA SentInvariant == Spec => []SentInv
<1>1. Init => SentInv
  BY DEF Init, SentInv
<1>2. TypeOK /\ TypeOK' /\ TakeInv /\ SentInv /\ [Next]_gameVars => SentInv'
  <2> SUFFICES ASSUME TypeOK, TypeOK', TakeInv, SentInv, [Next]_gameVars PROVE SentInv'
    OBVIOUS
  <2>1. /\ started \in Nat /\ videoURL \in 0..started /\ good \subseteq 1..started
        /\ filming \in Seq(1..started) /\ sent \in Seq(Upload \cup {Train})
        /\ \A i \in 1..Len(filming) : filming[i] \in 1..started
    <3>1. /\ started \in Nat /\ videoURL \in 0..started /\ good \subseteq 1..started
          /\ filming \in Seq(1..started) /\ sent \in Seq(Upload \cup {Train})
      BY DEF TypeOK
    <3>2. \A i \in 1..Len(filming) : filming[i] \in 1..started
      BY <3>1
    <3> QED
      BY <3>1, <3>2
  <2>2. ASSUME NEW request \in Upload \cup {Train}, Adds(request),
               UNCHANGED <<started, filming, videoURL>>
        PROVE  SentInv'
    <3>1. /\ DOMAIN sent' = DOMAIN sent \cup {Len(sent) + 1}
          /\ \A k \in DOMAIN sent : sent'[k] = sent[k]
          /\ sent'[Len(sent) + 1] = request
      BY <2>1, <2>2 DEF Adds
    <3>2. \A k \in DOMAIN sent' : \/ k \in DOMAIN sent /\ sent'[k] = sent[k]
                                  \/ sent'[k] = request
      BY <3>1
    <3>3. Feed!VideoOf(request) \in {videoURL, NoVideo}
      BY <2>2 DEF Adds
    <3> DEFINE v == Feed!VideoOf(request)
    <3> HIDE DEF v
    <3>4. v \in 0..started /\ v <= videoURL
      BY <2>1, <3>3 DEF v, NoVideo
    <3>5. \A i \in 1..Len(filming) : v < filming[i]
      BY <2>1, <3>3 DEF v, NoVideo, TakeInv
    <3>6. \A k \in DOMAIN sent' : Feed!VideoOf(sent'[k]) \in 0..started
      BY <3>2, <3>4 DEF v, SentInv
    <3>7. \A k \in DOMAIN sent' : \A i \in 1..Len(filming) : Feed!VideoOf(sent'[k]) < filming[i]
      BY <3>2, <3>5 DEF v, SentInv
    <3>8. videoURL # NoVideo => \A k \in DOMAIN sent' : Feed!VideoOf(sent'[k]) <= videoURL
      BY <3>2, <3>4 DEF v, SentInv
    <3> QED
      BY <2>2, <3>6, <3>7, <3>8 DEF SentInv
  <2>3. CASE StartRecording
    <3>1. /\ filming' = Append(filming, started + 1) /\ started' = started + 1
          /\ UNCHANGED <<videoURL, sent>>
      BY <2>3 DEF StartRecording
    <3>2. \A i \in 1..Len(filming') : \/ i \in 1..Len(filming) /\ filming'[i] = filming[i]
                                      \/ filming'[i] = started + 1
      BY <2>1, <3>1
    <3>3. \A k \in DOMAIN sent : Feed!VideoOf(sent[k]) < started + 1
                                 /\ Feed!VideoOf(sent[k]) \in 0..started'
      BY <2>1, <3>1 DEF SentInv
    <3> QED
      BY <3>1, <3>2, <3>3 DEF SentInv
  <2>4. CASE FileOutput
    <3>1. /\ filming # <<>> /\ filming' = Tail(filming) /\ UNCHANGED <<started, sent>>
          /\ videoURL' = Head(filming) \/ UNCHANGED videoURL
      BY <2>4 DEF FileOutput, NextReport, Stored
    <3>2. /\ 1 \in 1..Len(filming) /\ Head(filming) = filming[1]
          /\ \A i \in 1..Len(filming') : i + 1 \in 1..Len(filming) /\ filming'[i] = filming[i + 1]
      BY <2>1, <3>1
    <3>3. \A k \in DOMAIN sent : \A i \in 1..Len(filming') : Feed!VideoOf(sent[k]) < filming'[i]
      BY <3>2 DEF SentInv
    <3>4. \A k \in DOMAIN sent : Feed!VideoOf(sent[k]) <= filming[1]
      <4> SUFFICES ASSUME NEW k \in DOMAIN sent PROVE Feed!VideoOf(sent[k]) <= filming[1]
        OBVIOUS
      <4>1. Feed!VideoOf(sent[k]) \in 0..started /\ Feed!VideoOf(sent[k]) < filming[1]
        BY <3>2 DEF SentInv
      <4> QED
        BY <2>1, <3>2, <4>1
    <3> QED
      BY <3>1, <3>2, <3>3, <3>4 DEF SentInv
  <2>5. CASE Leave
    BY <2>5 DEF Leave, SentInv
  <2>6. CASE UNCHANGED sent /\ UNCHANGED <<started, filming, videoURL>>
    BY <2>6 DEF SentInv
  <2>7. CASE ~StartRecording /\ ~FileOutput /\ ~Leave
    <3>1. UNCHANGED <<started, filming, videoURL>>
      BY <2>7 DEF Next, EnterName, ConfirmPlayers, GoBack, SwitchCamera, StopRecording,
         UploadVideo, SendVideo, TrainModel, FinishInitialization, gameVars, cameraVars
    <3> QED
      BY <2>2, <2>6, <3>1, SendSteps
  <2> QED
    BY <2>3, <2>4, <2>5, <2>7
<1> QED
  BY <1>1, <1>2, TypeInvariant, TakeInvariant, PTL DEF Spec

\* A request is added as the feed allows.
LEMMA FeedStep ==
  ASSUME TypeOK, TypeOK', SentInv, [Next]_gameVars, ~(UNCHANGED sent)
  PROVE  Feed!FeedNext
<1>1. PICK request \in Upload \cup {Train} : Adds(request)
  BY SendSteps
<1>2. request \in Feed!Upload \cup {Train}
  BY DEF Upload, Feed!Upload
<1>3. \/ Feed!VideoOf(request) = Feed!NoVideo
      \/ \A k \in DOMAIN sent : Feed!VideoOf(sent[k]) <= Feed!VideoOf(request)
  BY <1>1 DEF Adds, SentInv, NoVideo, Feed!NoVideo
<1>4. Feed!Send(request)
  BY <1>1, <1>3 DEF Adds, Feed!Send
<1> QED
  BY <1>2, <1>4 DEF Feed!FeedNext

\* The enrolment implements EnrolmentFeed: whenever the files are reported,
\* the uploads never go back to an earlier recording.
THEOREM FeedRefinement == Spec => RequestFeed
<1>1. Init => Feed!FeedInit
  BY DEF Init, Feed!FeedInit
<1>2. TypeOK /\ TypeOK' /\ SentInv /\ [Next]_gameVars => [Feed!FeedNext]_sent
  BY FeedStep
<1> QED
  BY <1>1, <1>2, TypeInvariant, SentInvariant, PTL DEF Spec, RequestFeed, Feed!FeedSpec
-----------------------------------------------------------------------------
(* The enrolment from end to end: any requests EnrolmentFeed allows, the    *)
(* network and the training server.                                         *)

\* The name all uploads are saved under.
Shared == NewFilename(1)

\* The requests sent, those of them that settled, and the files there may be.
EnrolmentTypeOK ==
  /\ sent \in Seq(Upload \cup {Train})
  /\ DOMAIN sent \subseteq Positions
  /\ settled \subseteq DOMAIN sent
  /\ status \in [Positions \cup Residents -> {"new", "reading", "answered", "failed"}]
  /\ DOMAIN uploads \subseteq {Shared} \cup Residents

\* As long as nothing went wrong, requests settle in the order sent, only
\* settled uploads were opened, and what is in the file of all uploads, or
\* being written to it, is the last of them; it is there as long as one of the
\* residents is; and what is on disk was not trained on.
Last == {k \in VideosSettled : \A j \in VideosSettled : j <= k}

NothingOvertook == \A k \in settled : \A j \in 1..k : j \in settled

OpenedIsSettled == \A k \in Positions : status[k] # "new" => k \in VideosSettled

FileIsLast ==
  /\ Server!Reading \subseteq Last \cap linked
  /\ Server!Reading # {} => Shared \in DOMAIN uploads
  /\ Shared \in DOMAIN uploads =>
       uploads[Shared] = {} \/ (Server!Reading = {} /\ uploads[Shared] = Last)

WithResidents ==
  \A n \in DOMAIN uploads \ {Shared} :
    /\ uploads[n] = {n}
    /\ Server!Reading = {} /\ Last # {} =>
         Shared \in DOMAIN uploads /\ uploads[Shared] = Last

Untrained ==
  /\ \A n \in DOMAIN uploads : \A v \in uploads[n] : status[v] = "answered" /\ v \notin trainedOn
  /\ \A v \in trainedOn : status[v] = "answered"

Orderly == NothingOvertook /\ OpenedIsSettled /\ FileIsLast /\ WithResidents /\ Untrained

OrderInv ==
  /\ EnrolmentTypeOK
  /\ orderly => Orderly

\* Every upload is saved under that name, which is no resident's.
LEMMA SavedAsShared ==
  ASSUME NEW k \in Positions
  PROVE  /\ k \notin Residents /\ SavedAs(k) = Shared /\ Shared \notin Residents
         /\ k \in Server!Requests
         /\ [v \in Positions \cup Residents |-> SavedAs(v)][k] = Shared
<1>1. k \notin Residents /\ NewFilename(k) = Shared /\ NewFilename(k) \notin Residents
  BY DEF NewFilename, Shared
<1> QED
  BY <1>1 DEF SavedAs, Server!Requests

\* There is one last upload at most.
LEMMA LastIsOne ==
  ASSUME EnrolmentTypeOK, NEW k \in Last
  PROVE  Last = {k}
<1>1. \A j \in Last : j \in Nat /\ j <= k /\ k <= j
  BY DEF EnrolmentTypeOK, Last, VideosSettled
<1> QED
  BY <1>1

\* What the phone sends goes behind what it sent.
LEMMA PhoneSends ==
  ASSUME EnrolmentTypeOK, PhoneStep
  PROVE  /\ EnrolmentTypeOK' /\ VideosSettled' = VideosSettled
         /\ UNCHANGED <<settled, trainingVars, orderly>>
<1>1. PICK request \in Upload \cup {Train} : Send(request)
  BY DEF PhoneStep, FeedNext
<1>2. /\ sent' \in Seq(Upload \cup {Train}) /\ Len(sent') = Len(sent) + 1
      /\ DOMAIN sent = 1..Len(sent) /\ DOMAIN sent' = 1..Len(sent')
      /\ \A k \in DOMAIN sent : sent'[k] = sent[k]
      /\ Len(sent) < MaxRequests /\ Len(sent) \in Nat
  BY <1>1 DEF Send, EnrolmentTypeOK
<1>3. DOMAIN sent \subseteq DOMAIN sent' /\ DOMAIN sent' \subseteq Positions
  BY <1>2 DEF Positions
<1>4. UNCHANGED <<settled, trainingVars, orderly>>
  BY DEF PhoneStep
<1>5. EnrolmentTypeOK'
  BY <1>2, <1>3, <1>4 DEF EnrolmentTypeOK, trainingVars
<1>6. VideosSettled' = VideosSettled
  BY <1>2, <1>4 DEF VideosSettled, EnrolmentTypeOK
<1> QED
  BY <1>4, <1>5, <1>6

\* Every other step leaves what was sent, and is one of these.
LEMMA EnrolmentSteps ==
  ASSUME [EnrolmentNext]_enrolmentVars, ~PhoneStep
  PROVE  /\ UNCHANGED sent
         /\ \/ \E k \in Positions : UploadArrives(k) \/ TrainArrives(k) \/ Refused(k)
            \/ \E k \in Positions : Server!UploadVideo(k) /\ UNCHANGED <<settled, orderly>>
            \/ \E k \in Positions : Lost(k)
            \/ \E k \in Positions : Server!Fail(k) /\ ~orderly' /\ UNCHANGED settled
            \/ ServerRestarts
            \/ UNCHANGED enrolmentVars
BY DEF EnrolmentNext, Settle, UploadEnds, ServerRestarts, UploadArrives, TrainArrives,
       Refused, Lost, Arrives, enrolmentVars

\* Nothing of the order depends on more than this.
LEMMA SameOrder ==
  ASSUME OrderInv, UNCHANGED <<sent, settled, status, uploads, linked, trainedOn>>,
         orderly' \in {orderly, FALSE}
  PROVE  OrderInv'
<1>1. EnrolmentTypeOK' /\ VideosSettled' = VideosSettled /\ Last' = Last
      /\ Server!Reading' = Server!Reading
  BY DEF OrderInv, EnrolmentTypeOK, VideosSettled, Last, Server!Reading
<1>2. orderly' => orderly
  OBVIOUS
<1> QED
  BY <1>1, <1>2 DEF OrderInv, Orderly, NothingOvertook, OpenedIsSettled, FileIsLast,
     WithResidents, Untrained

\* An upload reaches its handler.
LEMMA UploadArrivesStep ==
  ASSUME OrderInv, NEW k \in Positions, UploadArrives(k), UNCHANGED sent
  PROVE  OrderInv'
<1>1. /\ k \in DOMAIN sent /\ k \notin settled /\ settled' = settled \cup {k}
      /\ sent[k] # Train /\ sent[k].video # NoVideo
  BY DEF UploadArrives, Arrives, Travelling, HasFile
<1>2. orderly' => /\ orderly /\ Server!Reading = {}
                  /\ \A j \in 1..k : j = k \/ j \in settled
  BY DEF UploadArrives, Arrives, InOrder
<1>3. /\ status[k] = "new" /\ status' = [status EXCEPT ![k] = "reading"]
      /\ DOMAIN uploads' = DOMAIN uploads \cup {Shared}
      /\ uploads'[Shared] = {} /\ linked' = linked \cup {k} /\ trainedOn' = trainedOn
      /\ \A n \in DOMAIN uploads' \ {Shared} : n \in DOMAIN uploads /\ uploads'[n] = uploads[n]
  BY SavedAsShared DEF UploadArrives, Server!Open
<1>4. k \in Positions \cup Residents
  OBVIOUS
<1>5. EnrolmentTypeOK'
  BY <1>1, <1>3, <1>4 DEF OrderInv, EnrolmentTypeOK
<1>6. VideosSettled' = VideosSettled \cup {k}
  BY <1>1 DEF VideosSettled
<1>7. status'[k] = "reading" /\ \A v \in Positions \cup Residents : v # k => status'[v] = status[v]
  BY <1>3 DEF OrderInv, EnrolmentTypeOK
<1>8. ASSUME orderly' PROVE Orderly'
  <2>1. Orderly
    BY <1>2, <1>8 DEF OrderInv
  <2>2. NothingOvertook'
    BY <1>1, <1>2, <1>8, <2>1 DEF NothingOvertook, Orderly
  <2>3. OpenedIsSettled'
    BY <1>6, <1>7, <2>1 DEF OpenedIsSettled, Orderly
  <2>4. ASSUME NEW j \in VideosSettled PROVE j <= k
    <3>1. j \in settled /\ j \in Nat /\ k \in Nat
      BY <1>1 DEF VideosSettled, OrderInv, EnrolmentTypeOK
    <3>2. k \notin 1..j
      BY <1>1, <2>1, <3>1 DEF NothingOvertook, Orderly
    <3>3. 1 <= k
      BY DEF Positions
    <3> QED
      BY <3>1, <3>2, <3>3
  <2>5. k \in Nat /\ k <= k
    BY DEF Positions
  <2>6. k \in Last'
    BY <1>6, <2>4, <2>5 DEF Last
  <2>7. Server!Reading' = {k}
    BY <1>2, <1>7, <1>8, SavedAsShared DEF Server!Reading, Server!Requests
  <2>8. FileIsLast'
    BY <1>3, <2>6, <2>7 DEF FileIsLast
  <2>9. WithResidents'
    BY <1>3, <2>1, <2>7 DEF WithResidents, Orderly
  <2>10. Untrained'
    <3>1. \A v \in trainedOn : v # k /\ status'[v] = "answered"
      <4>1. \A v \in trainedOn : status[v] = "answered" /\ v # k
        BY <1>3, <2>1 DEF Orderly, Untrained
      <4> QED
        BY <1>3, <4>1
    <3>2. ASSUME NEW n \in DOMAIN uploads \ {Shared}, NEW v \in uploads[n]
          PROVE  status'[v] = "answered" /\ v \notin trainedOn
      <4>1. status[v] = "answered" /\ v \notin trainedOn /\ v # k
        BY <1>3, <2>1, <3>2 DEF Orderly, Untrained
      <4> QED
        BY <1>3, <4>1
    <3>3. \A n \in DOMAIN uploads' : n = Shared \/ n \in DOMAIN uploads \ {Shared}
      BY <1>3
    <3> QED
      BY <1>3, <3>1, <3>2, <3>3 DEF Untrained
  <2> QED
    BY <2>2, <2>3, <2>8, <2>9, <2>10 DEF Orderly
<1> QED
  BY <1>5, <1>8 DEF OrderInv

\* A request without a file to open settles: a training, or a refused upload.
LEMMA NoFileArrivesStep ==
  ASSUME OrderInv, NEW k \in Positions, Arrives(k), UNCHANGED <<sent, status>>,
         sent[k] = Train \/ ~HasFile(sent[k]),
         \/ UNCHANGED <<uploads, trainedOn>>
         \/ /\ DOMAIN uploads' = {}
            /\ \A v \in trainedOn' \ trainedOn : \E n \in DOMAIN uploads : v \in uploads[n]
  PROVE  OrderInv'
<1>1. k \in DOMAIN sent /\ settled' = settled \cup {k}
  BY DEF Arrives, Travelling
<1>2. orderly' => /\ orderly /\ Server!Reading = {}
                  /\ \A j \in 1..k : j = k \/ j \in settled
  BY DEF Arrives, InOrder
<1>3. VideosSettled' = VideosSettled /\ Last' = Last /\ Server!Reading' = Server!Reading
  <2>1. VideosSettled' = VideosSettled
    BY <1>1 DEF VideosSettled, HasFile
  <2> QED
    BY <2>1 DEF Last, Server!Reading
<1>4. EnrolmentTypeOK'
  BY <1>1 DEF OrderInv, EnrolmentTypeOK
<1>5. ASSUME orderly' PROVE Orderly'
  <2>1. Orderly
    BY <1>2, <1>5 DEF OrderInv
  <2>2. NothingOvertook'
    BY <1>1, <1>2, <1>5, <2>1 DEF NothingOvertook, Orderly
  <2>3. OpenedIsSettled'
    BY <1>3, <2>1 DEF OpenedIsSettled, Orderly
  <2>4. FileIsLast' /\ WithResidents'
    BY <1>2, <1>3, <1>5, <2>1 DEF FileIsLast, WithResidents, Orderly
  <2>5. Untrained'
    BY <2>1 DEF Untrained, Orderly
  <2> QED
    BY <2>2, <2>3, <2>4, <2>5 DEF Orderly
<1> QED
  BY <1>4, <1>5 DEF OrderInv

\* Bytes go to the file of all uploads.
LEMMA BytesToShared ==
  ASSUME EnrolmentTypeOK, NEW k \in Positions, Server!WriteBytes(k)
  PROVE  /\ linked' = linked \ {k}
         /\ DOMAIN uploads' = DOMAIN uploads
         /\ \A n \in DOMAIN uploads \ {Shared} : uploads'[n] = uploads[n]
         /\ k \in linked => \E rest \in SUBSET uploads[Shared] :
                              uploads' = [uploads EXCEPT ![Shared] = {k} \cup rest]
BY SavedAsShared DEF Server!WriteBytes

\* An upload is answered.
LEMMA UploadAnsweredStep ==
  ASSUME OrderInv, NEW k \in Positions, Server!UploadVideo(k),
         UNCHANGED <<sent, settled, orderly>>
  PROVE  OrderInv'
<1>1. /\ status[k] = "reading" /\ status' = [status EXCEPT ![k] = "answered"]
      /\ Server!WriteBytes(k) /\ trainedOn' = trainedOn
  BY DEF Server!UploadVideo
<1>2. /\ linked' = linked \ {k}
      /\ DOMAIN uploads' = DOMAIN uploads
      /\ \A n \in DOMAIN uploads \ {Shared} : uploads'[n] = uploads[n]
      /\ k \in linked => \E rest \in SUBSET uploads[Shared] :
                           uploads' = [uploads EXCEPT ![Shared] = {k} \cup rest]
  BY <1>1, BytesToShared DEF OrderInv
<1>3. status'[k] = "answered" /\ \A v : v # k => status'[v] = status[v]
  BY <1>1 DEF OrderInv, EnrolmentTypeOK
<1>4. EnrolmentTypeOK' /\ VideosSettled' = VideosSettled /\ Last' = Last
  BY <1>1, <1>2 DEF OrderInv, EnrolmentTypeOK, VideosSettled, Last
<1>5. ASSUME orderly PROVE Orderly'
  <2>1. k \in Server!Reading /\ Orderly
    BY <1>1, <1>5, SavedAsShared DEF Server!Reading, OrderInv
  <2>2. Last = {k} /\ k \in VideosSettled /\ k \in linked
    <3>1. k \in Last /\ k \in linked
      BY <2>1 DEF Orderly, FileIsLast
    <3> QED
      BY <3>1, LastIsOne DEF OrderInv, Last
  <2>3. Shared \in DOMAIN uploads /\ uploads[Shared] = {}
    BY <2>1 DEF Orderly, FileIsLast
  <2>4. Server!Reading' = {}
    <3>1. Server!Reading \subseteq {k}
      BY <2>1, <2>2 DEF Orderly, FileIsLast
    <3> QED
      BY <1>3, <3>1 DEF Server!Reading, Server!Requests
  <2>5. uploads'[Shared] = {k}
    <3>1. PICK rest \in SUBSET uploads[Shared] : uploads' = [uploads EXCEPT ![Shared] = {k} \cup rest]
      BY <1>2, <2>2
    <3>2. rest = {}
      BY <2>3
    <3> QED
      BY <2>3, <3>1, <3>2
  <2>6. NothingOvertook' /\ OpenedIsSettled'
    BY <1>3, <1>4, <2>1, <2>2 DEF Orderly, NothingOvertook, OpenedIsSettled
  <2>7. FileIsLast' /\ WithResidents'
    BY <1>2, <1>4, <2>1, <2>2, <2>3, <2>4, <2>5 DEF Orderly, FileIsLast, WithResidents
  <2>8. Untrained'
    <3>1. k \notin trainedOn
      BY <1>1, <2>1 DEF Orderly, Untrained
    <3>2. \A v \in trainedOn : status'[v] = "answered"
      BY <1>3, <2>1, <3>1 DEF Orderly, Untrained
    <3>3. ASSUME NEW n \in DOMAIN uploads \ {Shared}, NEW v \in uploads[n]
          PROVE  status'[v] = "answered" /\ v \notin trainedOn
      BY <1>3, <2>1, <3>3 DEF Orderly, Untrained
    <3> QED
      BY <1>1, <1>2, <1>3, <2>5, <3>1, <3>2, <3>3 DEF Untrained
  <2> QED
    BY <2>6, <2>7, <2>8 DEF Orderly
<1> QED
  BY <1>4, <1>5 DEF OrderInv

\* The types hold, and as long as nothing went wrong the order.
LEMMA OrderInvariant == EnrolmentSpec => []OrderInv
<1>1. EnrolmentInit => OrderInv
  <2> SUFFICES ASSUME EnrolmentInit PROVE OrderInv
    OBVIOUS
  <2>1. sent = <<>> /\ settled = {} /\ Server!Answered \subseteq Residents /\ trainedOn = {}
    BY DEF EnrolmentInit, FeedInit, Server!Init
  <2> DEFINE Requests == Positions \cup Residents
             nameOf == [v \in Requests |-> SavedAs(v)]
  <2>2. PICK given \in SUBSET Requests :
          /\ status = [r \in Server!Requests |-> IF r \in given THEN "answered" ELSE "new"]
          /\ uploads = [n \in {nameOf[v] : v \in given} |-> {v \in given : nameOf[v] = n}]
    BY DEF EnrolmentInit, Server!Init
  <2>3. Server!Requests = Requests
    BY DEF Server!Requests
  <2>4. given \subseteq Residents
    BY <2>1, <2>2, <2>3 DEF Server!Answered
  <2>5. \A v \in given : nameOf[v] = v
    BY <2>2, <2>4 DEF SavedAs
  <2>6. DOMAIN uploads = given /\ \A n \in given : uploads[n] = {n}
    <3> HIDE DEF nameOf
    <3>1. {nameOf[v] : v \in given} = given
      BY <2>5
    <3>2. \A n \in given : {v \in given : nameOf[v] = n} = {n}
      BY <2>5
    <3> QED
      BY <2>2, <3>1, <3>2
  <2>7. \A v \in Requests : status[v] = IF v \in given THEN "answered" ELSE "new"
    BY <2>2, <2>3
  <2>8. Server!Reading = {} /\ VideosSettled = {} /\ Last = {} /\ Shared \notin given
    <3>1. Server!Reading = {}
      BY <2>3, <2>7 DEF Server!Reading
    <3>2. Shared \notin Residents
      BY DEF Shared, NewFilename
    <3> QED
      BY <2>1, <2>4, <3>1, <3>2 DEF VideosSettled, Last
  <2>9. EnrolmentTypeOK
    <3>1. sent \in Seq(Upload \cup {Train}) /\ DOMAIN sent = {}
      BY <2>1
    <3> QED
      BY <2>1, <2>2, <2>3, <2>4, <2>6, <3>1 DEF EnrolmentTypeOK
  <2>10. \A k \in Positions : status[k] = "new"
    BY <2>4, <2>7
  <2> HIDE DEF nameOf, Requests
  <2>11. Orderly
    BY <2>1, <2>4, <2>6, <2>7, <2>8, <2>10 DEF Orderly, NothingOvertook, OpenedIsSettled,
       FileIsLast, WithResidents, Untrained, Requests
  <2> QED
    BY <2>9, <2>11 DEF OrderInv
<1>2. OrderInv /\ [EnrolmentNext]_enrolmentVars => OrderInv'
  <2> SUFFICES ASSUME OrderInv, [EnrolmentNext]_enrolmentVars PROVE OrderInv'
    OBVIOUS
  <2>1. CASE PhoneStep
    <3>1. /\ EnrolmentTypeOK' /\ VideosSettled' = VideosSettled
          /\ UNCHANGED <<settled, trainingVars, orderly>>
      BY <2>1, PhoneSends DEF OrderInv
    <3>2. Last' = Last /\ Server!Reading' = Server!Reading
      BY <3>1 DEF Last, Server!Reading, trainingVars
    <3> QED
      BY <3>1, <3>2
         DEF OrderInv, Orderly, NothingOvertook, OpenedIsSettled, FileIsLast,
             WithResidents, Untrained, trainingVars
  <2>2. CASE ~PhoneStep
    <3>1. UNCHANGED sent
      BY <2>2, EnrolmentSteps
    <3>2. ASSUME NEW k \in Positions, UploadArrives(k) PROVE OrderInv'
      BY <3>1, <3>2, UploadArrivesStep
    <3>3. ASSUME NEW k \in Positions, TrainArrives(k) PROVE OrderInv'
      <4>1. /\ Arrives(k) /\ sent[k] = Train /\ UNCHANGED status
            /\ \/ UNCHANGED <<uploads, trainedOn>>
               \/ /\ DOMAIN uploads' = {}
                  /\ \A v \in trainedOn' \ trainedOn : \E n \in DOMAIN uploads : v \in uploads[n]
        BY <3>3 DEF TrainArrives, Server!train_model, Server!train_model_logic,
           Server!ClearsUploads
      <4> QED
        BY <3>1, <4>1, NoFileArrivesStep
    <3>4. ASSUME NEW k \in Positions, Refused(k) PROVE OrderInv'
      BY <3>1, <3>4, NoFileArrivesStep DEF Refused, trainingVars
    <3>5. ASSUME NEW k \in Positions, Server!UploadVideo(k), UNCHANGED <<settled, orderly>>
          PROVE  OrderInv'
      BY <3>1, <3>5, UploadAnsweredStep
    <3>6. ASSUME NEW k \in Positions, Lost(k) PROVE OrderInv'
      BY <3>6 DEF Lost, Travelling, trainingVars, OrderInv, EnrolmentTypeOK
    <3>7. ASSUME NEW k \in Positions, Server!Fail(k), ~orderly', UNCHANGED settled
          PROVE  OrderInv'
      <4>1. \/ Server!WriteBytes(k)
            \/ UNCHANGED uploads
        BY <3>7 DEF Server!Fail
      <4>2. DOMAIN uploads' = DOMAIN uploads
        BY <4>1, BytesToShared DEF OrderInv
      <4>3. status' \in [Positions \cup Residents -> {"new", "reading", "answered", "failed"}]
        BY <3>7 DEF Server!Fail, OrderInv, EnrolmentTypeOK
      <4> QED
        BY <3>1, <3>7, <4>2, <4>3 DEF OrderInv, EnrolmentTypeOK
    <3>8. CASE ServerRestarts
      <4>1. /\ status' \in [Positions \cup Residents -> {"new", "reading", "answered", "failed"}]
            /\ ~orderly' /\ UNCHANGED <<sent, settled, uploads>>
        BY <3>8 DEF ServerRestarts, Server!Restart, Server!Requests, OrderInv, EnrolmentTypeOK
      <4> QED
        BY <4>1 DEF OrderInv, EnrolmentTypeOK
    <3>9. CASE UNCHANGED enrolmentVars
      BY <3>9, SameOrder DEF enrolmentVars, trainingVars
    <3> QED
      BY <2>2, <3>2, <3>3, <3>4, <3>5, <3>6, <3>7, <3>8, <3>9, EnrolmentSteps
  <2> QED
    BY <2>1, <2>2
<1> QED
  BY <1>1, <1>2, PTL DEF EnrolmentSpec

\* What a training is fed beyond what earlier ones were, and what UPLOAD_DIR
\* came with, is the last upload.
LEMMA TrainingFed ==
  ASSUME OrderInv, [EnrolmentNext]_enrolmentVars, orderly', trainedOn' # trainedOn
  PROVE  (trainedOn' \ trainedOn) \ Residents = Last
<1>1. ~PhoneStep
  BY DEF PhoneStep, trainingVars
<1>2. PICK k \in Positions : TrainArrives(k)
  BY <1>1, EnrolmentSteps DEF UploadArrives, Server!Open, Refused, Lost, trainingVars,
     Server!UploadVideo, Server!Fail, Server!historyVars, ServerRestarts, Server!Restart,
     enrolmentVars
<1> DEFINE fed == {v \in Positions \cup Residents :
                     \E n \in SavedNames \cap DOMAIN uploads : uploads[n] = {v}}
<1>3. trainedOn' = trainedOn \cup fed
  BY <1>2 DEF TrainArrives, Server!train_model, Server!train_model_logic
<1>4. orderly /\ Server!Reading = {}
  BY <1>2 DEF TrainArrives, Arrives, InOrder
<1>5. FileIsLast /\ WithResidents /\ Untrained
  BY <1>4 DEF OrderInv, Orderly
<1>6. Last \subseteq Positions /\ Shared \notin Residents /\ Shared \in SavedNames
  BY <1>2, SavedAsShared DEF Last, VideosSettled, OrderInv, EnrolmentTypeOK, SavedNames
<1>7. \A v \in fed : v \notin trainedOn
  BY <1>5 DEF Untrained
<1>8. ASSUME NEW v \in fed \ Residents PROVE v \in Last
  <2>1. PICK n \in DOMAIN uploads : uploads[n] = {v}
    OBVIOUS
  <2>2. n = Shared
    <3>1. n # Shared => n \in Residents /\ uploads[n] = {n}
      BY <1>5 DEF WithResidents, OrderInv, EnrolmentTypeOK
    <3> QED
      BY <1>8, <2>1, <3>1
  <2> QED
    BY <1>5, <2>1, <2>2 DEF FileIsLast
<1>9. ASSUME NEW v \in Last PROVE v \in fed \ Residents
  <2>1. Last = {v} /\ v \in Positions /\ v \notin Residents
    BY <1>6, <1>9, LastIsOne DEF OrderInv
  <2>2. PICK w \in fed : w \notin trainedOn
    BY <1>3
  <2>3. PICK n \in DOMAIN uploads : uploads[n] = {w}
    OBVIOUS
  <2>4. Shared \in DOMAIN uploads /\ uploads[Shared] = Last
    <3>1. CASE n = Shared
      BY <1>5, <2>3, <3>1 DEF FileIsLast
    <3>2. CASE n # Shared
      BY <1>4, <1>5, <2>1, <2>3, <3>2 DEF WithResidents
    <3> QED
      BY <3>1, <3>2
  <2> QED
    BY <1>6, <2>1, <2>4
<1> HIDE DEF fed
<1> QED
  BY <1>3, <1>7, <1>8, <1>9

\* However the requests of an enrolment come about and however many there are,
\* a training that was preceded by nothing but orderly handled requests is fed
\* the last video uploaded and no other player's (model_training_routes.py:
\* upload_video names every file alike, train_model).
THEOREM LastUpload == EnrolmentSpec => TrainsOnLastUpload
<1> DEFINE FedLast == (orderly' /\ trainedOn' # trainedOn) =>
                         (trainedOn' \ trainedOn) \ Residents = Last
<1>1. OrderInv /\ [EnrolmentNext]_enrolmentVars => [FedLast]_enrolmentVars
  BY TrainingFed
<1> QED
  BY <1>1, OrderInvariant, PTL DEF EnrolmentSpec, TrainsOnLastUpload, Last
-----------------------------------------------------------------------------
(* What TrainingServer promises, kept in the composition.                   *)

Training == INSTANCE TrainingServerProofs WITH
              Videos <- Positions \cup Residents,
              Images <- {},
              NameOf <- [v \in Positions \cup Residents |-> SavedAs(v)],
              Listed <- SavedNames,
              Order  <- SavedNames \X SavedNames

\* The constants the composition gives the server are ones it can have.
LEMMA ServerConstants ==
  /\ Training!KindsAssumption /\ Training!ListedAssumption /\ Training!OrderAssumption
  /\ Training!SightingsAssumption /\ Training!TrainingBoundsAssumption
<1> DEFINE Requests == Positions \cup Residents
           nameOf == [v \in Requests |-> SavedAs(v)]
<1>1. Training!VideoNames = SavedNames /\ Training!Requests = Requests
  BY DEF Training!VideoNames, Training!Requests, SavedNames
<1>2. IsFiniteSet(SavedNames)
  <2>1. SavedNames \subseteq Residents \cup {Shared}
    BY DEF SavedNames, SavedAs, NewFilename, Shared
  <2>2. IsFiniteSet(Residents \cup {Shared})
    BY FS_AddElement
  <2> QED
    BY <2>1, <2>2, FS_Subset
<1>3. Training!KindsAssumption
  <2>1. DOMAIN nameOf = Training!Requests /\ Requests \cap {} = {}
    BY <1>1
  <2>2. Training!IsFiniteSet(Training!VideoNames)
    BY <1>1, <1>2 DEF Training!IsFiniteSet, IsFiniteSet
  <2> QED
    BY <2>1, <2>2, Zenon DEF Training!KindsAssumption
<1>4. Training!OrderAssumption /\ Training!ListedAssumption
  BY <1>1 DEF Training!OrderAssumption, Training!ListedAssumption
<1> QED
  BY <1>3, <1>4 DEF Training!SightingsAssumption, Training!TrainingBoundsAssumption

\* The server of the composition and the one the theorems are about are one.
LEMMA SameServer ==
  /\ Server!Init => Training!Init
  /\ Server!Next => Training!Next
  /\ Server!trainingVars = Training!trainingVars
<1>1. Server!Init => Training!Init
  BY DEF Server!Init, Training!Init, Server!Requests, Training!Requests
<1>2. Server!trainingVars = Training!trainingVars
  BY DEF Server!trainingVars, Training!trainingVars, Server!datasetVars,
     Training!datasetVars, Server!historyVars, Training!historyVars
<1>3. Server!Next => Training!Next
  <2> USE DEF Server!Requests, Training!Requests, Server!Reading, Training!Reading,
          Server!datasetVars, Training!datasetVars, Server!historyVars, Training!historyVars
  <2>1. ASSUME NEW r PROVE Server!WriteBytes(r) => Training!WriteBytes(r)
    BY DEF Server!WriteBytes, Training!WriteBytes
  <2>2. ASSUME NEW r PROVE Server!Open(r) => Training!Open(r)
    BY DEF Server!Open, Training!Open, Server!SameFile, Training!SameFile
  <2>3. ASSUME NEW r PROVE Server!UploadVideo(r) => Training!UploadVideo(r)
    BY <2>1 DEF Server!UploadVideo, Training!UploadVideo, Server!reset_dataset_dir,
       Training!reset_dataset_dir
  <2>4. ASSUME NEW r PROVE Server!TestModel(r) => Training!TestModel(r)
    BY <2>1 DEF Server!TestModel, Training!TestModel, Server!test_model_logic,
       Training!test_model_logic
  <2>5. ASSUME NEW r PROVE Server!Fail(r) => Training!Fail(r)
    BY <2>1 DEF Server!Fail, Training!Fail, Server!PartOfReset, Training!PartOfReset
  <2>6. Server!Restart => Training!Restart
    BY DEF Server!Restart, Training!Restart
  <2>7. Server!train_model => Training!train_model
    <3>1. Server!VideoNames = Training!VideoNames
      BY DEF Server!VideoNames, Training!VideoNames
    <3>2. ASSUME NEW S PROVE Server!Cardinality(S) = Training!Cardinality(S)
      BY DEF Server!Cardinality, Training!Cardinality
    <3>3. /\ Server!VideoNames = Training!VideoNames
          /\ Server!Listings = Training!Listings
          /\ Server!FramesThere = Training!FramesThere
      BY <3>1, <3>2 DEF Server!Listings, Training!Listings,
         Server!FramesThere, Training!FramesThere
    <3>4. Server!Extractions = Training!Extractions
      BY <3>3 DEF Server!Extractions, Training!Extractions
    <3>5. ASSUME NEW extracted, NEW drawn, NEW seen
          PROVE  Server!Extract(extracted, drawn, seen) => Training!Extract(extracted, drawn, seen)
      BY DEF Server!Extract, Training!Extract, Server!At, Training!At, Server!ClassOf,
         Training!ClassOf
    <3>6. Server!process_videos => Training!process_videos
      BY <3>3, <3>4, <3>5 DEF Server!process_videos, Training!process_videos
    <3>7. Server!train_model_logic => Training!train_model_logic
      BY DEF Server!train_model_logic, Training!train_model_logic, Server!ClearsUploads,
         Training!ClearsUploads
    <3> QED
      BY <3>6, <3>7 DEF Server!train_model, Training!train_model
  <2> QED
    BY <2>2, <2>3, <2>4, <2>5, <2>6, <2>7 DEF Server!Next, Training!Next
<1> QED
  BY <1>1, <1>2, <1>3

\* Whatever the phone sends and the network loses, the server of the
\* composition does what TrainingServer may do with uploads that all have one
\* name (model_training_routes.py).
THEOREM ServerRefinement == EnrolmentSpec => Server!Spec
<1>1. EnrolmentInit => Server!Init
  BY DEF EnrolmentInit
<1>2. [EnrolmentNext]_enrolmentVars => [Server!Next]_(Server!trainingVars)
  <2> SUFFICES ASSUME [EnrolmentNext]_enrolmentVars PROVE [Server!Next]_(Server!trainingVars)
    OBVIOUS
  <2>1. \A k \in Positions : k \in Server!Requests
    BY DEF Server!Requests
  <2>2. UNCHANGED trainingVars => UNCHANGED Server!trainingVars
    BY DEF trainingVars, Server!trainingVars, Server!datasetVars, Server!historyVars
  <2>3. CASE PhoneStep
    BY <2>2, <2>3 DEF PhoneStep
  <2>4. CASE ~PhoneStep
    BY <2>1, <2>2, <2>4, EnrolmentSteps DEF UploadArrives, TrainArrives, Refused, Lost,
       ServerRestarts, enrolmentVars, Server!Next
  <2> QED
    BY <2>3, <2>4
<1> QED
  BY <1>1, <1>2, PTL DEF EnrolmentSpec, Server!Spec

\* So, with the enrolment around it, no answered upload vanishes untrained
\* unless another overwrote it, no frame is in two splits, and labels name the
\* file they come from.
THEOREM ServerPromises ==
  EnrolmentSpec =>
    [](Server!VideoAccounted /\ Server!OneSplitPerFrame /\ Server!LabelsNamePlayers)
<1>1. Server!Spec => Training!Spec
  <2>1. Server!Init => Training!Init
    BY SameServer
  <2>2. [Server!Next]_(Server!trainingVars) => [Training!Next]_(Training!trainingVars)
    BY SameServer DEF Server!trainingVars, Training!trainingVars, Server!datasetVars,
       Training!datasetVars, Server!historyVars, Training!historyVars
  <2> QED
    BY <2>1, <2>2, PTL DEF Server!Spec, Training!Spec
<1>2. Training!Spec => [](Training!VideoAccounted /\ Training!OneSplitPerFrame
                          /\ Training!LabelsNamePlayers)
  BY ServerConstants, Training!Accounting, Training!Separation, Training!Labelling, PTL
<1>3. /\ Training!VideoAccounted => Server!VideoAccounted
      /\ Training!OneSplitPerFrame => Server!OneSplitPerFrame
      /\ Training!LabelsNamePlayers => Server!LabelsNamePlayers
  BY DEF Training!VideoAccounted, Server!VideoAccounted, Training!OneSplitPerFrame,
     Server!OneSplitPerFrame, Training!LabelsNamePlayers, Server!LabelsNamePlayers,
     Training!Answered, Server!Answered, Training!Requests, Server!Requests
<1> QED
  BY <1>1, <1>2, <1>3, ServerRefinement, PTL
-----------------------------------------------------------------------------
(* The newest recording.                                                    *)

\* Of two uploads with a video, the later one has no older video.
FeedInv ==
  /\ sent \in Seq(Upload \cup {Train})
  /\ \A i, j \in DOMAIN sent :
       i < j /\ VideoOf(sent[j]) # NoVideo => VideoOf(sent[i]) <= VideoOf(sent[j])

LEMMA FeedInvariant == FeedSpec => []FeedInv
<1>1. FeedInit => FeedInv
  BY DEF FeedInit, FeedInv
<1>2. FeedInv /\ [FeedNext]_sent => FeedInv'
  <2> SUFFICES ASSUME FeedInv, NEW request \in Upload \cup {Train}, Send(request)
               PROVE  FeedInv'
    BY DEF FeedNext, FeedInv
  <2>1. /\ sent' \in Seq(Upload \cup {Train})
        /\ DOMAIN sent = 1..Len(sent) /\ DOMAIN sent' = 1..(Len(sent) + 1)
        /\ \A k \in DOMAIN sent : sent'[k] = sent[k]
        /\ sent'[Len(sent) + 1] = request /\ Len(sent) \in Nat
    BY DEF Send, FeedInv
  <2>2. \A k \in DOMAIN sent' : k \in DOMAIN sent \/ k = Len(sent) + 1
    BY <2>1
  <2>3. VideoOf(request) = NoVideo \/ \A k \in DOMAIN sent : VideoOf(sent[k]) <= VideoOf(request)
    BY DEF Send
  <2>4. ASSUME NEW i \in DOMAIN sent', NEW j \in DOMAIN sent', i < j,
               VideoOf(sent'[j]) # NoVideo
        PROVE  VideoOf(sent'[i]) <= VideoOf(sent'[j])
    <3>1. i \in DOMAIN sent
      BY <2>1, <2>4
    <3>2. CASE j \in DOMAIN sent
      BY <2>1, <2>4, <3>1, <3>2 DEF FeedInv
    <3>3. CASE j = Len(sent) + 1
      BY <2>1, <2>3, <2>4, <3>1, <3>3
    <3> QED
      BY <2>2, <3>2, <3>3
  <2> QED
    BY <2>1, <2>4 DEF FeedInv
<1> QED
  BY <1>1, <1>2, PTL DEF FeedSpec

\* The phone's part of the composition is the feed.
THEOREM PhoneRefinement == EnrolmentSpec => FeedSpec
<1>1. EnrolmentInit => FeedInit
  BY DEF EnrolmentInit
<1>2. [EnrolmentNext]_enrolmentVars => [FeedNext]_sent
  BY EnrolmentSteps DEF PhoneStep
<1> QED
  BY <1>1, <1>2, PTL DEF EnrolmentSpec, FeedSpec

\* Nor does the training that nothing disturbed use an old recording: no
\* upload that reached the server carried a newer one.
NewestTrained ==
  (orderly' /\ trainedOn' # trainedOn) =>
    \A v \in (trainedOn' \ trainedOn) \ Residents :
      \A j \in VideosSettled : sent[j].video <= sent[v].video

THEOREM NewestRecording == EnrolmentSpec => [][NewestTrained]_enrolmentVars
<1>1. OrderInv /\ FeedInv /\ [EnrolmentNext]_enrolmentVars => [NewestTrained]_enrolmentVars
  <2> SUFFICES ASSUME OrderInv, FeedInv, orderly', trainedOn' # trainedOn,
                      [EnrolmentNext]_enrolmentVars,
                      NEW v \in (trainedOn' \ trainedOn) \ Residents
               PROVE  \A j \in VideosSettled : sent[j].video <= sent[v].video
    BY DEF NewestTrained
  <2>1. v \in Last
    BY TrainingFed
  <2>2. ASSUME NEW j \in VideosSettled PROVE sent[j].video <= sent[v].video
    <3>1. /\ j \in DOMAIN sent /\ v \in DOMAIN sent /\ j <= v /\ j \in Nat /\ v \in Nat
          /\ sent[j] # Train /\ sent[v] # Train /\ sent[v].video # NoVideo
          /\ sent[v] \in Upload
      BY <2>1 DEF Last, VideosSettled, OrderInv, EnrolmentTypeOK
    <3>2. CASE j = v
      BY <3>1, <3>2 DEF Upload
    <3>3. CASE j # v
      BY <3>1, <3>3 DEF FeedInv, VideoOf
    <3> QED
      BY <3>2, <3>3
  <2> QED
    BY <2>2
<1> QED
  BY <1>1, OrderInvariant, PhoneRefinement, FeedInvariant, PTL DEF EnrolmentSpec
-----------------------------------------------------------------------------
(* The phone itself in place of what it promises.                           *)

serverSide == <<settled, trainingVars, orderly>>
systemVars == <<gameVars, serverSide>>

SystemNext ==
  \/ Next /\ UNCHANGED serverSide
  \/ /\ (\E k \in Positions : Settle(k) \/ UploadEnds(k)) \/ ServerRestarts
     /\ UNCHANGED gameVars

SystemSpec == Init /\ EnrolmentInit /\ [][SystemNext]_systemVars

\* The screens, the camera, the network and the server together do what
\* Enrolment says of any requests, and the phone what StartGame says of it.
THEOREM SystemRefinement == SystemSpec => Spec /\ EnrolmentSpec
<1>1. [SystemNext]_systemVars => [Next]_gameVars
  BY DEF SystemNext, systemVars
<1>2. SystemSpec => Spec
  BY <1>1, PTL DEF SystemSpec, Spec
<1>3. TypeOK /\ TypeOK' /\ SentInv /\ [SystemNext]_systemVars => [EnrolmentNext]_enrolmentVars
  <2> SUFFICES ASSUME TypeOK, TypeOK', SentInv, [SystemNext]_systemVars
               PROVE  [EnrolmentNext]_enrolmentVars
    OBVIOUS
  <2>1. CASE Next /\ UNCHANGED serverSide
    <3>1. CASE UNCHANGED sent
      BY <2>1, <3>1 DEF serverSide, enrolmentVars
    <3>2. CASE ~(UNCHANGED sent)
      <4>1. FeedNext
        BY <2>1, <3>2, FeedStep DEF Feed!FeedNext, FeedNext, Feed!Send, Send, Feed!VideoOf,
           VideoOf, Feed!NoVideo, NoVideo, Feed!Upload, Upload
      <4> QED
        BY <2>1, <4>1 DEF PhoneStep, EnrolmentNext, serverSide
    <3> QED
      BY <3>1, <3>2
  <2>2. CASE (\E k \in Positions : Settle(k) \/ UploadEnds(k)) \/ ServerRestarts
    BY <2>2 DEF EnrolmentNext
  <2>3. CASE UNCHANGED systemVars
    BY <2>3 DEF systemVars, serverSide, gameVars, enrolmentVars
  <2> QED
    BY <2>1, <2>2, <2>3 DEF SystemNext
<1> QED
  BY <1>2, <1>3, TypeInvariant, SentInvariant, PTL DEF SystemSpec, EnrolmentSpec

\* So of all players filmed and uploaded, with nothing lost or overtaken, a
\* training sees the last video uploaded, and none was filmed after it was.
THEOREM WholeEnrolment ==
  SystemSpec => TrainsOnLastUpload /\ [][NewestTrained]_enrolmentVars
BY SystemRefinement, LastUpload, NewestRecording, PTL
=============================================================================
