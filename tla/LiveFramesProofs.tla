-------------------------- MODULE LiveFramesProofs --------------------------
(***************************************************************************)
(* Proofs about LiveFrames, for every set of requests and batch size.      *)
(***************************************************************************)
EXTENDS LiveFrames, TLAPS

\* What the clients may do beside the server: they send more.
Sends == sent \subseteq sent'

\* Every step of the server keeps the types, whatever its clients send; stated
\* apart from LiveSpec for the compositions that instantiate the server.
LEMMA TypeStep ==
  ASSUME LiveBatchSize, LiveTypeOK, Sends, ServerStep \/ Restart \/ UNCHANGED serverVars
  PROVE  LiveTypeOK'
<1> USE DEF LiveBatchSize, LiveTypeOK, Running, Sends
<1>1. ASSUME NEW r \in Requests, Lose(r) PROVE LiveTypeOK'
  BY <1>1 DEF Lose
<1>2. ASSUME NEW r \in Requests, UploadClips(r) PROVE LiveTypeOK'
  BY <1>2 DEF UploadClips, Truncated, Files
<1>3. ASSUME NEW r \in Requests, WriteFile(r) PROVE LiveTypeOK'
  <2>1. handlers[r] + 1 \in Files /\ handlers[r] \in Files
    BY <1>3 DEF WriteFile, Files
  <2> QED
    BY <1>3, <2>1 DEF WriteFile, Written, Truncated, NextFile
<1>4. ASSUME NEW r \in Requests, Answer(r) PROVE LiveTypeOK'
  BY <1>4 DEF Answer, Written, Without, Files
<1>5. ASSUME NEW r \in Requests, Fail(r) PROVE LiveTypeOK'
  <2>1. handlers[r] \in Files /\ r \in taken
    BY <1>5 DEF Fail
  <2>2. \A bytes \in Written(r, handlers[r]) \cup {live[handlers[r]]} : bytes \subseteq taken
    BY <2>1 DEF Written
  <2>3. live' \in [Files -> SUBSET taken]
    BY <1>5, <2>1, <2>2 DEF Fail
  <2> QED
    BY <1>5, <2>3 DEF Fail, Without
<1>6. CASE Restart
  BY <1>6 DEF Restart
<1>7. CASE UNCHANGED serverVars
  BY <1>7 DEF serverVars
<1> QED
  BY <1>1, <1>2, <1>3, <1>4, <1>5, <1>6, <1>7 DEF ServerStep

\* A step of this module is a step of the server, or the clients send.
LEMMA StepKinds ==
  ASSUME LiveTypeOK, [LiveNext]_liveVars
  PROVE  Sends /\ (ServerStep \/ Restart \/ UNCHANGED serverVars)
BY DEF LiveTypeOK, LiveNext, ServerNext, Send, liveVars, Sends

\* Files, handlers and answers are of their types (model_training_routes.py:
\* upload_clips): only a request that was sent is handled, and one that was
\* answered is no longer running.
THEOREM LiveType ==
  ASSUME LiveBatchSize PROVE LiveSpec => []LiveTypeOK
<1>1. Init => LiveTypeOK
  BY DEF Init, LiveInit, LiveTypeOK, Files, Running, LiveBatchSize
<1>2. LiveTypeOK /\ [LiveNext]_liveVars => LiveTypeOK'
  BY TypeStep, StepKinds
<1> QED
  BY <1>1, <1>2, PTL DEF LiveSpec

\* What an undisturbed handler has written so far is its own frames, intact;
\* it is the only handler; and none runs while the last clip is whole.
WholeInv ==
  /\ \A r \in undisturbed : \A i \in Files : i < handlers[r] => live[i] = {r}
  /\ \A r \in undisturbed : Running = {r}
  /\ \A r \in undisturbed : live[handlers[r]] = {}
  /\ whole # {} => Running = {}
  /\ WholeClip

\* Every step of the server keeps that.
LEMMA WholeStep ==
  ASSUME LiveBatchSize, LiveTypeOK, LiveTypeOK', WholeInv,
         ServerStep \/ Restart \/ UNCHANGED serverVars
  PROVE  WholeInv'
<1> USE DEF LiveBatchSize, WholeInv, WholeClip, Running
<1>1. ASSUME NEW r \in Requests, Lose(r) PROVE WholeInv'
  BY <1>1 DEF Lose
<1>2. ASSUME NEW r \in Requests, UploadClips(r) PROVE WholeInv'
  <2>1. undisturbed' \subseteq {r} /\ whole' = {} /\ handlers'[r] = 1 /\ 1 \in Files
    BY <1>2 DEF UploadClips, Files
  <2>2. undisturbed' # {} => DOMAIN handlers' = {r}
    BY <1>2 DEF UploadClips
  <2>3. live'[1] = {} /\ \A i \in Files : ~(i < 1)
    BY <1>2, <2>1 DEF UploadClips, LiveTypeOK, Truncated, Files
  <2> QED
    BY <2>1, <2>2, <2>3
<1>3. ASSUME NEW r \in Requests, WriteFile(r) PROVE WholeInv'
  <2> DEFINE h == handlers[r]
  <2>1. whole = {} /\ whole' = {} /\ undisturbed' = undisturbed /\ Running' = Running
    BY <1>3 DEF WriteFile, LiveTypeOK
  <2>2. h \in Files /\ h + 1 \in Files /\ handlers' = [handlers EXCEPT ![r] = h + 1]
    BY <1>3 DEF WriteFile, LiveTypeOK, Files, NextFile
  <2>3. PICK bytes \in Written(r, h) :
          live' = [live EXCEPT ![h] = bytes, ![h + 1] = {}]
    BY <1>3 DEF WriteFile, Truncated, NextFile
  <2>4. ASSUME NEW q \in undisturbed
        PROVE  /\ q = r /\ handlers'[q] = h + 1 /\ bytes = {q}
               /\ live'[h + 1] = {} /\ live'[h] = {q}
               /\ \A i \in Files : i < h => live'[i] = {q}
    <3>1. q = r /\ handlers'[q] = h + 1
      <4>1. r \in DOMAIN handlers /\ DOMAIN handlers = {q}
        BY <1>3, <2>4 DEF WriteFile
      <4>2. q = r
        BY <4>1
      <4> HIDE DEF h
      <4> QED
        BY <2>2, <4>1, <4>2
    <3>2. bytes = {q}
      BY <2>3, <2>4, <3>1 DEF Written
    <3>3. h # h + 1 /\ \A i \in Files : i < h => (i # h /\ i # h + 1)
      BY <2>2 DEF Files
    <3>4. live'[h + 1] = {} /\ live'[h] = {q}
      BY <2>2, <2>3, <3>2, <3>3 DEF LiveTypeOK
    <3>5. \A i \in Files : i < h => live'[i] = {q}
      BY <2>2, <2>3, <2>4, <3>1, <3>3 DEF LiveTypeOK
    <3> QED
      BY <3>1, <3>2, <3>4, <3>5
  <2>5. \A i \in Files : i < h + 1 => (i < h \/ i = h)
    BY <2>2 DEF Files
  <2> HIDE DEF h
  <2>6. \A q \in undisturbed' : \A i \in Files : i < handlers'[q] => live'[i] = {q}
    BY <2>1, <2>4, <2>5
  <2>7. \A q \in undisturbed' : Running' = {q} /\ live'[handlers'[q]] = {}
    BY <2>1, <2>4
  <2> QED
    BY <2>1, <2>6, <2>7
<1>4. ASSUME NEW r \in Requests, Answer(r) PROVE WholeInv'
  <2>1. undisturbed' = undisturbed \ {r} /\ whole' = undisturbed \cap {r}
        /\ Running' = Running \ {r} /\ handlers[r] = BatchSize /\ BatchSize \in Files
    BY <1>4 DEF Answer, Without, Files
  <2>2. undisturbed' = {}
    <3>1. ASSUME NEW q \in undisturbed PROVE q = r
      <4>1. r \in DOMAIN handlers /\ DOMAIN handlers = {q}
        BY <1>4, <3>1 DEF Answer
      <4> QED
        BY <4>1
    <3> QED
      BY <2>1, <3>1
  <2>3. PICK bytes \in Written(r, BatchSize) : live' = [live EXCEPT ![BatchSize] = bytes]
    BY <1>4 DEF Answer
  <2>4. ASSUME r \in undisturbed
        PROVE  Running' = {} /\ \A i \in Files : live'[i] = {r}
    <3>1. bytes = {r}
      <4>1. live[BatchSize] = {}
        BY <2>1, <2>4
      <4>2. PICK rest \in SUBSET live[BatchSize] : bytes = {r} \cup rest
        BY <2>3 DEF Written
      <4> QED
        BY <4>1, <4>2
    <3>2. \A i \in Files : i = BatchSize \/ i < BatchSize
      BY DEF Files
    <3>3. \A i \in Files : i < BatchSize => live'[i] = live[i] /\ live[i] = {r}
      BY <2>1, <2>3, <2>4 DEF LiveTypeOK, Files
    <3>4. live'[BatchSize] = {r}
      BY <2>1, <2>3, <3>1 DEF LiveTypeOK
    <3>5. Running' = {}
      BY <2>1, <2>4
    <3> QED
      BY <3>2, <3>3, <3>4, <3>5
  <2> QED
    BY <2>1, <2>2, <2>4
<1>5. ASSUME NEW r \in Requests, Fail(r) PROVE WholeInv'
  <2>1. undisturbed' = undisturbed \ {r} /\ whole' = whole
    BY <1>5 DEF Fail
  <2>2. undisturbed' = {}
    <3>1. ASSUME NEW q \in undisturbed PROVE q = r
      <4>1. r \in DOMAIN handlers /\ DOMAIN handlers = {q}
        BY <1>5, <3>1 DEF Fail
      <4> QED
        BY <4>1
    <3> QED
      BY <2>1, <3>1
  <2>3. whole = {}
    <3>1. r \in DOMAIN handlers
      BY <1>5 DEF Fail
    <3> QED
      BY <3>1
  <2> QED
    BY <2>1, <2>2, <2>3
<1>6. CASE Restart
  BY <1>6 DEF Restart
<1>7. CASE UNCHANGED serverVars
  BY <1>7 DEF serverVars
<1> QED
  BY <1>1, <1>2, <1>3, <1>4, <1>5, <1>6, <1>7 DEF ServerStep

\* A request no other handler ran beside leaves exactly its own frames
\* (model_training_routes.py: upload_clips).
THEOREM Wholeness ==
  ASSUME LiveBatchSize PROVE LiveSpec => []WholeClip
<1>1. Init => WholeInv
  BY DEF Init, LiveInit, WholeInv, WholeClip
<1>2. LiveTypeOK /\ LiveTypeOK' /\ WholeInv /\ [LiveNext]_liveVars => WholeInv'
  BY WholeStep, StepKinds
<1>3. WholeInv => WholeClip
  BY DEF WholeInv
<1> QED
  BY <1>1, <1>2, <1>3, LiveType, PTL DEF LiveSpec
=============================================================================
