----------------------------- MODULE ClipStream -----------------------------
(***************************************************************************)
(* The live view and the server together: the batches ClipCamera hands to  *)
(* URLSession are the requests LiveFrames handles, each named by its       *)
(* position in the order the batches were cut.  Requests travel on their   *)
(* own connections: they arrive in any order, and some do not arrive.      *)
(***************************************************************************)
EXTENDS ClipCamera

VARIABLES taken, handlers, live, answered, undisturbed, whole

Server == INSTANCE LiveFrames WITH Requests <- 1..MaxBatches

serverVars == <<taken, handlers, live, answered, undisturbed, whole>>
clipVars == <<vars, serverVars>>

StreamInit == Init /\ Server!LiveInit

PhoneStep  == Next /\ UNCHANGED serverVars
ServerStep == Server!ServerNext /\ UNCHANGED vars

\* The network: a request given to URLSession arrives or is given up.
Settle(k) == (Server!Lose(k) \/ Server!UploadClips(k)) /\ UNCHANGED vars

StreamSpec ==
  /\ StreamInit
  /\ [][PhoneStep \/ ServerStep]_clipVars
  /\ WF_clipVars(ClearFrameBuffer /\ UNCHANGED serverVars)
  /\ WF_clipVars((ConversionFails \/ QueueAppend) /\ UNCHANGED serverVars)
  /\ WF_clipVars((RunAppend \/ RunClear) /\ UNCHANGED serverVars)
  /\ \A k \in 1..MaxBatches :
       /\ WF_clipVars(SendFrames(k) /\ UNCHANGED serverVars)
       /\ WF_clipVars(Settle(k))
       /\ WF_clipVars(Server!Resume(k) /\ UNCHANGED vars)
-----------------------------------------------------------------------------
\* A request no other handler ran beside leaves exactly its frames in
\* live_frames, until the next one starts.
WholeClip == Server!WholeClip

\* When the last request to reach the server ran undisturbed, live_frames is
\* one clip: its frames were captured in the order of their file names, and
\* all but the first come from one sending session.
ClipOnDisk ==
  \A k \in whole :
    LET OnDisk(i) == dispatched[CHOOSE r \in live[i] : TRUE][i]
    IN  /\ \A i \in 1..BatchSize : live[i] # {}
        /\ \A i, j \in 1..BatchSize : i < j => OnDisk(i).seq < OnDisk(j).seq
        /\ \A i, j \in 2..BatchSize : OnDisk(i).session = OnDisk(j).session

\* Every batch cut settles: it is lost, or its handler has ended; the phone
\* and the server never keep one for ever, whatever the user does meanwhile.
EveryBatchSettles ==
  \A k \in 1..MaxBatches :
    (k <= Len(dispatched)) ~> (k \in taken /\ k \notin DOMAIN handlers)
=============================================================================
