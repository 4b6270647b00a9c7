----------------------------- MODULE WriteQueue -----------------------------
(***************************************************************************)
(* What Firestore promises an app that writes: each user has a queue of    *)
(* writes that outlives the process; a write settles, in its turn, as      *)
(* committed or rejected; and whoever waits for it is told so at most      *)
(* once, when its turn has come: as it leaves the queue, or just before,   *)
(* and then the process ends and the write settles again.                  *)
(***************************************************************************)
EXTENDS Naturals, Sequences

CONSTANTS Users, Writes

VARIABLES
  unsettled,     \* the queue of each user
  reported       \* what the app was told of each write

Results == {"none", "committed", "rejected"}

Init ==
  /\ unsettled = [u \in Users |-> <<>>]
  /\ reported = [w \in Writes |-> "none"]

Persist(u, w) ==
  /\ reported[w] = "none"
  /\ \A v \in Users : \A i \in DOMAIN unsettled[v] : unsettled[v][i] # w
  /\ unsettled' = [unsettled EXCEPT ![u] = Append(@, w)]
  /\ UNCHANGED reported

Report(u, result) ==
  /\ reported[Head(unsettled[u])] = "none"
  /\ reported' = [reported EXCEPT ![Head(unsettled[u])] = result]

\* After a restart nobody waits for the writes that were there before.
Settle(u) ==
  /\ unsettled[u] # <<>>
  /\ unsettled' = [unsettled EXCEPT ![u] = Tail(@)]
  /\ (\E result \in Results \ {"none"} : Report(u, result)) \/ UNCHANGED reported

\* Only a commit is told of before the write leaves the queue.
EndToldOfCommit(u) ==
  /\ unsettled[u] # <<>>
  /\ Report(u, "committed")
  /\ UNCHANGED unsettled

Next ==
  \E u \in Users : Settle(u) \/ EndToldOfCommit(u) \/ \E w \in Writes : Persist(u, w)

Spec == Init /\ [][Next]_<<unsettled, reported>>
=============================================================================
