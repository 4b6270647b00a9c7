------------------------------ MODULE ClipFeed ------------------------------
(***************************************************************************)
(* What the live view promises to whoever receives its clips: a feed of    *)
(* clips of N frames.  The frames of the feed are in capture order, no     *)
(* frame is sent twice, and within a clip only the first frame can belong  *)
(* to another sending session than the rest.                               *)
(***************************************************************************)
EXTENDS Naturals, Sequences

CONSTANT N

VARIABLE feed

IsClip(clip) ==
  /\ Len(clip) = N
  /\ \A i, j \in 1..N : i < j => clip[i].seq < clip[j].seq
  /\ \A i, j \in 2..N : clip[i].session = clip[j].session

Newer(clip) ==
  \A k \in 1..Len(feed) : \A i, j \in 1..N : feed[k][i].seq < clip[j].seq

Emit(clip) ==
  /\ IsClip(clip)
  /\ Newer(clip)
  /\ feed' = Append(feed, clip)

Init == feed = <<>>

Next == feed' # <<>> /\ Emit(feed'[Len(feed')])

Spec == Init /\ [][Next]_feed
=============================================================================
