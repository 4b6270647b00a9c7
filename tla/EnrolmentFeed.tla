--------------------------- MODULE EnrolmentFeed ---------------------------
(***************************************************************************)
(* What the enrolment of players (StartGame) promises the server: a        *)
(* sequence of uploads and trainings, in any order, where the videos       *)
(* uploaded never go back to an earlier recording.                         *)
(***************************************************************************)
EXTENDS EnrolmentRequests

\* A training has no video either.
VideoOf(request) == IF request = Train THEN NoVideo ELSE request.video

FeedInit == sent = <<>>

Send(request) ==
  /\ Len(sent) < MaxRequests
  /\ VideoOf(request) = NoVideo \/ \A k \in DOMAIN sent : VideoOf(sent[k]) <= VideoOf(request)
  /\ sent' = Append(sent, request)

FeedNext == \E request \in Upload \cup {Train} : Send(request)

FeedSpec == FeedInit /\ [][FeedNext]_sent
=============================================================================
