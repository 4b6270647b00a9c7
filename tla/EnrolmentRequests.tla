------------------------- MODULE EnrolmentRequests -------------------------
(***************************************************************************)
(* The requests the enrolment of players hands to URLSession: uploads of a *)
(* player's video, and trainings.                                          *)
(***************************************************************************)
EXTENDS Naturals, Sequences

CONSTANTS
  Names,         \* what can be typed as a name
  Train,         \* the request to train
  MaxRecordings, \* bound: recordings started while the app lives
  MaxRequests    \* bound: requests sent

ASSUME RequestBoundsAssumption == MaxRecordings \in Nat /\ MaxRequests \in Nat

NoVideo == 0

\* An upload that lost its file on the phone has no video.
Upload == [player: Names, team: {"A", "B"}, video: 0..MaxRecordings]

ASSUME TrainAssumption == Train \notin Upload

VARIABLE sent    \* requests handed to URLSession
=============================================================================
