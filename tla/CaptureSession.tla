--------------------------- MODULE CaptureSession ---------------------------
(***************************************************************************)
(* The AVCaptureSession both camera models of the app drive.  A session    *)
(* has at most one camera input, and runs or does not.  AVFoundation is    *)
(* asked, never trusted: every request may be refused, so an operation     *)
(* is the SET of sessions it can leave behind.                             *)
(***************************************************************************)

Inputs == {"none", "front", "back"}

Session == [input: Inputs, running: BOOLEAN]

Idle == [input |-> "none", running |-> FALSE]

\* setup(): no device or no input leaves the session as it was; a refused
\* output leaves a camera that never runs.  A session that has an input
\* refuses a second one, and then setup returns before startRunning().
SetupResults(s) ==
  {s} \cup IF s.input = "none"
             THEN {[s EXCEPT !.input = "front"], [input |-> "front", running |-> TRUE]}
             ELSE {}

\* switchCamera(): the current input is removed first, so any failure to add
\* the other camera leaves the session without a camera.
Opposite(input) == IF input = "back" THEN "front" ELSE "back"

SwitchResults(s) ==
  IF s.input = "none"
    THEN {s}
    ELSE {[s EXCEPT !.input = "none"], [s EXCEPT !.input = Opposite(s.input)]}

Delivers(s) == s.running /\ s.input # "none"
=============================================================================
