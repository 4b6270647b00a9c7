---------------------------- MODULE MCGameUpload ----------------------------
(* Instances of GameUpload small enough for TLC. *)
EXTENDS GameUpload, TLC

CONSTANTS short, long

MCVideos == {short, long}
MCLength == (short :> 1) @@ (long :> 2)
=============================================================================
