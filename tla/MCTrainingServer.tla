-------------------------- MODULE MCTrainingServer --------------------------
EXTENDS TrainingServer, TLC

CONSTANTS v1, v2, v3, t1, a, b, shot

\* Two videos of one player, one of another, and an image to test.
MCNameOf == v1 :> a @@ v2 :> a @@ v3 :> b @@ t1 :> shot

\* Any order, also another one when asked again.
MCAnyOrder == {a, b} \X {a, b}

\* Which of the two videos of one name comes first makes no difference.
Twins == Permutations({v1, v2})
=============================================================================
