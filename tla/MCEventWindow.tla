--------------------------- MODULE MCEventWindow ---------------------------
EXTENDS EventWindow, TLC

\* Frames with no ball, and with one or two, near nobody, one player or
\* several, at the rim or not: every outcome of the two detectors, and ties.
MCBalls == [near: {<<>>} \cup {<<p>> : p \in Players} \cup {<<p, q>> : p, q \in Players},
            atRim: BOOLEAN]

MCDetections ==
  {<<>>} \cup {<<b>> : b \in MCBalls}
         \cup {<<b, c>> : b \in {x \in MCBalls : Len(x.near) = 0},
                          c \in {x \in MCBalls : Len(x.near) = 1}}

\* No definition tells two players apart.
MCSymmetry == Permutations(Players)
=============================================================================
