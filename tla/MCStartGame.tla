---------------------------- MODULE MCStartGame ----------------------------
EXTENDS StartGame, TLC

\* No definition tells two names apart.
MCSymmetry == Permutations(Names)
=============================================================================
