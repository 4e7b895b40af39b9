---------------------------- MODULE MCReproStore ----------------------------
EXTENDS ReproStore, TLC

\* The commands are alike.
Symmetry == Permutations(Procs)
=============================================================================
