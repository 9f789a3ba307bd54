-------------------------- MODULE MCLossyElection --------------------------
\* LossyElection for TLC.
EXTENDS LossyElection, TLC

SlaveSymmetry == Permutations(Slaves)
=============================================================================
