----------------------------- MODULE MCMrpLink -----------------------------
EXTENDS MrpLink, TLC

\* Sound when both participants play the same role (Declarer = Node).
Symmetry == Permutations(Node)
=============================================================================
