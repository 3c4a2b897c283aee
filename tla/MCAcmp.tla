------------------------------- MODULE MCAcmp -------------------------------
EXTENDS Acmp, TLC

CONSTANTS t1, l1, l2

Symmetry == Permutations({l1, l2})
=============================================================================
