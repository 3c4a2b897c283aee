----------------------------- MODULE MCAudioFifo -----------------------------
EXTENDS AudioFifo

MCDiffs == {-1, 2}

=============================================================================
