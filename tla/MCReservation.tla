--------------------------- MODULE MCReservation ---------------------------
EXTENDS Reservation

MCConfigs == {[inputs |-> {1}, size |-> 1], [inputs |-> {1}, size |-> 2]}
TwoInputs == {[inputs |-> {1}, size |-> 1], [inputs |-> {2}, size |-> 1]}
=============================================================================
