------------------------------- MODULE MCAecp -------------------------------
(***************************************************************************)
(* Three controllers, so that a third one can come between the holder and  *)
(* the contender; pages of two bytes and writes shorter than a page, of a  *)
(* page, and longer with and without a rest.  The devices have as many     *)
(* sources as sinks, more, fewer and none, with channels that are shared   *)
(* evenly and that are not.                                                *)
(***************************************************************************)
EXTENDS Aecp

Device(sinks, sources, outputs, inputs) ==
  [sinks |-> sinks, sources |-> sources, outputs |-> outputs, inputs |-> inputs]

MCDevices == {Device(2, 2, 4, 3), Device(1, 2, 1, 2),
              Device(2, 1, 3, 1), Device(2, 0, 3, 0)}

MCIds == 0 .. 2

=============================================================================
