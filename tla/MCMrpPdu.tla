------------------------------ MODULE MCMrpPdu ------------------------------
(***************************************************************************)
(* Two inventories, in the order in which their slots are taken: five      *)
(* listeners of consecutive streams, whose events need two bytes of each   *)
(* packing, and a device with the domain, a VLAN, two talkers that merge   *)
(* and two listeners.                                                      *)
(***************************************************************************)
EXTENDS MrpPdu

Attribute(type, id) ==
  [type |-> type, id |-> id, dest |-> IF type = "ADVERTISE" THEN id + 100 ELSE 0,
   vlan |-> 0, size |-> IF type = "ADVERTISE" THEN 224 ELSE 0]

Listeners == [a \in 1 .. 5 |-> Attribute("LISTENER", <<3, 5, 1, 4, 2>>[a])]

Device == <<Attribute("DOMAIN", 6), Attribute("VID", 2), Attribute("ADVERTISE", 1),
            [Attribute("ADVERTISE", 2) EXCEPT !.vlan = 2],
            Attribute("LISTENER", 9), Attribute("LISTENER", 8)>>

MCInventories == {Listeners, Device}

=============================================================================
