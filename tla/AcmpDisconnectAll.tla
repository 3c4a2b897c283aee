------------------------- MODULE AcmpDisconnectAll -------------------------
(***************************************************************************)
(* Connection management with a talker application that also calls         *)
(* avb_1722_1_controller_disconnect_all_listeners (avb_1722_1_acmp.c), the *)
(* entity acting as the controller of its own listeners.                   *)
(***************************************************************************)
EXTENDS Acmp

\* avb_1722_1_controller_disconnect_all_listeners: one DISCONNECT_RX per occupied slot,
\* with the index of the slot where the listener's unique id belongs.
DisconnectAll(s) ==
  LET used == SelectSeq([k \in 1..MaxListeners |-> k - 1], LAMBDA i : list[s][i] # None)
      sent == [k \in 1..Len(used) |->
                 [type |-> "DISCONNECT_RX", stream |-> s, port |-> <<list[s][used[k]][1], used[k]>>,
                  seq |-> Len(issued) + k, status |-> "SUCCESS", classB |-> FALSE]]
  IN /\ count[s] > 0
     /\ Len(issued) + Len(used) \in Ids
     /\ Patient => open = {}
     /\ issued' = issued \o [k \in 1..Len(used) |-> sent[k].port[1]]
     /\ open' = open \cup {sent[k].seq : k \in 1..Len(used)}
     /\ inbox' = [e \in Entity |->
                    inbox[e] \o SelectSeq(sent, LAMBDA msg : msg.port[1] = e)]
     /\ UNCHANGED <<talkerVars, listenerVars, answers, lost>>

NextAll == Next \/ \E s \in Stream : DisconnectAll(s)

SpecAll == Init /\ [][NextAll]_vars

FairSpecAll == SpecAll /\ Fairness

-----------------------------------------------------------------------------
\* "Disconnect all Listener sinks currently connected to the Talker stream source"
\* (avb_1722_1_acmp.h): each listed sink is sent a disconnect command.
DisconnectAllReaches ==
  [][\A s \in Stream : DisconnectAll(s) =>
       \A p \in Port : Listed(s, p) # {} =>
         \E i \in DOMAIN inbox'[p[1]] :
           inbox'[p[1]][i].type = "DISCONNECT_RX" /\ inbox'[p[1]][i].port = p]_vars

=============================================================================
