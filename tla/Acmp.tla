-------------------------------- MODULE Acmp --------------------------------
(***************************************************************************)
(* Connection management (ACMP) of avb_1722_1_acmp.c and                   *)
(* avb_1722_1_acmp_periodic.xc: controllers ask a listener to connect one  *)
(* of its sinks to a stream of a talker; the listener asks the talker,     *)
(* retries once, and answers the controller.  Every entity has one state   *)
(* machine: a packet that arrives in WAITING is stored for the next        *)
(* periodic pass, any other packet is dropped.  Talkers and listeners are  *)
(* different entities, so the local loopback of acmp_send_command finds    *)
(* nobody.  Fast connect, off by default, is left out.                     *)
(***************************************************************************)
EXTENDS Integers, Sequences, FiniteSets

CONSTANTS
  Talker, Listener, \* entities, by GUID
  SourceIds,        \* valid talker unique ids: 0..AVB_1722_1_MAX_TALKERS-1
  SinkIds,          \* valid listener unique ids: 0..AVB_1722_1_MAX_LISTENERS-1
  OtherIds,         \* unique ids out of range
  Types,            \* the commands controllers send
  ClassB,           \* the commands that may carry the CLASS_B flag
  MaxListeners,     \* AVB_1722_1_MAX_LISTENERS_PER_TALKER
  MaxInflight,      \* AVB_1722_1_MAX_INFLIGHT_COMMANDS
  MaxCommands,      \* how many commands the controllers send
  MaxLost,          \* how many packets the network may lose
  Patient           \* TRUE if nobody times out while an answer can still come

RxCommands == {"CONNECT_RX", "DISCONNECT_RX", "GET_RX_STATE"}
TxGets     == {"GET_TX_STATE", "GET_TX_CONNECTION"}
TxCommands == {"CONNECT_TX", "DISCONNECT_TX"}
Responses  == {"CONNECT_TX_RESPONSE", "DISCONNECT_TX_RESPONSE"}
Statuses   == {"SUCCESS", "LISTENER_UNKNOWN_ID", "TALKER_UNKNOWN_ID", "EXCLUSIVE",
               "NOT_CONNECTED", "TALKER_TIMEOUT", "INCOMPATIBLE_REQUEST",
               "STATE_UNAVAILABLE", "NO_SUCH_CONNECTION"}

ASSUME AcmpAssumption ==
  /\ Talker \cap Listener = {}
  /\ SourceIds \subseteq Nat /\ SinkIds \subseteq Nat
  /\ OtherIds \subseteq Nat /\ OtherIds \cap (SourceIds \cup SinkIds) = {}
  /\ Types \subseteq RxCommands \cup TxGets
  /\ ClassB \subseteq Nat
  /\ MaxListeners \in Nat \ {0} /\ MaxInflight \in Nat \ {0}
  /\ MaxCommands \in Nat /\ MaxLost \in Nat
  /\ Patient \in BOOLEAN

Entity  == Talker \cup Listener
Stream  == Talker \X SourceIds
Port    == Listener \X SinkIds
AnyStream == Talker \X (SourceIds \cup OtherIds)
AnyPort   == Listener \X (SinkIds \cup OtherIds)
Slots   == 0..(MaxListeners - 1)
Flights == 0..(MaxInflight - 1)
Ids     == 1..MaxCommands
None    == <<>>

VARIABLES
  talker,           \* acmp_talker_state, and acmp_talker_rcvd_cmd_resp while it is pending
  list,             \* connected_listeners of acmp_talker_streams
  count,            \* connection_count of acmp_talker_streams
  source,           \* the source state kept by the AVB manager
  listener,         \* acmp_listener_state, rcvd_cmd_resp, timeout index, sequence_id
  record,           \* acmp_listener_streams: the stream a sink is connected to
  sink,             \* the stream a sink of the AVB manager receives, None if DISABLED
  inflight,         \* acmp_listener_inflight_commands
  inbox,            \* packets on their way to an entity, in order
  issued,           \* the listener each command was sent to, by its sequence id
  answers,          \* the statuses each command was answered with
  open,             \* commands a controller still waits for
  lost              \* packets lost so far

talkerVars   == <<talker, list, count, source>>
listenerVars == <<listener, record, sink, inflight>>
controlVars  == <<issued, answers, open>>
vars == <<talkerVars, listenerVars, controlVars, inbox, lost>>

Message ==
  [type : RxCommands \cup TxGets \cup TxCommands \cup Responses,
   stream : AnyStream, port : AnyPort, seq : Nat, status : Statuses, classB : BOOLEAN]

\* An inflight command in use: the command sent, with its current sequence id, and
\* the sequence id of the controller's command it answers.
Flight == [cmd : Message, original : Ids, retried : BOOLEAN]

\* A state machine that waits for a packet: what it received before is dead.
TalkerWaiting == [state |-> "WAITING", cmd |-> None]
ListenerWaiting(seq) == [state |-> "WAITING", cmd |-> None, idx |-> 0, seq |-> seq]

Init ==
  /\ talker = [t \in Talker |-> [state |-> "IDLE", cmd |-> None]]
  /\ list = [s \in Stream |-> [i \in Slots |-> None]]
  /\ count = [s \in Stream |-> 0]
  /\ source = [s \in Stream |-> "DISABLED"]
  /\ listener = [l \in Listener |-> ListenerWaiting(0)]
  /\ record = [p \in Port |-> None]
  /\ sink = [p \in Port |-> None]
  /\ inflight = [l \in Listener |-> [i \in Flights |-> None]]
  /\ inbox = [e \in Entity |-> <<>>]
  /\ issued = <<>>
  /\ answers = [c \in Ids |-> <<>>]
  /\ open = {}
  /\ lost = 0

First(S) == CHOOSE i \in S : \A j \in S : i <= j

Deliver(boxes, e, msg) == [boxes EXCEPT ![e] = Append(@, msg)]
Take(e) == [inbox EXCEPT ![e] = Tail(@)]

-----------------------------------------------------------------------------
(***************************************************************************)
(* Talker                                                                  *)
(***************************************************************************)
\* avb_talker_on_source_address_reserved: acmp_talker_init() whatever is pending.
AddressReserved(t) ==
  /\ talker' = [talker EXCEPT ![t] = TalkerWaiting]
  /\ UNCHANGED <<list, count, source, listenerVars, controlVars, inbox, lost>>

TalkerReceive(t) ==
  /\ inbox[t] # <<>>
  /\ inbox' = Take(t)
  /\ talker' = IF talker[t].state = "WAITING"
               THEN [talker EXCEPT ![t] = [state |-> Head(inbox[t]).type, cmd |-> Head(inbox[t])]]
               ELSE talker
  /\ UNCHANGED <<list, count, source, listenerVars, controlVars, lost>>

\* acmp_add_talker_stream_info and acmp_remove_talker_stream_info.
Listed(s, p) == {i \in Slots : list[s][i] = p}
FreeSlots(s) == {i \in Slots : list[s][i] = None}

AddTalkerStreamInfo(s, p) ==
  IF Listed(s, p) # {} \/ FreeSlots(s) = {}
  THEN UNCHANGED <<list, count>>
  ELSE /\ list' = [list EXCEPT ![s][First(FreeSlots(s))] = p]
       /\ count' = [count EXCEPT ![s] = @ + 1]

\* Mutant: the connection count is not decremented.
RemoveTalkerStreamInfoOnly(s, p) ==
  IF Listed(s, p) = {}
  THEN UNCHANGED <<list, count>>
  ELSE list' = [list EXCEPT ![s][First(Listed(s, p))] = None] /\ UNCHANGED count

RemoveTalkerStreamInfo(s, p) ==
  IF Listed(s, p) = {}
  THEN UNCHANGED <<list, count>>
  ELSE /\ list' = [list EXCEPT ![s][First(Listed(s, p))] = None]
       /\ count' = [count EXCEPT ![s] = @ - 1]

\* acmp_send_response of a TX response to the listener that sent the command.
TalkerResponds(t, status) ==
  LET cmd == talker[t].cmd
  IN /\ inbox' = Deliver(inbox, cmd.port[1],
                   [cmd EXCEPT !.type = IF cmd.type = "CONNECT_TX" THEN "CONNECT_TX_RESPONSE"
                                        ELSE "DISCONNECT_TX_RESPONSE",
                               !.status = status])
     /\ talker' = [talker EXCEPT ![t] = TalkerWaiting]

\* The application hooks: the first listener registers the stream, the last one
\* leaving disables it.
TalkerOnListenerConnect(s) ==
  source' = [source EXCEPT ![s] = IF @ = "DISABLED" THEN "POTENTIAL" ELSE @]
TalkerOnListenerDisconnect(s, connections) ==
  source' = [source EXCEPT ![s] = IF connections = 0 THEN "DISABLED" ELSE @]

TalkerConnect(t) ==
  LET cmd == talker[t].cmd
  IN /\ talker[t].state = "CONNECT_TX"
     /\ IF cmd.stream \notin Stream
        THEN /\ TalkerResponds(t, "TALKER_UNKNOWN_ID")
             /\ UNCHANGED <<list, count, source>>
        ELSE /\ AddTalkerStreamInfo(cmd.stream, cmd.port)
             /\ TalkerOnListenerConnect(cmd.stream)
             /\ TalkerResponds(t, "SUCCESS")
     /\ UNCHANGED <<listenerVars, controlVars, lost>>

TalkerDisconnect(t) ==
  LET cmd == talker[t].cmd
  IN /\ talker[t].state = "DISCONNECT_TX"
     /\ IF cmd.stream \notin Stream
        THEN /\ TalkerResponds(t, "TALKER_UNKNOWN_ID")
             /\ UNCHANGED <<list, count, source>>
        ELSE /\ RemoveTalkerStreamInfo(cmd.stream, cmd.port)
             /\ TalkerOnListenerDisconnect(cmd.stream, count'[cmd.stream])
             /\ TalkerResponds(t, "SUCCESS")
     /\ UNCHANGED <<listenerVars, controlVars, lost>>

-----------------------------------------------------------------------------
(***************************************************************************)
(* Controllers                                                             *)
(***************************************************************************)
\* An RX response, or a GET_TX response, reaches the controller.
Answer(c, status) ==
  /\ answers' = [answers EXCEPT ![c] = Append(@, status)]
  /\ open' = open \ {c}
  /\ UNCHANGED issued

\* acmp_talker_get_state and acmp_talker_get_connection read the table; the
\* connection asked for is any slot, or none of them.
TalkerGetState(s) == {"SUCCESS"}
TalkerGetConnection(s) ==
  {"STATE_UNAVAILABLE"} \cup
  {IF list[s][i] = None THEN "NO_SUCH_CONNECTION" ELSE "SUCCESS" : i \in Slots}

TalkerGet(t) ==
  LET cmd == talker[t].cmd
  IN /\ talker[t].state \in TxGets
     /\ talker' = [talker EXCEPT ![t] = TalkerWaiting]
     /\ \E status \in IF cmd.stream \notin Stream THEN {"TALKER_UNKNOWN_ID"}
                      ELSE IF cmd.type = "GET_TX_STATE" THEN TalkerGetState(cmd.stream)
                      ELSE TalkerGetConnection(cmd.stream) :
          Answer(cmd.seq, status)
     /\ UNCHANGED <<list, count, source, listenerVars, inbox, lost>>

\* A controller sends its next command; a patient one sends a listener no command
\* while it waits for the answer to another.
Command(type, s, p, b) ==
  LET c == Len(issued) + 1
      e == IF type \in TxGets THEN s[1] ELSE p[1]
  IN /\ c \in Ids
     /\ b => c \in ClassB
     /\ Patient => \A d \in open : issued[d] # p[1]
     /\ issued' = Append(issued, p[1])
     /\ open' = open \cup {c}
     /\ inbox' = Deliver(inbox, e, [type |-> type, stream |-> s, port |-> p, seq |-> c,
                                    status |-> "SUCCESS", classB |-> b])
     /\ UNCHANGED <<talkerVars, listenerVars, answers, lost>>

\* A command that may still be answered.
Underway(c) ==
  \/ \E e \in Entity : \E i \in DOMAIN inbox[e] :
       inbox[e][i].type \in RxCommands \cup TxGets /\ inbox[e][i].seq = c
  \/ \E t \in Talker : talker[t].state \in TxGets /\ talker[t].cmd.seq = c
  \/ \E l \in Listener :
       \/ listener[l].state \in RxCommands /\ listener[l].cmd.seq = c
       \/ \E i \in Flights : inflight[l][i] # None /\ inflight[l][i].original = c

\* The controller's own timeout, which is longer than the listener's two tries.
GiveUp(c) ==
  /\ Patient
  /\ c \in open
  /\ ~Underway(c)
  /\ open' = open \ {c}
  /\ UNCHANGED <<talkerVars, listenerVars, issued, answers, inbox, lost>>

-----------------------------------------------------------------------------
(***************************************************************************)
(* Listener                                                                *)
(***************************************************************************)
ListenerReceive(l) ==
  /\ inbox[l] # <<>>
  /\ inbox' = Take(l)
  /\ listener' = IF listener[l].state = "WAITING"
                 THEN [listener EXCEPT ![l].state = Head(inbox[l]).type, ![l].cmd = Head(inbox[l])]
                 ELSE listener
  /\ UNCHANGED <<talkerVars, record, sink, inflight, controlVars, lost>>

\* The inflight command that a sequence id belongs to.
InUse(l) == {i \in Flights : inflight[l][i] # None}
Found(l, seq) == {i \in InUse(l) : inflight[l][i].cmd.seq = seq}

\* acmp_add_inflight: a full list drops the command silently.
AddInflight(flights, cmd, original) ==
  LET free == {i \in Flights : flights[i] = None}
  IN IF free = {} THEN flights
     ELSE [flights EXCEPT ![First(free)] =
             [cmd |-> cmd, original |-> original, retried |-> FALSE]]

\* Mutant: the sequence id is not advanced.
SendCommandSameSeq(l, type) ==
  LET cmd == [listener[l].cmd EXCEPT !.type = type, !.seq = listener[l].seq]
  IN /\ inbox' = Deliver(inbox, cmd.stream[1], cmd)
     /\ inflight' = [inflight EXCEPT ![l] = AddInflight(@, cmd, listener[l].cmd.seq)]
     /\ listener' = [listener EXCEPT ![l] = ListenerWaiting(@.seq)]

\* acmp_send_command for a new command.
SendCommand(l, type) ==
  LET cmd == [listener[l].cmd EXCEPT !.type = type, !.seq = listener[l].seq]
  IN /\ inbox' = Deliver(inbox, cmd.stream[1], cmd)
     /\ inflight' = [inflight EXCEPT ![l] = AddInflight(@, cmd, listener[l].cmd.seq)]
     /\ listener' = [listener EXCEPT ![l] = ListenerWaiting(@.seq + 1)]

\* acmp_send_response of an RX response to the controller.
ListenerAnswers(l, c, status) ==
  /\ Answer(c, status)
  /\ listener' = [listener EXCEPT ![l] = ListenerWaiting(@.seq)]

\* The application hooks.
ListenerOnTalkerConnect(p, s) == sink' = [sink EXCEPT ![p] = s]
ListenerOnTalkerDisconnect(p) == sink' = [sink EXCEPT ![p] = None]

\* acmp_listener_is_connected(0) and (1).
ConnectedElsewhere(p, s) == sink[p] # None /\ record[p] # s
ConnectedTo(p, s)        == sink[p] # None /\ record[p] = s

ListenerConnect(l) ==
  LET cmd == listener[l].cmd
  IN /\ listener[l].state = "CONNECT_RX"
     /\ \/ /\ cmd.port \notin Port
           /\ ListenerAnswers(l, cmd.seq, "LISTENER_UNKNOWN_ID")
           /\ UNCHANGED <<inbox, inflight>>
        \/ /\ cmd.port \in Port /\ ConnectedElsewhere(cmd.port, cmd.stream)
           /\ ListenerAnswers(l, cmd.seq, "EXCLUSIVE")
           /\ UNCHANGED <<inbox, inflight>>
        \/ /\ cmd.port \in Port /\ ~ConnectedElsewhere(cmd.port, cmd.stream)
           /\ SendCommand(l, "CONNECT_TX")
           /\ UNCHANGED controlVars
     /\ UNCHANGED <<talkerVars, record, sink, lost>>

\* Mutant: the record of the connection is kept.
ListenerDisconnectKeepsRecord(l) ==
  LET cmd == listener[l].cmd
  IN /\ listener[l].state = "DISCONNECT_RX"
     /\ \/ /\ cmd.port \notin Port
           /\ ListenerAnswers(l, cmd.seq, "LISTENER_UNKNOWN_ID")
           /\ UNCHANGED <<inbox, inflight, sink, record>>
        \/ /\ cmd.port \in Port /\ ~ConnectedTo(cmd.port, cmd.stream)
           /\ ListenerAnswers(l, cmd.seq, "NOT_CONNECTED")
           /\ UNCHANGED <<inbox, inflight, sink, record>>
        \/ /\ cmd.port \in Port /\ ConnectedTo(cmd.port, cmd.stream)
           /\ SendCommand(l, "DISCONNECT_TX")
           /\ ListenerOnTalkerDisconnect(cmd.port)
           /\ UNCHANGED <<record, controlVars>>
     /\ UNCHANGED <<talkerVars, lost>>

\* Mutant: the application hook that disables the sink is not called.
ListenerDisconnectKeepsSink(l) ==
  LET cmd == listener[l].cmd
  IN /\ listener[l].state = "DISCONNECT_RX"
     /\ \/ /\ cmd.port \notin Port
           /\ ListenerAnswers(l, cmd.seq, "LISTENER_UNKNOWN_ID")
           /\ UNCHANGED <<inbox, inflight, sink, record>>
        \/ /\ cmd.port \in Port /\ ~ConnectedTo(cmd.port, cmd.stream)
           /\ ListenerAnswers(l, cmd.seq, "NOT_CONNECTED")
           /\ UNCHANGED <<inbox, inflight, sink, record>>
        \/ /\ cmd.port \in Port /\ ConnectedTo(cmd.port, cmd.stream)
           /\ SendCommand(l, "DISCONNECT_TX")
           /\ record' = [record EXCEPT ![cmd.port] = None]
           /\ UNCHANGED <<sink, controlVars>>
     /\ UNCHANGED <<talkerVars, lost>>

\* The sink is disabled and forgotten at once; only the answer waits for the talker.
ListenerDisconnect(l) ==
  LET cmd == listener[l].cmd
  IN /\ listener[l].state = "DISCONNECT_RX"
     /\ \/ /\ cmd.port \notin Port
           /\ ListenerAnswers(l, cmd.seq, "LISTENER_UNKNOWN_ID")
           /\ UNCHANGED <<inbox, inflight, sink, record>>
        \/ /\ cmd.port \in Port /\ ~ConnectedTo(cmd.port, cmd.stream)
           /\ ListenerAnswers(l, cmd.seq, "NOT_CONNECTED")
           /\ UNCHANGED <<inbox, inflight, sink, record>>
        \/ /\ cmd.port \in Port /\ ConnectedTo(cmd.port, cmd.stream)
           /\ SendCommand(l, "DISCONNECT_TX")
           /\ ListenerOnTalkerDisconnect(cmd.port)
           /\ record' = [record EXCEPT ![cmd.port] = None]
           /\ UNCHANGED controlVars
     /\ UNCHANGED <<talkerVars, lost>>

ListenerGetState(l) ==
  LET cmd == listener[l].cmd
  IN /\ listener[l].state = "GET_RX_STATE"
     /\ ListenerAnswers(l, cmd.seq, IF cmd.port \in Port THEN "SUCCESS" ELSE "LISTENER_UNKNOWN_ID")
     /\ UNCHANGED <<talkerVars, record, sink, inflight, inbox, lost>>

\* acmp_remove_inflight.
RemoveInflight(l, i) == inflight' = [inflight EXCEPT ![l][i] = None]

\* The status the talker sent is not examined: avb_listener_on_talker_connect
\* enables the sink and decides the answer.
ListenerConnectTxResponse(l) ==
  LET cmd == listener[l].cmd
      found == Found(l, cmd.seq)
      i == First(found)
  IN /\ listener[l].state = "CONNECT_TX_RESPONSE"
     /\ cmd.port \in Port
     /\ IF found = {}
        THEN /\ listener' = [listener EXCEPT ![l] = ListenerWaiting(@.seq)]
             /\ UNCHANGED <<inflight, record, sink, controlVars>>
        ELSE /\ RemoveInflight(l, i)
             /\ IF cmd.classB
                THEN /\ ListenerAnswers(l, inflight[l][i].original, "INCOMPATIBLE_REQUEST")
                     /\ UNCHANGED <<record, sink>>
                ELSE /\ ListenerAnswers(l, inflight[l][i].original, "SUCCESS")
                     /\ ListenerOnTalkerConnect(cmd.port, cmd.stream)
                     /\ record' = [record EXCEPT ![cmd.port] = cmd.stream]
     /\ UNCHANGED <<talkerVars, inbox, lost>>

ListenerDisconnectTxResponse(l) ==
  LET cmd == listener[l].cmd
      found == Found(l, cmd.seq)
      i == First(found)
  IN /\ listener[l].state = "DISCONNECT_TX_RESPONSE"
     /\ cmd.port \in Port
     /\ IF found = {}
        THEN /\ listener' = [listener EXCEPT ![l] = ListenerWaiting(@.seq)]
             /\ UNCHANGED <<inflight, record, controlVars>>
        ELSE /\ RemoveInflight(l, i)
             /\ ListenerAnswers(l, inflight[l][i].original, cmd.status)
             /\ record' = [record EXCEPT ![cmd.port] = None]
     /\ UNCHANGED <<talkerVars, sink, inbox, lost>>

\* Whether the answer to an inflight command may still arrive.
AnswerUnderway(l, seq) ==
  \/ \E e \in Entity : \E i \in DOMAIN inbox[e] :
       /\ inbox[e][i].type \in TxCommands \cup Responses
       /\ inbox[e][i].port[1] = l /\ inbox[e][i].seq = seq
  \/ \E t \in Talker : /\ talker[t].state \in TxCommands
                       /\ talker[t].cmd.port[1] = l /\ talker[t].cmd.seq = seq

\* Mutant: entries that are not in use time out too.
ListenerCheckTimeoutsAny(l) ==
  /\ listener[l].state = "WAITING"
  /\ \E i \in Flights : listener' = [listener EXCEPT ![l].state = "RX_TIMEOUT", ![l].idx = i]
  /\ UNCHANGED <<talkerVars, record, sink, inflight, controlVars, inbox, lost>>

\* acmp_check_inflight_command_timeouts: any command in use may be the first one
\* whose timeout has passed.
ListenerCheckTimeouts(l) ==
  /\ listener[l].state = "WAITING"
  /\ \E i \in InUse(l) :
       /\ Patient => ~AnswerUnderway(l, inflight[l][i].cmd.seq)
       /\ listener' = [listener EXCEPT ![l].state = "RX_TIMEOUT", ![l].idx = i]
  /\ UNCHANGED <<talkerVars, record, sink, inflight, controlVars, inbox, lost>>

\* Mutant: a command that timed out twice stays in use.
ListenerTimeoutKeepsInflight(l) ==
  LET i == listener[l].idx
      flight == inflight[l][i]
      cmd == [flight.cmd EXCEPT !.seq = listener[l].seq]
  IN /\ listener[l].state = "RX_TIMEOUT"
     /\ IF flight.retried
        THEN /\ ListenerAnswers(l, flight.original, "TALKER_TIMEOUT")
             /\ UNCHANGED <<inflight, inbox>>
        ELSE /\ inbox' = Deliver(inbox, cmd.stream[1], cmd)
             /\ inflight' = [inflight EXCEPT ![l][i] = [flight EXCEPT !.cmd = cmd, !.retried = TRUE]]
             /\ listener' = [listener EXCEPT ![l] = ListenerWaiting(@.seq + 1)]
             /\ UNCHANGED controlVars
     /\ UNCHANGED <<talkerVars, record, sink, lost>>

\* Mutant: a command that timed out twice is dropped without an answer.
ListenerTimeoutSilent(l) ==
  LET i == listener[l].idx
      flight == inflight[l][i]
      cmd == [flight.cmd EXCEPT !.seq = listener[l].seq]
  IN /\ listener[l].state = "RX_TIMEOUT"
     /\ IF flight.retried
        THEN /\ listener' = [listener EXCEPT ![l] = ListenerWaiting(@.seq)]
             /\ RemoveInflight(l, i)
             /\ UNCHANGED <<inbox, controlVars>>
        ELSE /\ inbox' = Deliver(inbox, cmd.stream[1], cmd)
             /\ inflight' = [inflight EXCEPT ![l][i] = [flight EXCEPT !.cmd = cmd, !.retried = TRUE]]
             /\ listener' = [listener EXCEPT ![l] = ListenerWaiting(@.seq + 1)]
             /\ UNCHANGED controlVars
     /\ UNCHANGED <<talkerVars, record, sink, lost>>

\* The retry carries a new sequence id, so an answer to the first try is no longer
\* recognised; after the retry the controller is told of the timeout.
ListenerTimeout(l) ==
  LET i == listener[l].idx
      flight == inflight[l][i]
      cmd == [flight.cmd EXCEPT !.seq = listener[l].seq]
  IN /\ listener[l].state = "RX_TIMEOUT"
     /\ IF flight.retried
        THEN /\ ListenerAnswers(l, flight.original, "TALKER_TIMEOUT")
             /\ RemoveInflight(l, i)
             /\ UNCHANGED inbox
        ELSE /\ inbox' = Deliver(inbox, cmd.stream[1], cmd)
             /\ inflight' = [inflight EXCEPT ![l][i] = [flight EXCEPT !.cmd = cmd, !.retried = TRUE]]
             /\ listener' = [listener EXCEPT ![l] = ListenerWaiting(@.seq + 1)]
             /\ UNCHANGED controlVars
     /\ UNCHANGED <<talkerVars, record, sink, lost>>

-----------------------------------------------------------------------------
Lose(e) ==
  /\ lost < MaxLost
  /\ inbox[e] # <<>>
  /\ inbox' = Take(e)
  /\ lost' = lost + 1
  /\ UNCHANGED <<talkerVars, listenerVars, controlVars>>

Next ==
  \/ \E type \in Types, s \in AnyStream, p \in AnyPort, b \in BOOLEAN : Command(type, s, p, b)
  \/ \E c \in Ids : GiveUp(c)
  \/ \E t \in Talker :
       \/ AddressReserved(t) \/ TalkerReceive(t)
       \/ TalkerConnect(t) \/ TalkerDisconnect(t) \/ TalkerGet(t)
  \/ \E l \in Listener :
       \/ ListenerReceive(l) \/ ListenerConnect(l) \/ ListenerDisconnect(l)
       \/ ListenerGetState(l) \/ ListenerConnectTxResponse(l)
       \/ ListenerDisconnectTxResponse(l)
       \/ ListenerCheckTimeouts(l) \/ ListenerTimeout(l)
  \/ \E e \in Entity : Lose(e)

Spec == Init /\ [][Next]_vars

\* Every entity keeps receiving and running its periodic pass, and a timeout that
\* can no longer be overtaken by an answer passes.
Fairness ==
  /\ \A t \in Talker : WF_vars(TalkerReceive(t)) /\ WF_vars(TalkerConnect(t))
                       /\ WF_vars(TalkerDisconnect(t)) /\ WF_vars(TalkerGet(t))
  /\ \A l \in Listener :
       /\ WF_vars(ListenerReceive(l)) /\ WF_vars(ListenerConnect(l))
       /\ WF_vars(ListenerDisconnect(l)) /\ WF_vars(ListenerGetState(l))
       /\ WF_vars(ListenerConnectTxResponse(l)) /\ WF_vars(ListenerDisconnectTxResponse(l))
       /\ WF_vars(ListenerCheckTimeouts(l)) /\ WF_vars(ListenerTimeout(l))

FairSpec == Spec /\ Fairness

-----------------------------------------------------------------------------
\* Type invariant: a command is in hand exactly in the states that process one.
TypeOK ==
  /\ talker \in [Talker -> [state : {"IDLE", "WAITING"} \cup TxCommands \cup TxGets,
                            cmd : Message \cup {None}]]
  /\ \A t \in Talker : talker[t].cmd = None <=> talker[t].state \in {"IDLE", "WAITING"}
  /\ list \in [Stream -> [Slots -> Port \cup {None}]]
  /\ count \in [Stream -> 0..MaxListeners]
  /\ source \in [Stream -> {"DISABLED", "POTENTIAL"}]
  /\ listener \in [Listener -> [state : {"WAITING", "RX_TIMEOUT"} \cup RxCommands \cup Responses,
                                cmd : Message \cup {None}, idx : Flights, seq : Nat]]
  /\ \A l \in Listener :
       listener[l].cmd = None <=> listener[l].state \in {"WAITING", "RX_TIMEOUT"}
  /\ record \in [Port -> AnyStream \cup {None}]
  /\ sink \in [Port -> AnyStream \cup {None}]
  /\ inflight \in [Listener -> [Flights -> Flight \cup {None}]]
  /\ inbox \in [Entity -> Seq(Message)]
  /\ issued \in Seq(Listener)
  /\ answers \in [Ids -> Seq(Statuses)]
  /\ open \subseteq Ids
  /\ lost \in 0..MaxLost

\* connection_count is the number of listeners in the talker's table, no listener
\* is in it twice, and the source streams exactly while the table is not empty.
CountMatchesList ==
  \A s \in Stream :
    /\ count[s] = Cardinality(Slots \ FreeSlots(s))
    /\ \A i, j \in Slots \ FreeSlots(s) : list[s][i] = list[s][j] => i = j
    /\ source[s] = "DISABLED" <=> count[s] = 0

\* acmp_inflight_timeout_idx, found in one pass and used in the next, still names a
\* command in use, and a response in hand is never for a port that does not
\* exist (the state machine would never leave that state).
ListenerNotWedged ==
  \A l \in Listener :
    /\ listener[l].state = "RX_TIMEOUT" => listener[l].idx \in InUse(l)
    /\ listener[l].state \in Responses => listener[l].cmd.port \in Port

\* A sequence id belongs to one inflight command, so a response cannot be credited
\* to another command, in spite of the retries that draw new ids.
SequenceIdsDistinct ==
  \A l \in Listener : \A i, j \in InUse(l) :
    inflight[l][i].cmd.seq = inflight[l][j].cmd.seq => i = j

\* A sink that is recorded as connected is enabled, for the recorded stream.
ConnectedIsEnabled ==
  \A p \in Port : record[p] # None => sink[p] = record[p]

\* The controller is answered at most once per command, although the talker may
\* answer each of two tries, and both late.
AnsweredOnce == \A c \in Ids : Len(answers[c]) <= 1

\* With patient controllers and room in the table, a connected sink is listed by its
\* talker, which therefore streams to it, whatever packets are lost.
ConnectedIsListed ==
  \A p \in Port : record[p] \in Stream => Listed(record[p], p) # {}

\* With patient controllers no sink is left enabled without a record of its
\* connection: such a sink refuses every connect and every disconnect.
EnabledIsConnected ==
  \A p \in Port : sink[p] # None => record[p] # None

\* With patient controllers and room in the table the two ends of a connection agree:
\* what the listener records its talker lists, and what it has enabled it records.
EndsAgree == ConnectedIsListed /\ EnabledIsConnected

\* A command that a listener has taken is answered in the end, even if the talker
\* never hears of it.
TakenIsAnswered ==
  \A c \in Ids :
    (\E l \in Listener : listener[l].state \in RxCommands /\ listener[l].cmd.seq = c)
      ~> answers[c] # <<>>

\* "DISCONNECT_RX_COMMAND to set sink to disabled" (tsn.rst): the command that names
\* the stream a sink receives disables the sink.
DisconnectDisables ==
  [][\A l \in Listener :
       (/\ ListenerDisconnect(l)
        /\ listener[l].cmd.port \in Port
        /\ sink[listener[l].cmd.port] = listener[l].cmd.stream)
         => sink'[listener[l].cmd.port] = None]_vars

\* "disable source only with last listener leaving" (tsn.rst): a source is not
\* disabled while a sink of another listener is connected to it.
SourceDisabledByLast ==
  [][\A s \in Stream :
       (source[s] # "DISABLED" /\ source'[s] = "DISABLED")
         => \A p \in Port : record[p] # s]_vars

=============================================================================
