----------------------------- MODULE AcmpProofs -----------------------------
(***************************************************************************)
(* Proofs about Acmp for every set of talkers and listeners, every size of *)
(* the talker's table and of the list of inflight commands, any number of  *)
(* overlapping commands, timeouts at any moment and any loss of packets:   *)
(* the talker's count agrees with its table, a sequence id belongs to one  *)
(* inflight command, no listener state is left without a way out, a sink   *)
(* recorded as connected is enabled, and a command is answered once.  With *)
(* patient controllers the two ends of a connection agree.                 *)
(***************************************************************************)
EXTENDS AcmpSteps

-----------------------------------------------------------------------------
(***************************************************************************)
(* The two ends of a connection agree, if controllers and listeners are    *)
(* patient and the talker's table has room for every sink.                 *)
(*                                                                         *)
(* A patient controller has one command open per listener, so a listener   *)
(* has one command inflight, and of the packets between listeners and      *)
(* talkers at most one is about a given listener: the one whose answer the *)
(* inflight command waits for.                                             *)
(***************************************************************************)
\* Different sinks in all the slots are all the sinks.
Ample ==
  \A f \in [Slots -> Port] :
    (\A i, j \in Slots : f[i] = f[j] => i = j) => \A p \in Port : \E i \in Slots : f[i] = p

\* Nobody times out too early, and a talker has a slot for every sink.
PatientAmple == Patient /\ Ample

\* A listener is sent, holds and has inflight only what is for its own ports.
BoxAddressed == \A l \in Listener : \A k \in DOMAIN inbox[l] : inbox[l][k].port[1] = l
HandAddressed == \A l \in Listener : listener[l].cmd # None => listener[l].cmd.port[1] = l
FlightAddressed == \A l \in Listener : \A i \in InUse(l) : inflight[l][i].cmd.port[1] = l
Addressed == BoxAddressed /\ HandAddressed /\ FlightAddressed

\* A packet for a listener's own port keeps its inbox addressed to it.
LEMMA DeliverAddressed ==
  ASSUME InboxInv, BoxAddressed, NEW e \in Entity, NEW msg \in Message,
         e \in Listener => msg.port[1] = e, inbox' = Deliver(inbox, e, msg)
  PROVE  BoxAddressed'
<1> SUFFICES ASSUME NEW l \in Listener, NEW k \in DOMAIN inbox'[l] PROVE inbox'[l][k].port[1] = l
  BY DEF BoxAddressed
<1>1. CASE l = e
  <2>1. inbox[e] \in Seq(Message) /\ inbox'[e] = Append(inbox[e], msg)
    BY DEF InboxInv, Deliver
  <2>2. k \in 1..(Len(inbox[e]) + 1)
    BY <1>1, <2>1
  <2>3. inbox'[e][k] = IF k = Len(inbox[e]) + 1 THEN msg ELSE inbox[e][k]
    BY <2>1, <2>2
  <2>4. k # Len(inbox[e]) + 1 => k \in DOMAIN inbox[e]
    BY <2>1, <2>2
  <2> QED BY <1>1, <2>3, <2>4 DEF BoxAddressed
<1>2. CASE l # e
  <2>1. inbox'[l] = inbox[l]
    BY <1>2 DEF InboxInv, Deliver, Entity
  <2> QED BY <2>1 DEF BoxAddressed
<1> QED BY <1>1, <1>2, Zenon

\* Taking a packet keeps the inboxes addressed, and the packet taken is for the entity.
LEMMA TakeAddressed ==
  ASSUME InboxInv, BoxAddressed, NEW e \in Entity, inbox[e] # <<>>, inbox' = Take(e)
  PROVE  BoxAddressed' /\ (e \in Listener => Head(inbox[e]).port[1] = e)
<1>1. inbox[e] \in Seq(Message) /\ inbox'[e] = Tail(inbox[e])
  BY DEF InboxInv, Take
<1>2. ASSUME NEW l \in Listener, NEW k \in DOMAIN inbox'[l] PROVE inbox'[l][k].port[1] = l
  <2>1. CASE l = e
    <3>1. k \in DOMAIN Tail(inbox[e])
      BY <1>1, <2>1, Zenon
    <3>2. k \in 1..(Len(inbox[e]) - 1)
      BY <1>1, <3>1
    <3>3. k + 1 \in DOMAIN inbox[e] /\ inbox'[e][k] = inbox[e][k + 1]
      BY <1>1, <3>2
    <3> QED BY <2>1, <3>3 DEF BoxAddressed
  <2>2. CASE l # e
    <3>1. inbox'[l] = inbox[l]
      BY <2>2 DEF InboxInv, Take, Entity
    <3> QED BY <3>1 DEF BoxAddressed
  <2> QED BY <2>1, <2>2
<1>3. Head(inbox[e]) = inbox[e][1] /\ 1 \in DOMAIN inbox[e]
  BY <1>1
<1> QED BY <1>2, <1>3 DEF BoxAddressed

\* A step of one listener that leaves it with nothing in hand.
LEMMA ReleaseAddressed ==
  ASSUME ListenerInv, HandAddressed, NEW l \in Listener, NEW n,
         listener' = [listener EXCEPT ![l] = ListenerWaiting(n)]
  PROVE  HandAddressed'
<1> SUFFICES ASSUME NEW m \in Listener, listener'[m].cmd # None PROVE listener'[m].cmd.port[1] = m
  BY DEF HandAddressed
<1>1. m # l
  BY DEF ListenerInv, ListenerWaiting
<1> QED BY <1>1 DEF HandAddressed, ListenerInv

\* Removing an inflight command leaves the others as they were.
LEMMA RemoveAddressed ==
  ASSUME FlightInv, FlightAddressed, NEW l \in Listener, NEW i \in Flights, RemoveInflight(l, i)
  PROVE  FlightAddressed'
<1> SUFFICES ASSUME NEW m \in Listener, NEW j \in Flights, inflight'[m][j] # None
             PROVE  inflight'[m][j].cmd.port[1] = m
  BY Zenon DEF FlightAddressed, InUse
<1>1. inflight'[m][j] = inflight[m][j]
  BY DEF FlightInv, RemoveInflight
<1> QED BY <1>1, Zenon DEF FlightAddressed, InUse

\* A new command, or a retry, takes a place among the inflight commands.
LEMMA AddAddressed ==
  ASSUME FlightInv, FlightAddressed, NEW l \in Listener, NEW i \in Flights, NEW new,
         new.cmd.port[1] = l, inflight' = [inflight EXCEPT ![l] = [inflight[l] EXCEPT ![i] = new]]
  PROVE  FlightAddressed'
<1> SUFFICES ASSUME NEW m \in Listener, NEW j \in Flights, inflight'[m][j] # None
             PROVE  inflight'[m][j].cmd.port[1] = m
  BY Zenon DEF FlightAddressed, InUse
<1>1. CASE m = l /\ j = i
  BY <1>1 DEF FlightInv
<1>2. CASE ~(m = l /\ j = i)
  <2>1. inflight'[m][j] = inflight[m][j]
    BY <1>2 DEF FlightInv
  <2> QED BY <2>1, Zenon DEF FlightAddressed, InUse
<1> QED BY <1>1, <1>2, Zenon

\* What a listener sends, and whether there is room for it among the inflight
\* commands; the packet carries the port and the stream of the command in hand.
LEMMA SendFacts ==
  ASSUME Counting, IndInv, NEW l \in Listener, NEW type \in TxCommands, listener[l].state \in RxCommands,
         listener[l].cmd.port \in Port, SendCommand(l, type)
  PROVE  \E cmd \in ToTalker :
           /\ cmd.type = type /\ cmd.seq = listener[l].seq
           /\ cmd.port = listener[l].cmd.port /\ cmd.stream = listener[l].cmd.stream
           /\ cmd.stream[1] \in Talker
           /\ inbox' = Deliver(inbox, cmd.stream[1], cmd)
           /\ listener' = [listener EXCEPT ![l] = ListenerWaiting(listener[l].seq + 1)]
           /\ \/ InUse(l) = Flights /\ inflight' = inflight
              \/ \E i \in Flights \ InUse(l) :
                   inflight' = [inflight EXCEPT ![l] = [inflight[l] EXCEPT ![i] =
                     [cmd |-> cmd, original |-> listener[l].cmd.seq, retried |-> FALSE]]]
<1> DEFINE old == listener[l].cmd
           n == listener[l].seq
           cmd == [old EXCEPT !.type = type, !.seq = n]
           free == {i \in Flights : inflight[l][i] = None}
<1>1. old \in Message /\ n \in Nat
  BY CommandInHand, Zenon DEF IndInv, ListenerInv, SoundListener
<1>2. /\ cmd \in Message /\ cmd.type = type /\ cmd.seq = n
      /\ cmd.port = old.port /\ cmd.stream = old.stream
  BY <1>1, Zenon DEF Message
<1>3. cmd \in ToTalker /\ cmd.stream[1] \in Talker
  <2> HIDE DEF cmd
  <2>1. cmd.stream \in AnyStream
    BY <1>2 DEF Message
  <2> QED BY <1>2, <2>1, Zenon DEF ToTalker, AnyStream
<1>4. /\ inbox' = Deliver(inbox, cmd.stream[1], cmd)
      /\ listener' = [listener EXCEPT ![l] = ListenerWaiting(n + 1)]
      /\ inflight' = [inflight EXCEPT ![l] = AddInflight(inflight[l], cmd, old.seq)]
  BY Zenon DEF SendCommand, IndInv, ListenerInv, FlightInv
<1> HIDE DEF cmd
<1>5. CASE free = {}
  <2>1. InUse(l) = Flights
    BY <1>5 DEF InUse
  <2>2. inflight' = inflight
    BY <1>4, <1>5, Zenon DEF AddInflight, IndInv, FlightInv
  <2> QED BY <1>2, <1>3, <1>4, <2>1, <2>2, Zenon
<1>6. CASE free # {}
  <2>1. First(free) \in free
    <3>1. free \in SUBSET Nat
      BY AcmpAssumption DEF Flights
    <3> QED BY <1>6, <3>1, FirstIn, Zenon
  <2>2. First(free) \in Flights \ InUse(l)
    BY <2>1 DEF InUse
  <2>3. AddInflight(inflight[l], cmd, old.seq) =
          [inflight[l] EXCEPT ![First(free)] = [cmd |-> cmd, original |-> old.seq, retried |-> FALSE]]
    BY <1>6, Zenon DEF AddInflight
  <2> HIDE DEF free
  <2> QED BY <1>2, <1>3, <1>4, <2>2, <2>3, Zenon
<1> QED BY <1>5, <1>6, Zenon

\* The retry: the same command under a new id, in the same place.
LEMMA RetryFacts ==
  ASSUME IndInv, NEW l \in Listener, ListenerTimeout(l), ~inflight[l][listener[l].idx].retried
  PROVE  \E i \in InUse(l), cmd \in ToTalker, new \in SoundFlight :
           /\ i = listener[l].idx
           /\ cmd.type = inflight[l][i].cmd.type /\ cmd.type \in TxCommands
           /\ cmd.seq = listener[l].seq
           /\ cmd.port = inflight[l][i].cmd.port /\ cmd.stream = inflight[l][i].cmd.stream
           /\ cmd.stream[1] \in Talker /\ new.cmd = cmd
           /\ inbox' = Deliver(inbox, cmd.stream[1], cmd)
           /\ listener' = [listener EXCEPT ![l] = ListenerWaiting(listener[l].seq + 1)]
           /\ inflight' = [inflight EXCEPT ![l] = [inflight[l] EXCEPT ![i] = new]]
<1> DEFINE k == listener[l].idx
           n == listener[l].seq
           flight == inflight[l][k]
           cmd == [flight.cmd EXCEPT !.seq = n]
           new == [flight EXCEPT !.cmd = cmd, !.retried = TRUE]
<1>1. k \in InUse(l) /\ n \in Nat /\ flight \in SoundFlight
  BY DEF ListenerTimeout, IndInv, ListenerInv, SoundListener, FlightInv, FlightRow, InUse
<1>2. /\ flight.cmd \in Message /\ flight.cmd.type \in TxCommands
      /\ flight.cmd.port \in Port
  BY <1>1, Zenon DEF SoundFlight, ToTalker, TxCommands, TxGets
<1>3. /\ cmd \in Message /\ cmd.type = flight.cmd.type /\ cmd.seq = n
      /\ cmd.port = flight.cmd.port /\ cmd.stream = flight.cmd.stream
  BY <1>1, <1>2, Zenon DEF Message
<1>4. cmd \in ToTalker /\ cmd.stream[1] \in Talker
  <2> HIDE DEF cmd
  <2>1. cmd.stream \in AnyStream
    BY <1>3, Zenon DEF Message
  <2> QED BY <1>2, <1>3, <2>1, Zenon DEF ToTalker, AnyStream
<1>5. new \in SoundFlight /\ new.cmd = cmd
  BY <1>1, <1>2, <1>3, <1>4, Zenon DEF SoundFlight, Flight, ToTalker
<1>6. /\ inbox' = Deliver(inbox, cmd.stream[1], cmd)
      /\ listener' = [listener EXCEPT ![l] = ListenerWaiting(n + 1)]
      /\ inflight' = [inflight EXCEPT ![l] = [inflight[l] EXCEPT ![k] = new]]
  BY Zenon DEF ListenerTimeout, IndInv, ListenerInv, FlightInv
<1> HIDE DEF cmd, new
<1> QED BY <1>1, <1>2, <1>3, <1>4, <1>5, <1>6, Zenon

\* The talker's response: the command with another type, to the listener it names.
LEMMA RespondFacts ==
  ASSUME IndInv, NEW t \in Talker, TalkerConnect(t) \/ TalkerDisconnect(t)
  PROVE  \E msg \in Message :
           /\ talker[t].state = talker[t].cmd.type /\ talker[t].state \in TxCommands
           /\ msg.type = (IF talker[t].state = "CONNECT_TX" THEN "CONNECT_TX_RESPONSE"
                          ELSE "DISCONNECT_TX_RESPONSE")
           /\ msg.seq = talker[t].cmd.seq /\ msg.stream = talker[t].cmd.stream
           /\ msg.port = talker[t].cmd.port /\ msg.port \in Port /\ msg.port[1] \in Listener
           /\ inbox' = Deliver(inbox, msg.port[1], msg)
           /\ talker' = [talker EXCEPT ![t] = TalkerWaiting]
<1> DEFINE cmd == talker[t].cmd
           type == IF cmd.type = "CONNECT_TX" THEN "CONNECT_TX_RESPONSE" ELSE "DISCONNECT_TX_RESPONSE"
           msg(status) == [cmd EXCEPT !.type = type, !.status = status]
<1>1. talker[t].state \in TxCommands
  BY Zenon DEF TalkerConnect, TalkerDisconnect, TxCommands
<1>2. cmd \in Message /\ cmd.port \in Port /\ talker[t].state = cmd.type
  BY <1>1, Zenon DEF IndInv, TalkerInv, SoundTalker, ToTalker, TxCommands, TxGets
<1>3. PICK status \in Statuses : /\ inbox' = Deliver(inbox, cmd.port[1], msg(status))
                                 /\ talker' = [talker EXCEPT ![t] = TalkerWaiting]
  <2>1. \E status \in Statuses : TalkerResponds(t, status)
    BY Zenon DEF TalkerConnect, TalkerDisconnect, Statuses
  <2> QED BY <2>1, Zenon DEF TalkerResponds
<1>4. /\ msg(status) \in Message /\ msg(status).type = type /\ msg(status).port = cmd.port
      /\ msg(status).seq = cmd.seq /\ msg(status).stream = cmd.stream
  BY <1>2, Zenon DEF Message, Responses
<1>5. cmd.port[1] \in Listener
  BY <1>2 DEF Port
<1> HIDE DEF msg, cmd
<1> QED BY <1>1, <1>2, <1>3, <1>4, <1>5, Zenon DEF cmd

\* Every step keeps what a listener is sent, holds and has inflight its own.
LEMMA NextAddressed == Counting /\ IndInv /\ Addressed /\ [Next]_vars => Addressed'
<1> SUFFICES ASSUME Counting, IndInv, Addressed, [Next]_vars PROVE Addressed'
  OBVIOUS
<1>a. /\ inbox' = inbox => BoxAddressed'
      /\ listener' = listener => HandAddressed'
      /\ inflight' = inflight => FlightAddressed'
  BY DEF Addressed, BoxAddressed, HandAddressed, FlightAddressed, InUse
<1>1. ASSUME NEW type \in Types, NEW s \in AnyStream, NEW p \in AnyPort, NEW b \in BOOLEAN,
             Command(type, s, p, b)
      PROVE  Addressed'
  <2> DEFINE e == IF type \in TxGets THEN s[1] ELSE p[1]
             msg == [type |-> type, stream |-> s, port |-> p, seq |-> Len(issued) + 1,
                     status |-> "SUCCESS", classB |-> b]
  <2>1. /\ Len(issued) + 1 \in Ids /\ inbox' = Deliver(inbox, e, msg)
        /\ UNCHANGED <<listener, inflight>>
    BY <1>1 DEF Command, listenerVars
  <2>2. e \in Entity /\ (e \in Listener => msg.port[1] = e)
    BY AcmpAssumption DEF AnyStream, AnyPort, Entity
  <2>3. msg \in Message
    BY <2>1, AcmpAssumption DEF Message, Ids, Statuses
  <2> HIDE DEF e, msg
  <2>4. BoxAddressed'
    BY <2>1, <2>2, <2>3, DeliverAddressed DEF IndInv, Addressed
  <2> QED BY <1>a, <2>1, <2>4 DEF Addressed
<1>2. CASE (\E c \in Ids : GiveUp(c)) \/ UNCHANGED vars
  BY <1>a, <1>2 DEF Addressed, GiveUp, vars, listenerVars
<1>3. ASSUME NEW t \in Talker, AddressReserved(t) \/ TalkerGet(t) PROVE Addressed'
  BY <1>a, <1>3, Zenon DEF Addressed, AddressReserved, TalkerGet, listenerVars
<1>4. ASSUME NEW e \in Entity, (e \in Talker /\ TalkerReceive(e)) \/ Lose(e) PROVE Addressed'
  <2>1. inbox[e] # <<>> /\ inbox' = Take(e) /\ UNCHANGED <<listener, inflight>>
    BY <1>4, Zenon DEF TalkerReceive, Lose, listenerVars
  <2> QED BY <1>a, <2>1, TakeAddressed, Zenon DEF IndInv, Addressed
<1>5. ASSUME NEW t \in Talker, TalkerConnect(t) \/ TalkerDisconnect(t) PROVE Addressed'
  <2>1. UNCHANGED <<listener, inflight>>
    BY <1>5, Zenon DEF TalkerConnect, TalkerDisconnect, listenerVars
  <2>2. PICK msg \in Message : msg.port[1] \in Listener /\ inbox' = Deliver(inbox, msg.port[1], msg)
    BY <1>5, RespondFacts, Zenon
  <2>3. BoxAddressed'
    BY <2>2, DeliverAddressed DEF IndInv, Addressed, Entity
  <2> QED BY <1>a, <2>1, <2>3 DEF Addressed
<1>6. ASSUME NEW l \in Listener, ListenerReceive(l) PROVE Addressed'
  <2>1. /\ inbox[l] # <<>> /\ inbox' = Take(l) /\ UNCHANGED inflight
        /\ \/ listener' = listener
           \/ listener' = [listener EXCEPT ![l].state = Head(inbox[l]).type, ![l].cmd = Head(inbox[l])]
    BY <1>6, Zenon DEF ListenerReceive
  <2>2. BoxAddressed' /\ Head(inbox[l]).port[1] = l
    BY <2>1, TakeAddressed DEF IndInv, Addressed, Entity
  <2>3. HandAddressed'
    BY <2>1, <2>2 DEF Addressed, HandAddressed, IndInv, ListenerInv, SoundListener
  <2> QED BY <1>a, <2>1, <2>2, <2>3 DEF Addressed
<1>7. ASSUME NEW l \in Listener, ListenerConnect(l) \/ ListenerDisconnect(l) \/ ListenerGetState(l)
      PROVE  Addressed'
  <2>1. listener[l].state \in RxCommands
    BY <1>7, Zenon DEF ListenerConnect, ListenerDisconnect, ListenerGetState, RxCommands
  <2>2. CASE /\ listener' = [listener EXCEPT ![l] = ListenerWaiting(@.seq)]
             /\ UNCHANGED <<inbox, inflight>>
    <3>1. HandAddressed'
      BY <2>2, ReleaseAddressed, Zenon DEF IndInv, Addressed
    <3> QED BY <1>a, <2>2, <3>1 DEF Addressed
  <2>3. ASSUME NEW type \in TxCommands, SendCommand(l, type), listener[l].cmd.port \in Port
        PROVE  Addressed'
    <3>1. PICK cmd \in ToTalker :
            /\ cmd.port = listener[l].cmd.port /\ cmd.stream[1] \in Talker
            /\ inbox' = Deliver(inbox, cmd.stream[1], cmd)
            /\ listener' = [listener EXCEPT ![l] = ListenerWaiting(listener[l].seq + 1)]
            /\ \/ inflight' = inflight
               \/ \E i \in Flights \ InUse(l) :
                    inflight' = [inflight EXCEPT ![l] = [inflight[l] EXCEPT ![i] =
                      [cmd |-> cmd, original |-> listener[l].cmd.seq, retried |-> FALSE]]]
      BY <2>1, <2>3, SendFacts
    <3>2. cmd.port[1] = l
      <4>1. listener[l].cmd # None
        BY <2>1, NoneIsApart, CommandInHand
      <4> QED BY <3>1, <4>1, Zenon DEF Addressed, HandAddressed
    <3>3. BoxAddressed'
      <4>1. cmd \in Message /\ cmd.stream[1] \in Entity /\ cmd.stream[1] \notin Listener
        BY <3>1, AcmpAssumption, Zenon DEF ToTalker, Entity
      <4> QED BY <3>1, <4>1, DeliverAddressed, Zenon DEF IndInv, Addressed
    <3>4. HandAddressed'
      BY <3>1, ReleaseAddressed, Zenon DEF IndInv, Addressed
    <3>5. FlightAddressed'
      BY <1>a, <3>1, <3>2, AddAddressed DEF IndInv, Addressed
    <3> QED BY <3>3, <3>4, <3>5 DEF Addressed
  <2> QED BY <1>7, <2>2, <2>3, Zenon
          DEF ListenerConnect, ListenerDisconnect, ListenerGetState, ListenerAnswers, TxCommands
<1>8. ASSUME NEW l \in Listener, ListenerConnectTxResponse(l) \/ ListenerDisconnectTxResponse(l)
      PROVE  Addressed'
  <2> DEFINE found == Found(l, listener[l].cmd.seq)
  <2>1. /\ UNCHANGED inbox /\ listener' = [listener EXCEPT ![l] = ListenerWaiting(@.seq)]
        /\ \/ UNCHANGED inflight
           \/ found # {} /\ RemoveInflight(l, First(found))
    BY <1>8, Zenon DEF ListenerConnectTxResponse, ListenerDisconnectTxResponse, ListenerAnswers
  <2>2. HandAddressed'
    BY <2>1, ReleaseAddressed, Zenon DEF IndInv, Addressed
  <2>3. FlightAddressed'
    BY <1>a, <2>1, FoundFlight, RemoveAddressed, Zenon DEF IndInv, Addressed
  <2> QED BY <1>a, <2>1, <2>2, <2>3 DEF Addressed
<1>9. ASSUME NEW l \in Listener, ListenerCheckTimeouts(l) PROVE Addressed'
  <2>1. /\ UNCHANGED <<inbox, inflight>>
        /\ \E i : listener' = [listener EXCEPT ![l].state = "RX_TIMEOUT", ![l].idx = i]
    BY <1>9, Zenon DEF ListenerCheckTimeouts
  <2>2. HandAddressed'
    BY <2>1 DEF Addressed, HandAddressed, IndInv, ListenerInv, SoundListener
  <2> QED BY <1>a, <2>1, <2>2 DEF Addressed
<1>10. ASSUME NEW l \in Listener, ListenerTimeout(l) PROVE Addressed'
  <2>1. CASE inflight[l][listener[l].idx].retried
    <3>1. /\ listener' = [listener EXCEPT ![l] = ListenerWaiting(@.seq)]
          /\ RemoveInflight(l, listener[l].idx) /\ UNCHANGED inbox
      BY <1>10, <2>1, Zenon DEF ListenerTimeout, ListenerAnswers
    <3>2. listener[l].idx \in Flights
      BY DEF IndInv, ListenerInv, SoundListener
    <3>3. HandAddressed' /\ FlightAddressed'
      BY <3>1, <3>2, ReleaseAddressed, RemoveAddressed, Zenon DEF IndInv, Addressed
    <3> QED BY <1>a, <3>1, <3>3 DEF Addressed
  <2>2. CASE ~inflight[l][listener[l].idx].retried
    <3>1. PICK i \in InUse(l), cmd \in ToTalker, new \in SoundFlight :
            /\ cmd.port = inflight[l][i].cmd.port
            /\ cmd.stream[1] \in Talker /\ new.cmd = cmd
            /\ inbox' = Deliver(inbox, cmd.stream[1], cmd)
            /\ listener' = [listener EXCEPT ![l] = ListenerWaiting(listener[l].seq + 1)]
            /\ inflight' = [inflight EXCEPT ![l] = [inflight[l] EXCEPT ![i] = new]]
      BY <1>10, <2>2, RetryFacts
    <3>2. cmd.port[1] = l /\ i \in Flights
      BY <3>1, Zenon DEF Addressed, FlightAddressed, InUse
    <3>3. BoxAddressed'
      <4>1. cmd \in Message /\ cmd.stream[1] \in Entity /\ cmd.stream[1] \notin Listener
        BY <3>1, AcmpAssumption, Zenon DEF ToTalker, Entity
      <4> QED BY <3>1, <4>1, DeliverAddressed, Zenon DEF IndInv, Addressed
    <3>4. HandAddressed'
      BY <3>1, ReleaseAddressed, Zenon DEF IndInv, Addressed
    <3>5. FlightAddressed'
      BY <3>1, <3>2, AddAddressed, Zenon DEF IndInv, Addressed
    <3> QED BY <3>3, <3>4, <3>5 DEF Addressed
  <2> QED BY <2>1, <2>2, Zenon
<1> QED BY <1>1, <1>2, <1>3, <1>4, <1>5, <1>6, <1>7, <1>8, <1>9, <1>10 DEF Next, Entity

-----------------------------------------------------------------------------
\* A patient controller has at most one command open per listener.
OpenInv ==
  /\ \A c \in open : c <= Len(issued)
  /\ Patient => \A c, d \in open : issued[c] = issued[d] => c = d

\* Every step keeps at most one command open per listener.
LEMMA NextOpen == IndInv /\ OpenInv /\ [Next]_vars => OpenInv'
<1> SUFFICES ASSUME IndInv, OpenInv, [Next]_vars PROVE OpenInv'
  OBVIOUS
<1>1. ASSUME NEW type \in Types, NEW s \in AnyStream, NEW p \in AnyPort, NEW b \in BOOLEAN,
             Command(type, s, p, b)
      PROVE  OpenInv'
  <2> DEFINE n == Len(issued) + 1
  <2>1. /\ Patient => \A d \in open : issued[d] # p[1]
        /\ issued' = Append(issued, p[1]) /\ open' = open \cup {n} /\ n \in Ids
    BY <1>1 DEF Command
  <2>2. p[1] \in Listener /\ issued \in Seq(Listener) /\ open \subseteq Ids
    BY DEF AnyPort, IndInv, ControlInv
  <2>3. Len(issued') = n /\ issued'[n] = p[1]
    BY <2>1, <2>2
  <2>4. \A d \in open : d \in 1..Len(issued)
    BY <2>2 DEF OpenInv, Ids
  <2>5. \A d \in open : d <= n /\ issued'[d] = issued[d]
    BY <2>1, <2>2, <2>4
  <2> HIDE DEF n
  <2>6. \A c \in open' : c <= Len(issued')
    BY <2>1, <2>3, <2>5 DEF n, Ids
  <2>7. ASSUME Patient, NEW c \in open', NEW d \in open', issued'[c] = issued'[d] PROVE c = d
    <3>1. \A k \in open : issued[k] # p[1]
      BY <2>1, <2>7
    <3>2. c \in open \cup {n} /\ d \in open \cup {n}
      BY <2>1
    <3>3. ~(c = n /\ d \in open) /\ ~(d = n /\ c \in open)
      BY <2>3, <2>5, <2>7, <3>1
    <3>4. c \in open /\ d \in open => c = d
      BY <2>5, <2>7 DEF OpenInv
    <3> QED BY <3>2, <3>3, <3>4
  <2> QED BY <2>6, <2>7 DEF OpenInv
<1>2. CASE issued' = issued /\ open' \subseteq open
  BY <1>2 DEF OpenInv
<1>3. ASSUME NEW t \in Talker, AddressReserved(t) \/ TalkerReceive(t) \/ TalkerConnect(t)
                               \/ TalkerDisconnect(t) \/ TalkerGet(t)
      PROVE  issued' = issued /\ open' \subseteq open
  BY <1>3, Zenon DEF AddressReserved, TalkerReceive, TalkerConnect, TalkerDisconnect, TalkerGet, Answer,
              controlVars
<1>4. ASSUME NEW l \in Listener, ListenerReceive(l) \/ ListenerConnect(l) \/ ListenerDisconnect(l)
                                 \/ ListenerGetState(l)
      PROVE  issued' = issued /\ open' \subseteq open
  BY <1>4, Zenon DEF ListenerReceive, ListenerConnect, ListenerDisconnect, ListenerGetState,
              ListenerAnswers, Answer, controlVars
<1>5. ASSUME NEW l \in Listener, ListenerConnectTxResponse(l) \/ ListenerDisconnectTxResponse(l)
                                 \/ ListenerCheckTimeouts(l) \/ ListenerTimeout(l)
      PROVE  issued' = issued /\ open' \subseteq open
  BY <1>5, Zenon DEF ListenerConnectTxResponse, ListenerDisconnectTxResponse, ListenerCheckTimeouts,
              ListenerTimeout, ListenerAnswers, Answer, controlVars
<1>6. CASE (\E c \in Ids : GiveUp(c)) \/ (\E e \in Entity : Lose(e)) \/ UNCHANGED vars
  BY <1>2, <1>6 DEF GiveUp, Lose, vars, controlVars
<1> QED BY <1>1, <1>2, <1>3, <1>4, <1>5, <1>6, Zenon DEF Next

\* So a listener has one command inflight, and none while it has another in hand.
LEMMA OneFlight ==
  ASSUME Patient, IndInv, TokenInv, OpenInv, NEW l \in Listener
  PROVE  /\ \A i, j \in InUse(l) : i = j
         /\ listener[l].state \in RxCommands => InUse(l) = {}
<1>1. l \in Entity
  BY DEF Entity
<1>2. ASSUME NEW i \in InUse(l)
      PROVE  \E d \in open : Holds(l, -1 - i, d) /\ issued[d] = l /\ d \in Ids /\ i \in Nat
  <2>1. i \in Flights /\ i \in Nat /\ -1 - (-1 - i) = i /\ -1 - i \in Int
    BY <1>2, AcmpAssumption DEF InUse, Flights
  <2>2. inflight[l][i].original \in Ids
    BY <1>2 DEF IndInv, FlightInv, SoundFlight, Flight, InUse
  <2>3. Holds(l, -1 - i, inflight[l][i].original)
    BY <1>2, <2>1 DEF Holds, InFlight
  <2> QED BY <1>1, <2>1, <2>2, <2>3 DEF TokenInv, Token
<1>3. ASSUME NEW i \in InUse(l), NEW j \in InUse(l) PROVE i = j
  <2>1. PICK c \in open : Holds(l, -1 - i, c) /\ issued[c] = l /\ c \in Ids /\ i \in Nat
    BY <1>2
  <2>2. PICK d \in open : Holds(l, -1 - j, d) /\ issued[d] = l /\ d \in Ids /\ j \in Nat
    BY <1>2
  <2>3. c = d
    BY <2>1, <2>2 DEF OpenInv
  <2>4. -1 - i \in Int /\ -1 - j \in Int
    BY <2>1, <2>2
  <2>5. -1 - i = -1 - j
    BY <1>1, <2>1, <2>2, <2>3, <2>4 DEF TokenInv, Token
  <2> QED BY <2>1, <2>2, <2>5
<1>4. ASSUME listener[l].state \in RxCommands, NEW i \in InUse(l) PROVE FALSE
  <2>1. PICK c \in open : Holds(l, -1 - i, c) /\ issued[c] = l /\ c \in Ids /\ i \in Nat
    BY <1>2
  <2> DEFINE d == listener[l].cmd.seq
  <2>2. d \in Ids
    BY <1>4, CommandInHand
  <2>3. Holds(l, 0, d)
    BY <1>4, Zenon DEF Holds, InHand
  <2> HIDE DEF d
  <2>4. d \in open /\ issued[d] = l
    BY <1>1, <2>2, <2>3 DEF TokenInv, Token
  <2>5. c = d
    BY <2>1, <2>4 DEF OpenInv
  <2>6. -1 - i \in Int /\ 0 \in Int
    BY <2>1
  <2>7. -1 - i = 0
    BY <1>1, <2>1, <2>3, <2>5, <2>6 DEF TokenInv, Token
  <2> QED BY <2>1, <2>7
<1> QED BY <1>3, <1>4

-----------------------------------------------------------------------------
\* The packets between listeners and talkers, at the places of Holds.
Tx(msg) == msg.type \in TxCommands \cup Responses
Posted(e, k, x) == k \in DOMAIN inbox[e] /\ x = inbox[e][k] /\ Tx(x)
Carried(e, x) ==
  \/ e \in Talker /\ talker[e].state \in TxCommands /\ x = talker[e].cmd
  \/ e \in Listener /\ listener[e].state \in Responses /\ x = listener[e].cmd
Wire(e, k, x) == Posted(e, k, x) \/ (k = 0 /\ Carried(e, x))

\* The inflight command whose answer a packet is, or asks for.
Stands(cmd, x) ==
  /\ x.seq = cmd.seq /\ x.port = cmd.port /\ x.stream = cmd.stream
  /\ cmd.type = IF x.type \in {"CONNECT_TX", "CONNECT_TX_RESPONSE"} THEN "CONNECT_TX"
                ELSE "DISCONNECT_TX"

\* One packet per listener.
WireAlone ==
  \A e, f \in Entity : \A j, k \in Int : \A x, y :
    (Wire(e, j, x) /\ Wire(f, k, y) /\ x.port[1] = y.port[1]) => (e = f /\ j = k)

\* Its listener waits for it, and a talker that answers a connect has listed the sink.
WireSound(x) ==
  /\ listener[x.port[1]].state # "RX_TIMEOUT"
  /\ \E i \in InUse(x.port[1]) : Stands(inflight[x.port[1]][i].cmd, x)
  /\ (x.type = "CONNECT_TX_RESPONSE" /\ x.stream \in Stream) => Listed(x.stream, x.port) # {}

WireInv == WireAlone /\ \A e \in Entity : \A k \in Int : \A x : Wire(e, k, x) => WireSound(x)

\* A sink is off and forgotten before its talker hears of the disconnect.
Undone ==
  \A l \in Listener : \A i \in InUse(l) :
    inflight[l][i].cmd.type = "DISCONNECT_TX" =>
      record[inflight[l][i].cmd.port] = None /\ sink[inflight[l][i].cmd.port] = None

\* What is between a listener and a talker names a port of a listener.
LEMMA WireMessage ==
  ASSUME IndInv, NEW e \in Entity, NEW k, NEW x, Wire(e, k, x)
  PROVE  x \in Message /\ x.port \in Port /\ x.port[1] \in Listener /\ Tx(x)
<1>1. x \in Message /\ x.port \in Port /\ Tx(x)
  <2>1. CASE Posted(e, k, x)
    <3>1. x \in Accepted(e)
      BY <2>1 DEF Posted, IndInv, InboxInv
    <3> QED BY <2>1, <3>1, Zenon DEF Posted, Tx, Accepted, ToTalker, ToListener, TxCommands, TxGets,
                              Responses, RxCommands
  <2>2. CASE Carried(e, x)
    <3>1. CASE e \in Talker /\ talker[e].state \in TxCommands /\ x = talker[e].cmd
      <4>1. x \in ToTalker /\ x.type \in TxCommands
        BY <3>1 DEF IndInv, TalkerInv, SoundTalker, TxCommands
      <4> QED BY <4>1 DEF Tx, ToTalker, TxCommands, TxGets
    <3>2. CASE e \in Listener /\ listener[e].state \in Responses /\ x = listener[e].cmd
      <4>1. x \in ToListener /\ x.type \in Responses
        BY <3>2, Zenon DEF IndInv, ListenerInv, SoundListener, Responses
      <4> QED BY <4>1 DEF Tx, ToListener, Responses, RxCommands
    <3> QED BY <2>2, <3>1, <3>2 DEF Carried
  <2> QED BY <2>1, <2>2 DEF Wire
<1> QED BY <1>1 DEF Port

\* A packet moves among the places of one entity, or is dropped.
LEMMA WireMoved ==
  ASSUME WireAlone, NEW e \in Entity, NEW m \in [Int -> Int],
         \A j, k \in Int : m[j] = m[k] => j = k,
         \A k \in Int : \A x : Wire(e, k, x)' => Wire(e, m[k], x),
         \A f \in Entity \ {e} : \A k \in Int : \A x : Wire(f, k, x)' => Wire(f, k, x)
  PROVE  WireAlone'
<1> SUFFICES ASSUME NEW d \in Entity, NEW f \in Entity, NEW j \in Int, NEW k \in Int, NEW x, NEW y,
                    Wire(d, j, x)', Wire(f, k, y)', x.port[1] = y.port[1]
             PROVE  d = f /\ j = k
  BY DEF WireAlone
<1> DEFINE was(g, n) == IF g = e THEN m[n] ELSE n
<1>1. was(d, j) \in Int /\ was(f, k) \in Int /\ Wire(d, was(d, j), x) /\ Wire(f, was(f, k), y)
  OBVIOUS
<1>2. d = f /\ was(d, j) = was(f, k)
  BY <1>1, ZenonT(40) DEF WireAlone
<1> QED BY <1>2

\* No packet moves; some may be dropped.
LEMMA WireStays ==
  ASSUME WireAlone,
         \A f \in Entity : \A k \in Int : \A x : Wire(f, k, x)' => Wire(f, k, x)
  PROVE  WireAlone'
BY DEF WireAlone

\* What is posted after a delivery was posted before or is the packet delivered.
LEMMA PostedDelivered ==
  ASSUME InboxInv, NEW e \in Entity, NEW msg \in Message, inbox' = Deliver(inbox, e, msg),
         NEW f \in Entity, NEW k, NEW x, Posted(f, k, x)'
  PROVE  \/ Posted(f, k, x)
         \/ f = e /\ k = Len(inbox[e]) + 1 /\ x = msg /\ Tx(msg)
<1>1. CASE f = e
  <2>1. inbox[e] \in Seq(Message) /\ inbox'[e] = Append(inbox[e], msg)
    BY DEF InboxInv, Deliver
  <2>2. k \in 1..(Len(inbox[e]) + 1) /\ x = inbox'[e][k] /\ Tx(x)
    BY <1>1, <2>1 DEF Posted
  <2>3. inbox'[e][k] = IF k = Len(inbox[e]) + 1 THEN msg ELSE inbox[e][k]
    BY <2>1, <2>2
  <2>4. k # Len(inbox[e]) + 1 => k \in DOMAIN inbox[e]
    BY <2>1, <2>2
  <2> QED BY <1>1, <2>2, <2>3, <2>4 DEF Posted
<1>2. CASE f # e
  <2>1. inbox'[f] = inbox[f]
    BY <1>2 DEF InboxInv, Deliver
  <2> QED BY <2>1 DEF Posted
<1> QED BY <1>1, <1>2

\* What is posted after a packet was taken was posted before, one place further back.
LEMMA PostedTaken ==
  ASSUME InboxInv, NEW e \in Entity, inbox[e] # <<>>, inbox' = Take(e)
  PROVE  /\ \A k, x : Posted(e, k, x)' => k \in Nat \ {0} /\ Posted(e, k + 1, x)
         /\ \A f \in Entity \ {e} : \A k, x : Posted(f, k, x)' => Posted(f, k, x)
         /\ Tx(Head(inbox[e])) => Posted(e, 1, Head(inbox[e]))
<1>1. inbox[e] \in Seq(Message) /\ inbox'[e] = Tail(inbox[e])
  BY DEF InboxInv, Take
<1>2. ASSUME NEW k, NEW x, Posted(e, k, x)'
      PROVE  k \in Nat \ {0} /\ Posted(e, k + 1, x)
  <2>1. k \in 1..(Len(inbox[e]) - 1) /\ x = inbox'[e][k] /\ Tx(x)
    BY <1>1, <1>2 DEF Posted
  <2>2. inbox'[e][k] = inbox[e][k + 1] /\ k + 1 \in 1..Len(inbox[e]) /\ k \in Nat \ {0}
    BY <1>1, <2>1
  <2> QED BY <1>1, <2>1, <2>2 DEF Posted
<1>3. ASSUME NEW f \in Entity \ {e}, NEW k, NEW x, Posted(f, k, x)' PROVE Posted(f, k, x)
  <2>1. inbox'[f] = inbox[f]
    BY DEF InboxInv, Take
  <2> QED BY <1>3, <2>1 DEF Posted
<1>4. Head(inbox[e]) = inbox[e][1] /\ 1 \in DOMAIN inbox[e]
  BY <1>1
<1> QED BY <1>2, <1>3, <1>4 DEF Posted

\* What an entity carries changes only with the packet it has in hand.
LEMMA CarriedBy ==
  ASSUME NEW f, NEW x
  PROVE  /\ (f \in Talker => talker'[f] = talker[f]) /\ (f \in Listener => listener'[f] = listener[f])
              => (Carried(f, x)' <=> Carried(f, x))
         /\ f \in Talker /\ talker'[f] = TalkerWaiting => ~Carried(f, x)'
         /\ f \in Listener /\ listener'[f].state \notin Responses => ~Carried(f, x)'
<1>1. (f \in Talker => talker'[f] = talker[f]) /\ (f \in Listener => listener'[f] = listener[f])
        => (Carried(f, x)' <=> Carried(f, x))
  BY DEF Carried
<1>2. f \in Talker /\ talker'[f] = TalkerWaiting => ~Carried(f, x)'
  BY AcmpAssumption DEF Carried, TalkerWaiting, TxCommands
<1>3. f \in Listener /\ listener'[f].state \notin Responses => ~Carried(f, x)'
  BY AcmpAssumption DEF Carried
<1> QED BY <1>1, <1>2, <1>3, Zenon

\* The first packet of an inbox is taken in hand, dropped or lost.
LEMMA WireReceived ==
  ASSUME InboxInv, WireAlone, NEW e \in Entity, inbox[e] # <<>>, inbox' = Take(e),
         \A f \in Entity \ {e} : \A x : Carried(f, x)' => Carried(f, x),
         \/ \A x : Carried(e, x)' => Carried(e, x)
         \/ \A x : Carried(e, x)' => x = Head(inbox[e]) /\ Tx(x)
  PROVE  /\ WireAlone'
         /\ \A f \in Entity : \A k \in Int : \A x : Wire(f, k, x)' => \E j \in Int : Wire(f, j, x)
<1>1. ASSUME NEW f \in Entity \ {e}, NEW k \in Int, NEW x, Wire(f, k, x)' PROVE Wire(f, k, x)
  BY <1>1, PostedTaken DEF Wire
<1>2. CASE \A x : Carried(e, x)' => Carried(e, x)
  <2> DEFINE m == [k \in Int |-> IF k > 0 THEN k + 1 ELSE k]
  <2>1. m \in [Int -> Int] /\ \A j, k \in Int : m[j] = m[k] => j = k
    OBVIOUS
  <2>2. ASSUME NEW k \in Int, NEW x, Wire(e, k, x)' PROVE Wire(e, m[k], x)
    <3>1. CASE Posted(e, k, x)'
      <4>1. k \in Nat \ {0} /\ Posted(e, k + 1, x)
        BY <3>1, PostedTaken
      <4>2. m[k] = k + 1
        BY <4>1
      <4> QED BY <4>1, <4>2 DEF Wire
    <3>2. CASE k = 0 /\ Carried(e, x)'
      <4>1. m[k] = k
        BY <3>2
      <4> QED BY <1>2, <3>2, <4>1 DEF Wire
    <3> QED BY <2>2, <3>1, <3>2 DEF Wire
  <2> HIDE DEF m
  <2>3. WireAlone'
    BY <1>1, <2>1, <2>2, WireMoved, Zenon
  <2>4. ASSUME NEW f \in Entity, NEW k \in Int, NEW x, Wire(f, k, x)'
        PROVE  \E j \in Int : Wire(f, j, x)
    <3>1. m[k] \in Int
      BY <2>1
    <3> QED BY <1>1, <2>2, <2>4, <3>1
  <2> QED BY <2>3, <2>4, Zenon
<1>3. CASE \A x : Carried(e, x)' => x = Head(inbox[e]) /\ Tx(x)
  <2> DEFINE m == [k \in Int |-> IF k >= 0 THEN k + 1 ELSE k]
  <2>1. m \in [Int -> Int] /\ \A j, k \in Int : m[j] = m[k] => j = k
    OBVIOUS
  <2>2. ASSUME NEW k \in Int, NEW x, Wire(e, k, x)' PROVE Wire(e, m[k], x)
    <3>1. CASE Posted(e, k, x)'
      <4>1. k \in Nat \ {0} /\ Posted(e, k + 1, x)
        BY <3>1, PostedTaken
      <4>2. m[k] = k + 1
        BY <4>1
      <4> QED BY <4>1, <4>2 DEF Wire
    <3>2. CASE k = 0 /\ Carried(e, x)'
      <4>1. m[k] = 1
        BY <3>2
      <4>2. Posted(e, 1, x)
        BY <1>3, <3>2, PostedTaken
      <4> QED BY <4>1, <4>2 DEF Wire
    <3> QED BY <2>2, <3>1, <3>2 DEF Wire
  <2> HIDE DEF m
  <2>3. WireAlone'
    BY <1>1, <2>1, <2>2, WireMoved, Zenon
  <2>4. ASSUME NEW f \in Entity, NEW k \in Int, NEW x, Wire(f, k, x)'
        PROVE  \E j \in Int : Wire(f, j, x)
    <3>1. m[k] \in Int
      BY <2>1
    <3> QED BY <1>1, <2>2, <2>4, <3>1, Zenon
  <2> QED BY <2>3, <2>4
<1> QED BY <1>2, <1>3, Zenon

\* A packet stays sound while its listener waits, and its sink is listed.
LEMMA SoundStays ==
  ASSUME NEW x, WireSound(x), listener'[x.port[1]].state # "RX_TIMEOUT",
         inflight'[x.port[1]] = inflight[x.port[1]],
         (x.type = "CONNECT_TX_RESPONSE" /\ x.stream \in Stream /\ Listed(x.stream, x.port) # {})
           => Listed(x.stream, x.port)' # {}
  PROVE  WireSound(x)'
BY Zenon DEF WireSound, InUse

\* A talker with a slot for every sink finds one for the sink it adds.
LEMMA RoomToAdd ==
  ASSUME Counting, PatientAmple, TableInv, NEW s \in Stream, NEW p \in Port, AddTalkerStreamInfo(s, p)
  PROVE  /\ Listed(s, p)' # {}
         /\ \A r \in Stream : \A q \in Port : Listed(r, q) # {} => Listed(r, q)' # {}
<1>1. CASE Listed(s, p) # {}
  <2>1. list' = list
    BY <1>1 DEF AddTalkerStreamInfo
  <2> QED BY <1>1, <2>1 DEF Listed
<1>2. CASE Listed(s, p) = {} /\ FreeSlots(s) = {}
  <2> DEFINE f == list[s]
  <2>1. f \in [Slots -> Port] /\ \A i, j \in Slots : f[i] = f[j] => i = j
    <3>1. f \in [Slots -> Port \cup {None}] /\ \A i \in Slots : f[i] # None
      BY <1>2 DEF TableInv, FreeSlots
    <3>2. \A i, j \in Slots : f[i] = f[j] => i = j
      BY <1>2, Zenon DEF TableInv, CountMatchesList
    <3> QED BY <3>1, <3>2, Zenon
  <2>2. \E i \in Slots : f[i] = p
    <3> HIDE DEF f
    <3> QED BY <2>1 DEF PatientAmple, Ample
  <2> QED BY <1>2, <2>2 DEF Listed
<1>3. CASE Listed(s, p) = {} /\ FreeSlots(s) # {}
  <2> DEFINE k == First(FreeSlots(s))
  <2>1. k \in Slots /\ list[s][k] = None
    <3>1. FreeSlots(s) \in SUBSET Nat
      BY AcmpAssumption DEF FreeSlots, Slots
    <3>2. k \in FreeSlots(s)
      BY <1>3, <3>1, FirstIn
    <3> QED BY <3>2 DEF FreeSlots
  <2>2. list' = [list EXCEPT ![s][k] = p]
    BY <1>3 DEF AddTalkerStreamInfo
  <2> HIDE DEF k
  <2>3. \A q \in Port : q # None
    BY NoneIsApart DEF Port, AnyPort
  <2>4. list'[s][k] = p
    BY <2>1, <2>2 DEF TableInv
  <2>5. ASSUME NEW r \in Stream, NEW q \in Port, NEW i \in Slots, list[r][i] = q
        PROVE  list'[r][i] = q
    BY <2>1, <2>2, <2>3, <2>5 DEF TableInv
  <2> QED BY <2>1, <2>4, <2>5 DEF Listed
<1> QED BY <1>1, <1>2, <1>3

\* Removing a sink unlists no other.
LEMMA RemoveKeeps ==
  ASSUME Counting, TableInv, NEW s \in Stream, NEW p \in Port, RemoveTalkerStreamInfo(s, p),
         NEW r \in Stream, NEW q \in Port, q # p, Listed(r, q) # {}
  PROVE  Listed(r, q)' # {}
<1>1. CASE Listed(s, p) = {}
  <2>1. list' = list
    BY <1>1 DEF RemoveTalkerStreamInfo
  <2> QED BY <2>1 DEF Listed
<1>2. CASE Listed(s, p) # {}
  <2> DEFINE k == First(Listed(s, p))
  <2>1. k \in Slots /\ list[s][k] = p
    <3>1. Listed(s, p) \in SUBSET Nat
      BY AcmpAssumption DEF Listed, Slots
    <3>2. k \in Listed(s, p)
      BY <1>2, <3>1, FirstIn
    <3> QED BY <3>2 DEF Listed
  <2>2. list' = [list EXCEPT ![s][k] = None]
    BY <1>2 DEF RemoveTalkerStreamInfo
  <2> HIDE DEF k
  <2>3. PICK i \in Slots : list[r][i] = q
    BY DEF Listed
  <2>4. list'[r][i] = q
    BY <2>1, <2>2, <2>3 DEF TableInv
  <2> QED BY <2>3, <2>4 DEF Listed
<1> QED BY <1>1, <1>2

-----------------------------------------------------------------------------
AgreeInv == WireInv /\ Undone /\ EndsAgree

\* A step that sends nothing and changes no table.
LEMMA AgreeStays ==
  ASSUME IndInv, AgreeInv, WireAlone', UNCHANGED <<list, record, sink, inflight>>,
         \A m \in Listener : listener'[m].state = "RX_TIMEOUT" => listener[m].state = "RX_TIMEOUT",
         \A f \in Entity : \A k \in Int : \A x : Wire(f, k, x)' => \E j \in Int : Wire(f, j, x)
  PROVE  AgreeInv'
<1>1. ASSUME NEW f \in Entity, NEW k \in Int, NEW x, Wire(f, k, x)' PROVE WireSound(x)'
  <2>1. PICK j \in Int : Wire(f, j, x)
    BY <1>1
  <2>2. WireSound(x) /\ x.port[1] \in Listener
    BY <2>1, WireMessage, Zenon DEF AgreeInv, WireInv
  <2>3. listener'[x.port[1]].state # "RX_TIMEOUT"
    BY <2>2, Zenon DEF WireSound
  <2>4. Listed(x.stream, x.port)' = Listed(x.stream, x.port)
    BY DEF Listed
  <2> QED BY <2>2, <2>3, <2>4, SoundStays, Zenon
<1>2. Undone'
  BY Zenon DEF AgreeInv, Undone, InUse
<1>3. EndsAgree'
  BY Zenon DEF AgreeInv, EndsAgree, ConnectedIsListed, EnabledIsConnected, Listed
<1> QED BY <1>1, <1>2, <1>3, Zenon DEF AgreeInv, WireInv

\* Controllers, packet losses, and the steps of a talker that send nothing.
LEMMA QuietAgree ==
  ASSUME IndInv, AgreeInv,
         \/ \E type \in Types, s \in AnyStream, p \in AnyPort, b \in BOOLEAN : Command(type, s, p, b)
         \/ (\E c \in Ids : GiveUp(c)) \/ UNCHANGED vars
         \/ \E t \in Talker : AddressReserved(t) \/ TalkerReceive(t) \/ TalkerGet(t)
         \/ \E e \in Entity : Lose(e)
  PROVE  AgreeInv'
<1>1. UNCHANGED <<list, record, sink, inflight, listener>>
  BY Zenon DEF Command, GiveUp, vars, AddressReserved, TalkerReceive, TalkerGet, Lose,
         talkerVars, listenerVars
<1> SUFFICES /\ WireAlone'
             /\ \A f \in Entity : \A k \in Int : \A x : Wire(f, k, x)' => \E j \in Int : Wire(f, j, x)
  BY <1>1, AgreeStays
<1> SUFFICES \/ \A f \in Entity : \A k \in Int : \A x : Wire(f, k, x)' => Wire(f, k, x)
             \/ /\ WireAlone'
                /\ \A f \in Entity : \A k \in Int : \A x : Wire(f, k, x)' => \E j \in Int : Wire(f, j, x)
  BY WireStays, Zenon DEF AgreeInv, WireInv
<1>2. ASSUME NEW type \in Types, NEW s \in AnyStream, NEW p \in AnyPort, NEW b \in BOOLEAN,
             Command(type, s, p, b), NEW f \in Entity, NEW k \in Int, NEW x, Wire(f, k, x)'
      PROVE  Wire(f, k, x)
  <2> DEFINE e == IF type \in TxGets THEN s[1] ELSE p[1]
             msg == [type |-> type, stream |-> s, port |-> p, seq |-> Len(issued) + 1,
                     status |-> "SUCCESS", classB |-> b]
  <2>1. /\ Len(issued) + 1 \in Ids /\ inbox' = Deliver(inbox, e, msg) /\ talker' = talker
    BY <1>2, Zenon DEF Command, talkerVars
  <2>2. e \in Entity
    BY DEF AnyStream, AnyPort, Entity
  <2>3. msg \in Message /\ ~Tx(msg)
    BY <2>1, AcmpAssumption DEF Message, Ids, Statuses, Tx, TxCommands, Responses, RxCommands, TxGets
  <2> HIDE DEF e, msg
  <2>4. Posted(f, k, x)' => Posted(f, k, x)
    BY <2>1, <2>2, <2>3, PostedDelivered, Zenon DEF IndInv
  <2>5. Carried(f, x)' <=> Carried(f, x)
    BY <1>1, <2>1, Zenon DEF Carried
  <2> QED BY <1>2, <2>4, <2>5 DEF Wire
<1>3. CASE (\E c \in Ids : GiveUp(c)) \/ UNCHANGED vars
  <2>1. UNCHANGED <<inbox, talker>>
    BY <1>3 DEF GiveUp, vars, talkerVars
  <2> QED BY <1>1, <2>1 DEF Wire, Posted, Carried
<1>4. ASSUME NEW t \in Talker, AddressReserved(t) \/ TalkerGet(t)
      PROVE  \A f \in Entity : \A k \in Int : \A x : Wire(f, k, x)' => Wire(f, k, x)
  <2>1. inbox' = inbox /\ talker' = [talker EXCEPT ![t] = TalkerWaiting]
    BY <1>4, Zenon DEF AddressReserved, TalkerGet
  <2>2. talker'[t] = TalkerWaiting /\ \A u \in Talker \ {t} : talker'[u] = talker[u]
    BY <2>1, Zenon DEF IndInv, TalkerInv
  <2>3. \A f, x : Carried(f, x)' => Carried(f, x)
    BY <1>1, <2>2, CarriedBy, Zenon
  <2>4. \A f, k, x : Posted(f, k, x)' <=> Posted(f, k, x)
    BY <2>1 DEF Posted
  <2> QED BY <2>3, <2>4 DEF Wire
<1>5. ASSUME NEW t \in Talker, TalkerReceive(t)
      PROVE  /\ WireAlone'
             /\ \A f \in Entity : \A k \in Int : \A x : Wire(f, k, x)' => \E j \in Int : Wire(f, j, x)
  <2>1. /\ inbox[t] # <<>> /\ inbox' = Take(t)
        /\ \/ talker' = talker
           \/ talker' = [talker EXCEPT ![t] = [state |-> Head(inbox[t]).type, cmd |-> Head(inbox[t])]]
    BY <1>5, Zenon DEF TalkerReceive
  <2>2. t \in Entity /\ t \notin Listener
    BY AcmpAssumption DEF Entity
  <2>3. \A f \in Entity \ {t} : \A x : Carried(f, x)' => Carried(f, x)
    BY <1>1, <2>1, CarriedBy, Zenon DEF IndInv, TalkerInv
  <2>4. \/ \A x : Carried(t, x)' => Carried(t, x)
        \/ \A x : Carried(t, x)' => x = Head(inbox[t]) /\ Tx(x)
    <3>1. CASE talker' = talker
      BY <1>1, <3>1, Zenon DEF Carried
    <3>2. CASE talker' = [talker EXCEPT ![t] = [state |-> Head(inbox[t]).type, cmd |-> Head(inbox[t])]]
      <4>1. talker'[t] = [state |-> Head(inbox[t]).type, cmd |-> Head(inbox[t])]
        BY <3>2, Zenon DEF IndInv, TalkerInv
      <4>2. talker'[t].state = Head(inbox[t]).type /\ talker'[t].cmd = Head(inbox[t])
        BY <4>1
      <4>3. ASSUME NEW x, Carried(t, x)'
            PROVE  x = Head(inbox[t]) /\ Tx(x)
        <5>1. talker'[t].state \in TxCommands /\ x = talker'[t].cmd
          BY <2>2, <4>3, Zenon DEF Carried
        <5>2. x = Head(inbox[t]) /\ x.type \in TxCommands
          BY <4>2, <5>1, Zenon
        <5> QED BY <5>2 DEF Tx
      <4> QED BY <4>3
    <3> QED BY <2>1, <3>1, <3>2, Zenon
  <2> QED BY <2>1, <2>2, <2>3, <2>4, WireReceived, Zenon DEF IndInv, AgreeInv, WireInv
<1>6. ASSUME NEW e \in Entity, Lose(e)
      PROVE  /\ WireAlone'
             /\ \A f \in Entity : \A k \in Int : \A x : Wire(f, k, x)' => \E j \in Int : Wire(f, j, x)
  <2>1. inbox[e] # <<>> /\ inbox' = Take(e) /\ talker' = talker
    BY <1>6, Zenon DEF Lose, talkerVars
  <2>2. \A f, x : Carried(f, x)' => Carried(f, x)
    BY <1>1, <2>1, Zenon DEF Carried
  <2> QED BY <2>1, <2>2, WireReceived, Zenon DEF IndInv, AgreeInv, WireInv
<1> QED BY <1>2, <1>3, <1>4, <1>5, <1>6, Zenon

\* A listener takes a packet in hand, or answers the command it has in hand.
LEMMA HandleAgree ==
  ASSUME IndInv, AgreeInv, NEW l \in Listener,
         \/ ListenerReceive(l)
         \/ /\ UNCHANGED <<inbox, talker, list, record, sink, inflight>>
            /\ listener' = [listener EXCEPT ![l] = ListenerWaiting(@.seq)]
  PROVE  AgreeInv'
<1>l. l \in Entity /\ l \notin Talker
  BY AcmpAssumption DEF Entity
<1>1. UNCHANGED <<talker, list, record, sink, inflight>>
  BY DEF ListenerReceive, talkerVars
<1>2. CASE ListenerReceive(l)
  <2>1. /\ inbox[l] # <<>> /\ inbox' = Take(l)
        /\ \A m \in Listener \ {l} : listener'[m] = listener[m]
        /\ \/ listener'[l] = listener[l]
           \/ listener'[l].state = Head(inbox[l]).type /\ listener'[l].cmd = Head(inbox[l])
    BY <1>2 DEF ListenerReceive, IndInv, ListenerInv, SoundListener
  <2>2. \A f \in Entity \ {l} : \A x : Carried(f, x)' => Carried(f, x)
    BY <1>1, <2>1, CarriedBy, Zenon
  <2>3. \/ \A x : Carried(l, x)' => Carried(l, x)
        \/ \A x : Carried(l, x)' => x = Head(inbox[l]) /\ Tx(x)
    BY <1>l, <2>1, Zenon DEF Carried, Tx
  <2>4. /\ WireAlone'
        /\ \A f \in Entity : \A k \in Int : \A x : Wire(f, k, x)' => \E j \in Int : Wire(f, j, x)
    BY <1>l, <2>1, <2>2, <2>3, WireReceived, Zenon DEF IndInv, AgreeInv, WireInv
  <2>5. Head(inbox[l]).type # "RX_TIMEOUT"
    <3>1. Head(inbox[l]) \in Message
      BY <1>l, <2>1 DEF IndInv, InboxInv
    <3> QED BY <3>1, Zenon DEF Message, RxCommands, TxGets, TxCommands, Responses
  <2>6. \A m \in Listener : listener'[m].state = "RX_TIMEOUT" => listener[m].state = "RX_TIMEOUT"
    BY <2>1, <2>5, Zenon
  <2> QED BY <1>1, <2>4, <2>6, AgreeStays
<1>3. CASE /\ UNCHANGED inbox
           /\ listener' = [listener EXCEPT ![l] = ListenerWaiting(@.seq)]
  <2>1. /\ listener'[l].state = "WAITING" /\ \A m \in Listener \ {l} : listener'[m] = listener[m]
    BY <1>3, Zenon DEF ListenerWaiting, IndInv, ListenerInv
  <2>2. \A f \in Entity : \A x : Carried(f, x)' => Carried(f, x)
    BY <1>1, <2>1, CarriedBy DEF Responses
  <2>3. \A f, k, x : Posted(f, k, x)' <=> Posted(f, k, x)
    BY <1>3 DEF Posted
  <2>4. \A f \in Entity : \A k \in Int : \A x : Wire(f, k, x)' => Wire(f, k, x)
    BY <2>2, <2>3 DEF Wire
  <2>5. WireAlone'
    BY <2>4, WireStays DEF AgreeInv, WireInv
  <2>6. \A m \in Listener : listener'[m].state = "RX_TIMEOUT" => listener[m].state = "RX_TIMEOUT"
    BY <2>1
  <2> QED BY <1>1, <2>4, <2>5, <2>6, AgreeStays
<1> QED BY <1>2, <1>3

\* The talker answers the only packet about a listener with another.
LEMMA RespondWire ==
  ASSUME IndInv, AgreeInv, NEW t \in Talker, TalkerConnect(t) \/ TalkerDisconnect(t)
  PROVE  \E cmd, msg \in Message :
           /\ cmd = talker[t].cmd /\ cmd.type = talker[t].state
           /\ msg.type = (IF cmd.type = "CONNECT_TX" THEN "CONNECT_TX_RESPONSE"
                          ELSE "DISCONNECT_TX_RESPONSE")
           /\ msg.stream = cmd.stream /\ msg.port = cmd.port /\ cmd.port \in Port
           /\ cmd.port[1] \in Listener
           /\ \E i \in InUse(cmd.port[1]) :
                /\ Stands(inflight[cmd.port[1]][i].cmd, cmd)
                /\ Stands(inflight[cmd.port[1]][i].cmd, msg)
           /\ listener[cmd.port[1]].state # "RX_TIMEOUT"
           /\ WireAlone'
           /\ \A f \in Entity : \A k \in Int : \A x : Wire(f, k, x)' =>
                \/ Wire(f, k, x) /\ x.port[1] # cmd.port[1]
                \/ x = msg
<1>1. PICK msg \in Message :
        /\ talker[t].state = talker[t].cmd.type /\ talker[t].state \in TxCommands
        /\ msg.type = (IF talker[t].state = "CONNECT_TX" THEN "CONNECT_TX_RESPONSE"
                       ELSE "DISCONNECT_TX_RESPONSE")
        /\ msg.seq = talker[t].cmd.seq /\ msg.stream = talker[t].cmd.stream
        /\ msg.port = talker[t].cmd.port /\ msg.port \in Port /\ msg.port[1] \in Listener
        /\ inbox' = Deliver(inbox, msg.port[1], msg)
        /\ talker' = [talker EXCEPT ![t] = TalkerWaiting]
  BY RespondFacts, Zenon
<1>2. PICK cmd \in Message : cmd = talker[t].cmd
  BY <1>1, Zenon DEF IndInv, TalkerInv, SoundTalker, ToTalker, TxCommands
<1>3. Wire(t, 0, cmd) /\ t \in Entity
  BY <1>1, <1>2, Zenon DEF Wire, Carried, Entity
<1>4. WireSound(cmd)
  BY <1>3 DEF AgreeInv, WireInv
<1>5. PICK i \in InUse(cmd.port[1]) : Stands(inflight[cmd.port[1]][i].cmd, cmd)
  BY <1>4, Zenon DEF WireSound
<1>6. Stands(inflight[cmd.port[1]][i].cmd, msg)
  BY <1>1, <1>2, <1>5, Zenon DEF Stands, TxCommands
<1>7. UNCHANGED listener
  BY Zenon DEF TalkerConnect, TalkerDisconnect, listenerVars
<1>e. PICK e \in Entity : e = msg.port[1]
  BY <1>1, Zenon DEF Entity
<1>n. PICK n : n = Len(inbox[e]) + 1
  BY Zenon
<1>8. ASSUME NEW f \in Entity, NEW k \in Int, NEW x, Wire(f, k, x)'
      PROVE  \/ Wire(f, k, x) /\ x.port[1] # msg.port[1]
             \/ f = e /\ k = n /\ x = msg
  <2>1. Posted(f, k, x)' => Posted(f, k, x) \/ (f = e /\ k = n /\ x = msg)
    BY <1>e, <1>n, <1>1, PostedDelivered DEF IndInv
  <2>2. talker'[t] = TalkerWaiting /\ \A u \in Talker \ {t} : talker'[u] = talker[u]
    BY <1>1, Zenon DEF IndInv, TalkerInv
  <2>3. Carried(f, x)' => Carried(f, x) /\ f # t
    BY <1>7, <2>2, CarriedBy, Zenon
  <2>4. ~Posted(t, 0, x)
    BY <1>3 DEF Posted, IndInv, InboxInv
  <2>5. CASE Wire(f, k, x) /\ ~(f = t /\ k = 0)
    <3>1. x.port[1] # cmd.port[1]
      BY <1>3, <2>5 DEF AgreeInv, WireInv, WireAlone
    <3> QED BY <1>1, <1>2, <2>5, <3>1, Zenon
  <2> QED BY <1>8, <2>1, <2>3, <2>4, <2>5, Zenon DEF Wire
<1>9. WireAlone'
  <2>1. WireAlone
    BY DEF AgreeInv, WireInv
  <2>2. \A f \in Entity : \A k \in Int : \A x : Wire(f, k, x)' =>
          (Wire(f, k, x) /\ x.port[1] # msg.port[1]) \/ (f = e /\ k = n /\ x = msg)
    BY <1>8
  <2> SUFFICES ASSUME NEW d \in Entity, NEW f \in Entity, NEW j \in Int, NEW k \in Int, NEW x, NEW y,
                      Wire(d, j, x)', Wire(f, k, y)', x.port[1] = y.port[1]
               PROVE  d = f /\ j = k
    BY DEF WireAlone
  <2>3. (Wire(d, j, x) /\ x.port[1] # msg.port[1]) \/ (d = e /\ j = n /\ x = msg)
    BY <2>2
  <2>4. (Wire(f, k, y) /\ y.port[1] # msg.port[1]) \/ (f = e /\ k = n /\ y = msg)
    BY <2>2
  <2> QED BY <2>1, <2>3, <2>4 DEF WireAlone
<1>10. listener[cmd.port[1]].state # "RX_TIMEOUT"
  BY <1>4 DEF WireSound
<1>11. \A f \in Entity : \A k \in Int : \A x : Wire(f, k, x)' =>
         \/ Wire(f, k, x) /\ x.port[1] # cmd.port[1]
         \/ x = msg
  BY <1>1, <1>2, <1>8
<1> QED BY <1>1, <1>2, <1>5, <1>6, <1>9, <1>10, <1>11, Zenon

\* A packet about another listener stays sound.
LEMMA OtherSound ==
  ASSUME IndInv, AgreeInv, NEW l \in Listener,
         \A m \in Listener \ {l} : /\ listener'[m].state = listener[m].state
                                   /\ inflight'[m] = inflight[m],
         \A s \in Stream : \A q \in Port :
           q[1] # l /\ Listed(s, q) # {} => Listed(s, q)' # {},
         NEW e \in Entity, NEW k \in Int, NEW x, Wire(e, k, x), x.port[1] # l
  PROVE  WireSound(x)'
<1>1. x.port \in Port /\ x.port[1] \in Listener \ {l} /\ WireSound(x)
  BY WireMessage, Zenon DEF AgreeInv, WireInv
<1>2. listener'[x.port[1]].state # "RX_TIMEOUT" /\ inflight'[x.port[1]] = inflight[x.port[1]]
  BY <1>1, Zenon DEF WireSound
<1> QED BY <1>1, <1>2, SoundStays, Zenon

\* The packets about other listeners stay sound if their sinks stay listed.
LEMMA OthersSound ==
  ASSUME IndInv, AgreeInv, NEW l \in Listener, NEW msg, WireSound(msg)',
         \A m \in Listener \ {l} : /\ listener'[m].state = listener[m].state
                                   /\ inflight'[m] = inflight[m],
         \A s \in Stream : \A q \in Port :
           q[1] # l /\ Listed(s, q) # {} => Listed(s, q)' # {},
         \A f \in Entity : \A k \in Int : \A x : Wire(f, k, x)' =>
           (Wire(f, k, x) /\ x.port[1] # l) \/ x = msg
  PROVE  \A e \in Entity : \A k \in Int : \A x : Wire(e, k, x)' => WireSound(x)'
BY OtherSound, Zenon

\* A connect the talker processes lists the sink, and the two ends still agree.
LEMMA TalkerConnectAgree ==
  ASSUME Counting, PatientAmple, IndInv, AgreeInv, NEW t \in Talker, TalkerConnect(t)
  PROVE  AgreeInv'
<1>1. PICK cmd \in Message, msg \in Message :
        /\ cmd = talker[t].cmd /\ cmd.type = talker[t].state
        /\ msg.type = (IF cmd.type = "CONNECT_TX" THEN "CONNECT_TX_RESPONSE"
                       ELSE "DISCONNECT_TX_RESPONSE")
        /\ msg.stream = cmd.stream /\ msg.port = cmd.port /\ cmd.port \in Port
        /\ cmd.port[1] \in Listener
        /\ \E i \in InUse(cmd.port[1]) : Stands(inflight[cmd.port[1]][i].cmd, msg)
        /\ listener[cmd.port[1]].state # "RX_TIMEOUT"
        /\ WireAlone'
        /\ \A f \in Entity : \A k \in Int : \A x : Wire(f, k, x)' =>
             \/ Wire(f, k, x) /\ x.port[1] # cmd.port[1]
             \/ x = msg
  BY RespondWire
<1>2. UNCHANGED <<listener, record, sink, inflight>>
  BY Zenon DEF TalkerConnect, listenerVars
<1>3. /\ cmd.stream \in Stream => Listed(cmd.stream, cmd.port)' # {}
      /\ \A s \in Stream : \A q \in Port : Listed(s, q) # {} => Listed(s, q)' # {}
  <2>1. CASE cmd.stream \in Stream
    <3>1. AddTalkerStreamInfo(cmd.stream, cmd.port)
      BY <1>1, <2>1, Zenon DEF TalkerConnect
    <3> QED BY <1>1, <2>1, <3>1, RoomToAdd, Zenon DEF IndInv
  <2>2. CASE cmd.stream \notin Stream
    <3>1. list' = list
      BY <1>1, <2>2, Zenon DEF TalkerConnect
    <3> QED BY <2>2, <3>1 DEF Listed
  <2> QED BY <2>1, <2>2
<1>4. WireSound(msg)'
  BY <1>1, <1>2, <1>3, Zenon DEF WireSound, InUse
<1>5. WireInv'
  <2>1. \A e \in Entity : \A k \in Int : \A x : Wire(e, k, x)' => WireSound(x)'
    <3>1. PICK l \in Listener : l = cmd.port[1]
      BY <1>1, Zenon
    <3>2. \A f \in Entity : \A k \in Int : \A x : Wire(f, k, x)' =>
            (Wire(f, k, x) /\ x.port[1] # l) \/ x = msg
      BY <1>1, <3>1, Zenon
    <3>3. \A s \in Stream : \A q \in Port : q[1] # l /\ Listed(s, q) # {} => Listed(s, q)' # {}
      BY <1>3, <3>1
    <3>4. \A m \in Listener \ {l} : /\ listener'[m].state = listener[m].state
                                    /\ inflight'[m] = inflight[m]
      BY <1>2
    <3> QED BY <1>4, <3>2, <3>3, <3>4, OthersSound, Zenon
  <2> QED BY <1>1, <2>1, Zenon DEF WireInv
<1>6. Undone'
  BY <1>2, Zenon DEF AgreeInv, Undone, InUse
<1>7. EndsAgree'
  BY <1>2, <1>3 DEF AgreeInv, EndsAgree, ConnectedIsListed, EnabledIsConnected
<1> QED BY <1>5, <1>6, <1>7 DEF AgreeInv

\* A disconnect the talker processes takes only its own sink off the list.
LEMMA TalkerDisconnectAgree ==
  ASSUME Counting, IndInv, AgreeInv, Addressed, NEW t \in Talker, TalkerDisconnect(t)
  PROVE  AgreeInv'
<1>1. PICK cmd \in Message, msg \in Message :
        /\ cmd = talker[t].cmd /\ cmd.type = talker[t].state
        /\ msg.type = (IF cmd.type = "CONNECT_TX" THEN "CONNECT_TX_RESPONSE"
                       ELSE "DISCONNECT_TX_RESPONSE")
        /\ msg.stream = cmd.stream /\ msg.port = cmd.port /\ cmd.port \in Port
        /\ cmd.port[1] \in Listener
        /\ \E i \in InUse(cmd.port[1]) :
             /\ Stands(inflight[cmd.port[1]][i].cmd, cmd)
             /\ Stands(inflight[cmd.port[1]][i].cmd, msg)
        /\ listener[cmd.port[1]].state # "RX_TIMEOUT"
        /\ WireAlone'
        /\ \A f \in Entity : \A k \in Int : \A x : Wire(f, k, x)' =>
             \/ Wire(f, k, x) /\ x.port[1] # cmd.port[1]
             \/ x = msg
  BY RespondWire, Zenon
<1>2. UNCHANGED <<listener, record, sink, inflight>> /\ cmd.type = "DISCONNECT_TX"
  BY <1>1, Zenon DEF TalkerDisconnect, listenerVars
<1>3. \A s \in Stream : \A q \in Port : q # cmd.port /\ Listed(s, q) # {} => Listed(s, q)' # {}
  <2>1. CASE cmd.stream \in Stream
    <3>1. RemoveTalkerStreamInfo(cmd.stream, cmd.port)
      BY <1>1, <2>1, Zenon DEF TalkerDisconnect
    <3> QED BY <1>1, <2>1, <3>1, RemoveKeeps, Zenon DEF IndInv
  <2>2. CASE cmd.stream \notin Stream
    <3>1. list' = list
      BY <1>1, <2>2, Zenon DEF TalkerDisconnect
    <3> QED BY <3>1 DEF Listed
  <2> QED BY <2>1, <2>2
<1>4. WireSound(msg)'
  BY <1>1, <1>2, Zenon DEF WireSound, InUse
<1>5. WireInv'
  <2>1. \A e \in Entity : \A k \in Int : \A x : Wire(e, k, x)' => WireSound(x)'
    <3>1. PICK l \in Listener : l = cmd.port[1]
      BY <1>1, Zenon
    <3>2. \A f \in Entity : \A k \in Int : \A x : Wire(f, k, x)' =>
            (Wire(f, k, x) /\ x.port[1] # l) \/ x = msg
      BY <1>1, <3>1, Zenon
    <3>3. \A s \in Stream : \A q \in Port : q[1] # l /\ Listed(s, q) # {} => Listed(s, q)' # {}
      BY <1>3, <3>1, Zenon
    <3>4. \A m \in Listener \ {l} : /\ listener'[m].state = listener[m].state
                                    /\ inflight'[m] = inflight[m]
      BY <1>2
    <3> QED BY <1>4, <3>2, <3>3, <3>4, OthersSound, Zenon
  <2> QED BY <1>1, <2>1, Zenon DEF WireInv
<1>6. Undone'
  BY <1>2, Zenon DEF AgreeInv, Undone, InUse
<1>7. record[cmd.port] = None
  BY <1>1, <1>2, ZenonT(40) DEF AgreeInv, Undone, Stands
<1>8. EndsAgree'
  <2>1. ASSUME NEW p \in Port, NEW s \in Stream, s = record[p] PROVE Listed(s, p)' # {}
    <3>1. p # cmd.port
      BY <1>7, <2>1, NoneIsApart DEF Stream, AnyStream
    <3>2. Listed(s, p) # {}
      BY <2>1 DEF AgreeInv, EndsAgree, ConnectedIsListed
    <3> QED BY <1>3, <3>1, <3>2
  <2>2. ConnectedIsListed'
    BY <1>2, <2>1, Zenon DEF ConnectedIsListed, Listed
  <2> QED BY <1>2, <2>2, Zenon DEF AgreeInv, EndsAgree, EnabledIsConnected
<1> QED BY <1>5, <1>6, <1>8, Zenon DEF AgreeInv

\* A listener without a packet underway sends one.
LEMMA SendWire ==
  ASSUME IndInv, WireAlone, NEW l \in Listener, NEW cmd \in ToTalker, cmd.port[1] = l,
         cmd.stream[1] \in Talker, inbox' = Deliver(inbox, cmd.stream[1], cmd), talker' = talker,
         listener'[l].state \notin Responses,
         \A m \in Listener \ {l} : listener'[m] = listener[m],
         \A f \in Entity : \A k \in Int : \A x : Wire(f, k, x) => x.port[1] # l
  PROVE  /\ WireAlone'
         /\ \A f \in Entity : \A k \in Int : \A x : Wire(f, k, x)' =>
              (Wire(f, k, x) /\ x.port[1] # l) \/ x = cmd
<1>e. PICK e \in Entity : e = cmd.stream[1]
  BY DEF Entity
<1>n. PICK n : n = Len(inbox[e]) + 1
  OBVIOUS
<1>1. ASSUME NEW f \in Entity, NEW k \in Int, NEW x, Wire(f, k, x)'
      PROVE  (Wire(f, k, x) /\ x.port[1] # cmd.port[1]) \/ (f = e /\ k = n /\ x = cmd)
  <2>1. Posted(f, k, x)' => Posted(f, k, x) \/ (f = e /\ k = n /\ x = cmd)
    <3>1. cmd \in Message
      BY DEF ToTalker
    <3> QED BY <1>e, <1>n, <3>1, PostedDelivered DEF IndInv
  <2>2. Carried(f, x)' => Carried(f, x)
    BY CarriedBy, Zenon
  <2> QED BY <1>1, <2>1, <2>2 DEF Wire
<1>2. \A f \in Entity : \A k \in Int : \A x : Wire(f, k, x)' =>
        (Wire(f, k, x) /\ x.port[1] # cmd.port[1]) \/ (f = e /\ k = n /\ x = cmd)
  BY <1>1, Zenon
<1>3. WireAlone'
  <2> SUFFICES ASSUME NEW d \in Entity, NEW f \in Entity, NEW j \in Int, NEW k \in Int, NEW x, NEW y,
                      Wire(d, j, x)', Wire(f, k, y)', x.port[1] = y.port[1]
               PROVE  d = f /\ j = k
    BY DEF WireAlone
  <2>1. (Wire(d, j, x) /\ x.port[1] # cmd.port[1]) \/ (d = e /\ j = n /\ x = cmd)
    BY <1>2
  <2>2. (Wire(f, k, y) /\ y.port[1] # cmd.port[1]) \/ (f = e /\ k = n /\ y = cmd)
    BY <1>2
  <2> QED BY <2>1, <2>2 DEF WireAlone
<1> QED BY <1>2, <1>3

\* A command the listener sends to the talker keeps the ends in agreement.
LEMMA SendAgree ==
  ASSUME Counting, Patient, IndInv, TokenInv, OpenInv, Addressed, AgreeInv, NEW l \in Listener,
         NEW type \in TxCommands, SendCommand(l, type), listener[l].state \in RxCommands,
         listener[l].cmd.port \in Port, UNCHANGED <<talker, list>>,
         \/ type = "CONNECT_TX" /\ UNCHANGED <<record, sink>>
         \/ /\ ListenerOnTalkerDisconnect(listener[l].cmd.port)
            /\ record' = [record EXCEPT ![listener[l].cmd.port] = None]
  PROVE  AgreeInv'
<1>1. PICK cmd \in ToTalker :
        /\ cmd.type = type /\ cmd.seq = listener[l].seq
        /\ cmd.port = listener[l].cmd.port /\ cmd.stream = listener[l].cmd.stream
        /\ cmd.stream[1] \in Talker
        /\ inbox' = Deliver(inbox, cmd.stream[1], cmd)
        /\ listener' = [listener EXCEPT ![l] = ListenerWaiting(listener[l].seq + 1)]
        /\ \/ InUse(l) = Flights /\ inflight' = inflight
           \/ \E i \in Flights \ InUse(l) :
                inflight' = [inflight EXCEPT ![l] = [inflight[l] EXCEPT ![i] =
                  [cmd |-> cmd, original |-> listener[l].cmd.seq, retried |-> FALSE]]]
  BY SendFacts
<1>2. InUse(l) = {} /\ Flights # {}
  <2>1. 0 \in Flights
    BY AcmpAssumption DEF Flights
  <2> QED BY <2>1, OneFlight
<1>3. PICK i \in Flights :
        inflight' = [inflight EXCEPT ![l] = [inflight[l] EXCEPT ![i] =
                      [cmd |-> cmd, original |-> listener[l].cmd.seq, retried |-> FALSE]]]
  BY <1>1, <1>2, Zenon
<1>4. /\ inflight'[l][i].cmd = cmd /\ inflight'[l][i] # None
      /\ \A j \in Flights : j # i => inflight'[l][j] = None
      /\ \A m \in Listener \ {l} : inflight'[m] = inflight[m]
  <2>1. [cmd |-> cmd, original |-> listener[l].cmd.seq, retried |-> FALSE] # None
    BY NoneIsApart, CommandInHand, Zenon DEF Flight, ToTalker
  <2> QED BY <1>2, <1>3, <2>1, Zenon DEF IndInv, FlightInv, InUse
<1>5. cmd.port[1] = l
  <2>1. listener[l].cmd # None
    BY NoneIsApart, CommandInHand, Zenon
  <2> QED BY <1>1, <2>1, Zenon DEF Addressed, HandAddressed
<1>6. /\ listener'[l].state = "WAITING"
      /\ \A m \in Listener \ {l} : listener'[m] = listener[m]
  BY <1>1, Zenon DEF IndInv, ListenerInv, ListenerWaiting
<1>7. \A f \in Entity : \A k \in Int : \A x : Wire(f, k, x) => x.port[1] # l
  BY <1>2, Zenon DEF AgreeInv, WireInv, WireSound
<1>8. /\ WireAlone'
      /\ \A f \in Entity : \A k \in Int : \A x : Wire(f, k, x)' =>
           (Wire(f, k, x) /\ x.port[1] # l) \/ x = cmd
  <2>1. listener'[l].state \notin Responses
    BY <1>6, Zenon DEF Responses
  <2> QED BY <1>1, <1>5, <1>6, <1>7, <2>1, SendWire DEF AgreeInv, WireInv
<1>9. WireSound(cmd)'
  <2>1. Stands(cmd, cmd) /\ cmd.type # "CONNECT_TX_RESPONSE"
    BY <1>1, Zenon DEF Stands, TxCommands
  <2> QED BY <1>4, <1>5, <1>6, <2>1, Zenon DEF WireSound, InUse
<1>10. WireInv'
  <2>1. \A s \in Stream : \A q \in Port : q[1] # l /\ Listed(s, q) # {} => Listed(s, q)' # {}
    BY Zenon DEF Listed
  <2>2. \A e \in Entity : \A k \in Int : \A x : Wire(e, k, x)' => WireSound(x)'
    BY <1>4, <1>6, <1>8, <1>9, <2>1, OthersSound, ZenonT(40)
  <2> QED BY <1>8, <2>2, Zenon DEF WireInv
<1>11. Undone'
  <2> SUFFICES ASSUME NEW m \in Listener, NEW j \in Flights, inflight'[m][j] # None,
                      inflight'[m][j].cmd.type = "DISCONNECT_TX"
               PROVE  /\ record'[inflight'[m][j].cmd.port] = None
                      /\ sink'[inflight'[m][j].cmd.port] = None
    BY Zenon DEF Undone, InUse
  <2>1. CASE m = l
    <3>1. j = i
      BY <1>4, <2>1, Zenon
    <3>2. type = "DISCONNECT_TX"
      BY <1>1, <1>4, <2>1, <3>1, Zenon
    <3>3. record'[cmd.port] = None /\ sink'[cmd.port] = None
      BY <1>1, <3>2, Zenon DEF ListenerOnTalkerDisconnect, IndInv, SinkInv
    <3> QED BY <1>4, <2>1, <3>1, <3>3, Zenon
  <2>2. CASE m # l
    <3>1. inflight'[m][j] = inflight[m][j]
      BY <1>4, <2>2, Zenon
    <3>2. /\ record[inflight[m][j].cmd.port] = None /\ sink[inflight[m][j].cmd.port] = None
      BY <3>1 DEF AgreeInv, Undone, InUse
    <3>3. inflight[m][j].cmd.port \in Port
      BY <3>1 DEF IndInv, FlightInv, SoundFlight, ToTalker, TxCommands, TxGets
    <3> QED BY <3>1, <3>2, <3>3 DEF ListenerOnTalkerDisconnect, IndInv, SinkInv
  <2> QED BY <2>1, <2>2, Zenon
<1>12. EndsAgree'
  <2>1. CASE UNCHANGED <<record, sink>>
    BY <2>1 DEF AgreeInv, EndsAgree, ConnectedIsListed, EnabledIsConnected, Listed
  <2>2. CASE /\ ListenerOnTalkerDisconnect(listener[l].cmd.port)
             /\ record' = [record EXCEPT ![listener[l].cmd.port] = None]
    <3>1. \A p \in Port : IF p = cmd.port THEN record'[p] = None /\ sink'[p] = None
                          ELSE record'[p] = record[p] /\ sink'[p] = sink[p]
      BY <1>1, <2>2, Zenon DEF ListenerOnTalkerDisconnect, IndInv, SinkInv
    <3>2. None \notin Stream
      BY NoneIsApart, Zenon DEF Stream, AnyStream
    <3>3. ConnectedIsListed'
      BY <3>1, <3>2 DEF AgreeInv, EndsAgree, ConnectedIsListed, Listed
    <3>4. EnabledIsConnected'
      BY <3>1, Zenon DEF AgreeInv, EndsAgree, EnabledIsConnected
    <3> QED BY <3>3, <3>4, Zenon DEF EndsAgree
  <2> QED BY <2>1, <2>2, Zenon
<1> QED BY <1>10, <1>11, <1>12 DEF AgreeInv

\* A listener handles a controller's command.
LEMMA CommandAgree ==
  ASSUME Counting, Patient, IndInv, TokenInv, OpenInv, Addressed, AgreeInv, NEW l \in Listener,
         ListenerConnect(l) \/ ListenerDisconnect(l) \/ ListenerGetState(l)
  PROVE  AgreeInv'
<1>1. UNCHANGED <<talker, list>>
  BY Zenon DEF ListenerConnect, ListenerDisconnect, ListenerGetState, talkerVars
<1>2. CASE ListenerConnect(l)
  <2>1. \/ /\ UNCHANGED <<inbox, inflight, record, sink>>
           /\ listener' = [listener EXCEPT ![l] = ListenerWaiting(@.seq)]
        \/ /\ SendCommand(l, "CONNECT_TX") /\ listener[l].state \in RxCommands
           /\ listener[l].cmd.port \in Port /\ UNCHANGED <<record, sink>>
    BY <1>2, Zenon DEF ListenerConnect, ListenerAnswers, RxCommands
  <2>2. "CONNECT_TX" \in TxCommands
    BY DEF TxCommands
  <2> QED BY <1>1, <2>1, <2>2, HandleAgree, SendAgree
<1>3. CASE ListenerDisconnect(l)
  <2>1. \/ /\ UNCHANGED <<inbox, inflight, record, sink>>
           /\ listener' = [listener EXCEPT ![l] = ListenerWaiting(@.seq)]
        \/ /\ SendCommand(l, "DISCONNECT_TX") /\ listener[l].state \in RxCommands
           /\ listener[l].cmd.port \in Port
           /\ ListenerOnTalkerDisconnect(listener[l].cmd.port)
           /\ record' = [record EXCEPT ![listener[l].cmd.port] = None]
    BY <1>3, Zenon DEF ListenerDisconnect, ListenerAnswers, RxCommands
  <2>2. "DISCONNECT_TX" \in TxCommands
    BY DEF TxCommands
  <2> QED BY <1>1, <2>1, <2>2, HandleAgree, SendAgree, Zenon
<1>4. CASE ListenerGetState(l)
  BY <1>1, <1>4, HandleAgree, Zenon DEF ListenerGetState, ListenerAnswers
<1> QED BY <1>2, <1>3, <1>4

\* A step that sends nothing and is about one listener, which has no packet left.
LEMMA QuietOthers ==
  ASSUME IndInv, AgreeInv, NEW l \in Listener, UNCHANGED <<inbox, talker, list>>,
         listener'[l].state \notin Responses,
         \A m \in Listener \ {l} : listener'[m] = listener[m] /\ inflight'[m] = inflight[m],
         \A f \in Entity : \A k \in Int : \A x :
           Wire(f, k, x) /\ x.port[1] = l => f = l /\ k = 0
  PROVE  WireInv'
<1>1. ASSUME NEW f \in Entity, NEW k \in Int, NEW x, Wire(f, k, x)'
      PROVE  Wire(f, k, x) /\ x.port[1] # l
  <2>1. Posted(f, k, x)' <=> Posted(f, k, x)
    BY DEF Posted
  <2>2. Carried(f, x)' => Carried(f, x) /\ f # l
    BY CarriedBy, Zenon
  <2>3. ~Posted(l, 0, x)
    BY DEF Posted, IndInv, InboxInv, Entity
  <2> QED BY <1>1, <2>1, <2>2, <2>3 DEF Wire
<1>2. WireAlone'
  BY <1>1, WireStays, Zenon DEF AgreeInv, WireInv
<1>3. \A s \in Stream : \A q \in Port : q[1] # l /\ Listed(s, q) # {} => Listed(s, q)' # {}
  BY DEF Listed
<1>4. ASSUME NEW f \in Entity, NEW k \in Int, NEW x, Wire(f, k, x)' PROVE WireSound(x)'
  BY <1>1, <1>3, <1>4, OtherSound, Zenon
<1> QED BY <1>2, <1>4 DEF WireInv

\* A command is no longer inflight: the others are undone as before.
LEMMA UndoneOthers ==
  ASSUME IndInv, Addressed, Undone, NEW l \in Listener, \A j \in Flights : inflight'[l][j] = None,
         \A m \in Listener \ {l} : inflight'[m] = inflight[m],
         \A p \in Port : p[1] # l => record'[p] = record[p] /\ sink'[p] = sink[p]
  PROVE  Undone'
<1> SUFFICES ASSUME NEW m \in Listener, NEW j \in Flights, inflight'[m][j] # None,
                    inflight'[m][j].cmd.type = "DISCONNECT_TX"
             PROVE  /\ record'[inflight'[m][j].cmd.port] = None
                    /\ sink'[inflight'[m][j].cmd.port] = None
  BY DEF Undone, InUse
<1>1. m # l /\ inflight'[m] = inflight[m] /\ j \in InUse(m)
  BY DEF InUse
<1>2. inflight[m][j].cmd.port \in Port /\ inflight[m][j].cmd.port[1] = m
  BY <1>1 DEF IndInv, FlightInv, SoundFlight, ToTalker, TxCommands, TxGets, Addressed,
              FlightAddressed, InUse
<1> QED BY <1>1, <1>2 DEF Undone

\* A listener handles the talker's answer.
LEMMA ResponseAgree ==
  ASSUME Patient, IndInv, TokenInv, OpenInv, Addressed, AgreeInv, NEW l \in Listener,
         ListenerConnectTxResponse(l) \/ ListenerDisconnectTxResponse(l)
  PROVE  AgreeInv'
<1>l. l \in Entity
  BY DEF Entity
<1>1. PICK cmd \in ToListener : /\ cmd = listener[l].cmd /\ cmd.type = listener[l].state
                                /\ cmd.type \in Responses /\ cmd # None /\ cmd.port \in Port
                                /\ cmd.port[1] = l
  <2>1. listener[l].state \in Responses
    BY Zenon DEF ListenerConnectTxResponse, ListenerDisconnectTxResponse, Responses
  <2>2. /\ listener[l].cmd \in ToListener /\ listener[l].cmd.type = listener[l].state
    BY <2>1 DEF IndInv, ListenerInv, SoundListener, Responses
  <2>3. listener[l].cmd # None
    BY <2>2, NoneIsApart DEF ToListener
  <2>4. listener[l].cmd.port \in Port
    BY Zenon DEF ListenerConnectTxResponse, ListenerDisconnectTxResponse
  <2> QED BY <2>1, <2>2, <2>3, <2>4, Zenon DEF Addressed, HandAddressed
<1>2. Wire(l, 0, cmd)
  BY <1>1 DEF Wire, Carried
<1>3. PICK i \in InUse(l) :
        /\ Stands(inflight[l][i].cmd, cmd)
        /\ (cmd.type = "CONNECT_TX_RESPONSE" /\ cmd.stream \in Stream) =>
             Listed(cmd.stream, cmd.port) # {}
  <2>1. WireSound(cmd)
    BY <1>l, <1>2 DEF AgreeInv, WireInv
  <2> QED BY <1>1, <2>1, Zenon DEF WireSound
<1>4. InUse(l) = {i} /\ i \in Flights
  BY OneFlight DEF InUse
<1>5. Found(l, cmd.seq) = {i} /\ First(Found(l, cmd.seq)) = i
  BY <1>3, <1>4 DEF Found, Stands, First
<1>6. /\ inflight' = [inflight EXCEPT ![l][i] = None]
      /\ listener' = [listener EXCEPT ![l] = ListenerWaiting(@.seq)]
      /\ UNCHANGED <<inbox, talker, list>>
      /\ \/ UNCHANGED <<record, sink>>
         \/ /\ cmd.type = "CONNECT_TX_RESPONSE"
            /\ sink' = [sink EXCEPT ![cmd.port] = cmd.stream]
            /\ record' = [record EXCEPT ![cmd.port] = cmd.stream]
         \/ /\ cmd.type = "DISCONNECT_TX_RESPONSE"
            /\ sink' = sink /\ record' = [record EXCEPT ![cmd.port] = None]
  BY <1>1, <1>5, Zenon DEF ListenerConnectTxResponse, ListenerDisconnectTxResponse, RemoveInflight,
                    ListenerAnswers, ListenerOnTalkerConnect, talkerVars
<1>7. /\ \A j \in Flights : inflight'[l][j] = None
      /\ \A m \in Listener \ {l} : listener'[m] = listener[m] /\ inflight'[m] = inflight[m]
      /\ listener'[l].state \notin Responses
  <2>1. \A j \in Flights : inflight'[l][j] = None
    BY <1>4, <1>6, Zenon DEF InUse, IndInv, FlightInv
  <2>2. \A m \in Listener \ {l} : listener'[m] = listener[m] /\ inflight'[m] = inflight[m]
    BY <1>6, Zenon DEF IndInv, FlightInv, ListenerInv
  <2>3. listener'[l].state = "WAITING"
    BY <1>6, Zenon DEF IndInv, ListenerInv, ListenerWaiting
  <2> QED BY <2>1, <2>2, <2>3, Zenon DEF Responses
<1>8. WireInv'
  <2>1. \A f \in Entity : \A k \in Int : \A x :
          Wire(f, k, x) /\ x.port[1] = l => f = l /\ k = 0
    BY <1>l, <1>1, <1>2 DEF AgreeInv, WireInv, WireAlone
  <2> QED BY <1>6, <1>7, <2>1, QuietOthers, Zenon
<1>9. \A p \in Port : p # cmd.port => record'[p] = record[p] /\ sink'[p] = sink[p]
  BY <1>6 DEF IndInv, SinkInv
<1>10. Undone'
  BY <1>1, <1>7, <1>9, UndoneOthers DEF AgreeInv
<1>11. EndsAgree'
  <2>1. CASE UNCHANGED <<record, sink>>
    BY <1>6, <2>1 DEF AgreeInv, EndsAgree, ConnectedIsListed, EnabledIsConnected, Listed
  <2>2. CASE /\ cmd.type = "CONNECT_TX_RESPONSE"
             /\ sink' = [sink EXCEPT ![cmd.port] = cmd.stream]
             /\ record' = [record EXCEPT ![cmd.port] = cmd.stream]
    <3>1. record'[cmd.port] = cmd.stream /\ record'[cmd.port] # None
      <4>1. cmd.stream \in AnyStream
        BY Zenon DEF ToListener, Message
      <4> QED BY <1>1, <2>2, <4>1, NoneIsApart, Zenon DEF IndInv, SinkInv
    <3>2. ConnectedIsListed'
      <4> SUFFICES ASSUME NEW p \in Port, record'[p] \in Stream PROVE Listed(record'[p], p) # {}
        BY <1>6, Zenon DEF ConnectedIsListed, Listed
      <4> QED BY <1>3, <1>9, <2>2, <3>1, Zenon DEF AgreeInv, EndsAgree, ConnectedIsListed
    <3>3. EnabledIsConnected'
      BY <1>9, <3>1, Zenon DEF AgreeInv, EndsAgree, EnabledIsConnected
    <3> QED BY <3>2, <3>3, Zenon DEF EndsAgree
  <2>3. CASE /\ cmd.type = "DISCONNECT_TX_RESPONSE"
             /\ sink' = sink /\ record' = [record EXCEPT ![cmd.port] = None]
    <3>1. sink[cmd.port] = None
      <4>1. inflight[l][i].cmd.type = "DISCONNECT_TX" /\ inflight[l][i].cmd.port = cmd.port
        BY <1>3, <2>3, Zenon DEF Stands
      <4> QED BY <4>1, Zenon DEF AgreeInv, Undone
    <3>2. record'[cmd.port] = None /\ sink'[cmd.port] = None
      BY <1>1, <2>3, <3>1, Zenon DEF IndInv, SinkInv
    <3>3. None \notin Stream
      BY NoneIsApart, Zenon DEF Stream, AnyStream
    <3>4. ConnectedIsListed'
      BY <1>6, <1>9, <3>2, <3>3 DEF AgreeInv, EndsAgree, ConnectedIsListed, Listed
    <3>5. EnabledIsConnected'
      BY <1>9, <3>2, Zenon DEF AgreeInv, EndsAgree, EnabledIsConnected
    <3> QED BY <3>4, <3>5, Zenon DEF EndsAgree
  <2> QED BY <1>6, <2>1, <2>2, <2>3, Zenon
<1> QED BY <1>8, <1>10, <1>11 DEF AgreeInv

\* With patience a command times out when no packet about its listener is left.
LEMMA CheckTimeoutsAgree ==
  ASSUME Patient, IndInv, TokenInv, OpenInv, Addressed, AgreeInv, NEW l \in Listener,
         ListenerCheckTimeouts(l)
  PROVE  AgreeInv'
<1>1. PICK i \in InUse(l) :
        /\ ~AnswerUnderway(l, inflight[l][i].cmd.seq)
        /\ listener' = [listener EXCEPT ![l].state = "RX_TIMEOUT", ![l].idx = i]
  BY Zenon DEF ListenerCheckTimeouts
<1>2. UNCHANGED <<inbox, talker, list, record, sink, inflight>> /\ listener[l].state = "WAITING"
  BY Zenon DEF ListenerCheckTimeouts, talkerVars
<1>3. ASSUME NEW f \in Entity, NEW k \in Int, NEW x, Wire(f, k, x), x.port[1] = l PROVE FALSE
  <2>1. PICK j \in InUse(l) : Stands(inflight[l][j].cmd, x)
    BY <1>3, Zenon DEF AgreeInv, WireInv, WireSound
  <2>2. x.seq = inflight[l][i].cmd.seq
    BY <2>1, OneFlight, Zenon DEF Stands
  <2>3. CASE Posted(f, k, x)
    BY <1>1, <1>3, <2>2, <2>3, Zenon DEF Posted, Tx, AnswerUnderway
  <2>4. CASE f \in Talker /\ talker[f].state \in TxCommands /\ x = talker[f].cmd
    BY <1>1, <1>3, <2>2, <2>4, Zenon DEF AnswerUnderway
  <2>5. CASE f \in Listener /\ listener[f].state \in Responses /\ x = listener[f].cmd
    <3>1. listener[f].cmd # None
      <4>1. listener[f].cmd \in ToListener
        BY <2>5, Zenon DEF IndInv, ListenerInv, SoundListener, Responses
      <4> QED BY <4>1, NoneIsApart, Zenon DEF ToListener
    <3>2. f = l
      BY <1>3, <2>5, <3>1, Zenon DEF Addressed, HandAddressed
    <3> QED BY <1>2, <2>5, <3>2, Zenon DEF Responses
  <2> QED BY <1>3, <2>3, <2>4, <2>5, Zenon DEF Wire, Carried
<1>4. /\ listener'[l].state = "RX_TIMEOUT"
      /\ \A m \in Listener \ {l} : listener'[m] = listener[m]
  BY <1>1, Zenon DEF IndInv, ListenerInv, SoundListener
<1>5. WireInv'
  BY <1>2, <1>3, <1>4, QuietOthers, Zenon DEF Responses
<1>6. Undone' /\ EndsAgree'
  BY <1>2, Zenon DEF AgreeInv, Undone, InUse, EndsAgree, ConnectedIsListed, EnabledIsConnected, Listed
<1> QED BY <1>5, <1>6 DEF AgreeInv

\* A timeout that was found is handled: the command is sent again or given up.
LEMMA TimeoutAgree ==
  ASSUME Patient, IndInv, TokenInv, OpenInv, Addressed, AgreeInv, NEW l \in Listener,
         ListenerTimeout(l)
  PROVE  AgreeInv'
<1>1. listener[l].state = "RX_TIMEOUT" /\ UNCHANGED <<talker, list, record, sink>>
  BY Zenon DEF ListenerTimeout, talkerVars
<1>2. \A f \in Entity : \A k \in Int : \A x : Wire(f, k, x) => x.port[1] # l
  BY <1>1, Zenon DEF AgreeInv, WireInv, WireSound
<1>3. EndsAgree'
  BY <1>1, Zenon DEF AgreeInv, EndsAgree, ConnectedIsListed, EnabledIsConnected, Listed
<1>4. CASE inflight[l][listener[l].idx].retried
  <2>1. PICK i \in InUse(l) : i = listener[l].idx
    BY <1>1, Zenon DEF IndInv, ListenerInv, SoundListener, FlightInv, FlightRow, InUse
  <2>2. /\ inflight' = [inflight EXCEPT ![l][i] = None] /\ inbox' = inbox
        /\ listener' = [listener EXCEPT ![l] = ListenerWaiting(@.seq)]
    BY <1>4, <2>1, Zenon DEF ListenerTimeout, RemoveInflight, ListenerAnswers
  <2>3. \A j \in Flights : inflight'[l][j] = None
    BY <2>2, OneFlight DEF InUse, IndInv, FlightInv
  <2>4. \A m \in Listener \ {l} : listener'[m] = listener[m] /\ inflight'[m] = inflight[m]
    BY <2>2 DEF IndInv, FlightInv, ListenerInv
  <2>5. listener'[l].state = "WAITING"
    BY <2>2, Zenon DEF IndInv, ListenerInv, ListenerWaiting
  <2>6. WireInv'
    BY <1>1, <1>2, <2>2, <2>4, <2>5, QuietOthers DEF Responses
  <2>7. Undone'
    BY <1>1, <2>3, <2>4, UndoneOthers DEF AgreeInv
  <2> QED BY <1>3, <2>6, <2>7, Zenon DEF AgreeInv
<1>5. CASE ~inflight[l][listener[l].idx].retried
  <2>1. PICK i \in InUse(l), cmd \in ToTalker, new \in SoundFlight :
          /\ cmd.type = inflight[l][i].cmd.type /\ cmd.type \in TxCommands
          /\ cmd.port = inflight[l][i].cmd.port /\ cmd.stream = inflight[l][i].cmd.stream
          /\ cmd.stream[1] \in Talker /\ new.cmd = cmd
          /\ inbox' = Deliver(inbox, cmd.stream[1], cmd)
          /\ listener' = [listener EXCEPT ![l] = ListenerWaiting(listener[l].seq + 1)]
          /\ inflight' = [inflight EXCEPT ![l] = [inflight[l] EXCEPT ![i] = new]]
    BY <1>5, RetryFacts
  <2>2. i \in Flights /\ new # None /\ cmd.port[1] = l
    BY <2>1, NoneIsApart DEF SoundFlight, InUse, Addressed, FlightAddressed
  <2>3. /\ inflight'[l][i] = new
        /\ \A j \in Flights : j # i => inflight'[l][j] = inflight[l][j]
        /\ \A m \in Listener \ {l} : inflight'[m] = inflight[m]
    BY <2>1, <2>2 DEF IndInv, FlightInv
  <2>4. /\ listener'[l].state = "WAITING"
        /\ \A m \in Listener \ {l} : listener'[m] = listener[m]
    BY <2>1, Zenon DEF IndInv, ListenerInv, ListenerWaiting
  <2>5. /\ WireAlone'
        /\ \A f \in Entity : \A k \in Int : \A x : Wire(f, k, x)' =>
             (Wire(f, k, x) /\ x.port[1] # l) \/ x = cmd
    <3>1. listener'[l].state \notin Responses
      BY <2>4, Zenon DEF Responses
    <3> QED BY <1>1, <1>2, <2>1, <2>2, <2>4, <3>1, SendWire DEF AgreeInv, WireInv
  <2>6. WireSound(cmd)'
    <3>1. Stands(cmd, cmd) /\ cmd.type # "CONNECT_TX_RESPONSE"
      BY <2>1, Zenon DEF Stands, TxCommands
    <3> QED BY <2>1, <2>2, <2>3, <2>4, <3>1 DEF WireSound, InUse
  <2>7. WireInv'
    <3>1. \A s \in Stream : \A q \in Port : q[1] # l /\ Listed(s, q) # {} => Listed(s, q)' # {}
      BY <1>1, Zenon DEF Listed
    <3>2. \A e \in Entity : \A k \in Int : \A x : Wire(e, k, x)' => WireSound(x)'
      BY <2>3, <2>4, <2>5, <2>6, <3>1, OthersSound, Zenon
    <3> QED BY <2>5, <3>2, Zenon DEF WireInv
  <2>8. Undone'
    <3> SUFFICES ASSUME NEW m \in Listener, NEW j \in Flights, inflight'[m][j] # None,
                        inflight'[m][j].cmd.type = "DISCONNECT_TX"
                 PROVE  /\ record[inflight'[m][j].cmd.port] = None
                        /\ sink[inflight'[m][j].cmd.port] = None
      BY <1>1, Zenon DEF Undone, InUse
    <3>1. CASE m = l /\ j = i
      BY <2>1, <2>3, <3>1 DEF AgreeInv, Undone
    <3>2. CASE ~(m = l /\ j = i)
      <4>1. inflight'[m][j] = inflight[m][j]
        BY <2>3, <3>2
      <4>2. j \in InUse(m)
        BY <4>1, Zenon DEF InUse
      <4> QED BY <4>1, <4>2, Zenon DEF AgreeInv, Undone
    <3> QED BY <3>1, <3>2, Zenon
  <2> QED BY <1>3, <2>7, <2>8 DEF AgreeInv
<1> QED BY <1>4, <1>5, Zenon

\* Every step keeps the ends in agreement.
LEMMA NextAgree ==
  Counting /\ PatientAmple /\ IndInv /\ TokenInv /\ OpenInv /\ Addressed /\ AgreeInv /\ [Next]_vars => AgreeInv'
<1> SUFFICES ASSUME Counting, PatientAmple, IndInv, TokenInv, OpenInv, Addressed, AgreeInv, [Next]_vars
             PROVE  AgreeInv'
  OBVIOUS
<1>p. Patient
  BY DEF PatientAmple
<1>1. CASE \/ \E type \in Types, s \in AnyStream, p \in AnyPort, b \in BOOLEAN : Command(type, s, p, b)
           \/ (\E c \in Ids : GiveUp(c)) \/ UNCHANGED vars
           \/ \E e \in Entity : Lose(e)
  BY <1>1, QuietAgree
<1>2. ASSUME NEW t \in Talker,
             \/ AddressReserved(t) \/ TalkerReceive(t) \/ TalkerGet(t)
             \/ TalkerConnect(t) \/ TalkerDisconnect(t)
      PROVE  AgreeInv'
  <2>1. CASE AddressReserved(t) \/ TalkerReceive(t) \/ TalkerGet(t)
    BY <2>1, QuietAgree
  <2> QED BY <1>2, <2>1, TalkerConnectAgree, TalkerDisconnectAgree
<1>3. ASSUME NEW l \in Listener,
             \/ ListenerReceive(l) \/ ListenerConnect(l) \/ ListenerDisconnect(l)
             \/ ListenerGetState(l) \/ ListenerConnectTxResponse(l)
             \/ ListenerDisconnectTxResponse(l) \/ ListenerCheckTimeouts(l) \/ ListenerTimeout(l)
      PROVE  AgreeInv'
  BY <1>p, <1>3, HandleAgree, CommandAgree, ResponseAgree, CheckTimeoutsAgree, TimeoutAgree, Zenon
<1> QED BY <1>1, <1>2, <1>3, Zenon DEF Next

\* At the start nothing is connected and nothing is under way.
LEMMA InitAgree == Init => Addressed /\ OpenInv /\ AgreeInv
<1> SUFFICES ASSUME Init PROVE Addressed /\ OpenInv /\ AgreeInv
  OBVIOUS
<1>1. \A l \in Listener : InUse(l) = {} /\ inbox[l] = <<>> /\ listener[l].cmd = None
  BY Zenon DEF Init, InUse, ListenerWaiting, Entity
<1>2. Addressed
  BY <1>1 DEF Addressed, BoxAddressed, HandAddressed, FlightAddressed
<1>3. OpenInv
  BY Zenon DEF Init, OpenInv
<1>4. \A e \in Entity : \A k, x : ~Wire(e, k, x)
  BY DEF Init, Wire, Posted, Carried, ListenerWaiting, Responses, TxCommands
<1>5. Undone
  BY <1>1, Zenon DEF Undone
<1>6. EndsAgree
  <2>1. None \notin Stream
    BY NoneIsApart DEF Stream, AnyStream
  <2> QED BY <2>1, Zenon DEF Init, EndsAgree, ConnectedIsListed, EnabledIsConnected
<1> QED BY <1>2, <1>3, <1>4, <1>5, <1>6 DEF AgreeInv, WireInv, WireAlone

-----------------------------------------------------------------------------
(***************************************************************************)
(* The facts that need the library.  Its theorems are taken in only here,  *)
(* where they do not weigh on the proofs above.                            *)
(***************************************************************************)
LOCAL INSTANCE FiniteSetTheorems

\* The library's cardinality is this count as well.
LEMMA LibraryCounts == \A S : Cardinality(S) = Count(S)
BY Zenon DEF Cardinality, Counter, Count

\* The naturals are well-ordered, and sets of slots can be counted.
LEMMA CountingHolds == Counting
<1>1. ASSUME NEW S \in SUBSET Nat, S # {} PROVE \E m \in S : \A y \in S : m <= y
  <2>1. PICK m \in S : \A y \in S : ~(<<y, m>> \in OpToRel(<, Nat))
    <3>1. IsWellFoundedOn(OpToRel(<, Nat), Nat)
      BY NatLessThanWellFounded, Zenon
    <3> QED BY <1>1, <3>1, WFMin, Zenon
  <2>2. ASSUME NEW y \in S PROVE m <= y
    <3>1. y \in Nat /\ m \in Nat
      BY <1>1, Zenon
    <3>2. ~(y < m)
      BY <2>1, <3>1, Zenon DEF OpToRel
    <3> QED BY <3>1, <3>2
  <2> QED BY <2>2, Zenon
<1>2. IsFiniteSet(Slots) /\ Cardinality(Slots) = MaxListeners
  BY FS_Interval, AcmpAssumption DEF Slots
<1>3. ASSUME NEW S \in SUBSET Slots
      PROVE  /\ IsFiniteSet(S) /\ Cardinality(S) \in Nat /\ Cardinality(S) <= MaxListeners
             /\ Cardinality(S) = 0 <=> S = {}
  <2>1. IsFiniteSet(S) /\ Cardinality(S) <= Cardinality(Slots)
    BY <1>2, FS_Subset, Zenon
  <2> QED BY <1>2, <2>1, FS_CardinalityType, FS_EmptySet, Zenon
<1>4. ASSUME NEW S \in SUBSET Slots, NEW k \in Slots \ S
      PROVE  Cardinality(S \cup {k}) = Cardinality(S) + 1
  BY <1>3, FS_AddElement, Zenon
<1>5. ASSUME NEW S \in SUBSET Slots, NEW k \in S
      PROVE  Cardinality(S \ {k}) = Cardinality(S) - 1
  BY <1>3, FS_RemoveElement, Zenon
<1>6. WellOrdered
  BY <1>1, Zenon DEF WellOrdered
<1>7. Countable
  BY <1>3, <1>4, <1>5, FS_EmptySet, LibraryCounts, Zenon DEF Countable
<1> QED BY <1>6, <1>7, Zenon DEF Counting

\* Nobody times out too early, and a talker has a slot for every sink.
PatientWithRoom == Patient /\ IsFiniteSet(Port) /\ Cardinality(Port) <= MaxListeners

\* Then different sinks in all the slots are all of them.
LEMMA RoomIsAmple ==
  ASSUME PatientWithRoom
  PROVE  PatientAmple
<1> SUFFICES ASSUME NEW f \in [Slots -> Port], \A i, j \in Slots : f[i] = f[j] => i = j,
                    NEW p \in Port
             PROVE  \E i \in Slots : f[i] = p
  BY Zenon DEF PatientAmple, PatientWithRoom, Ample
<1>1. IsFiniteSet(Slots) /\ Cardinality(Slots) = MaxListeners
  BY FS_Interval, AcmpAssumption DEF Slots
<1>2. f \in Injection(Slots, Port)
  BY Zenon DEF Injection, IsInjective
<1>3. Cardinality(Slots) <= Cardinality(Port) /\ Cardinality(Port) \in Nat
  BY <1>2, FS_Injection, FS_CardinalityType, Zenon DEF PatientWithRoom
<1>4. Cardinality(Slots) = Cardinality(Port)
  BY <1>1, <1>3, AcmpAssumption DEF PatientWithRoom
<1>5. f \in Surjection(Slots, Port)
  BY <1>2, <1>4, FS_Injection, Zenon DEF PatientWithRoom
<1> QED BY <1>5, Zenon DEF Surjection

\* The inductive invariant holds throughout every behaviour.
LEMMA IndInvHolds == Spec => []IndInv
<1>1. Init => IndInv
  BY InitInv, CountingHolds
<1>2. IndInv /\ [Next]_vars => IndInv'
  BY NextInv, CountingHolds, Zenon
<1> QED BY <1>1, <1>2, PTL DEF Spec

\* The token invariant holds throughout every behaviour.
LEMMA TokenInvHolds == Spec => []TokenInv
<1>1. IndInv /\ TokenInv /\ [Next]_vars => TokenInv'
  BY NextToken, CountingHolds, Zenon
<1> QED BY <1>1, IndInvHolds, InitToken, PTL DEF Spec

-----------------------------------------------------------------------------
(***************************************************************************)
(* The theorems                                                            *)
(***************************************************************************)
\* Every variable has its type, and a state machine has a command in hand exactly
\* in the states that process one.
THEOREM TypeCorrect == Spec => []TypeOK
<1>1. IndInv => TypeOK
  <2> SUFFICES ASSUME IndInv PROVE TypeOK
    BY Zenon
  <2>1. ToTalker \subseteq Message /\ ToListener \subseteq Message /\ SoundFlight \subseteq Flight
    BY Zenon DEF ToTalker, ToListener, SoundFlight
  <2>2. /\ talker \in [Talker -> [state : {"IDLE", "WAITING"} \cup TxCommands \cup TxGets,
                                  cmd : Message \cup {None}]]
        /\ \A t \in Talker : talker[t].cmd = None <=> talker[t].state \in {"IDLE", "WAITING"}
    BY <2>1, NoneIsApart, Zenon DEF IndInv, TalkerInv, SoundTalker, TalkerStates
  <2>3. /\ listener \in [Listener -> [state : {"WAITING", "RX_TIMEOUT"} \cup RxCommands \cup Responses,
                                      cmd : Message \cup {None}, idx : Flights, seq : Nat]]
        /\ \A l \in Listener :
             listener[l].cmd = None <=> listener[l].state \in {"WAITING", "RX_TIMEOUT"}
    BY <2>1, NoneIsApart, Zenon DEF IndInv, ListenerInv, SoundListener, ListenerStates
  <2>4. count \in [Stream -> 0..MaxListeners]
    <3>1. ASSUME NEW s \in Stream PROVE count[s] \in 0..MaxListeners
      <4>1. count[s] \in Nat /\ count[s] <= MaxListeners
        BY CountInRange, CountingHolds, Zenon DEF IndInv
      <4> QED BY <4>1, AcmpAssumption
    <3> QED BY <3>1, Zenon DEF IndInv, TableInv
  <2>5. inflight \in [Listener -> [Flights -> Flight \cup {None}]]
    BY <2>1 DEF IndInv, FlightInv
  <2> QED BY <2>2, <2>3, <2>4, <2>5, Zenon
          DEF TypeOK, IndInv, TableInv, SinkInv, InboxInv, ControlInv, LostInv
<1> QED BY <1>1, IndInvHolds, PTL

\* connection_count is the number of listeners in the talker's table, none of them
\* twice, and the source streams exactly while there is one.
THEOREM CountCorrect == Spec => []CountMatchesList
<1>1. IndInv => CountMatchesList
  BY Zenon DEF IndInv, TableInv
<1> QED BY <1>1, IndInvHolds, PTL

\* A timeout that was found still belongs to a command in use when it is handled,
\* and a response in hand names an existing port, so the listener's state machine
\* can leave every state.
THEOREM ListenerNotWedgedCorrect == Spec => []ListenerNotWedged
<1>1. IndInv => ListenerNotWedged
  <2> SUFFICES ASSUME IndInv, NEW l \in Listener
               PROVE  /\ listener[l].state = "RX_TIMEOUT" => listener[l].idx \in InUse(l)
                      /\ listener[l].state \in Responses => listener[l].cmd.port \in Port
    BY Zenon DEF ListenerNotWedged
  <2>1. listener[l].state = "RX_TIMEOUT" => listener[l].idx \in InUse(l)
    BY Zenon DEF IndInv, ListenerInv, SoundListener, FlightInv, FlightRow, InUse
  <2> QED BY <2>1, CommandInHand, Zenon
<1> QED BY <1>1, IndInvHolds, PTL

\* A sequence id belongs to one inflight command, however many commands and
\* retries draw ids.
THEOREM SequenceIdsCorrect == Spec => []SequenceIdsDistinct
<1>1. IndInv => SequenceIdsDistinct
  BY Zenon DEF IndInv, FlightInv, FlightRow, SequenceIdsDistinct, InUse
<1> QED BY <1>1, IndInvHolds, PTL

\* A sink that is recorded as connected is enabled, for the recorded stream.
THEOREM ConnectedCorrect == Spec => []ConnectedIsEnabled
<1>1. IndInv => ConnectedIsEnabled
  BY Zenon DEF IndInv, SinkInv
<1> QED BY <1>1, IndInvHolds, PTL

\* A command is answered at most once, however many tries, late answers, losses and
\* restarts of the state machines there are.
THEOREM AnsweredCorrect == Spec => []AnsweredOnce
<1>1. TokenInv => AnsweredOnce
  <2> SUFFICES ASSUME TokenInv, NEW c \in Ids PROVE Len(answers[c]) <= 1
    BY Zenon DEF AnsweredOnce
  <2>1. CASE answers[c] = <<>>
    BY <2>1
  <2>2. CASE answers[c] # <<>>
    <3>1. Len(answers[c]) = 1
      BY <2>2, Zenon DEF TokenInv, Token
    <3> QED BY <3>1
  <2> QED BY <2>1, <2>2, Zenon
<1> QED BY <1>1, TokenInvHolds, PTL

\* With patient controllers and a slot for every sink the two ends of a connection
\* agree, whatever is lost, sent again or refused: what a listener records its talker
\* lists, and what it has enabled it records.
THEOREM EndsAgreeCorrect ==
  ASSUME PatientWithRoom
  PROVE  Spec => []EndsAgree
<1>1. Init => OpenInv /\ Addressed /\ AgreeInv
  BY InitAgree, CountingHolds, RoomIsAmple, Zenon
<1>2. IndInv /\ TokenInv /\ OpenInv /\ Addressed /\ AgreeInv /\ [Next]_vars =>
        OpenInv' /\ Addressed' /\ AgreeInv'
  BY NextOpen, NextAddressed, NextAgree, CountingHolds, RoomIsAmple, Zenon
<1>3. AgreeInv => EndsAgree
  BY Zenon DEF AgreeInv
<1> QED BY <1>1, <1>2, <1>3, IndInvHolds, TokenInvHolds, PTL DEF Spec

=============================================================================
