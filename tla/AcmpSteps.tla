----------------------------- MODULE AcmpSteps ------------------------------
(***************************************************************************)
(* Two invariants of Acmp, and that every step keeps them: the inductive   *)
(* invariant of the table, the inflight commands and the state machines,   *)
(* and the one by which a command in progress is in one place only.        *)
(***************************************************************************)
EXTENDS Acmp, TLAPS

(***************************************************************************)
(* What the proofs use of the naturals and of the size of sets of slots.   *)
(* The lemmas that search or count slots assume it, and AcmpProofs proves  *)
(* it from the library.                                                    *)
(***************************************************************************)
WellOrdered == \A S \in SUBSET Nat : S # {} => \E m \in S : \A y \in S : m <= y
Counter(S) ==
  CHOOSE C : C = [T \in SUBSET S |-> IF T = {} THEN 0 ELSE 1 + C[T \ {CHOOSE x : x \in T}]]
Count(S) == Counter(S)[S]
Countable ==
  /\ Count({}) = 0
  /\ \A S \in SUBSET Slots :
       /\ Count(S) \in Nat /\ Count(S) <= MaxListeners
       /\ Count(S) = 0 <=> S = {}
       /\ \A k \in Slots \ S : Count(S \cup {k}) = Count(S) + 1
       /\ \A k \in S : Count(S \ {k}) = Count(S) - 1
Counting == WellOrdered /\ Countable

\* The cardinality of a set is what taking its elements away one by one counts.
LEMMA CardinalityIsCount == \A S : Cardinality(S) = Count(S)
BY Zenon DEF Cardinality, Counter, Count

\* The first slot of a set of slots is one of them.
LEMMA FirstIn ==
  ASSUME Counting, NEW S \in SUBSET Nat, S # {}
  PROVE  First(S) \in S
<1>1. PICK x \in S : \A y \in S : x <= y
  BY Zenon DEF Counting, WellOrdered
<1> QED BY <1>1, Zenon DEF First

\* None is no message, no inflight command, no port and no stream.
LEMMA NoneIsApart ==
  /\ \A msg \in Message : msg # None
  /\ \A f \in Flight : f # None
  /\ \A p \in AnyPort : p # None
  /\ \A s \in AnyStream : s # None
<1>1. \A msg \in Message : msg # None
  <2> SUFFICES ASSUME NEW msg \in Message PROVE DOMAIN msg # DOMAIN None
    OBVIOUS
  <2>1. "type" \in DOMAIN msg
    BY DEF Message
  <2>2. "type" \notin DOMAIN None
    BY DEF None
  <2> QED BY <2>1, <2>2
<1>2. \A f \in Flight : f # None
  <2> SUFFICES ASSUME NEW f \in Flight PROVE DOMAIN f # DOMAIN None
    OBVIOUS
  <2>1. "cmd" \in DOMAIN f
    BY DEF Flight
  <2>2. "cmd" \notin DOMAIN None
    BY DEF None
  <2> QED BY <2>1, <2>2
<1>3. \A p \in AnyPort : p # None
  BY DEF AnyPort, None
<1>4. \A s \in AnyStream : s # None
  BY DEF AnyStream, None
<1> QED BY <1>1, <1>2, <1>3, <1>4

-----------------------------------------------------------------------------
(***************************************************************************)
(* The inductive invariant                                                 *)
(***************************************************************************)
\* What is sent to a talker and to a listener: a controller's command carries the
\* controller's sequence id, and only commands for an existing port, and the
\* responses to them, pass between talker and listener.
ToTalker ==
  {msg \in Message : \/ msg.type \in TxCommands /\ msg.port \in Port
                     \/ msg.type \in TxGets /\ msg.seq \in Ids}
ToListener ==
  {msg \in Message : \/ msg.type \in Responses /\ msg.port \in Port
                     \/ msg.type \in RxCommands /\ msg.seq \in Ids}
Accepted(e) == IF e \in Talker THEN ToTalker ELSE ToListener
SoundFlight == {f \in Flight : f.cmd \in ToTalker /\ f.cmd.type \in TxCommands}

TalkerStates   == {"IDLE", "WAITING"} \cup TxCommands \cup TxGets
ListenerStates == {"WAITING", "RX_TIMEOUT"} \cup RxCommands \cup Responses

\* A command is in hand exactly in the state that processes it.
SoundTalker ==
  {tk \in [state : TalkerStates, cmd : ToTalker \cup {None}] :
     IF tk.state \in {"IDLE", "WAITING"} THEN tk.cmd = None
     ELSE tk.cmd \in ToTalker /\ tk.cmd.type = tk.state}
SoundListener ==
  {lis \in [state : ListenerStates, cmd : ToListener \cup {None}, idx : Flights, seq : Nat] :
     IF lis.state \in {"WAITING", "RX_TIMEOUT"} THEN lis.cmd = None
     ELSE lis.cmd \in ToListener /\ lis.cmd.type = lis.state}

\* Every inflight command was sent with an id drawn already, no two with the same
\* one, and a timeout found is of a command in use.
FlightRow(flights, lis) ==
  /\ flights \in [Flights -> SoundFlight \cup {None}]
  /\ \A i \in Flights : flights[i] # None => flights[i].cmd.seq < lis.seq
  /\ \A i, j \in Flights :
       (flights[i] # None /\ flights[j] # None /\ flights[i].cmd.seq = flights[j].cmd.seq) => i = j
  /\ lis.state = "RX_TIMEOUT" => flights[lis.idx] # None

TalkerInv == talker \in [Talker -> SoundTalker]
TableInv ==
  /\ list \in [Stream -> [Slots -> Port \cup {None}]]
  /\ count \in [Stream -> Int]
  /\ source \in [Stream -> {"DISABLED", "POTENTIAL"}]
  /\ CountMatchesList
ListenerInv == listener \in [Listener -> SoundListener]
FlightInv ==
  /\ inflight \in [Listener -> [Flights -> SoundFlight \cup {None}]]
  /\ \A l \in Listener : FlightRow(inflight[l], listener[l])
SinkInv ==
  /\ record \in [Port -> AnyStream \cup {None}]
  /\ sink \in [Port -> AnyStream \cup {None}]
  /\ ConnectedIsEnabled
InboxInv ==
  /\ inbox \in [Entity -> Seq(Message)]
  /\ \A e \in Entity : inbox[e] \in Seq(Accepted(e))
ControlInv ==
  /\ issued \in Seq(Listener)
  /\ answers \in [Ids -> Seq(Statuses)]
  /\ open \subseteq Ids
LostInv == lost \in 0..MaxLost

IndInv ==
  /\ TalkerInv /\ TableInv /\ ListenerInv /\ FlightInv
  /\ SinkInv /\ InboxInv /\ ControlInv /\ LostInv

-----------------------------------------------------------------------------
\* A conjunct holds on as long as nothing it speaks of changes.
LEMMA Unchanged ==
  /\ TalkerInv /\ UNCHANGED talker => TalkerInv'
  /\ TableInv /\ UNCHANGED <<list, count, source>> => TableInv'
  /\ ListenerInv /\ UNCHANGED listener => ListenerInv'
  /\ FlightInv /\ UNCHANGED <<listener, inflight>> => FlightInv'
  /\ SinkInv /\ UNCHANGED <<record, sink>> => SinkInv'
  /\ InboxInv /\ UNCHANGED inbox => InboxInv'
  /\ ControlInv /\ UNCHANGED controlVars => ControlInv'
  /\ LostInv /\ UNCHANGED lost => LostInv'
<1>1. TalkerInv /\ UNCHANGED talker => TalkerInv'
  BY DEF TalkerInv
<1>2. TableInv /\ UNCHANGED <<list, count, source>> => TableInv'
  BY DEF TableInv, CountMatchesList, FreeSlots
<1>3. ListenerInv /\ UNCHANGED listener => ListenerInv'
  BY DEF ListenerInv
<1>4. FlightInv /\ UNCHANGED <<listener, inflight>> => FlightInv'
  BY DEF FlightInv
<1>5. SinkInv /\ UNCHANGED <<record, sink>> => SinkInv'
  BY DEF SinkInv, ConnectedIsEnabled
<1>6. InboxInv /\ UNCHANGED inbox => InboxInv'
  BY DEF InboxInv
<1>7. ControlInv /\ UNCHANGED controlVars => ControlInv'
  BY DEF ControlInv, controlVars
<1>8. LostInv /\ UNCHANGED lost => LostInv'
  BY DEF LostInv
<1> QED BY <1>1, <1>2, <1>3, <1>4, <1>5, <1>6, <1>7, <1>8

\* Delivering a packet the entity accepts keeps the inboxes sound.
LEMMA DeliverInv ==
  ASSUME InboxInv, NEW e \in Entity, NEW msg \in Accepted(e), inbox' = Deliver(inbox, e, msg)
  PROVE  InboxInv'
<1>1. msg \in Message
  BY DEF Accepted, ToTalker, ToListener
<1>2. inbox' \in [Entity -> Seq(Message)]
  BY <1>1 DEF InboxInv, Deliver
<1>3. ASSUME NEW d \in Entity PROVE inbox'[d] \in Seq(Accepted(d))
  <2>1. CASE d = e
    <3>1. inbox'[d] = Append(inbox[e], msg)
      BY <2>1 DEF InboxInv, Deliver
    <3> QED BY <3>1, <2>1 DEF InboxInv
  <2>2. CASE d # e
    BY <2>2 DEF InboxInv, Deliver
  <2> QED BY <2>1, <2>2
<1> QED BY <1>2, <1>3 DEF InboxInv

\* Taking the first packet keeps the inboxes sound, and the entity accepts the packet.
LEMMA TakeInv ==
  ASSUME InboxInv, NEW e \in Entity, inbox[e] # <<>>, inbox' = Take(e)
  PROVE  InboxInv' /\ Head(inbox[e]) \in Accepted(e)
<1>1. inbox' \in [Entity -> Seq(Message)]
  BY DEF InboxInv, Take
<1>2. ASSUME NEW d \in Entity PROVE inbox'[d] \in Seq(Accepted(d))
  <2>1. CASE d = e
    <3>1. inbox'[d] = Tail(inbox[e])
      BY <2>1 DEF InboxInv, Take
    <3> QED BY <3>1, <2>1 DEF InboxInv
  <2>2. CASE d # e
    BY <2>2 DEF InboxInv, Take
  <2> QED BY <2>1, <2>2
<1>3. Head(inbox[e]) \in Accepted(e)
  BY DEF InboxInv
<1> QED BY <1>1, <1>2, <1>3 DEF InboxInv

\* An answer keeps what the controllers hold sound.
LEMMA AnswerInv ==
  ASSUME ControlInv, NEW c \in Ids, NEW status \in Statuses, Answer(c, status)
  PROVE  ControlInv'
BY DEF ControlInv, Answer

\* Back to WAITING, a talker is sound.
LEMMA TalkerWaits ==
  ASSUME TalkerInv, NEW t \in Talker, talker' = [talker EXCEPT ![t] = TalkerWaiting]
  PROVE  TalkerInv'
BY DEF TalkerInv, TalkerWaiting, TalkerStates, SoundTalker

-----------------------------------------------------------------------------
(***************************************************************************)
(* The talker's table                                                      *)
(***************************************************************************)
\* The occupied slots are counted by a number up to that of the slots.
LEMMA OccupiedFinite ==
  ASSUME Counting, NEW s
  PROVE  /\ Cardinality(Slots \ FreeSlots(s)) \in Nat
         /\ Cardinality(Slots \ FreeSlots(s)) <= MaxListeners
         /\ Cardinality(Slots \ FreeSlots(s)) = 0 <=> Slots \ FreeSlots(s) = {}
<1>1. Slots \ FreeSlots(s) \in SUBSET Slots
  OBVIOUS
<1> QED BY <1>1, CardinalityIsCount, Zenon DEF Counting, Countable

\* The count of a stream is a number up to that of the slots.
LEMMA CountInRange ==
  ASSUME Counting, TableInv, NEW s \in Stream
  PROVE  count[s] \in Nat /\ count[s] <= MaxListeners
BY OccupiedFinite, Zenon DEF TableInv, CountMatchesList

\* CountMatchesList for one source.
RowInv(s) ==
  /\ count[s] = Cardinality(Slots \ FreeSlots(s))
  /\ \A i, j \in Slots \ FreeSlots(s) : list[s][i] = list[s][j] => i = j
  /\ source[s] = "DISABLED" <=> count[s] = 0

\* A step that changes the row of one source and keeps it consistent.
LEMMA RowStep ==
  ASSUME TableInv, NEW s \in Stream, RowInv(s)',
         \A r \in Stream \ {s} : /\ list'[r] = list[r] /\ count'[r] = count[r]
                                 /\ source'[r] = source[r]
  PROVE  CountMatchesList'
<1>1. ASSUME NEW r \in Stream, r # s PROVE RowInv(r)'
  <2>1. list'[r] = list[r] /\ count'[r] = count[r] /\ source'[r] = source[r]
    BY <1>1
  <2>2. FreeSlots(r)' = FreeSlots(r)
    BY <2>1 DEF FreeSlots
  <2>3. RowInv(r)
    BY Zenon DEF TableInv, CountMatchesList, RowInv
  <2> QED BY <2>1, <2>2, <2>3 DEF RowInv
<1>2. \A r \in Stream : RowInv(r)'
  BY <1>1
<1> QED BY <1>2, Zenon DEF CountMatchesList, RowInv

\* acmp_add_talker_stream_info with the hook that registers the stream.
LEMMA AddInv ==
  ASSUME Counting, TableInv, NEW s \in Stream, NEW p \in Port,
         AddTalkerStreamInfo(s, p), TalkerOnListenerConnect(s)
  PROVE  TableInv'
<1> DEFINE used == Slots \ FreeSlots(s)
<1>p. p # None
  BY NoneIsApart DEF Port, AnyPort
<1>s. /\ source' \in [Stream -> {"DISABLED", "POTENTIAL"}]
      /\ source'[s] = "POTENTIAL"
      /\ \A r \in Stream \ {s} : source'[r] = source[r]
  BY DEF TableInv, TalkerOnListenerConnect
<1>c. count[s] = Cardinality(used) /\ count[s] \in Nat
  BY OccupiedFinite, Zenon DEF TableInv, CountMatchesList
<1>1. CASE Listed(s, p) # {} \/ FreeSlots(s) = {}
  <2>1. list' = list /\ count' = count
    BY <1>1 DEF AddTalkerStreamInfo
  <2>2. used # {}
    <3>1. CASE Listed(s, p) # {}
      BY <3>1, <1>p DEF Listed, FreeSlots
    <3>2. CASE FreeSlots(s) = {}
      <4>1. 0 \in Slots
        BY AcmpAssumption DEF Slots
      <4> QED BY <3>2, <4>1
    <3> QED BY <1>1, <3>1, <3>2
  <2>3. count[s] # 0
    BY <2>2, <1>c, OccupiedFinite
  <2>4. FreeSlots(s)' = FreeSlots(s)
    BY <2>1 DEF FreeSlots
  <2>5. RowInv(s)'
    BY <2>1, <2>3, <2>4, <1>s DEF TableInv, CountMatchesList, RowInv
  <2>6. CountMatchesList'
    BY <2>1, <2>5, <1>s, RowStep
  <2> QED BY <2>1, <2>6, <1>s DEF TableInv
<1>2. CASE ~(Listed(s, p) # {} \/ FreeSlots(s) = {})
  <2> DEFINE k == First(FreeSlots(s))
  <2>1. k \in Slots /\ list[s][k] = None
    <3>1. FreeSlots(s) \in SUBSET Nat
      BY AcmpAssumption DEF FreeSlots, Slots
    <3>2. k \in FreeSlots(s)
      BY <1>2, <3>1, FirstIn
    <3> QED BY <3>2 DEF FreeSlots
  <2>2. /\ list' = [list EXCEPT ![s][k] = p]
        /\ count' = [count EXCEPT ![s] = @ + 1]
    BY <1>2 DEF AddTalkerStreamInfo
  <2> HIDE DEF k
  <2>3. /\ list' \in [Stream -> [Slots -> Port \cup {None}]]
        /\ list'[s][k] = p
        /\ \A i \in Slots \ {k} : list'[s][i] = list[s][i]
        /\ \A r \in Stream \ {s} : list'[r] = list[r]
    BY <2>1, <2>2 DEF TableInv
  <2>4. /\ count' \in [Stream -> Int] /\ count'[s] = count[s] + 1
        /\ \A r \in Stream \ {s} : count'[r] = count[r]
    BY <2>2 DEF TableInv
  <2>5. (Slots \ FreeSlots(s))' = used \cup {k} /\ k \notin used
    BY <2>1, <2>3, <1>p DEF FreeSlots
  <2>6. count'[s] = Cardinality((Slots \ FreeSlots(s))')
    <3>1. Cardinality(used \cup {k}) = Cardinality(used) + 1
      <4>1. used \in SUBSET Slots /\ k \in Slots \ used
        BY <2>1, <2>5
      <4> HIDE DEF used
      <4> QED BY <4>1, CardinalityIsCount, Zenon DEF Counting, Countable
    <3> QED BY <3>1, <2>4, <2>5, <1>c, Zenon
  <2>7. \A i, j \in used \cup {k} : list'[s][i] = list'[s][j] => i = j
    <3>1. \A i \in used : i # k /\ list'[s][i] = list[s][i] /\ list[s][i] # p
      BY <2>3, <2>5, <1>2 DEF Listed
    <3>2. \A i, j \in used : list[s][i] = list[s][j] => i = j
      BY Zenon DEF TableInv, CountMatchesList
    <3> QED BY <3>1, <3>2, <2>3
  <2>8. count'[s] # 0
    BY <2>4, <1>c
  <2>9. RowInv(s)'
    BY <2>5, <2>6, <2>7, <2>8, <1>s DEF RowInv
  <2>10. CountMatchesList'
    BY <2>3, <2>4, <2>9, <1>s, RowStep
  <2> QED BY <2>3, <2>4, <2>10, <1>s DEF TableInv
<1> QED BY <1>1, <1>2

\* acmp_remove_talker_stream_info with the hook that disables the stream.
LEMMA RemoveInv ==
  ASSUME Counting, TableInv, NEW s \in Stream, NEW p \in Port,
         RemoveTalkerStreamInfo(s, p), TalkerOnListenerDisconnect(s, count'[s])
  PROVE  TableInv'
<1> DEFINE used == Slots \ FreeSlots(s)
<1>p. p # None
  BY NoneIsApart DEF Port, AnyPort
<1>s. /\ source' \in [Stream -> {"DISABLED", "POTENTIAL"}]
      /\ source'[s] = (IF count'[s] = 0 THEN "DISABLED" ELSE source[s])
      /\ \A r \in Stream \ {s} : source'[r] = source[r]
  BY DEF TableInv, TalkerOnListenerDisconnect
<1>c. /\ count[s] = Cardinality(used) /\ count[s] \in Nat
      /\ source[s] = "DISABLED" <=> count[s] = 0
  BY OccupiedFinite, Zenon DEF TableInv, CountMatchesList
<1>1. CASE Listed(s, p) = {}
  <2>1. list' = list /\ count' = count
    BY <1>1 DEF RemoveTalkerStreamInfo
  <2>2. FreeSlots(s)' = FreeSlots(s)
    BY <2>1 DEF FreeSlots
  <2>3. RowInv(s)'
    BY <2>1, <2>2, <1>s, Zenon DEF TableInv, CountMatchesList, RowInv
  <2>4. CountMatchesList'
    BY <2>1, <2>3, <1>s, RowStep
  <2> QED BY <2>1, <2>4, <1>s DEF TableInv
<1>2. CASE Listed(s, p) # {}
  <2> DEFINE k == First(Listed(s, p))
  <2>1. k \in Slots /\ list[s][k] = p
    <3>1. Listed(s, p) \in SUBSET Nat
      BY AcmpAssumption DEF Listed, Slots
    <3>2. k \in Listed(s, p)
      BY <1>2, <3>1, FirstIn
    <3> QED BY <3>2 DEF Listed
  <2>2. /\ list' = [list EXCEPT ![s][k] = None]
        /\ count' = [count EXCEPT ![s] = @ - 1]
    BY <1>2 DEF RemoveTalkerStreamInfo
  <2> HIDE DEF k
  <2>3. /\ list' \in [Stream -> [Slots -> Port \cup {None}]]
        /\ list'[s][k] = None
        /\ \A i \in Slots \ {k} : list'[s][i] = list[s][i]
        /\ \A r \in Stream \ {s} : list'[r] = list[r]
    BY <2>1, <2>2 DEF TableInv
  <2>4. /\ count' \in [Stream -> Int] /\ count'[s] = count[s] - 1
        /\ \A r \in Stream \ {s} : count'[r] = count[r]
    BY <2>2 DEF TableInv
  <2>5. (Slots \ FreeSlots(s))' = used \ {k} /\ k \in used
    BY <2>1, <2>3, <1>p DEF FreeSlots
  <2>6. count'[s] = Cardinality((Slots \ FreeSlots(s))')
    <3>1. Cardinality(used \ {k}) = Cardinality(used) - 1
      <4>1. used \in SUBSET Slots /\ k \in used
        BY <2>5
      <4> HIDE DEF used
      <4> QED BY <4>1, CardinalityIsCount, Zenon DEF Counting, Countable
    <3> QED BY <3>1, <2>4, <2>5, <1>c, Zenon
  <2>7. \A i, j \in used \ {k} : list'[s][i] = list'[s][j] => i = j
    <3>1. \A i, j \in used : list[s][i] = list[s][j] => i = j
      BY Zenon DEF TableInv, CountMatchesList
    <3> QED BY <3>1, <2>3
  <2>8. count[s] # 0
    BY <2>5, <1>c, OccupiedFinite
  <2>9. RowInv(s)'
    BY <2>5, <2>6, <2>7, <2>8, <1>s, <1>c, Zenon DEF RowInv
  <2>10. CountMatchesList'
    BY <2>3, <2>4, <2>9, <1>s, RowStep, Zenon
  <2> QED BY <2>3, <2>4, <2>10, <1>s DEF TableInv
<1> QED BY <1>1, <1>2

-----------------------------------------------------------------------------
(***************************************************************************)
(* The listener's state machine and its inflight commands                  *)
(***************************************************************************)
LEMMA ListenerStep ==
  ASSUME ListenerInv, FlightInv, NEW l \in Listener, NEW lis \in SoundListener, NEW flights,
         FlightRow(flights, lis),
         listener' = [listener EXCEPT ![l] = lis], inflight' = [inflight EXCEPT ![l] = flights]
  PROVE  ListenerInv' /\ FlightInv'
<1>1. ListenerInv'
  BY DEF ListenerInv
<1>2. inflight' \in [Listener -> [Flights -> SoundFlight \cup {None}]]
  BY DEF FlightInv, FlightRow
<1>3. ASSUME NEW m \in Listener PROVE FlightRow(inflight'[m], listener'[m])
  <2>1. CASE m = l
    <3>1. inflight'[m] = flights /\ listener'[m] = lis
      BY <2>1 DEF FlightInv, ListenerInv
    <3> QED BY <3>1
  <2>2. CASE m # l
    <3>1. inflight'[m] = inflight[m] /\ listener'[m] = listener[m]
      BY <2>2 DEF FlightInv, ListenerInv
    <3> QED BY <3>1 DEF FlightInv
  <2> QED BY <2>1, <2>2
<1> QED BY <1>1, <1>2, <1>3 DEF FlightInv

\* A listener that waits is sound.
LEMMA WaitingSound ==
  ASSUME NEW n \in Nat
  PROVE  /\ ListenerWaiting(n) \in SoundListener
         /\ ListenerWaiting(n).seq = n /\ ListenerWaiting(n).state = "WAITING"
BY AcmpAssumption DEF ListenerWaiting, SoundListener, ListenerStates, Flights

\* Back to WAITING, with the inflight commands kept or one of them removed.
LEMMA ListenerWaits ==
  ASSUME ListenerInv, FlightInv, NEW l \in Listener,
         listener' = [listener EXCEPT ![l] = ListenerWaiting(@.seq)],
         inflight' = inflight \/ \E i \in Flights : RemoveInflight(l, i)
  PROVE  ListenerInv' /\ FlightInv'
<1> DEFINE lis == ListenerWaiting(listener[l].seq)
<1>1. listener[l].seq \in Nat /\ FlightRow(inflight[l], listener[l])
  BY DEF ListenerInv, SoundListener, FlightInv
<1>2. lis \in SoundListener /\ lis.seq = listener[l].seq /\ lis.state = "WAITING"
  BY <1>1, WaitingSound
<1>3. listener' = [listener EXCEPT ![l] = lis]
  BY DEF ListenerInv
<1> HIDE DEF lis
<1>4. CASE inflight' = inflight
  <2>1. FlightRow(inflight[l], lis)
    BY <1>1, <1>2, Zenon DEF FlightRow
  <2>2. inflight' = [inflight EXCEPT ![l] = inflight[l]]
    BY <1>4 DEF FlightInv
  <2> QED BY <1>2, <1>3, <2>1, <2>2, ListenerStep, Zenon
<1>5. ASSUME NEW i \in Flights, RemoveInflight(l, i) PROVE ListenerInv' /\ FlightInv'
  <2> DEFINE flights == [inflight[l] EXCEPT ![i] = None]
  <2>1. FlightRow(flights, lis)
    BY <1>1, <1>2, Zenon DEF FlightRow
  <2>2. inflight' = [inflight EXCEPT ![l] = flights]
    BY <1>5 DEF FlightInv, RemoveInflight
  <2> QED BY <1>2, <1>3, <2>1, <2>2, ListenerStep, Zenon
<1> QED BY <1>4, <1>5

\* A new command: it goes to the talker with the next id, and is inflight under
\* that id if the list has room.
LEMMA SendInv ==
  ASSUME Counting, ListenerInv, FlightInv, InboxInv, NEW l \in Listener, NEW type \in TxCommands,
         listener[l].state \in RxCommands, listener[l].cmd.port \in Port, SendCommand(l, type)
  PROVE  ListenerInv' /\ FlightInv' /\ InboxInv'
<1> DEFINE old == listener[l].cmd
           n == listener[l].seq
           cmd == [old EXCEPT !.type = type, !.seq = n]
           lis == ListenerWaiting(n + 1)
           flights == AddInflight(inflight[l], cmd, old.seq)
<1>1. /\ old \in Message /\ old.seq \in Ids /\ n \in Nat
      /\ FlightRow(inflight[l], listener[l])
  BY Zenon DEF ListenerInv, SoundListener, FlightInv, ToListener, RxCommands, Responses
<1>2. /\ cmd \in Message /\ cmd.type = type /\ cmd.seq = n
      /\ cmd.port = old.port /\ cmd.stream = old.stream
  BY <1>1, Zenon DEF Message
<1>3. /\ inbox' = Deliver(inbox, cmd.stream[1], cmd)
      /\ listener' = [listener EXCEPT ![l] = lis]
      /\ inflight' = [inflight EXCEPT ![l] = flights]
  BY DEF SendCommand, ListenerInv, FlightInv
<1> HIDE DEF cmd
<1>4. cmd \in ToTalker /\ cmd.stream[1] \in Talker
  <2>1. cmd.stream \in AnyStream
    BY <1>2 DEF Message
  <2> QED BY <1>2, <2>1 DEF ToTalker, AnyStream
<1>5. InboxInv'
  BY <1>3, <1>4, DeliverInv DEF Accepted, Entity
<1>6. lis \in SoundListener /\ lis.seq = n + 1 /\ lis.state = "WAITING"
  BY <1>1, WaitingSound
<1> HIDE DEF lis
<1>7. FlightRow(flights, lis)
  <2> DEFINE free == {i \in Flights : inflight[l][i] = None}
  <2>1. CASE free = {}
    <3>1. flights = inflight[l]
      BY <2>1, Zenon DEF AddInflight
    <3> QED BY <1>1, <1>6, <3>1 DEF FlightRow, SoundFlight, Flight, Message
  <2>2. CASE free # {}
    <3> DEFINE k == First(free)
               new == [cmd |-> cmd, original |-> old.seq, retried |-> FALSE]
    <3>1. k \in Flights
      <4>1. free \in SUBSET Nat
        BY AcmpAssumption DEF Flights
      <4> QED BY <2>2, <4>1, FirstIn
    <3>2. flights = [inflight[l] EXCEPT ![k] = new]
      BY <2>2, Zenon DEF AddInflight
    <3>3. new \in SoundFlight /\ new.cmd.seq = n
      BY <1>1, <1>2, <1>4, Zenon DEF SoundFlight, Flight
    <3> HIDE DEF k, new, flights
    <3>4. flights \in [Flights -> SoundFlight \cup {None}]
      BY <1>1, <3>1, <3>2, <3>3, Zenon DEF FlightRow
    <3>5. /\ flights[k].cmd.seq = n
          /\ \A i \in Flights \ {k} : flights[i] = inflight[l][i]
      BY <1>1, <3>1, <3>2, <3>3, Zenon DEF FlightRow
    <3>6. \A i \in Flights \ {k} : flights[i] # None =>
            flights[i].cmd.seq \in Nat /\ flights[i].cmd.seq < n
      BY <1>1, <3>5, Zenon DEF FlightRow, SoundFlight, Flight, Message
    <3>7. \A i \in Flights : flights[i] # None => flights[i].cmd.seq < lis.seq
      BY <1>1, <1>6, <3>5, <3>6
    <3>8. \A i, j \in Flights :
            (flights[i] # None /\ flights[j] # None /\ flights[i].cmd.seq = flights[j].cmd.seq)
              => i = j
      BY <1>1, <3>5, <3>6 DEF FlightRow
    <3> QED BY <1>6, <3>4, <3>7, <3>8, Zenon DEF FlightRow
  <2> QED BY <2>1, <2>2
<1> HIDE DEF flights
<1>8. ListenerInv' /\ FlightInv'
  BY <1>3, <1>6, <1>7, ListenerStep, Zenon
<1> QED BY <1>5, <1>8

\* The retry of a command that timed out.
LEMMA RetryInv ==
  ASSUME ListenerInv, FlightInv, InboxInv, NEW l \in Listener,
         listener[l].state = "RX_TIMEOUT", ListenerTimeout(l),
         ~inflight[l][listener[l].idx].retried
  PROVE  ListenerInv' /\ FlightInv' /\ InboxInv'
<1> DEFINE k == listener[l].idx
           n == listener[l].seq
           flight == inflight[l][k]
           cmd == [flight.cmd EXCEPT !.seq = n]
           lis == ListenerWaiting(n + 1)
           new == [flight EXCEPT !.cmd = cmd, !.retried = TRUE]
           flights == [inflight[l] EXCEPT ![k] = new]
<1>1. k \in Flights /\ n \in Nat /\ FlightRow(inflight[l], listener[l])
  BY DEF ListenerInv, SoundListener, FlightInv
<1>2. flight \in SoundFlight
  BY <1>1, Zenon DEF FlightRow
<1>3. /\ cmd \in ToTalker /\ cmd.type \in TxCommands /\ cmd.seq = n
      /\ cmd.stream[1] \in Talker
  <2>1. /\ flight.cmd \in Message /\ flight.cmd.type \in TxCommands
        /\ flight.cmd.port \in Port
    BY <1>2, Zenon DEF SoundFlight, ToTalker, TxCommands, TxGets
  <2>2. /\ cmd \in Message /\ cmd.type = flight.cmd.type /\ cmd.seq = n
        /\ cmd.port = flight.cmd.port
    BY <1>1, <2>1, Zenon DEF Message
  <2> HIDE DEF cmd
  <2>3. cmd.stream \in AnyStream
    BY <2>2, Zenon DEF Message
  <2> QED BY <2>1, <2>2, <2>3, Zenon DEF ToTalker, AnyStream
<1>4. /\ inbox' = Deliver(inbox, cmd.stream[1], cmd)
      /\ listener' = [listener EXCEPT ![l] = lis]
      /\ inflight' = [inflight EXCEPT ![l] = flights]
  BY Zenon DEF ListenerTimeout, ListenerInv, FlightInv
<1>5. InboxInv'
  BY <1>3, <1>4, DeliverInv, Zenon DEF Accepted, Entity
<1>6. lis \in SoundListener /\ lis.seq = n + 1 /\ lis.state = "WAITING"
  BY <1>1, WaitingSound
<1>7. new \in SoundFlight /\ new.cmd.seq = n
  BY <1>2, <1>3, Zenon DEF SoundFlight, Flight, ToTalker
<1> HIDE DEF lis, new, cmd, flight
<1>8. /\ flights \in [Flights -> SoundFlight \cup {None}]
      /\ flights[k].cmd.seq = n
      /\ \A i \in Flights \ {k} : flights[i] = inflight[l][i]
  BY <1>1, <1>7, Zenon DEF FlightRow
<1>9. \A i \in Flights \ {k} : flights[i] # None =>
        flights[i].cmd.seq \in Nat /\ flights[i].cmd.seq < n
  BY <1>1, <1>8, Zenon DEF FlightRow, SoundFlight, Flight, Message
<1>10. FlightRow(flights, lis)
  <2>1. \A i \in Flights : flights[i] # None => flights[i].cmd.seq < lis.seq
    BY <1>1, <1>6, <1>8, <1>9
  <2>2. \A i, j \in Flights :
          (flights[i] # None /\ flights[j] # None /\ flights[i].cmd.seq = flights[j].cmd.seq)
            => i = j
    BY <1>1, <1>8, <1>9 DEF FlightRow
  <2> QED BY <1>6, <1>8, <2>1, <2>2, Zenon DEF FlightRow
<1> HIDE DEF flights
<1>11. ListenerInv' /\ FlightInv'
  BY <1>4, <1>6, <1>10, ListenerStep, Zenon
<1> QED BY <1>5, <1>11

-----------------------------------------------------------------------------
(***************************************************************************)
(* The steps                                                               *)
(***************************************************************************)
LEMMA InitInv == Counting /\ Init => IndInv
<1> SUFFICES ASSUME Counting, Init PROVE IndInv
  OBVIOUS
<1>1. TalkerInv
  BY DEF Init, TalkerInv, SoundTalker, TalkerStates
<1>2. TableInv
  <2>1. \A s \in Stream : FreeSlots(s) = Slots
    BY DEF Init, FreeSlots
  <2>2. CountMatchesList
    <3>1. \A s \in Stream : Slots \ FreeSlots(s) = {}
      BY <2>1, Zenon
    <3> QED BY <2>1, <3>1, CardinalityIsCount, Zenon DEF Init, CountMatchesList, Counting, Countable
  <2> QED BY <2>2 DEF Init, TableInv
<1>3. ListenerInv
  BY WaitingSound DEF Init, ListenerInv
<1>4. FlightInv
  BY WaitingSound DEF Init, FlightInv, FlightRow
<1>5. SinkInv
  BY DEF Init, SinkInv, ConnectedIsEnabled
<1>6. InboxInv
  BY DEF Init, InboxInv
<1>7. ControlInv /\ LostInv
  BY AcmpAssumption DEF Init, ControlInv, LostInv
<1> QED BY <1>1, <1>2, <1>3, <1>4, <1>5, <1>6, <1>7 DEF IndInv

\* Command keeps the invariant.
LEMMA CommandInv ==
  ASSUME IndInv, NEW type \in Types, NEW s \in AnyStream, NEW p \in AnyPort, NEW b \in BOOLEAN,
         Command(type, s, p, b)
  PROVE  IndInv'
<1> DEFINE c == Len(issued) + 1
           e == IF type \in TxGets THEN s[1] ELSE p[1]
           msg == [type |-> type, stream |-> s, port |-> p, seq |-> c,
                   status |-> "SUCCESS", classB |-> b]
<1>1. /\ c \in Ids /\ inbox' = Deliver(inbox, e, msg)
      /\ issued' = Append(issued, p[1]) /\ open' = open \cup {c} /\ answers' = answers
      /\ UNCHANGED <<talker, list, count, source, listener, record, sink, inflight, lost>>
  BY DEF Command, talkerVars, listenerVars
<1>2. s[1] \in Talker /\ p[1] \in Listener
  BY DEF AnyStream, AnyPort
<1>3. type \in RxCommands \cup TxGets /\ b \in BOOLEAN
  BY AcmpAssumption
<1>4. msg \in Message
  BY <1>1, <1>3, AcmpAssumption DEF Message, Ids, Statuses
<1>5. e \in Entity /\ msg \in Accepted(e)
  BY <1>1, <1>2, <1>3, <1>4, AcmpAssumption, Zenon DEF Entity, Accepted, ToTalker, ToListener, RxCommands, TxGets
<1> HIDE DEF c, e, msg
<1>6. InboxInv'
  BY <1>1, <1>5, DeliverInv DEF IndInv
<1>7. ControlInv'
  BY <1>1, <1>2 DEF IndInv, ControlInv
<1> QED BY <1>1, <1>6, <1>7, Unchanged DEF IndInv

\* GiveUp keeps the invariant.
LEMMA GiveUpInv == ASSUME IndInv, NEW c \in Ids, GiveUp(c) PROVE IndInv'
<1>1. /\ open' = open \ {c} /\ UNCHANGED <<issued, answers, inbox, lost>>
      /\ UNCHANGED <<talker, list, count, source, listener, record, sink, inflight>>
  BY DEF GiveUp, talkerVars, listenerVars
<1>2. ControlInv'
  BY <1>1 DEF IndInv, ControlInv
<1> QED BY <1>1, <1>2, Unchanged DEF IndInv

\* Lose keeps the invariant.
LEMMA LoseInv == ASSUME IndInv, NEW e \in Entity, Lose(e) PROVE IndInv'
<1>1. /\ lost < MaxLost /\ inbox[e] # <<>> /\ inbox' = Take(e) /\ lost' = lost + 1
      /\ UNCHANGED controlVars
      /\ UNCHANGED <<talker, list, count, source, listener, record, sink, inflight>>
  BY DEF Lose, talkerVars, listenerVars
<1>2. InboxInv'
  BY <1>1, TakeInv DEF IndInv
<1>3. LostInv'
  BY <1>1, AcmpAssumption DEF IndInv, LostInv
<1> QED BY <1>1, <1>2, <1>3, Unchanged DEF IndInv

\* AddressReserved keeps the invariant.
LEMMA AddressReservedInv == ASSUME IndInv, NEW t \in Talker, AddressReserved(t) PROVE IndInv'
<1>1. /\ talker' = [talker EXCEPT ![t] = TalkerWaiting]
      /\ UNCHANGED controlVars
      /\ UNCHANGED <<list, count, source, listener, record, sink, inflight, inbox, lost>>
  BY DEF AddressReserved, listenerVars
<1>2. TalkerInv'
  BY <1>1, TalkerWaits, Zenon DEF IndInv
<1> QED BY <1>1, <1>2, Unchanged DEF IndInv

\* TalkerReceive keeps the invariant.
LEMMA TalkerReceiveInv == ASSUME IndInv, NEW t \in Talker, TalkerReceive(t) PROVE IndInv'
<1>1. /\ inbox[t] # <<>> /\ inbox' = Take(t)
      /\ UNCHANGED controlVars
      /\ UNCHANGED <<list, count, source, listener, record, sink, inflight, lost>>
  BY DEF TalkerReceive, listenerVars
<1>2. InboxInv' /\ Head(inbox[t]) \in ToTalker
  BY <1>1, TakeInv DEF IndInv, Entity, Accepted
<1>3. TalkerInv'
  <2> DEFINE msg == Head(inbox[t])
             tk == [state |-> msg.type, cmd |-> msg]
  <2>1. msg.type \in TxCommands \cup TxGets
    BY <1>2 DEF ToTalker
  <2>2. tk \in SoundTalker
    BY <1>2, <2>1, Zenon DEF SoundTalker, TalkerStates, TxCommands, TxGets
  <2> HIDE DEF tk
  <2>3. talker' = talker \/ talker' = [talker EXCEPT ![t] = tk]
    BY DEF TalkerReceive, tk
  <2> QED BY <2>2, <2>3 DEF IndInv, TalkerInv
<1> QED BY <1>1, <1>2, <1>3, Unchanged DEF IndInv

\* The response goes to the listener whose port the command names.
LEMMA TalkerRespondsInv ==
  ASSUME TalkerInv, InboxInv, NEW t \in Talker, talker[t].state \in TxCommands,
         NEW status \in Statuses, TalkerResponds(t, status)
  PROVE  TalkerInv' /\ InboxInv'
<1> DEFINE cmd == talker[t].cmd
           type == IF cmd.type = "CONNECT_TX" THEN "CONNECT_TX_RESPONSE" ELSE "DISCONNECT_TX_RESPONSE"
           msg == [cmd EXCEPT !.type = type, !.status = status]
<1>1. cmd \in Message /\ cmd.port \in Port
  BY DEF TalkerInv, SoundTalker, ToTalker, TxCommands, TxGets
<1>2. msg \in Message /\ msg.type \in Responses /\ msg.port = cmd.port
  BY <1>1, Zenon DEF Message, Responses
<1>3. inbox' = Deliver(inbox, cmd.port[1], msg) /\ talker' = [talker EXCEPT ![t] = TalkerWaiting]
  BY DEF TalkerResponds
<1> HIDE DEF msg, cmd
<1>4. cmd.port[1] \in Listener
  BY <1>1 DEF Port
<1>5. msg \in Accepted(cmd.port[1])
  BY <1>1, <1>2, <1>4, AcmpAssumption DEF Accepted, ToListener
<1>6. InboxInv'
  BY <1>3, <1>4, <1>5, DeliverInv DEF Entity
<1> QED BY <1>3, <1>6, TalkerWaits, Zenon

\* TalkerConnect keeps the invariant.
LEMMA TalkerConnectInv == ASSUME Counting, IndInv, NEW t \in Talker, TalkerConnect(t) PROVE IndInv'
<1> DEFINE cmd == talker[t].cmd
<1>1. /\ talker[t].state = "CONNECT_TX"
      /\ UNCHANGED controlVars /\ UNCHANGED <<listener, record, sink, inflight, lost>>
  BY DEF TalkerConnect, listenerVars
<1>2. cmd.port \in Port
  BY <1>1, Zenon DEF IndInv, TalkerInv, SoundTalker, ToTalker, TxCommands, TxGets
<1>3. TalkerInv' /\ InboxInv'
  <2>1. \E status \in Statuses : TalkerResponds(t, status)
    BY DEF TalkerConnect, Statuses
  <2> QED BY <1>1, <2>1, TalkerRespondsInv DEF IndInv, TxCommands
<1>4. TableInv'
  <2>1. CASE cmd.stream \notin Stream
    BY <2>1, Unchanged DEF TalkerConnect, IndInv
  <2>2. CASE cmd.stream \in Stream
    <3>1. AddTalkerStreamInfo(cmd.stream, cmd.port) /\ TalkerOnListenerConnect(cmd.stream)
      BY <2>2 DEF TalkerConnect
    <3> QED BY <1>2, <2>2, <3>1, AddInv DEF IndInv
  <2> QED BY <2>1, <2>2
<1> QED BY <1>1, <1>3, <1>4, Unchanged DEF IndInv

\* TalkerDisconnect keeps the invariant.
LEMMA TalkerDisconnectInv == ASSUME Counting, IndInv, NEW t \in Talker, TalkerDisconnect(t) PROVE IndInv'
<1> DEFINE cmd == talker[t].cmd
<1>1. /\ talker[t].state = "DISCONNECT_TX"
      /\ UNCHANGED controlVars /\ UNCHANGED <<listener, record, sink, inflight, lost>>
  BY Zenon DEF TalkerDisconnect, listenerVars
<1>2. cmd.port \in Port
  BY <1>1 DEF IndInv, TalkerInv, SoundTalker, ToTalker, TxCommands, TxGets
<1>3. TalkerInv' /\ InboxInv'
  <2>1. \E status \in Statuses : TalkerResponds(t, status)
    BY Zenon DEF TalkerDisconnect, Statuses
  <2> QED BY <1>1, <2>1, TalkerRespondsInv DEF IndInv, TxCommands
<1>4. TableInv'
  <2>1. CASE cmd.stream \notin Stream
    BY <2>1, Unchanged, Zenon DEF TalkerDisconnect, IndInv
  <2>2. CASE cmd.stream \in Stream
    <3>1. /\ RemoveTalkerStreamInfo(cmd.stream, cmd.port)
          /\ TalkerOnListenerDisconnect(cmd.stream, count'[cmd.stream])
      BY <2>2, Zenon DEF TalkerDisconnect
    <3> QED BY <1>2, <2>2, <3>1, RemoveInv, Zenon DEF IndInv
  <2> QED BY <2>1, <2>2
<1> QED BY <1>1, <1>3, <1>4, Unchanged DEF IndInv

\* TalkerGet keeps the invariant.
LEMMA TalkerGetInv == ASSUME IndInv, NEW t \in Talker, TalkerGet(t) PROVE IndInv'
<1> DEFINE cmd == talker[t].cmd
<1>1. /\ talker[t].state \in TxGets /\ talker' = [talker EXCEPT ![t] = TalkerWaiting]
      /\ UNCHANGED <<list, count, source, listener, record, sink, inflight, inbox, lost>>
  BY DEF TalkerGet, listenerVars
<1>2. cmd.seq \in Ids
  BY <1>1 DEF IndInv, TalkerInv, SoundTalker, ToTalker, TxCommands, TxGets
<1>3. PICK status \in Statuses : Answer(cmd.seq, status)
  BY Zenon DEF TalkerGet, TalkerGetState, TalkerGetConnection, Statuses
<1>4. ControlInv'
  BY <1>2, <1>3, AnswerInv DEF IndInv
<1>5. TalkerInv'
  BY <1>1, TalkerWaits, Zenon DEF IndInv
<1> QED BY <1>1, <1>4, <1>5, Unchanged DEF IndInv

\* ListenerReceive keeps the invariant.
LEMMA ListenerReceiveInv == ASSUME IndInv, NEW l \in Listener, ListenerReceive(l) PROVE IndInv'
<1>1. /\ inbox[l] # <<>> /\ inbox' = Take(l) /\ UNCHANGED controlVars
      /\ UNCHANGED <<talker, list, count, source, record, sink, inflight, lost>>
  BY DEF ListenerReceive, talkerVars
<1>2. InboxInv' /\ Head(inbox[l]) \in ToListener
  BY <1>1, TakeInv, AcmpAssumption DEF IndInv, Entity, Accepted
<1>3. ListenerInv' /\ FlightInv'
  <2> DEFINE msg == Head(inbox[l])
             lis == [listener[l] EXCEPT !.state = msg.type, !.cmd = msg]
  <2>1. CASE listener[l].state # "WAITING"
    BY <2>1, <1>1, Unchanged DEF ListenerReceive, IndInv
  <2>2. CASE listener[l].state = "WAITING"
    <3>1. msg.type \in RxCommands \cup Responses
      BY <1>2 DEF ToListener
    <3>2. lis \in SoundListener /\ lis.state # "RX_TIMEOUT" /\ lis.seq = listener[l].seq
      BY <1>2, <3>1, Zenon DEF IndInv, ListenerInv, SoundListener, ListenerStates, RxCommands, Responses
    <3>3. listener' = [listener EXCEPT ![l] = lis]
      BY <2>2, Zenon DEF ListenerReceive, IndInv, ListenerInv, SoundListener
    <3> HIDE DEF lis
    <3>4. FlightRow(inflight[l], lis)
      BY <3>2, Zenon DEF IndInv, FlightInv, FlightRow
    <3>5. inflight' = [inflight EXCEPT ![l] = inflight[l]]
      BY <1>1 DEF IndInv, FlightInv
    <3> QED BY <3>2, <3>3, <3>4, <3>5, ListenerStep, Zenon DEF IndInv
  <2> QED BY <2>1, <2>2
<1> QED BY <1>1, <1>2, <1>3, Unchanged DEF IndInv

\* A command of a controller in hand: its id is the controller's.
LEMMA CommandInHand ==
  ASSUME IndInv, NEW l \in Listener
  PROVE  /\ listener[l].state \in RxCommands =>
              listener[l].cmd \in Message /\ listener[l].cmd.seq \in Ids
         /\ listener[l].state \in Responses =>
              listener[l].cmd \in Message /\ listener[l].cmd.port \in Port
BY Zenon DEF IndInv, ListenerInv, SoundListener, ToListener, RxCommands, Responses

\* A listener that answers its controller and waits stays sound.
LEMMA ListenerAnswersInv ==
  ASSUME IndInv, NEW l \in Listener, NEW c \in Ids, NEW status \in Statuses,
         ListenerAnswers(l, c, status),
         inflight' = inflight \/ \E i \in Flights : RemoveInflight(l, i)
  PROVE  ListenerInv' /\ FlightInv' /\ ControlInv'
BY ListenerWaits, AnswerInv, Zenon DEF IndInv, ListenerAnswers

\* ListenerConnect keeps the invariant.
LEMMA ListenerConnectInv == ASSUME Counting, IndInv, NEW l \in Listener, ListenerConnect(l) PROVE IndInv'
<1> DEFINE cmd == listener[l].cmd
<1>1. /\ listener[l].state = "CONNECT_RX"
      /\ UNCHANGED <<talker, list, count, source, record, sink, lost>>
  BY Zenon DEF ListenerConnect, talkerVars
<1>2. cmd.seq \in Ids
  BY <1>1, CommandInHand DEF RxCommands
<1>3. CASE /\ \E status \in Statuses : ListenerAnswers(l, cmd.seq, status)
           /\ UNCHANGED <<inbox, inflight>>
  BY <1>1, <1>2, <1>3, ListenerAnswersInv, Unchanged, Zenon DEF IndInv
<1>4. CASE cmd.port \in Port /\ SendCommand(l, "CONNECT_TX") /\ UNCHANGED controlVars
  <2>1. ListenerInv' /\ FlightInv' /\ InboxInv'
    BY <1>1, <1>4, SendInv, Zenon DEF IndInv, TxCommands, RxCommands
  <2> QED BY <1>1, <1>4, <2>1, Unchanged, Zenon DEF IndInv
<1> QED BY <1>3, <1>4, Zenon DEF ListenerConnect, Statuses

\* ListenerDisconnect keeps the invariant.
LEMMA ListenerDisconnectInv ==
  ASSUME Counting, IndInv, NEW l \in Listener, ListenerDisconnect(l) PROVE IndInv'
<1> DEFINE cmd == listener[l].cmd
<1>1. /\ listener[l].state = "DISCONNECT_RX"
      /\ UNCHANGED <<talker, list, count, source, lost>>
  BY Zenon DEF ListenerDisconnect, talkerVars
<1>2. cmd.seq \in Ids
  BY <1>1, CommandInHand DEF RxCommands
<1>3. CASE /\ \E status \in Statuses : ListenerAnswers(l, cmd.seq, status)
           /\ UNCHANGED <<inbox, inflight, sink, record>>
  BY <1>1, <1>2, <1>3, ListenerAnswersInv, Unchanged, Zenon DEF IndInv
<1>4. CASE /\ cmd.port \in Port /\ SendCommand(l, "DISCONNECT_TX")
           /\ ListenerOnTalkerDisconnect(cmd.port)
           /\ record' = [record EXCEPT ![cmd.port] = None]
           /\ UNCHANGED controlVars
  <2>1. ListenerInv' /\ FlightInv' /\ InboxInv'
    BY <1>1, <1>4, SendInv, Zenon DEF IndInv, TxCommands, RxCommands
  <2>2. SinkInv'
    BY <1>4, Zenon DEF IndInv, SinkInv, ConnectedIsEnabled, ListenerOnTalkerDisconnect
  <2> QED BY <1>1, <1>4, <2>1, <2>2, Unchanged, Zenon DEF IndInv
<1> QED BY <1>3, <1>4, Zenon DEF ListenerDisconnect, Statuses

\* ListenerGetState keeps the invariant.
LEMMA ListenerGetStateInv ==
  ASSUME IndInv, NEW l \in Listener, ListenerGetState(l) PROVE IndInv'
<1> DEFINE cmd == listener[l].cmd
<1>1. /\ listener[l].state = "GET_RX_STATE"
      /\ UNCHANGED <<talker, list, count, source, record, sink, inflight, inbox, lost>>
  BY DEF ListenerGetState, talkerVars
<1>2. cmd.seq \in Ids
  BY <1>1, CommandInHand DEF RxCommands
<1>3. \E status \in Statuses : ListenerAnswers(l, cmd.seq, status)
  BY DEF ListenerGetState, Statuses
<1> QED BY <1>1, <1>2, <1>3, ListenerAnswersInv, Unchanged DEF IndInv

\* The inflight command a response belongs to.
LEMMA FoundFlight ==
  ASSUME Counting, IndInv, NEW l \in Listener, NEW seq, Found(l, seq) # {}
  PROVE  /\ First(Found(l, seq)) \in Flights
         /\ inflight[l][First(Found(l, seq))].original \in Ids
<1>1. Found(l, seq) \in SUBSET Nat
  BY AcmpAssumption DEF Found, InUse, Flights
<1>2. First(Found(l, seq)) \in Found(l, seq)
  BY <1>1, FirstIn
<1> QED BY <1>2, Zenon DEF IndInv, FlightInv, SoundFlight, Flight, Found, InUse

\* ListenerConnectTxResponse keeps the invariant.
LEMMA ListenerConnectTxResponseInv ==
  ASSUME Counting, IndInv, NEW l \in Listener, ListenerConnectTxResponse(l) PROVE IndInv'
<1> DEFINE cmd == listener[l].cmd
           found == Found(l, cmd.seq)
           i == First(found)
<1>1. /\ listener[l].state = "CONNECT_TX_RESPONSE" /\ cmd.port \in Port
      /\ UNCHANGED <<talker, list, count, source, inbox, lost>>
  BY Zenon DEF ListenerConnectTxResponse, talkerVars
<1>2. cmd.stream \in AnyStream
  BY <1>1, CommandInHand, Zenon DEF Responses, Message
<1>3. CASE found = {}
  <2>1. /\ listener' = [listener EXCEPT ![l] = ListenerWaiting(@.seq)]
        /\ UNCHANGED <<inflight, record, sink>> /\ UNCHANGED controlVars
    BY <1>3, Zenon DEF ListenerConnectTxResponse
  <2>2. ListenerInv' /\ FlightInv'
    BY <2>1, ListenerWaits, Zenon DEF IndInv
  <2> QED BY <1>1, <2>1, <2>2, Unchanged DEF IndInv
<1>4. CASE found # {}
  <2>1. i \in Flights /\ inflight[l][i].original \in Ids
    BY <1>4, FoundFlight, Zenon
  <2>2. /\ RemoveInflight(l, i)
        /\ \E status \in Statuses : ListenerAnswers(l, inflight[l][i].original, status)
    BY <1>4, Zenon DEF ListenerConnectTxResponse, Statuses
  <2>3. \/ UNCHANGED <<record, sink>>
        \/ /\ ListenerOnTalkerConnect(cmd.port, cmd.stream)
           /\ record' = [record EXCEPT ![cmd.port] = cmd.stream]
    BY <1>4, Zenon DEF ListenerConnectTxResponse
  <2> HIDE DEF i, found
  <2>4. ListenerInv' /\ FlightInv' /\ ControlInv'
    BY <2>1, <2>2, ListenerAnswersInv
  <2>5. SinkInv'
    BY <1>1, <1>2, <2>3 DEF IndInv, SinkInv, ConnectedIsEnabled, ListenerOnTalkerConnect
  <2> QED BY <1>1, <2>4, <2>5, Unchanged DEF IndInv
<1> QED BY <1>3, <1>4

\* ListenerDisconnectTxResponse keeps the invariant.
LEMMA ListenerDisconnectTxResponseInv ==
  ASSUME Counting, IndInv, NEW l \in Listener, ListenerDisconnectTxResponse(l) PROVE IndInv'
<1> DEFINE cmd == listener[l].cmd
           found == Found(l, cmd.seq)
           i == First(found)
<1>1. /\ listener[l].state = "DISCONNECT_TX_RESPONSE" /\ cmd.port \in Port
      /\ UNCHANGED <<talker, list, count, source, sink, inbox, lost>>
  BY Zenon DEF ListenerDisconnectTxResponse, talkerVars
<1>2. cmd.status \in Statuses
  BY <1>1, CommandInHand, Zenon DEF Responses, Message
<1>3. CASE found = {}
  <2>1. /\ listener' = [listener EXCEPT ![l] = ListenerWaiting(@.seq)]
        /\ UNCHANGED <<inflight, record>> /\ UNCHANGED controlVars
    BY <1>3, Zenon DEF ListenerDisconnectTxResponse
  <2>2. ListenerInv' /\ FlightInv'
    BY <2>1, ListenerWaits, Zenon DEF IndInv
  <2> QED BY <1>1, <2>1, <2>2, Unchanged DEF IndInv
<1>4. CASE found # {}
  <2>1. i \in Flights /\ inflight[l][i].original \in Ids
    BY <1>4, FoundFlight, Zenon
  <2>2. /\ RemoveInflight(l, i) /\ ListenerAnswers(l, inflight[l][i].original, cmd.status)
        /\ record' = [record EXCEPT ![cmd.port] = None]
    BY <1>4, Zenon DEF ListenerDisconnectTxResponse
  <2> HIDE DEF i, found
  <2>3. ListenerInv' /\ FlightInv' /\ ControlInv'
    BY <1>2, <2>1, <2>2, ListenerAnswersInv, Zenon
  <2>4. SinkInv'
    BY <1>1, <2>2, Zenon DEF IndInv, SinkInv, ConnectedIsEnabled
  <2> QED BY <1>1, <2>3, <2>4, Unchanged, Zenon DEF IndInv
<1> QED BY <1>3, <1>4

\* ListenerCheckTimeouts keeps the invariant.
LEMMA ListenerCheckTimeoutsInv ==
  ASSUME IndInv, NEW l \in Listener, ListenerCheckTimeouts(l) PROVE IndInv'
<1>1. /\ listener[l].state = "WAITING" /\ UNCHANGED controlVars
      /\ UNCHANGED <<talker, list, count, source, record, sink, inflight, inbox, lost>>
  BY DEF ListenerCheckTimeouts, talkerVars
<1>2. PICK i \in InUse(l) :
        listener' = [listener EXCEPT ![l].state = "RX_TIMEOUT", ![l].idx = i]
  BY Zenon DEF ListenerCheckTimeouts
<1> DEFINE lis == [listener[l] EXCEPT !.state = "RX_TIMEOUT", !.idx = i]
<1>3. i \in Flights /\ inflight[l][i] # None
  BY DEF InUse
<1>4. /\ lis \in SoundListener /\ lis.seq = listener[l].seq /\ lis.idx = i
  BY <1>1, <1>3, Zenon DEF IndInv, ListenerInv, SoundListener, ListenerStates
<1>5. listener' = [listener EXCEPT ![l] = lis]
  BY <1>2, Zenon DEF IndInv, ListenerInv, SoundListener
<1> HIDE DEF lis
<1>6. FlightRow(inflight[l], lis)
  BY <1>3, <1>4, Zenon DEF IndInv, FlightInv, FlightRow
<1>7. inflight' = [inflight EXCEPT ![l] = inflight[l]]
  BY <1>1 DEF IndInv, FlightInv
<1>8. ListenerInv' /\ FlightInv'
  BY <1>4, <1>5, <1>6, <1>7, ListenerStep, Zenon DEF IndInv
<1> QED BY <1>1, <1>8, Unchanged DEF IndInv

\* ListenerTimeout keeps the invariant.
LEMMA ListenerTimeoutInv ==
  ASSUME IndInv, NEW l \in Listener, ListenerTimeout(l) PROVE IndInv'
<1> DEFINE i == listener[l].idx
           flight == inflight[l][i]
<1>1. /\ listener[l].state = "RX_TIMEOUT"
      /\ UNCHANGED <<talker, list, count, source, record, sink, lost>>
  BY Zenon DEF ListenerTimeout, talkerVars
<1>2. CASE flight.retried
  <2>1. i \in Flights /\ flight.original \in Ids
    BY <1>1 DEF IndInv, ListenerInv, SoundListener, FlightInv, FlightRow, SoundFlight, Flight
  <2>2. /\ ListenerAnswers(l, flight.original, "TALKER_TIMEOUT")
        /\ RemoveInflight(l, i) /\ UNCHANGED inbox
    BY <1>2, Zenon DEF ListenerTimeout
  <2>3. ListenerInv' /\ FlightInv' /\ ControlInv'
    BY <2>1, <2>2, ListenerAnswersInv, Zenon DEF Statuses
  <2> QED BY <1>1, <2>2, <2>3, Unchanged DEF IndInv
<1>3. CASE ~flight.retried
  <2>1. UNCHANGED controlVars
    BY <1>3, Zenon DEF ListenerTimeout
  <2>2. ListenerInv' /\ FlightInv' /\ InboxInv'
    BY <1>1, <1>3, RetryInv DEF IndInv
  <2> QED BY <1>1, <2>1, <2>2, Unchanged DEF IndInv
<1> QED BY <1>2, <1>3, Zenon

\* Every step keeps the invariant.
LEMMA NextInv == Counting /\ IndInv /\ [Next]_vars => IndInv'
<1> SUFFICES ASSUME Counting, IndInv, [Next]_vars PROVE IndInv'
  OBVIOUS
<1>1. CASE \E type \in Types, s \in AnyStream, p \in AnyPort, b \in BOOLEAN : Command(type, s, p, b)
  BY <1>1, CommandInv
<1>2. CASE \E c \in Ids : GiveUp(c)
  BY <1>2, GiveUpInv
<1>3. CASE \E t \in Talker : AddressReserved(t) \/ TalkerReceive(t)
                             \/ TalkerConnect(t) \/ TalkerDisconnect(t) \/ TalkerGet(t)
  BY <1>3, AddressReservedInv, TalkerReceiveInv, TalkerConnectInv, TalkerDisconnectInv,
     TalkerGetInv
<1>4. CASE \E l \in Listener :
             \/ ListenerReceive(l) \/ ListenerConnect(l) \/ ListenerDisconnect(l)
             \/ ListenerGetState(l)
  BY <1>4, ListenerReceiveInv, ListenerConnectInv, ListenerDisconnectInv, ListenerGetStateInv
<1>5. CASE \E l \in Listener :
             \/ ListenerConnectTxResponse(l) \/ ListenerDisconnectTxResponse(l)
             \/ ListenerCheckTimeouts(l) \/ ListenerTimeout(l)
  BY <1>5, ListenerConnectTxResponseInv, ListenerDisconnectTxResponseInv,
     ListenerCheckTimeoutsInv, ListenerTimeoutInv
<1>6. CASE \E e \in Entity : Lose(e)
  BY <1>6, LoseInv
<1>7. CASE UNCHANGED vars
  BY <1>7, Unchanged DEF IndInv, vars, talkerVars, listenerVars
<1> QED BY <1>1, <1>2, <1>3, <1>4, <1>5, <1>6, <1>7 DEF Next

-----------------------------------------------------------------------------
(***************************************************************************)
(* A command is answered once                                              *)
(*                                                                         *)
(* A controller's command is a token that stays with the entity it was     *)
(* sent to: it moves from the inbox into the state machine and, at a       *)
(* listener, on into an inflight command, until the answer uses it up.     *)
(***************************************************************************)
Asks(msg) == msg.type \in RxCommands \cup TxGets

\* The places of an entity: the inbox from 1 on, the state machine at 0, and the
\* inflight commands from -1 on down.
InBox(e, k, c) == k \in DOMAIN inbox[e] /\ Asks(inbox[e][k]) /\ inbox[e][k].seq = c
InHand(e, c) ==
  \/ e \in Talker /\ talker[e].state \in TxGets /\ talker[e].cmd.seq = c
  \/ e \in Listener /\ listener[e].state \in RxCommands /\ listener[e].cmd.seq = c
InFlight(e, k, c) == e \in Listener /\ -1 - k \in InUse(e) /\ inflight[e][-1 - k].original = c
Holds(e, k, c) == InBox(e, k, c) \/ (k = 0 /\ InHand(e, c)) \/ InFlight(e, k, c)

\* A command is in one place at most, in none before it is sent, and in none once
\* it has been answered; until then it is open, and at a listener it is at the one
\* it was issued to.
Token(c) ==
  /\ \A e, f \in Entity : \A j, k \in Int :
       Holds(e, j, c) /\ Holds(f, k, c) => e = f /\ j = k
  /\ \A e \in Entity : \A k \in Int :
       Holds(e, k, c) => /\ answers[c] = <<>> /\ c <= Len(issued) /\ c \in open
                         /\ e \in Listener => issued[c] = e
  /\ answers[c] # <<>> => Len(answers[c]) = 1 /\ c <= Len(issued)

TokenInv == \A c \in Ids : Token(c)

\* A step that moves the commands of one entity among its places, and may drop some.
LEMMA Moved ==
  ASSUME TokenInv, NEW e \in Entity, NEW m \in [Int -> Int],
         \A j, k \in Int : m[j] = m[k] => j = k,
         \A c \in Ids : \A k \in Int : Holds(e, k, c)' => Holds(e, m[k], c),
         \A f \in Entity \ {e} : \A c \in Ids : \A k \in Int : Holds(f, k, c)' => Holds(f, k, c),
         UNCHANGED controlVars
  PROVE  TokenInv'
<1>c. answers' = answers /\ issued' = issued /\ open' = open
  BY DEF controlVars
<1> SUFFICES ASSUME NEW c \in Ids PROVE Token(c)'
  BY DEF TokenInv
<1> DEFINE H(f, k) == Holds(f, k, c)
           G(f, k) == Holds(f, k, c)'
           was(f, k) == IF f = e THEN m[k] ELSE k
<1>1. ASSUME NEW f \in Entity, NEW k \in Int, G(f, k)
      PROVE  was(f, k) \in Int /\ H(f, was(f, k))
  BY <1>1
<1>2. /\ \A d, f \in Entity : \A j, k \in Int : H(d, j) /\ H(f, k) => d = f /\ j = k
      /\ \A d \in Entity : \A k \in Int :
           H(d, k) => /\ answers[c] = <<>> /\ c <= Len(issued) /\ c \in open
                      /\ d \in Listener => issued[c] = d
      /\ answers[c] # <<>> => Len(answers[c]) = 1 /\ c <= Len(issued)
  BY DEF TokenInv, Token
<1> HIDE DEF H, G
<1>3. ASSUME NEW d \in Entity, NEW f \in Entity, NEW j \in Int, NEW k \in Int, G(d, j), G(f, k)
      PROVE  d = f /\ j = k
  <2>1. d = f /\ was(d, j) = was(f, k)
    BY <1>1, <1>2, <1>3, SMTT(30)
  <2> QED BY <2>1
<1>4. ASSUME NEW d \in Entity, NEW k \in Int, G(d, k)
      PROVE  /\ answers'[c] = <<>> /\ c <= Len(issued') /\ c \in open'
             /\ d \in Listener => issued'[c] = d
  BY <1>c, <1>1, <1>2, <1>4
<1>5. answers'[c] # <<>> => Len(answers'[c]) = 1 /\ c <= Len(issued')
  BY <1>c, <1>2
<1> QED BY <1>3, <1>4, <1>5, Zenon DEF G, Token

\* A step that moves no command.
LEMMA Stays ==
  ASSUME TokenInv, UNCHANGED controlVars,
         \A f \in Entity : \A c \in Ids : \A k \in Int : Holds(f, k, c)' => Holds(f, k, c)
  PROVE  TokenInv'
<1> SUFFICES ASSUME NEW c \in Ids PROVE Token(c)'
  BY DEF TokenInv
<1> QED BY DEF TokenInv, Token, controlVars

\* The answer uses up the command it belongs to.
LEMMA Answered ==
  ASSUME ControlInv, TokenInv, NEW d \in Ids, NEW status \in Statuses, Answer(d, status),
         NEW e \in Entity, NEW i \in Int, Holds(e, i, d), ~Holds(e, i, d)',
         \A f \in Entity : \A c \in Ids : \A k \in Int : Holds(f, k, c)' => Holds(f, k, c)
  PROVE  TokenInv'
<1>1. /\ answers' = [answers EXCEPT ![d] = Append(@, status)] /\ issued' = issued
      /\ open' = open \ {d} /\ answers \in [Ids -> Seq(Statuses)]
  BY DEF Answer, ControlInv
<1>2. answers[d] = <<>> /\ d <= Len(issued)
  BY DEF TokenInv, Token
<1>3. \A f \in Entity : \A k \in Int : ~Holds(f, k, d)'
  BY DEF TokenInv, Token
<1>4. Len(answers'[d]) = 1
  BY <1>1, <1>2
<1>5. \A c \in Ids \ {d} : answers'[c] = answers[c]
  BY <1>1
<1> SUFFICES ASSUME NEW c \in Ids PROVE Token(c)'
  BY DEF TokenInv
<1>6. CASE c = d
  BY <1>1, <1>2, <1>3, <1>4, <1>6 DEF Token
<1>7. CASE c # d
  BY <1>1, <1>5, <1>7 DEF TokenInv, Token
<1> QED BY <1>6, <1>7

\* What the changes of an inbox and of the inflight commands do to the places.
LEMMA BoxDelivered ==
  ASSUME InboxInv, NEW e \in Entity, NEW msg \in Message, inbox' = Deliver(inbox, e, msg),
         NEW f \in Entity, NEW k, NEW c, ~Asks(msg) \/ msg.seq # c, InBox(f, k, c)'
  PROVE  InBox(f, k, c)
<1>1. CASE f = e
  <2>1. inbox[e] \in Seq(Message) /\ inbox'[e] = Append(inbox[e], msg)
    BY DEF InboxInv, Deliver
  <2>2. k \in 1..(Len(inbox[e]) + 1) /\ Asks(inbox'[e][k]) /\ inbox'[e][k].seq = c
    BY <1>1, <2>1 DEF InBox
  <2>3. k # Len(inbox[e]) + 1
    BY <2>1, <2>2
  <2>4. k \in 1..Len(inbox[e]) /\ inbox'[e][k] = inbox[e][k]
    BY <2>1, <2>2, <2>3
  <2> QED BY <1>1, <2>1, <2>2, <2>4 DEF InBox
<1>2. CASE f # e
  <2>1. inbox'[f] = inbox[f]
    BY <1>2 DEF InboxInv, Deliver
  <2> QED BY <2>1 DEF InBox
<1> QED BY <1>1, <1>2

\* What is in an inbox after a packet was taken was one place further back.
LEMMA BoxTaken ==
  ASSUME InboxInv, NEW e \in Entity, inbox[e] # <<>>, inbox' = Take(e)
  PROVE  /\ \A k, c : InBox(e, k, c)' => k \in Nat \ {0} /\ InBox(e, k + 1, c)
         /\ \A f \in Entity \ {e} : \A k, c : InBox(f, k, c)' => InBox(f, k, c)
         /\ \A c : Asks(Head(inbox[e])) /\ Head(inbox[e]).seq = c => InBox(e, 1, c)
<1>1. inbox[e] \in Seq(Message) /\ inbox'[e] = Tail(inbox[e])
  BY DEF InboxInv, Take
<1>2. ASSUME NEW k, NEW c, InBox(e, k, c)'
      PROVE  k \in Nat \ {0} /\ InBox(e, k + 1, c)
  <2>1. k \in 1..(Len(inbox[e]) - 1) /\ Asks(inbox'[e][k]) /\ inbox'[e][k].seq = c
    BY <1>1, <1>2 DEF InBox
  <2>2. inbox'[e][k] = inbox[e][k + 1] /\ k + 1 \in 1..Len(inbox[e]) /\ k \in Nat \ {0}
    BY <1>1, <2>1
  <2> QED BY <1>1, <2>1, <2>2 DEF InBox
<1>3. ASSUME NEW f \in Entity \ {e}, NEW k, NEW c, InBox(f, k, c)' PROVE InBox(f, k, c)
  <2>1. inbox'[f] = inbox[f]
    BY DEF InboxInv, Take
  <2> QED BY <1>3, <2>1 DEF InBox
<1>4. Head(inbox[e]) = inbox[e][1] /\ 1 \in DOMAIN inbox[e]
  BY <1>1
<1>5. ASSUME NEW c, Asks(Head(inbox[e])), Head(inbox[e]).seq = c PROVE InBox(e, 1, c)
  BY <1>4, <1>5 DEF InBox
<1> QED BY <1>2, <1>3, <1>5

\* Removing an inflight command adds no request.
LEMMA FlightRemoved ==
  ASSUME FlightInv, NEW l \in Listener, NEW i \in Flights, RemoveInflight(l, i)
  PROVE  /\ \A f \in Entity : \A k \in Int : \A c : InFlight(f, k, c)' => InFlight(f, k, c)
         /\ \A c : ~InFlight(l, -1 - i, c)'
<1>1. /\ inflight' = [inflight EXCEPT ![l][i] = None]
      /\ inflight \in [Listener -> [Flights -> SoundFlight \cup {None}]]
  BY DEF RemoveInflight, FlightInv
<1>2. ASSUME NEW f \in Entity, NEW k \in Int, NEW c, InFlight(f, k, c)' PROVE InFlight(f, k, c)
  <2> DEFINE j == -1 - k
  <2>1. f \in Listener /\ j \in Flights /\ inflight'[f][j] # None /\ inflight'[f][j].original = c
    BY <1>2 DEF InFlight, InUse
  <2>2. inflight'[f][j] = inflight[f][j]
    BY <1>1, <2>1
  <2> QED BY <2>1, <2>2 DEF InFlight, InUse
<1>3. inflight'[l][i] = None
  BY <1>1
<1>4. -1 - (-1 - i) = i
  BY AcmpAssumption DEF Flights
<1> QED BY <1>2, <1>3, <1>4 DEF InFlight, InUse

\* The state machine of an entity holds nothing in WAITING, and only the entity
\* that takes a step changes what it holds.
LEMMA HandOf ==
  ASSUME NEW f, NEW c
  PROVE  /\ (f \in Talker => talker'[f] = talker[f]) /\ (f \in Listener => listener'[f] = listener[f])
              => (InHand(f, c)' <=> InHand(f, c))
         /\ f \in Talker /\ talker'[f] = TalkerWaiting => ~InHand(f, c)'
         /\ f \in Listener /\ listener'[f].state \notin RxCommands => ~InHand(f, c)'
<1>1. (f \in Talker => talker'[f] = talker[f]) /\ (f \in Listener => listener'[f] = listener[f])
        => (InHand(f, c)' <=> InHand(f, c))
  BY DEF InHand
<1>2. f \in Talker /\ talker'[f] = TalkerWaiting => ~InHand(f, c)'
  BY AcmpAssumption DEF InHand, TalkerWaiting, TxGets
<1>3. f \in Listener /\ listener'[f].state \notin RxCommands => ~InHand(f, c)'
  BY AcmpAssumption DEF InHand
<1> QED BY <1>1, <1>2, <1>3

\* The inflight commands are told apart from the packets by a negative place.
LEMMA FlightBelow ==
  ASSUME NEW f, NEW k \in Int, NEW c, InFlight(f, k, c)
  PROVE  k < 0
BY AcmpAssumption DEF InFlight, InUse, Flights

\* The first packet of an inbox is taken in hand, dropped or lost.
LEMMA Received ==
  ASSUME InboxInv, TokenInv, NEW e \in Entity, inbox[e] # <<>>, inbox' = Take(e),
         inflight' = inflight, UNCHANGED controlVars,
         \A f \in Entity \ {e} : \A c : InHand(f, c)' => InHand(f, c),
         \/ \A c : InHand(e, c)' => InHand(e, c)
         \/ \A c : InHand(e, c)' => Asks(Head(inbox[e])) /\ Head(inbox[e]).seq = c
  PROVE  TokenInv'
<1>1. \A f, k, c : InFlight(f, k, c)' <=> InFlight(f, k, c)
  BY DEF InFlight, InUse
<1>2. ASSUME NEW f \in Entity \ {e}, NEW c \in Ids, NEW k \in Int, Holds(f, k, c)'
      PROVE  Holds(f, k, c)
  BY <1>1, <1>2, BoxTaken DEF Holds
<1>3. CASE \A c : InHand(e, c)' => InHand(e, c)
  <2> DEFINE m == [k \in Int |-> IF k > 0 THEN k + 1 ELSE k]
  <2>1. m \in [Int -> Int] /\ \A j, k \in Int : m[j] = m[k] => j = k
    OBVIOUS
  <2>2. ASSUME NEW c \in Ids, NEW k \in Int, Holds(e, k, c)' PROVE Holds(e, m[k], c)
    <3>1. CASE InBox(e, k, c)'
      <4>1. k \in Nat \ {0} /\ InBox(e, k + 1, c)
        BY <3>1, BoxTaken
      <4>2. m[k] = k + 1
        BY <4>1
      <4> QED BY <4>1, <4>2 DEF Holds
    <3>2. CASE k = 0 /\ InHand(e, c)'
      <4>1. m[k] = k
        BY <3>2
      <4> QED BY <1>3, <3>2, <4>1 DEF Holds
    <3>3. CASE InFlight(e, k, c)'
      <4>1. InFlight(e, k, c)
        BY <1>1, <3>3
      <4>2. m[k] = k
        BY <4>1, FlightBelow
      <4> QED BY <4>1, <4>2 DEF Holds
    <3> QED BY <2>2, <3>1, <3>2, <3>3 DEF Holds
  <2> HIDE DEF m
  <2> QED BY <1>2, <2>1, <2>2, Moved, Zenon
<1>4. CASE \A c : InHand(e, c)' => Asks(Head(inbox[e])) /\ Head(inbox[e]).seq = c
  <2> DEFINE m == [k \in Int |-> IF k >= 0 THEN k + 1 ELSE k]
  <2>1. m \in [Int -> Int] /\ \A j, k \in Int : m[j] = m[k] => j = k
    OBVIOUS
  <2>2. ASSUME NEW c \in Ids, NEW k \in Int, Holds(e, k, c)' PROVE Holds(e, m[k], c)
    <3>1. CASE InBox(e, k, c)'
      <4>1. k \in Nat \ {0} /\ InBox(e, k + 1, c)
        BY <3>1, BoxTaken
      <4>2. m[k] = k + 1
        BY <4>1
      <4> QED BY <4>1, <4>2 DEF Holds
    <3>2. CASE k = 0 /\ InHand(e, c)'
      <4>1. m[k] = 1
        BY <3>2
      <4>2. InBox(e, 1, c)
        BY <1>4, <3>2, BoxTaken, Zenon
      <4> QED BY <4>1, <4>2 DEF Holds
    <3>3. CASE InFlight(e, k, c)'
      <4>1. InFlight(e, k, c)
        BY <1>1, <3>3
      <4>2. m[k] = k
        BY <4>1, FlightBelow
      <4> QED BY <4>1, <4>2 DEF Holds
    <3> QED BY <2>2, <3>1, <3>2, <3>3, Zenon DEF Holds
  <2> HIDE DEF m
  <2> QED BY <1>2, <2>1, <2>2, Moved, Zenon
<1> QED BY <1>3, <1>4

\* A new command becomes inflight in place of the command in hand.
LEMMA SendToken ==
  ASSUME Counting, IndInv, TokenInv, NEW l \in Listener, NEW type \in TxCommands,
         listener[l].state \in RxCommands, SendCommand(l, type),
         talker' = talker, UNCHANGED controlVars
  PROVE  TokenInv'
<1> DEFINE old == listener[l].cmd
           n == listener[l].seq
           cmd == [old EXCEPT !.type = type, !.seq = n]
           flights == AddInflight(inflight[l], cmd, old.seq)
           free == {i \in Flights : inflight[l][i] = None}
           i == First(free)
           m == [k \in Int |-> IF k = 0 THEN -1 - i ELSE IF k = -1 - i THEN 0 ELSE k]
<1>1. old \in Message /\ n \in Nat
  BY CommandInHand, Zenon DEF IndInv, ListenerInv, SoundListener
<1>2. cmd \in Message /\ ~Asks(cmd) /\ cmd.stream[1] \in Entity
  <2>1. cmd \in Message /\ cmd.type = type
    BY <1>1, Zenon DEF Message
  <2> HIDE DEF cmd
  <2> QED BY <2>1, Zenon DEF Message, AnyStream, Entity, Asks, RxCommands, TxGets, TxCommands
<1>3. /\ inbox' = Deliver(inbox, cmd.stream[1], cmd)
      /\ listener' = [listener EXCEPT ![l] = ListenerWaiting(n + 1)]
      /\ inflight' = [inflight EXCEPT ![l] = flights]
  BY DEF SendCommand, IndInv, ListenerInv, FlightInv
<1> HIDE DEF cmd
<1>4. /\ \A f \in Listener \ {l} : listener'[f] = listener[f] /\ inflight'[f] = inflight[f]
      /\ listener'[l].state = "WAITING" /\ inflight'[l] = flights
      /\ inflight[l] \in [Flights -> SoundFlight \cup {None}]
  BY <1>3, Zenon DEF IndInv, ListenerInv, FlightInv, ListenerWaiting
<1>5. ASSUME NEW f \in Entity, NEW k, NEW c, InBox(f, k, c)' PROVE InBox(f, k, c)
  BY <1>2, <1>3, <1>5, BoxDelivered, Zenon DEF IndInv
<1>6. ASSUME NEW f \in Entity \ {l}, NEW c \in Ids, NEW k \in Int, Holds(f, k, c)'
      PROVE  Holds(f, k, c)
  <2>1. InHand(f, c)' => InHand(f, c)
    BY <1>4, HandOf, Zenon
  <2>2. InFlight(f, k, c)' => InFlight(f, k, c)
    BY <1>4, Zenon DEF InFlight, InUse
  <2> QED BY <1>5, <1>6, <2>1, <2>2 DEF Holds
<1>7. \A c : ~InHand(l, c)'
  BY <1>4, HandOf, Zenon DEF RxCommands
<1>8. l \in Entity
  BY DEF Entity
<1>9. CASE free = {}
  <2>1. flights = inflight[l]
    BY <1>9, Zenon DEF AddInflight
  <2>2. ASSUME NEW c \in Ids, NEW k \in Int, Holds(l, k, c)' PROVE Holds(l, k, c)
    <3>1. InFlight(l, k, c)' => InFlight(l, k, c)
      BY <1>4, <2>1, Zenon DEF InFlight, InUse
    <3> QED BY <1>5, <1>7, <1>8, <2>2, <3>1 DEF Holds
  <2> QED BY <1>6, <2>2, Stays
<1>10. CASE free # {}
  <2>1. i \in Flights
    <3>1. free \in SUBSET Nat
      BY AcmpAssumption DEF Flights
    <3> QED BY <1>10, <3>1, FirstIn
  <2>2. flights = [inflight[l] EXCEPT ![i] = [cmd |-> cmd, original |-> old.seq, retried |-> FALSE]]
    BY <1>10, Zenon DEF AddInflight
  <2> HIDE DEF flights, i, free
  <2>3. i \in Nat
    BY <2>1, AcmpAssumption DEF Flights
  <2>4. m \in [Int -> Int] /\ \A j, k \in Int : m[j] = m[k] => j = k
    BY <2>3
  <2>5. ASSUME NEW c \in Ids, NEW k \in Int, Holds(l, k, c)' PROVE Holds(l, m[k], c)
    <3>1. CASE InBox(l, k, c)'
      <4>1. InBox(l, k, c)
        BY <1>5, <1>8, <3>1
      <4>2. k \in Nat \ {0}
        BY <1>8, <4>1 DEF InBox, IndInv, InboxInv
      <4>3. m[k] = k
        BY <2>3, <4>2
      <4> QED BY <4>1, <4>3 DEF Holds
    <3>2. CASE InFlight(l, k, c)'
      <4>1. -1 - k \in Flights /\ flights[-1 - k] # None /\ flights[-1 - k].original = c
        BY <1>4, <3>2 DEF InFlight, InUse
      <4>2. CASE -1 - k = i
        <5>1. c = old.seq /\ m[k] = 0
          BY <1>4, <2>1, <2>2, <2>3, <4>1, <4>2
        <5>2. InHand(l, c)
          BY <5>1, Zenon DEF InHand
        <5> QED BY <5>1, <5>2, Zenon DEF Holds
      <4>3. CASE -1 - k # i
        <5>1. inflight[l][-1 - k] = flights[-1 - k]
          BY <1>4, <2>1, <2>2, <4>1, <4>3, Zenon
        <5>2. k < 0
          BY <3>2, <4>1, AcmpAssumption DEF Flights
        <5>3. m[k] = k
          BY <4>3, <5>2, <2>3
        <5> QED BY <4>1, <5>1, <5>3, Zenon DEF Holds, InFlight, InUse
      <4> QED BY <4>2, <4>3
    <3> QED BY <1>7, <2>5, <3>1, <3>2, Zenon DEF Holds
  <2> HIDE DEF m
  <2> QED BY <1>6, <1>8, <2>4, <2>5, Moved, Zenon
<1> QED BY <1>9, <1>10

\* A controller gives up a command that is nowhere underway.
LEMMA GiveUpToken == ASSUME IndInv, TokenInv, NEW d \in Ids, GiveUp(d) PROVE TokenInv'
<1>1. /\ ~Underway(d) /\ open' = open \ {d}
      /\ UNCHANGED <<talker, listener, inflight, inbox, answers, issued>>
  BY DEF GiveUp, talkerVars, listenerVars
<1>2. \A f, k, c : Holds(f, k, c)' <=> Holds(f, k, c)
  BY <1>1 DEF Holds, InBox, InHand, InFlight, InUse
<1>3. ASSUME NEW f \in Entity, NEW k \in Int PROVE ~Holds(f, k, d)
  <2>1. ~InBox(f, k, d) /\ ~InHand(f, d)
    BY <1>1, Zenon DEF Underway, InBox, InHand, Asks
  <2>2. ~InFlight(f, k, d)
    BY <1>1, Zenon DEF Underway, InFlight, InUse
  <2> QED BY <2>1, <2>2 DEF Holds
<1> SUFFICES ASSUME NEW c \in Ids PROVE Token(c)'
  BY DEF TokenInv
<1> QED BY <1>1, <1>2, <1>3 DEF TokenInv, Token

\* A controller that sends a command makes the one token of it.
LEMMA CommandToken ==
  ASSUME IndInv, TokenInv, NEW type \in Types, NEW s \in AnyStream, NEW p \in AnyPort,
         NEW b \in BOOLEAN, Command(type, s, p, b)
  PROVE  TokenInv'
<1>n. PICK n \in Ids : n = Len(issued) + 1
  BY DEF Command
<1> DEFINE e == IF type \in TxGets THEN s[1] ELSE p[1]
           msg == [type |-> type, stream |-> s, port |-> p, seq |-> n,
                   status |-> "SUCCESS", classB |-> b]
<1>1. /\ inbox' = Deliver(inbox, e, msg) /\ issued' = Append(issued, p[1])
      /\ answers' = answers /\ open' = open \cup {n}
      /\ UNCHANGED <<talker, listener, inflight>>
  BY <1>n DEF Command, talkerVars, listenerVars
<1>2. e \in Entity /\ (e \in Listener => e = p[1]) /\ p[1] \in Listener
  BY AcmpAssumption DEF AnyStream, AnyPort, Entity
<1>3. msg \in Message /\ msg.seq = n
  BY AcmpAssumption DEF Message, Ids, Statuses
<1>4. issued \in Seq(Listener) /\ Len(issued') = Len(issued) + 1 /\ Len(issued) \in Nat
  BY <1>1 DEF IndInv, ControlInv
<1>i. issued'[n] = p[1] /\ \A c \in Ids : c <= Len(issued) => issued'[c] = issued[c]
  BY <1>n, <1>1, <1>2, <1>4 DEF Ids
<1> HIDE DEF e, msg
<1>5. ASSUME NEW f \in Entity, NEW c \in Ids, c # n, NEW k \in Int, Holds(f, k, c)'
      PROVE  Holds(f, k, c)
  <2>1. InBox(f, k, c)' => InBox(f, k, c)
    BY <1>1, <1>2, <1>3, <1>5, BoxDelivered, Zenon DEF IndInv
  <2>2. (InHand(f, c)' <=> InHand(f, c)) /\ (InFlight(f, k, c)' <=> InFlight(f, k, c))
    BY <1>1, Zenon DEF InHand, InFlight, InUse
  <2> QED BY <1>5, <2>1, <2>2 DEF Holds
<1>6. ASSUME NEW f \in Entity, NEW k \in Int, Holds(f, k, n)'
      PROVE  f = e /\ k = Len(inbox[e]) + 1
  <2>1. ~Holds(f, k, n)
    BY <1>n, <1>4 DEF TokenInv, Token
  <2>2. (InHand(f, n)' <=> InHand(f, n)) /\ (InFlight(f, k, n)' <=> InFlight(f, k, n))
    BY <1>1, Zenon DEF InHand, InFlight, InUse
  <2>3. InBox(f, k, n)' /\ ~InBox(f, k, n)
    BY <1>6, <2>1, <2>2 DEF Holds
  <2>4. inbox[e] \in Seq(Message) /\ inbox'[e] = Append(inbox[e], msg)
    BY <1>1, <1>2, Zenon DEF IndInv, InboxInv, Deliver
  <2>5. f # e => inbox'[f] = inbox[f]
    BY <1>1, Zenon DEF IndInv, InboxInv, Deliver
  <2>6. f = e
    BY <2>3, <2>5, Zenon DEF InBox
  <2>7. k \in 1..(Len(inbox[e]) + 1) /\ (k # Len(inbox[e]) + 1 => inbox'[e][k] = inbox[e][k])
    BY <1>3, <2>3, <2>4, <2>6 DEF InBox
  <2>8. k # Len(inbox[e]) + 1 => k \in DOMAIN inbox[e]
    BY <2>4, <2>7
  <2> QED BY <2>3, <2>6, <2>7, <2>8, Zenon DEF InBox
<1>7. answers[n] = <<>>
  BY <1>n, <1>4 DEF TokenInv, Token
<1> SUFFICES ASSUME NEW c \in Ids PROVE Token(c)'
  BY Zenon DEF TokenInv
<1>8. CASE c = n
  BY <1>n, <1>i, <1>1, <1>2, <1>4, <1>6, <1>7, <1>8 DEF Token
<1>9. CASE c # n
  <2>1. c <= Len(issued) => c <= Len(issued')
    BY <1>4 DEF Ids
  <2>2. Token(c)
    BY DEF TokenInv
  <2>3. \A f \in Entity : \A k \in Int : Holds(f, k, c)' => Holds(f, k, c)
    BY <1>5, <1>9
  <2>4. answers' = answers /\ open \subseteq open' /\ (c <= Len(issued) => issued'[c] = issued[c])
    BY <1>i, <1>1, Zenon
  <2> QED BY <2>1, <2>2, <2>3, <2>4 DEF Token
<1> QED BY <1>8, <1>9

\* The talker's steps: it answers GET commands itself, all other answers go to a
\* listener.
LEMMA TalkerToken ==
  ASSUME IndInv, TokenInv, NEW t \in Talker,
         \/ AddressReserved(t) \/ TalkerReceive(t)
         \/ TalkerConnect(t) \/ TalkerDisconnect(t) \/ TalkerGet(t)
  PROVE  TokenInv'
<1>t. t \in Entity /\ t \notin Listener
  BY AcmpAssumption DEF Entity
<1>1. UNCHANGED <<listener, inflight>>
  BY Zenon DEF AddressReserved, TalkerReceive, TalkerConnect, TalkerDisconnect, TalkerGet, listenerVars
<1>2. \A f, k, c : InFlight(f, k, c)' <=> InFlight(f, k, c)
  BY <1>1, Zenon DEF InFlight, InUse
<1>3. ASSUME NEW f \in Entity \ {t}, NEW c PROVE InHand(f, c)' => InHand(f, c)
  <2>1. f \in Talker => talker'[f] = talker[f]
    BY Zenon DEF AddressReserved, TalkerReceive, TalkerConnect, TalkerDisconnect, TalkerGet,
           TalkerResponds, IndInv, TalkerInv
  <2> QED BY <1>1, <2>1, HandOf, Zenon
<1>4. CASE TalkerReceive(t)
  <2>1. /\ inbox[t] # <<>> /\ inbox' = Take(t) /\ UNCHANGED controlVars
        /\ talker'[t] = talker[t]
             \/ talker'[t] = [state |-> Head(inbox[t]).type, cmd |-> Head(inbox[t])]
    BY <1>4, Zenon DEF TalkerReceive, IndInv, TalkerInv
  <2>2. \/ \A c : InHand(t, c)' => InHand(t, c)
        \/ \A c : InHand(t, c)' => Asks(Head(inbox[t])) /\ Head(inbox[t]).seq = c
    BY <1>t, <2>1 DEF InHand, Asks
  <2> QED BY <1>t, <1>1, <1>3, <2>1, <2>2, Received, Zenon DEF IndInv
<1>5. CASE ~TalkerReceive(t)
  <2>1. talker' = [talker EXCEPT ![t] = TalkerWaiting]
    BY <1>5, Zenon DEF AddressReserved, TalkerConnect, TalkerDisconnect, TalkerGet, TalkerResponds
  <2>2. talker'[t] = TalkerWaiting
    BY <2>1 DEF IndInv, TalkerInv
  <2>3. \A c : ~InHand(t, c)'
    BY <2>2, HandOf, Zenon
  <2>4. CASE AddressReserved(t)
    <3>1. UNCHANGED inbox /\ UNCHANGED controlVars
      BY <2>4 DEF AddressReserved
    <3>2. \A f, k, c : InBox(f, k, c)' <=> InBox(f, k, c)
      BY <3>1 DEF InBox
    <3> QED BY <1>2, <1>3, <2>3, <3>1, <3>2, Stays DEF Holds
  <2>5. CASE TalkerConnect(t) \/ TalkerDisconnect(t)
    <3> DEFINE cmd == talker[t].cmd
               type == IF cmd.type = "CONNECT_TX" THEN "CONNECT_TX_RESPONSE"
                       ELSE "DISCONNECT_TX_RESPONSE"
               msg(status) == [cmd EXCEPT !.type = type, !.status = status]
    <3>1. talker[t].state \in TxCommands /\ UNCHANGED controlVars
      BY <2>5, Zenon DEF TalkerConnect, TalkerDisconnect, TxCommands
    <3>2. PICK status \in Statuses : inbox' = Deliver(inbox, cmd.port[1], msg(status))
      <4>1. \E status \in Statuses : TalkerResponds(t, status)
        BY <2>5, Zenon DEF TalkerConnect, TalkerDisconnect, Statuses
      <4> QED BY <4>1, Zenon DEF TalkerResponds
    <3>3. cmd \in Message /\ cmd.port \in Port
      BY <3>1, Zenon DEF IndInv, TalkerInv, SoundTalker, ToTalker, TxCommands, TxGets
    <3>4. msg(status) \in Message /\ ~Asks(msg(status))
      BY <3>3, Zenon DEF Message, Responses, Asks, RxCommands, TxGets
    <3>5. cmd.port[1] \in Entity
      BY <3>3, Zenon DEF Port, Entity
    <3> HIDE DEF msg, cmd
    <3>6. \A f \in Entity : \A k, c : InBox(f, k, c)' => InBox(f, k, c)
      BY <3>2, <3>4, <3>5, BoxDelivered, Zenon DEF IndInv
    <3> QED BY <1>2, <1>3, <2>3, <3>1, <3>6, Stays, Zenon DEF Holds
  <2>6. CASE TalkerGet(t)
    <3> DEFINE cmd == talker[t].cmd
    <3>1. talker[t].state \in TxGets /\ inbox' = inbox
      BY <2>6, Zenon DEF TalkerGet
    <3>2. PICK d \in Ids : d = cmd.seq
      BY <3>1, Zenon DEF IndInv, TalkerInv, SoundTalker, ToTalker, TxCommands, TxGets
    <3>3. PICK status \in Statuses : Answer(d, status)
      BY <2>6, <3>2, Zenon DEF TalkerGet, TalkerGetState, TalkerGetConnection, Statuses
    <3>4. \A f, k, c : InBox(f, k, c)' <=> InBox(f, k, c)
      BY <3>1 DEF InBox
    <3>5. InHand(t, d)
      BY <3>1, <3>2, Zenon DEF InHand
    <3>6. Holds(t, 0, d)
      BY <3>5 DEF Holds
    <3>7. \A f \in Entity : \A c \in Ids : \A k \in Int : Holds(f, k, c)' => Holds(f, k, c)
      BY <1>2, <1>3, <2>3, <3>4 DEF Holds
    <3>8. ~Holds(t, 0, d)'
      <4>1. ~InBox(t, 0, d)
        BY <1>t DEF InBox, IndInv, InboxInv
      <4>2. ~InFlight(t, 0, d)
        BY <1>t, Zenon DEF InFlight
      <4> QED BY <1>2, <2>3, <3>4, <4>1, <4>2 DEF Holds
    <3> QED BY <1>t, <3>3, <3>6, <3>7, <3>8, Answered DEF IndInv
  <2> QED BY <1>5, <2>4, <2>5, <2>6
<1> QED BY <1>4, <1>5

\* The listener answers the command in hand, or the one an inflight command stands for.
LEMMA ListenerAnswersToken ==
  ASSUME IndInv, TokenInv, NEW l \in Listener, NEW d \in Ids, NEW status \in Statuses,
         ListenerAnswers(l, d, status), UNCHANGED <<talker, inbox>>,
         \/ listener[l].state \in RxCommands /\ listener[l].cmd.seq = d /\ inflight' = inflight
         \/ \E i \in InUse(l) : inflight[l][i].original = d /\ RemoveInflight(l, i)
  PROVE  TokenInv'
<1>1. /\ Answer(d, status)
      /\ listener'[l].state = "WAITING" /\ \A f \in Listener \ {l} : listener'[f] = listener[f]
  BY DEF ListenerAnswers, ListenerWaiting, IndInv, ListenerInv
<1>2. /\ \A c : ~InHand(l, c)'
      /\ \A f \in Entity \ {l} : \A c : InHand(f, c)' => InHand(f, c)
  BY <1>1, HandOf DEF RxCommands
<1>3. \A f, k, c : InBox(f, k, c)' <=> InBox(f, k, c)
  BY DEF InBox
<1>4. l \in Entity
  BY DEF Entity
<1>5. \A k \in Int : \A c : InBox(l, k, c) => k > 0
  <2>1. inbox[l] \in Seq(Message)
    BY <1>4, Zenon DEF IndInv, InboxInv
  <2> QED BY <2>1 DEF InBox
<1>6. CASE listener[l].state \in RxCommands /\ listener[l].cmd.seq = d /\ inflight' = inflight
  <2>1. \A f, k, c : InFlight(f, k, c)' <=> InFlight(f, k, c)
    BY <1>6 DEF InFlight, InUse
  <2>2. Holds(l, 0, d)
    BY <1>6, Zenon DEF Holds, InHand
  <2>3. ~Holds(l, 0, d)'
    <3>1. ~InFlight(l, 0, d) /\ ~InBox(l, 0, d)
      BY <1>5, FlightBelow
    <3> QED BY <1>2, <1>3, <2>1, <3>1 DEF Holds
  <2>4. \A f \in Entity : \A c \in Ids : \A k \in Int : Holds(f, k, c)' => Holds(f, k, c)
    BY <1>2, <1>3, <2>1, Zenon DEF Holds
  <2> QED BY <1>1, <1>4, <2>2, <2>3, <2>4, Answered DEF IndInv
<1>7. ASSUME NEW i \in InUse(l), inflight[l][i].original = d, RemoveInflight(l, i)
      PROVE  TokenInv'
  <2>1. i \in Flights /\ i \in Nat /\ -1 - (-1 - i) = i
    BY AcmpAssumption DEF InUse, Flights
  <2>2. /\ \A f \in Entity : \A k \in Int : \A c : InFlight(f, k, c)' => InFlight(f, k, c)
        /\ \A c : ~InFlight(l, -1 - i, c)'
    BY <1>7, <2>1, FlightRemoved, Zenon DEF IndInv
  <2>3. Holds(l, -1 - i, d)
    BY <1>7, <2>1, Zenon DEF Holds, InFlight
  <2>4. ~Holds(l, -1 - i, d)'
    <3>1. ~InBox(l, -1 - i, d) /\ -1 - i # 0
      BY <1>5, <2>1
    <3> QED BY <1>3, <2>2, <3>1, Zenon DEF Holds
  <2>5. \A f \in Entity : \A c \in Ids : \A k \in Int : Holds(f, k, c)' => Holds(f, k, c)
    BY <1>2, <1>3, <2>2, Zenon DEF Holds
  <2>6. -1 - i \in Int
    BY <2>1
  <2> QED BY <1>1, <1>4, <2>3, <2>4, <2>5, <2>6, Answered, Zenon DEF IndInv
<1> QED BY <1>6, <1>7

\* A listener's step that neither takes a command nor answers one.
LEMMA ListenerStays ==
  ASSUME IndInv, TokenInv, NEW l \in Listener, UNCHANGED <<talker, inbox, inflight, controlVars>>,
         listener'[l].state \notin RxCommands,
         \A f \in Listener \ {l} : listener'[f] = listener[f]
  PROVE  TokenInv'
<1>1. /\ \A c : ~InHand(l, c)'
      /\ \A f \in Entity \ {l} : \A c : InHand(f, c)' => InHand(f, c)
  BY HandOf
<1>2. \A f, k, c : (InBox(f, k, c)' <=> InBox(f, k, c)) /\ (InFlight(f, k, c)' <=> InFlight(f, k, c))
  BY DEF InBox, InFlight, InUse
<1> QED BY <1>1, <1>2, Stays DEF Holds

\* A listener that processes a command passes the token on or spends it.
LEMMA ListenerCommandToken ==
  ASSUME Counting, IndInv, TokenInv, NEW l \in Listener,
         \/ ListenerReceive(l) \/ ListenerConnect(l) \/ ListenerDisconnect(l) \/ ListenerGetState(l)
  PROVE  TokenInv'
<1> DEFINE cmd == listener[l].cmd
<1>l. l \in Entity /\ l \notin Talker
  BY AcmpAssumption DEF Entity
<1>1. CASE ListenerReceive(l)
  <2>1. /\ inbox[l] # <<>> /\ inbox' = Take(l) /\ UNCHANGED controlVars
        /\ talker' = talker /\ inflight' = inflight
        /\ \A f \in Listener \ {l} : listener'[f] = listener[f]
        /\ \/ listener'[l] = listener[l]
           \/ listener'[l].state = Head(inbox[l]).type /\ listener'[l].cmd = Head(inbox[l])
    BY <1>1 DEF ListenerReceive, talkerVars, IndInv, ListenerInv, SoundListener
  <2>2. \/ \A c : InHand(l, c)' => InHand(l, c)
        \/ \A c : InHand(l, c)' => Asks(Head(inbox[l])) /\ Head(inbox[l]).seq = c
    BY <1>l, <2>1, Zenon DEF InHand, Asks
  <2>3. \A f \in Entity \ {l} : \A c : InHand(f, c)' => InHand(f, c)
    BY <2>1, HandOf, Zenon
  <2> QED BY <1>l, <2>1, <2>2, <2>3, Received, Zenon DEF IndInv
<1>2. CASE ~ListenerReceive(l)
  <2>1. listener[l].state \in RxCommands /\ talker' = talker
    BY <1>2, Zenon DEF ListenerConnect, ListenerDisconnect, ListenerGetState, RxCommands, talkerVars
  <2>2. cmd.seq \in Ids
    BY <2>1, CommandInHand
  <2>3. \/ /\ \E status \in Statuses : ListenerAnswers(l, cmd.seq, status)
           /\ UNCHANGED <<inbox, inflight>>
        \/ /\ \E type \in TxCommands : SendCommand(l, type)
           /\ UNCHANGED controlVars
    <3>1. CASE ListenerConnect(l)
      BY <3>1, Zenon DEF ListenerConnect, Statuses, TxCommands
    <3>2. CASE ListenerDisconnect(l)
      BY <3>2, Zenon DEF ListenerDisconnect, Statuses, TxCommands
    <3>3. CASE ListenerGetState(l)
      BY <3>3, Zenon DEF ListenerGetState, Statuses
    <3> QED BY <1>2, <3>1, <3>2, <3>3
  <2>4. CASE /\ \E status \in Statuses : ListenerAnswers(l, cmd.seq, status)
             /\ UNCHANGED <<inbox, inflight>>
    BY <2>1, <2>2, <2>4, ListenerAnswersToken, Zenon
  <2>5. CASE (\E type \in TxCommands : SendCommand(l, type)) /\ UNCHANGED controlVars
    BY <2>1, <2>5, SendToken
  <2> QED BY <2>3, <2>4, <2>5
<1> QED BY <1>1, <1>2

\* A response spends the token of the inflight command it is for.
LEMMA ListenerResponseToken ==
  ASSUME Counting, IndInv, TokenInv, NEW l \in Listener,
         ListenerConnectTxResponse(l) \/ ListenerDisconnectTxResponse(l)
  PROVE  TokenInv'
<1> DEFINE cmd == listener[l].cmd
           found == Found(l, cmd.seq)
           i == First(found)
<1>1. listener[l].state \in Responses /\ UNCHANGED <<talker, inbox>>
  BY Zenon DEF ListenerConnectTxResponse, ListenerDisconnectTxResponse, Responses, talkerVars
<1>2. cmd.status \in Statuses
  BY <1>1, CommandInHand DEF Message
<1>3. CASE found = {}
  <2>1. /\ listener' = [listener EXCEPT ![l] = ListenerWaiting(@.seq)]
        /\ UNCHANGED inflight /\ UNCHANGED controlVars
    BY <1>3, Zenon DEF ListenerConnectTxResponse, ListenerDisconnectTxResponse
  <2>2. /\ listener'[l].state \notin RxCommands
        /\ \A f \in Listener \ {l} : listener'[f] = listener[f]
    BY <2>1 DEF ListenerWaiting, RxCommands, IndInv, ListenerInv
  <2> QED BY <1>1, <2>1, <2>2, ListenerStays
<1>4. CASE found # {}
  <2>1. i \in InUse(l) /\ inflight[l][i].original \in Ids
    <3>1. found \in SUBSET Nat
      BY AcmpAssumption DEF Found, InUse, Flights
    <3>2. i \in found
      BY <1>4, <3>1, FirstIn
    <3> QED BY <1>4, <3>2, FoundFlight, Zenon DEF Found
  <2>2. /\ RemoveInflight(l, i)
        /\ \E status \in Statuses : ListenerAnswers(l, inflight[l][i].original, status)
    BY <1>2, <1>4, Zenon DEF ListenerConnectTxResponse, ListenerDisconnectTxResponse, Statuses
  <2> HIDE DEF i, found
  <2> QED BY <1>1, <2>1, <2>2, ListenerAnswersToken, Zenon
<1> QED BY <1>3, <1>4

\* A timeout sends the command again or spends its token.
LEMMA ListenerTimeoutToken ==
  ASSUME IndInv, TokenInv, NEW l \in Listener, ListenerCheckTimeouts(l) \/ ListenerTimeout(l)
  PROVE  TokenInv'
<1>1. CASE ListenerCheckTimeouts(l)
  <2>1. /\ UNCHANGED <<talker, inbox, inflight, controlVars>>
        /\ \E i : listener' = [listener EXCEPT ![l].state = "RX_TIMEOUT", ![l].idx = i]
    BY <1>1, Zenon DEF ListenerCheckTimeouts, talkerVars
  <2>2. /\ listener'[l].state \notin RxCommands
        /\ \A f \in Listener \ {l} : listener'[f] = listener[f]
    BY <2>1 DEF RxCommands, IndInv, ListenerInv, SoundListener
  <2> QED BY <2>1, <2>2, ListenerStays, Zenon
<1>2. CASE ListenerTimeout(l)
  <2> DEFINE i == listener[l].idx
             flight == inflight[l][i]
             cmd == [flight.cmd EXCEPT !.seq = listener[l].seq]
  <2>1. i \in InUse(l) /\ i \in Flights /\ talker' = talker /\ flight \in SoundFlight
    BY <1>2 DEF ListenerTimeout, IndInv, ListenerInv, SoundListener, FlightInv, FlightRow, InUse,
                talkerVars
  <2>2. CASE flight.retried
    <3>1. /\ ListenerAnswers(l, flight.original, "TALKER_TIMEOUT")
          /\ RemoveInflight(l, i) /\ UNCHANGED inbox
      BY <1>2, <2>2, Zenon DEF ListenerTimeout
    <3>2. flight.original \in Ids /\ "TALKER_TIMEOUT" \in Statuses
      BY <2>1, Zenon DEF SoundFlight, Flight, Statuses
    <3> QED BY <2>1, <3>1, <3>2, ListenerAnswersToken, Zenon
  <2>3. CASE ~flight.retried
    <3> DEFINE new == [flight EXCEPT !.cmd = cmd, !.retried = TRUE]
    <3>1. /\ inbox' = Deliver(inbox, cmd.stream[1], cmd)
          /\ inflight' = [inflight EXCEPT ![l][i] = new]
          /\ listener' = [listener EXCEPT ![l] = ListenerWaiting(@.seq + 1)]
          /\ UNCHANGED controlVars
      BY <1>2, <2>3, Zenon DEF ListenerTimeout
    <3>2. cmd \in Message /\ ~Asks(cmd) /\ cmd.stream[1] \in Entity
      <4>1. /\ flight.cmd \in Message /\ flight.cmd.type \in TxCommands
            /\ listener[l].seq \in Nat
        BY <2>1, Zenon DEF SoundFlight, ToTalker, IndInv, ListenerInv, SoundListener
      <4>2. cmd \in Message /\ cmd.type \in TxCommands
        BY <4>1, Zenon DEF Message
      <4> HIDE DEF cmd
      <4> QED BY <4>2 DEF Message, AnyStream, Entity, Asks, RxCommands, TxGets, TxCommands
    <3>3. new.original = flight.original
      BY <2>1, Zenon DEF SoundFlight, Flight
    <3> HIDE DEF cmd, new
    <3>4. \A f \in Entity : \A k, c : InBox(f, k, c)' => InBox(f, k, c)
      BY <3>1, <3>2, BoxDelivered DEF IndInv
    <3>5. /\ \A c : ~InHand(l, c)'
          /\ \A f \in Entity \ {l} : \A c : InHand(f, c)' => InHand(f, c)
      <4>1. /\ listener'[l].state \notin RxCommands
            /\ \A f \in Listener \ {l} : listener'[f] = listener[f]
        BY <3>1 DEF ListenerWaiting, RxCommands, IndInv, ListenerInv
      <4> QED BY <2>1, <4>1, HandOf
    <3>6. ASSUME NEW f, NEW k, NEW c, InFlight(f, k, c)' PROVE InFlight(f, k, c)
      <4>1. f \in Listener /\ -1 - k \in Flights /\ inflight'[f][-1 - k] # None
            /\ inflight'[f][-1 - k].original = c
        BY <3>6 DEF InFlight, InUse
      <4>2. CASE f = l /\ -1 - k = i
        <5>1. inflight'[f][-1 - k] = new
          BY <2>1, <3>1, <4>2, Zenon DEF IndInv, FlightInv
        <5> QED BY <2>1, <3>3, <4>1, <4>2, <5>1, Zenon DEF InFlight
      <4>3. CASE ~(f = l /\ -1 - k = i)
        <5>1. inflight'[f][-1 - k] = inflight[f][-1 - k]
          BY <2>1, <3>1, <4>1, <4>3, Zenon DEF IndInv, FlightInv
        <5> QED BY <4>1, <5>1 DEF InFlight, InUse
      <4> QED BY <4>2, <4>3
    <3>7. \A f \in Entity : \A c \in Ids : \A k \in Int : Holds(f, k, c)' => Holds(f, k, c)
      BY <3>4, <3>5, <3>6 DEF Holds
    <3> QED BY <3>1, <3>7, Stays
  <2> QED BY <2>2, <2>3, Zenon
<1> QED BY <1>1, <1>2

\* Every step keeps one token per unanswered command.
LEMMA NextToken == Counting /\ IndInv /\ TokenInv /\ [Next]_vars => TokenInv'
<1> SUFFICES ASSUME Counting, IndInv, TokenInv, [Next]_vars PROVE TokenInv'
  OBVIOUS
<1>1. CASE \E type \in Types, s \in AnyStream, p \in AnyPort, b \in BOOLEAN : Command(type, s, p, b)
  BY <1>1, CommandToken
<1>2. CASE \E c \in Ids : GiveUp(c)
  BY <1>2, GiveUpToken
<1>7. CASE UNCHANGED vars
  <2>1. UNCHANGED <<talker, listener, inflight, inbox, controlVars>>
    BY <1>7 DEF vars, talkerVars, listenerVars
  <2>2. \A f, k, c : Holds(f, k, c)' <=> Holds(f, k, c)
    BY <2>1 DEF Holds, InBox, InHand, InFlight, InUse
  <2> QED BY <2>1, <2>2, Stays
<1>3. CASE \E t \in Talker : AddressReserved(t) \/ TalkerReceive(t)
                             \/ TalkerConnect(t) \/ TalkerDisconnect(t) \/ TalkerGet(t)
  BY <1>3, TalkerToken
<1>4. CASE \E l \in Listener :
             \/ ListenerReceive(l) \/ ListenerConnect(l) \/ ListenerDisconnect(l)
             \/ ListenerGetState(l)
  BY <1>4, ListenerCommandToken
<1>5. CASE \E l \in Listener :
             \/ ListenerConnectTxResponse(l) \/ ListenerDisconnectTxResponse(l)
             \/ ListenerCheckTimeouts(l) \/ ListenerTimeout(l)
  BY <1>5, ListenerResponseToken, ListenerTimeoutToken
<1>6. ASSUME NEW e \in Entity, Lose(e) PROVE TokenInv'
  <2>1. /\ inbox[e] # <<>> /\ inbox' = Take(e)
        /\ UNCHANGED <<talker, listener, inflight, controlVars>>
    BY <1>6 DEF Lose, talkerVars, listenerVars
  <2>2. \A f, c : InHand(f, c)' => InHand(f, c)
    BY <2>1 DEF InHand
  <2> QED BY <2>1, <2>2, Received, Zenon DEF IndInv
<1> QED BY <1>1, <1>2, <1>3, <1>4, <1>5, <1>6, <1>7 DEF Next

\* At the start there is no token.
LEMMA InitToken == Init => TokenInv
<1> SUFFICES ASSUME Init PROVE TokenInv
  OBVIOUS
<1>1. \A e \in Entity : \A k, c : ~Holds(e, k, c)
  BY DEF Init, Holds, InBox, InHand, InFlight, InUse, ListenerWaiting, RxCommands, TxGets
<1>2. \A c \in Ids : answers[c] = <<>>
  BY DEF Init
<1> QED BY <1>1, <1>2 DEF TokenInv, Token

=============================================================================
