------------------------------- MODULE MrpLink -------------------------------
(***************************************************************************)
(* Two MRP participants at the ends of one Ethernet link, each with one    *)
(* attribute slot for the same attribute, running mrp_periodic() and       *)
(* avb_mrp_process_packet() of avb_mrp.c.  Time advances in ticks of one   *)
(* join timer period; a PDU arrives (or is lost) within the tick it was    *)
(* sent in, and mrp_periodic() is polled many times per tick.              *)
(***************************************************************************)
EXTENDS MrpAttribute, Sequences

CONSTANTS
  Node,             \* the two participants
  Declarer,         \* those whose application may declare the attribute
  JoinNew,          \* the values of "new" that mrp_mad_join is called with
  Periodic,         \* TRUE for MVRP_VID_VECTOR, the only type PERIODIC reaches
  JoinTime,         \* MRP_JOINTIMER_PERIOD_CENTISECONDS, in ticks
  LeaveAllTime,     \* MRP_LEAVEALL_TIMER_PERIOD_CENTISECONDS, in ticks
  PeriodicTime,     \* MRP_PERIODIC_TIMER_PERIOD_CENTISECONDS, in ticks
  MaxLost           \* how many PDUs the network may lose

ASSUME LinkAssumption ==
  /\ \A n \in Node : \E m \in Node : m # n /\ Node = {n, m}
  /\ Declarer \subseteq Node
  /\ JoinNew \subseteq BOOLEAN
  /\ Periodic \in BOOLEAN
  /\ JoinTime \in Nat \ {0}
  /\ LeaveAllTime \in Nat \ {0}
  /\ PeriodicTime \in Nat \ {0}
  /\ MaxLost \in Nat

VARIABLES
  attr,             \* attrs[]: one mrp_attribute_state per participant
  joinTimer,        \* joinTimer: ticks left
  leaveAllTimer,    \* msrp/mvrp_leaveall_timer: ticks left
  periodicTimer,    \* periodic_timer: ticks left
  leaveAllActive,   \* msrp/mvrp_leaveall_active: a LeaveAll waits to be sent
  wire,             \* wire[n]: PDUs sent by n, in order, not yet received
  indicated,        \* what the application of n was last told
  lost,             \* PDUs lost so far
  declaredFor       \* for how many ticks n has declared without a break, to a cap

vars == <<attr, joinTimer, leaveAllTimer, periodicTimer, leaveAllActive, wire,
          indicated, lost, declaredFor>>

timers == <<joinTimer, leaveAllTimer, periodicTimer>>

\* A declaration is sent at the next join timer, or the one after if that one
\* carries a LeaveAll (a VP applicant then only sends IN or MT), and once more
\* for each PDU lost.
SettleTime == JoinTime * (MaxLost + 2) + 1

Peer(n) == CHOOSE m \in Node : m # n

Pdu == [leaveAll : BOOLEAN, events : SUBSET WireEvents]

\* A zeroed slot as mrp_init leaves it, taken by mrp_get_attr and
\* mrp_attribute_init and begun by mrp_mad_begin.
Slot == [app |-> "UNUSED", reg |-> "MT", timer |-> Off, pending |-> {},
         four |-> "IGNORE", here |-> FALSE, remove |-> FALSE]

Begun == MadBegin(AttributeInit(Slot, TRUE))

Init ==
  /\ attr = [n \in Node |-> Begun]
  /\ joinTimer \in [Node -> 1..JoinTime]
  /\ leaveAllTimer = [n \in Node |-> LeaveAllTime]
  /\ periodicTimer = [n \in Node |-> PeriodicTime]
  /\ leaveAllActive = [n \in Node |-> FALSE]
  /\ wire = [n \in Node |-> <<>>]
  /\ indicated = [n \in Node |-> "left"]
  /\ lost = 0
  /\ declaredFor = [n \in Node |-> 0]

-----------------------------------------------------------------------------
\* The application declares or withdraws the attribute.
Join(n, new) ==
  /\ attr' = [attr EXCEPT ![n] = MadJoin(@, new)]
  /\ UNCHANGED <<timers, leaveAllActive, wire, indicated, lost, declaredFor>>

Leave(n) ==
  /\ attr' = [attr EXCEPT ![n] = MadLeave(@)]
  /\ declaredFor' = [declaredFor EXCEPT ![n] = 0]
  /\ UNCHANGED <<timers, leaveAllActive, wire, indicated, lost>>

\* The indications of one pass, in the order the code sends them: what the
\* application believes afterwards.
AfterIndications(pending, before) ==
  IF "LEAVE" \in pending THEN "left"
  ELSE IF pending # {} THEN "joined" ELSE before

\* mrp_periodic: one pass over the timers, the transmit opportunity, the
\* pending indications and the leave timer, in that order.
MrpPeriodic(n) ==
  LET s0 == attr[n]
      s1 == IF periodicTimer[n] = 0 /\ Periodic THEN Event("PERIODIC", s0) ELSE s0
      leaveAll == leaveAllTimer[n] = 0
      s2 == IF leaveAll THEN Event("RECEIVE_LEAVE_ALL", s1) ELSE s1
      active == leaveAll \/ leaveAllActive[n]
      join == joinTimer[n] = 0
      tx == IF active THEN "TX_LEAVE_ALL" ELSE "TX"
      s3 == IF join THEN Event(tx, s2) ELSE s2
      pdu == [leaveAll |-> active, events |-> Transmitted(tx, s2)]
      s4 == [s3 EXCEPT !.pending = {}]
      s5 == IF s4.timer = 0 THEN UpdateState("LEAVETIMER", s4, "IGNORE") ELSE s4
  IN /\ attr' = [attr EXCEPT ![n] = s5]
     /\ joinTimer' = [joinTimer EXCEPT ![n] = IF join THEN JoinTime ELSE @]
     /\ leaveAllTimer' = [leaveAllTimer EXCEPT ![n] = IF leaveAll THEN LeaveAllTime ELSE @]
     /\ periodicTimer' = [periodicTimer EXCEPT ![n] = IF @ = 0 THEN PeriodicTime ELSE @]
     /\ leaveAllActive' = [leaveAllActive EXCEPT ![n] = active /\ ~join]
     /\ wire' = IF join /\ (pdu.leaveAll \/ pdu.events # {})
                THEN [wire EXCEPT ![n] = Append(@, pdu)] ELSE wire
     /\ indicated' = [indicated EXCEPT ![n] = AfterIndications(s3.pending, @)]
     /\ UNCHANGED <<lost, declaredFor>>

\* avb_mrp_process_packet at n, for the oldest PDU of its peer: the LeaveAll of
\* a vector is applied before its events, and restarts the receiver's own timer.
ProcessPacket(n) ==
  LET p   == Peer(n)
      pdu == Head(wire[p])
      s1  == IF pdu.leaveAll THEN Event("RECEIVE_LEAVE_ALL", attr[n]) ELSE attr[n]
  IN /\ wire[p] # <<>>
     /\ attr' = [attr EXCEPT ![n] =
                   IF pdu.events = {} THEN s1
                   ELSE MrpIn(CHOOSE e \in pdu.events : TRUE, "READY", s1)]
     /\ wire' = [wire EXCEPT ![p] = Tail(@)]
     /\ leaveAllTimer' = [leaveAllTimer EXCEPT ![n] =
                            IF pdu.leaveAll THEN LeaveAllTime ELSE @]
     /\ leaveAllActive' = [leaveAllActive EXCEPT ![n] = @ /\ ~pdu.leaveAll]
     /\ UNCHANGED <<joinTimer, periodicTimer, indicated, lost, declaredFor>>

\* The network loses the oldest PDU of n.
Lose(n) ==
  /\ lost < MaxLost
  /\ wire[n] # <<>>
  /\ wire' = [wire EXCEPT ![n] = Tail(@)]
  /\ lost' = lost + 1
  /\ UNCHANGED <<attr, timers, leaveAllActive, indicated, declaredFor>>

\* Time passes once everything due in this tick has been done.
Tick ==
  /\ \A n \in Node :
       /\ joinTimer[n] > 0 /\ leaveAllTimer[n] > 0 /\ periodicTimer[n] > 0
       /\ attr[n].timer # 0
       /\ attr[n].pending = {}
       /\ wire[n] = <<>>
  /\ joinTimer' = [n \in Node |-> joinTimer[n] - 1]
  /\ leaveAllTimer' = [n \in Node |-> leaveAllTimer[n] - 1]
  /\ periodicTimer' = [n \in Node |-> periodicTimer[n] - 1]
  /\ attr' = [n \in Node |-> [attr[n] EXCEPT !.timer = IF @ > 0 THEN @ - 1 ELSE @]]
  /\ declaredFor' = [n \in Node |->
       IF attr[n].app \in Declaring /\ declaredFor[n] < SettleTime
       THEN declaredFor[n] + 1 ELSE declaredFor[n]]
  /\ UNCHANGED <<leaveAllActive, wire, indicated, lost>>

Next ==
  \/ Tick
  \/ \E n \in Declarer, new \in JoinNew : Join(n, new)
  \/ \E n \in Declarer : Leave(n)
  \/ \E n \in Node :
       \/ MrpPeriodic(n)
       \/ ProcessPacket(n)
       \/ Lose(n)

Spec == Init /\ [][Next]_vars

\* The poll loop of each endpoint and its receive path keep running, and time
\* passes; the applications and the losses are under no obligation.
Fairness ==
  /\ WF_vars(Tick)
  /\ \A n \in Node : WF_vars(MrpPeriodic(n)) /\ WF_vars(ProcessPacket(n))

FairSpec == Spec /\ Fairness

-----------------------------------------------------------------------------
\* Type invariant.
TypeOK ==
  /\ attr \in [Node -> Attributes]
  /\ joinTimer \in [Node -> 0..JoinTime]
  /\ leaveAllTimer \in [Node -> 0..LeaveAllTime]
  /\ periodicTimer \in [Node -> 0..PeriodicTime]
  /\ leaveAllActive \in [Node -> BOOLEAN]
  /\ wire \in [Node -> Seq(Pdu)]
  /\ indicated \in [Node -> {"left", "joined"}]
  /\ lost \in 0..MaxLost
  /\ declaredFor \in [Node -> 0..SettleTime]

\* The leave timer runs exactly while the registrar is leaving.  Every path of
\* mrp_update_state that enters or leaves LV has to start or stop it, because
\* LEAVETIMER empties the registrar whatever state it finds.
LeaveTimerRunsWhileLeaving ==
  \A n \in Node : (attr[n].timer # Off) <=> (attr[n].reg = "LV")

\* An application that was told of a registration and owes no indication still
\* has that registration: the deferred indications of mrp_periodic never leave
\* a talker streaming to a listener whose registration has timed out.
NoStaleJoin ==
  \A n \in Node :
    (indicated[n] = "joined" /\ attr[n].pending = {}) => attr[n].reg # "MT"

\* Once a participant has declared an attribute for SettleTime, its peer does
\* not lose the registration while the declaration stands: LeaveAll, leave
\* timer and join timer fit together even if MaxLost PDUs are lost.
RegistrationHeld ==
  [][\A n \in Node :
       (attr[n].reg # "MT" /\ attr'[n].reg = "MT") => declaredFor[Peer(n)] < SettleTime]_vars

\* A declaration that stands is in the end registered at the peer for good.
DeclaredIsRegistered ==
  \A n \in Node :
    <>[](attr[n].app \in Declaring) => <>[](attr[Peer(n)].reg # "MT")

\* A declaration that is withdrawn for good is in the end deregistered, even
\* if the Leave message is the one that is lost.
WithdrawnIsDeregistered ==
  \A n \in Node :
    <>[](attr[n].app \notin Declaring) => <>[](attr[Peer(n)].reg = "MT")

\* pending_indications notes "indications that have been detected by the state
\* machine but not indicated to the application yet" (avb_mrp_types.h): a
\* registration that stands is in the end what the application was last told.
RegisteredIsIndicated ==
  \A n \in Node :
    <>[](attr[n].reg # "MT") => <>[](indicated[n] = "joined")

=============================================================================
