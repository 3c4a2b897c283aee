---------------------------- MODULE Reservation ----------------------------
(***************************************************************************)
(* Stream reservation end to end: the stream manager and its clients       *)
(* (AvbManager), the attributes and tables of SRP and MVRP (Srp), the MRP  *)
(* PDUs that arrive and the periodic pass that turns registrations into    *)
(* indications, which start and stop the streams.                          *)
(*                                                                         *)
(* The network is the bridge at the other end of the link.  It may send    *)
(* any registration of a talker elsewhere, of a listener to a local        *)
(* stream, and of the domain, in any order, and lose or repeat any.        *)
(***************************************************************************)
EXTENDS AvbManager

CONSTANTS
  Wire,         \* the three-packed events that arrive
  MaxCommands,  \* commands of the application
  MaxPdus       \* PDUs and link changes

VARIABLES
  srp, source, sink, owner, talker,   \* the statics, as in AvbManager
  commands, pdus,                     \* commands and PDUs so far
  stale                               \* history, see TakesStale

ASSUME WireAssumption == Wire \subseteq WireEvents

vars == <<srp, source, sink, owner, talker, commands, pdus, stale>>

World == [srp |-> srp, source |-> source, sink |-> sink, owner |-> owner, talker |-> talker]

Becomes(w) ==
  /\ srp' = w.srp /\ source' = w.source /\ sink' = w.sink
  /\ owner' = w.owner /\ talker' = w.talker

Starts(w) ==
  /\ srp = w.srp /\ source = w.source /\ sink = w.sink
  /\ owner = w.owner /\ talker = w.talker

Init ==
  /\ \E config \in Configs : Starts(ManagerInit(config))
  /\ commands = 0
  /\ pdus = 0
  /\ stale = {}

\* A loop over the slots, in their order.
ForEachSlot(Body(_, _), w) ==
  LET after[j \in 0..MaxAttrs] == IF j = 0 THEN w ELSE Body(after[j - 1], j)
  IN after[MaxAttrs]

-----------------------------------------------------------------------------
(***************************************************************************)
(* Indications                                                             *)
(***************************************************************************)
Bandwidth(size) == 42 + size    \* srp_calculate_stream_bandwidth, per interval

Reserve(s, e) ==
  IF s.table[e].bw THEN s
  ELSE [s EXCEPT !.table[e].bw = TRUE, !.bandwidth = @ + Bandwidth(s.table[e].size)]

\* Mutant: bandwidth is given back that was never reserved.
UnreserveAlways(s, e) ==
  [s EXCEPT !.table[e].bw = FALSE, !.bandwidth = @ - Bandwidth(s.table[e].size)]

Unreserve(s, e) ==
  IF ~s.table[e].bw THEN s
  ELSE [s EXCEPT !.table[e].bw = FALSE, !.bandwidth = @ - Bandwidth(s.table[e].size)]

\* avb_srp_listener_join_ind: a local stream that is advertised reserves its
\* bandwidth, and starts if it was waiting and the listener is ready.
ListenerJoinInd(w, j) ==
  LET x == StreamOf(w.srp, j)
      reserved == [w EXCEPT !.srp = Reserve(@, MatchEntry(@, x))]
      starts == /\ w.source[x].state = "POTENTIAL"
                /\ w.srp.attrs[j].four \in {"READY", "READY_FAILED"}
  IN IF x \notin Source \/ MatchType(w.srp, "ADVERTISE", x) = 0 THEN w
     ELSE IF starts THEN SetSourceState(reserved, x, "ENABLED") ELSE reserved

\* Mutant: the stream goes on when its listener has left.
ListenerLeaveIndOn(w, j) ==
  LET x == StreamOf(w.srp, j)
  IN IF x \notin Source THEN w ELSE [w EXCEPT !.srp = Unreserve(@, MatchEntry(@, x))]

\* avb_srp_listener_leave_ind.
ListenerLeaveInd(w, j) ==
  LET x == StreamOf(w.srp, j)
      freed == [w EXCEPT !.srp = Unreserve(@, MatchEntry(@, x))]
  IN IF x \notin Source THEN w
     ELSE IF w.source[x].state = "ENABLED" THEN SetSourceState(freed, x, "POTENTIAL")
     ELSE freed

\* avb_srp_talker_leave_ind; avb_srp_talker_join_ind does nothing on one port.
TalkerLeaveInd(w, j) == [w EXCEPT !.srp.table[w.srp.attrs[j].info].talker = FALSE]

\* send_join_indication, send_leave_indication.
JoinInd(w, j)  == IF w.srp.attrs[j].type = "LISTENER" THEN ListenerJoinInd(w, j) ELSE w
LeaveInd(w, j) ==
  CASE w.srp.attrs[j].type = "LISTENER"  -> ListenerLeaveInd(w, j)
    [] w.srp.attrs[j].type = "ADVERTISE" -> TalkerLeaveInd(w, j)
    [] OTHER -> w

\* avb_srp_domain_join_ind: streams without a VLAN get the domain's.  Each call
\* leaves the state of its stream alone, and so changes nothing else.
DomainJoinInd(w) ==
  LET v == w.srp.vid
  IN [w EXCEPT !.srp.boundary = FALSE,
               !.source = [x \in Source |-> IF @[x].vlan # 0 THEN @[x]
                                            ELSE SetSourceVlan(w, x, v).source[x]],
               !.sink = [k \in Sink |-> IF @[k].vlan # 0 THEN @[k]
                                        ELSE SetSinkVlan(w, k, v).sink[k]]]

\* avb_srp_domain_leave_ind.
DomainLeaveInd(w) == [w EXCEPT !.srp.boundary = TRUE]

-----------------------------------------------------------------------------
(***************************************************************************)
(* mrp_periodic                                                            *)
(***************************************************************************)
\* The indications of slot j, joins before the leave.
Indicated(w, j) ==
  LET p == w.srp.attrs[j].pending
      Joined(kind, r) == IF kind \in p THEN JoinInd(r, j) ELSE r
      Left(r) == IF "LEAVE" \in p THEN LeaveInd(r, j) ELSE r
  IN [Left(Joined("JOIN", Joined("JOIN_NEW", w))) EXCEPT !.srp.attrs[j].pending = {}]

Rejoined(st) == DeclaredIf(st.here, st)

\* Outside the domain a talker's advertisement is a failure; back inside, it is
\* an advertisement again if that was the reason it failed.
Converted(w, j) ==
  LET st == w.srp.attrs[j]
      e == st.info
  IN CASE st.type = "ADVERTISE" /\ w.srp.boundary ->
            [w EXCEPT !.srp.attrs[j] = Rejoined([st EXCEPT !.type = "FAILED"]),
                      !.srp.table[e].talker = FALSE, !.srp.table[e].code = NotForwarded]
       [] st.type = "FAILED" /\ ~w.srp.boundary /\ w.srp.table[e].code = NotForwarded ->
            [w EXCEPT !.srp.attrs[j] = Rejoined([st EXCEPT !.type = "ADVERTISE"]),
                      !.srp.table[e].talker = TRUE]
       [] OTHER -> w

\* The part of the pass over the slots that treats slot j; expired are the
\* slots whose leave timer has run out.
Passed(w, j, expired) ==
  LET Timed(r) == IF j \notin expired THEN r
                  ELSE [r EXCEPT !.srp.attrs[j] = UpdateState("LEAVETIMER", @, "IGNORE")]
  IN IF w.srp.attrs[j].app = "UNUSED" THEN w ELSE Timed(Converted(Indicated(w, j), j))

Pass(w, expired) == ForEachSlot(LAMBDA r, j : Passed(r, j, expired), w)

\* The pass over the domain's slot, which comes first.
DomainPassed(w, expires) ==
  LET d == w.srp.domain
      Joined(r) == IF d.pending \cap {"JOIN_NEW", "JOIN"} # {} THEN DomainJoinInd(r) ELSE r
      Left(r) == IF "LEAVE" \in d.pending THEN DomainLeaveInd(r) ELSE r
      quiet == [d EXCEPT !.pending = {}]
  IN [Left(Joined(w)) EXCEPT !.srp.domain =
        IF expires THEN Registrar("LEAVETIMER", quiet, "IGNORE") ELSE quiet]

\* attribute_type_event for all MSRP types: one event for every live attribute,
\* and the clean-up of those that doTx removes.
SlotEvent(s, j, e) ==
  LET t == [s EXCEPT !.attrs[j] = Coarse(Event(e, @))]
  IN IF Live(s.attrs[j]) /\ ~Live(t.attrs[j]) THEN Cleanup(t, j) ELSE t

MsrpEvent(s, e) ==
  LET t == ForEachSlot(LAMBDA r, j : SlotEvent(r, j, e), s)
  IN [t EXCEPT !.domain = Registrar(e, @, "IGNORE")]

\* The leave-all timer and the join timer, when they have run out.
LeaveAllExpired(s) == [MsrpEvent(s, "RECEIVE_LEAVE_ALL") EXCEPT !.leaveall = TRUE]
Transmit(s) ==
  [MsrpEvent(s, IF s.leaveall THEN "TX_LEAVE_ALL" ELSE "TX") EXCEPT !.leaveall = FALSE]

Running(s) == {j \in Slots : s.attrs[j].timer # Off}

Periodic ==
  \E leaveall, join, gone \in BOOLEAN, expired \in SUBSET Running(srp) :
    /\ gone => srp.domain.timer # Off
    /\ LET s1 == IF leaveall THEN LeaveAllExpired(srp) ELSE srp
           s2 == IF join THEN Transmit(s1) ELSE s1
           w == DomainPassed([World EXCEPT !.srp = s2], gone)
       IN Becomes(Pass(w, expired))
    /\ UNCHANGED <<commands, pdus, stale>>

-----------------------------------------------------------------------------
(***************************************************************************)
(* Arriving PDUs                                                           *)
(***************************************************************************)
\* Bounds the PDUs that change something; the others are stuttering steps.
Arrives ==
  /\ pdus < MaxPdus
  /\ srp' # srp
  /\ pdus' = pdus + 1
  /\ UNCHANGED <<source, sink, owner, talker, commands, stale>>

\* avb_srp_match_talker_advertise for an attribute of the stream: what the PDU
\* says of the reservation is noted in the stream's entry.
Noted(s, j, kind, code) ==
  LET e == s.attrs[j].info
      noted == IF kind = "FAILED"
               THEN [s EXCEPT !.attrs[j].type = "FAILED", !.table[e].failed = TRUE,
                              !.table[e].code = code]
               ELSE [s EXCEPT !.attrs[j].type = "ADVERTISE", !.table[e].failed = FALSE]
  IN IF s.table[e].talker THEN noted ELSE AddReservation(noted, s.table[e].id, 0)

MatchedTalker(s, j, x) ==
  /\ Live(s.attrs[j]) /\ s.attrs[j].type \in TalkerTypes /\ StreamOf(s, j) = x

TalkerHeard(s, j, x, kind, three, code) ==
  IF ~MatchedTalker(s, j, x) THEN s
  ELSE [Noted(s, j, kind, code) EXCEPT !.attrs[j] = Coarse(MrpIn(three, "IGNORE", @))]

TalkerDeclared(s, x, kind, three, code) ==
  ForEachSlot(LAMBDA r, j : TalkerHeard(r, j, x, kind, three, code), s)

\* A talker's declaration, of the class this endpoint uses.
TalkerPdu ==
  \E x \in Remote, kind \in TalkerTypes, three \in Wire, code \in FailureCodes \ {0} :
    /\ kind = "ADVERTISE" => code = 1
    /\ srp' = TalkerDeclared(srp, x, kind, three, code)
    /\ Arrives

\* A talker's declaration of another class fails the reservation and is not
\* taken for the stream's.
OtherClassPdu ==
  \E x \in Remote :
    /\ srp' = [srp EXCEPT !.table = [e \in Entries |->
                 IF \E j \in Slots : MatchedTalker(srp, j, x) /\ srp.attrs[j].info = e
                 THEN [srp.table[e] EXCEPT !.failed = TRUE] ELSE srp.table[e]]]
    /\ Arrives

\* A listener's declaration for a local stream (avb_srp_match_listener).
ListenerPdu ==
  \E x \in Source, three \in Wire, four \in FourPacked \ {"IGNORE"} :
    /\ srp' = [srp EXCEPT !.attrs = [j \in Slots |->
                 IF Live(@[j]) /\ @[j].type = "LISTENER" /\ StreamOf(srp, j) = x
                 THEN Coarse(MrpIn(three, four, @[j])) ELSE @[j]]]
    /\ Arrives

\* The domain's declaration (avb_srp_match_domain), and the link's.
DomainPdu ==
  \E three \in Wire, vlan \in Vlans :
    /\ Live(srp.domain)
    /\ srp' = [srp EXCEPT !.vid = vlan,
                          !.domain = Registrar(ReceiveEvent(three), @, "IGNORE")]
    /\ Arrives

LinkUp ==
  /\ srp' = DomainJoin(srp)
  /\ Arrives

\* A LeaveAll for one attribute type of MSRP.
LeaveAllPdu ==
  \E type \in StreamTypes :
    /\ \E j \in Slots : Live(srp.attrs[j]) /\ srp.attrs[j].type = type
    /\ srp' = [srp EXCEPT !.leaveall = FALSE,
                 !.attrs = [j \in Slots |-> IF @[j].type = type
                                            THEN Coarse(Event("RECEIVE_LEAVE_ALL", @[j]))
                                            ELSE @[j]]]
    /\ Arrives

\* ... and for the domain's.
DomainLeaveAllPdu ==
    /\ Live(srp.domain)
    /\ srp' = [srp EXCEPT !.leaveall = FALSE,
                          !.domain = Registrar("RECEIVE_LEAVE_ALL", @, "IGNORE")]
    /\ Arrives

-----------------------------------------------------------------------------
(***************************************************************************)
(* Commands of the application and of the AVDECC entity                    *)
(***************************************************************************)
(***************************************************************************)
(* A slot that doTx frees keeps its indications, and mrp_attribute_init    *)
(* does not clear them: an attribute that takes the slot is indicated a    *)
(* join nobody sent.  stale are the streams whose listener attribute began *)
(* like that.                                                              *)
(***************************************************************************)
TakesStale(s, t) ==
  {StreamOf(t, j) : j \in {k \in Slots : /\ s.attrs[k].app = "UNUSED" /\ s.attrs[k].pending # {}
                                       /\ Live(t.attrs[k]) /\ t.attrs[k].type = "LISTENER"}}

\* Bounds the commands that change something; the others are stuttering steps.
Command(w) ==
  /\ commands < MaxCommands
  /\ w # World
  /\ commands' = commands + 1
  /\ stale' = stale \cup TakesStale(srp, w.srp)
  /\ UNCHANGED pdus
  /\ Becomes(w)

\* A source has an entry of the stream table to register in.
HasEntry(x) == MatchEntry(srp, x) # 0

EnableSource(x)  == HasEntry(x) /\ Command(SetSourceState(World, x, "POTENTIAL"))
DisableSource(x) == Command(SetSourceState(World, x, "DISABLED"))
ConfigureSource(x) == \E c \in Configs : Command(SetSourceConfig(World, x, c))
MoveSource(x) == \E v \in Vlans : Command(SetSourceVlan(World, x, v))
AttachSink(k) == sink[k].stream # NoStream /\ Command(SetSinkState(World, k, "POTENTIAL"))
DetachSink(k) == Command(SetSinkState(World, k, "DISABLED"))
SelectStream(k) == \E x \in Remote : Command(SetSinkId(World, k, x))
MoveSink(k) == \E v \in Vlans : Command(SetSinkVlan(World, k, v))

Next ==
  \/ Periodic \/ TalkerPdu \/ OtherClassPdu \/ ListenerPdu \/ DomainPdu
  \/ LinkUp \/ LeaveAllPdu \/ DomainLeaveAllPdu
  \/ \E x \in Source : EnableSource(x) \/ DisableSource(x) \/ ConfigureSource(x) \/ MoveSource(x)
  \/ \E k \in Sink : AttachSink(k) \/ DetachSink(k) \/ SelectStream(k) \/ MoveSink(k)

Spec == Init /\ [][Next]_vars

-----------------------------------------------------------------------------
(***************************************************************************)
(* Properties                                                              *)
(***************************************************************************)
AttrsOf(x, types) ==
  {j \in Slots : Live(srp.attrs[j]) /\ srp.attrs[j].type \in types /\ StreamOf(srp, j) = x}
Registers(j) == srp.attrs[j].reg # "MT" \/ "LEAVE" \in srp.attrs[j].pending
Declares(j)  == srp.attrs[j].app \in Declaring
Attached(k)  == sink[k].state # "DISABLED"
Reserved     == {e \in Entries : srp.table[e].bw}

\* Every attribute in use points to the entry of a stream, and no stream has two
\* entries: an entry is not cleared under an attribute that still reads it, and
\* an entry taken for a new stream was free.
NoDangling ==
  /\ \A j \in Slots : Live(srp.attrs[j]) => StreamOf(srp, j) # NoStream
  /\ \A e, f \in Entries :
       e # f /\ srp.table[e].id = srp.table[f].id => srp.table[e].id = NoStream

\* The talker unit sends a stream exactly while the source is ENABLED, and then
\* a listener is registered, or its leave is about to be indicated; so it is
\* with the streams that bandwidth is reserved for, unless the slot of their
\* listener attribute held an indication of its last user.  No order of commands,
\* PDUs and indications leaves a stream on, or reserved, without a listener.
StreamingHasListener ==
  LET Heard(x) == \E j \in AttrsOf(x, {"LISTENER"}) : Registers(j)
  IN /\ \A x \in Source : /\ talker.stream[x].on <=> source[x].state = "ENABLED"
                          /\ talker.stream[x].on => Heard(x)
     /\ \A e \in Reserved : Heard(srp.table[e].id) \/ srp.table[e].id \in stale

\* What is reserved beyond the sum over the reserved streams.
Drift ==
  LET sum[e \in 0..MaxEntries] ==
        IF e = 0 THEN 0
        ELSE sum[e - 1] + IF e \in Reserved THEN Bandwidth(srp.table[e].size) ELSE 0
  IN srp.bandwidth - sum[MaxEntries]

\* The bandwidth of the port stays the sum over the reserved streams, as long as
\* no stream is registered again with another frame size while it is reserved.
BandwidthFollows ==
  [][(\A e \in Reserved : srp'.table[e].bw => srp'.table[e].size = srp.table[e].size)
       => Drift' = Drift]_vars

\* No other sink is attached to the stream of sink k: a sink that is detached
\* withdraws the declaration that it shares with the others of its stream.
Alone(k) == \A m \in Sink \ {k} : Attached(m) => sink[m].stream # sink[k].stream

Free == {j \in Slots : srp.attrs[j].app = "UNUSED"}

SinkDeclared(k) == \E j \in AttrsOf(sink[k].stream, {"LISTENER"}) : Declares(j)

\* A sink declares its listener from the moment it is attached, unless the
\* talker's reservation had failed by then or there is no entry or slot for it,
\* and as long as it stays attached.
DeclaresWhileAttached ==
  [][\A k \in Sink :
       LET x == sink[k].stream
       IN /\ Attached(k)'
          /\ IF Attached(k) THEN Alone(k) /\ SinkDeclared(k)
             ELSE /\ AttrsOf(x, {"FAILED"}) = {}
                  /\ MatchEntry(srp, x) # 0
                  /\ AttrsOf(x, {"LISTENER"}) # {} \/ Free # {}
          => SinkDeclared(k)']_vars

\* The talker of the sink's stream has an attribute, and none to be removed.
Tracked(k) ==
  LET talkers == AttrsOf(sink[k].stream, TalkerTypes)
  IN talkers # {} /\ \A j \in talkers : ~srp.attrs[j].remove

\* The talker's registration is tracked while a sink is attached, unless the
\* sink was attached before the attribute of its last attachment was removed or
\* there is no entry or slot for it.
TracksWhileAttached ==
  [][\A k \in Sink :
       LET x == sink[k].stream
       IN /\ Attached(k)'
          /\ \/ Tracked(k) /\ (Attached(k) => Alone(k))
             \/ /\ ~Attached(k) /\ AttrsOf(x, TalkerTypes) = {}
                /\ MatchEntry(srp, x) # 0
                /\ \E i, j \in Free : i # j \/ AttrsOf(x, {"LISTENER"}) # {}
          => Tracked(k)']_vars

\* The packets of a stream carry the VLAN it was registered with: "This setting
\* will not take effect until the next time the source state moves from disabled
\* to potential" (set_source_vlan, avb.h).
VlanTakesEffect ==
  [][\A x \in Source :
       talker'.stream[x].vlan # talker.stream[x].vlan
         => source[x].state = "DISABLED" /\ source'[x].state = "POTENTIAL"]_vars

\* A source that is not disabled and has channels (with no other source in the
\* talker unit, see VlanTakesEffect), and a sink that is attached and declared,
\* are on a VLAN that is joined: the one in the headers of its packets,
\* whatever other streams have been disabled and VLANs been left meanwhile.
OnJoinedVlan ==
  /\ \A x \in Source :
       Source = {x} /\ source[x].state # "DISABLED" /\ source[x].config.inputs # {}
         => OnVlan(srp, talker.stream[x].vlan)
  /\ \A k \in Sink : Attached(k) /\ Alone(k) /\ SinkDeclared(k) => OnVlan(srp, sink[k].vlan)

=============================================================================
