-------------------------------- MODULE Srp --------------------------------
(***************************************************************************)
(* The stream reservation state of an endpoint with one port: the slots    *)
(* for attributes of avb_mrp.c, the stream table of avb_srp.c and the      *)
(* VLAN entries of avb_mvrp.c, with the functions that change them.        *)
(* The state machines inside an attribute are those of MrpAttribute.       *)
(*                                                                         *)
(* The functions are operators on one record s, the statics of the task:   *)
(*   attrs      attrs[], without the slots of the domain and of the VLANs, *)
(*              which mrp_init's callers take once and never give back     *)
(*   table      stream_table[]                                             *)
(*   vids       entries[] of avb_mvrp.c                                    *)
(*   domain     domain_attr[0], whose applicant always declares            *)
(*   boundary   srp_domain_boundary_port[0]                                *)
(*   vid        current_vlan_id_from_domain                                *)
(*   leaveall   msrp_leaveall_active[0]                                    *)
(*   bandwidth  port_bandwidth[0], in bytes per packet interval            *)
(* An attribute has two fields more than in MrpAttribute: its type and     *)
(* info, the stream_table entry that attribute_info points to.             *)
(***************************************************************************)
EXTENDS MrpAttribute

CONSTANTS
  Source,       \* local talker streams, each named by its stream ID
  Remote,       \* stream IDs of talkers elsewhere
  NoStream,     \* the stream ID of an empty entry: zero
  Vlans,        \* VLAN identifiers
  DefaultVlan,  \* AVB_DEFAULT_VLAN
  MaxAttrs,     \* slots for stream attributes: 3 per source and per sink
  MaxEntries,   \* AVB_STREAM_TABLE_ENTRIES
  MaxVlans      \* AVB_MAX_NUM_VLAN

Stream  == Source \cup Remote
Slots   == 1..MaxAttrs
Entries == 1..MaxEntries
VidEntries == 1..MaxVlans

ASSUME SrpAssumption ==
  /\ Source \cap Remote = {}
  /\ NoStream \notin Stream
  /\ Vlans \subseteq Nat \ {0}
  /\ DefaultVlan \in Vlans
  /\ {MaxAttrs, MaxEntries, MaxVlans} \subseteq Nat \ {0}

TalkerTypes == {"ADVERTISE", "FAILED"}
StreamTypes == TalkerTypes \cup {"LISTENER"}
NotForwarded == 8       \* the failure code of a port outside the domain
FailureCodes == {0, 1, NotForwarded}

EmptyEntry == [id |-> NoStream, talker |-> FALSE, failed |-> FALSE, code |-> 0,
               size |-> 0, bw |-> FALSE]
FreeSlot == [type |-> "ADVERTISE", app |-> "UNUSED", reg |-> "MT", timer |-> Off,
             pending |-> {}, four |-> "IGNORE", here |-> FALSE, remove |-> FALSE,
             info |-> 1]
DomainDown == [app |-> "DISABLED", reg |-> "MT", timer |-> Off, pending |-> {}, four |-> "IGNORE"]

\* mrp_init, srp_domain_init, avb_mvrp_init.
SrpInit ==
  [attrs |-> [j \in Slots |-> FreeSlot],
   table |-> [e \in Entries |-> EmptyEntry],
   vids |-> [i \in VidEntries |-> [active |-> FALSE, vlan |-> 0]],
   domain |-> DomainDown, boundary |-> TRUE, vid |-> DefaultVlan,
   leaveall |-> FALSE, bandwidth |-> 0]

\* srp_domain_join, at every link-up: the domain's registrar starts again.
DomainJoin(s) ==
  [s EXCEPT !.domain = Registrar("BEGIN", [@ EXCEPT !.app = "VN", !.timer = Off], "IGNORE")]

(***************************************************************************)
(* Which of its declaring states an applicant is in, and whether it has    *)
(* still to send a Leave, decides what MRP transmits (MrpLink) and nothing *)
(* in this module: an attribute that is ever declared here is not one that *)
(* is removed.  These states are therefore merged after every step.        *)
(***************************************************************************)
Coarse(st) ==
  [st EXCEPT !.app = IF @ \in Declaring THEN "VN"
                     ELSE IF @ \in {"LA", "AO", "QO"} THEN "VO" ELSE @]

-----------------------------------------------------------------------------
(***************************************************************************)
(* Look-ups.  A C function that returns a pointer or an index returns the  *)
(* first match; 0 is its NULL or -1.                                       *)
(***************************************************************************)
Lowest(S) == IF S = {} THEN 0 ELSE CHOOSE j \in S : \A k \in S : j <= k
Highest(S)  == IF S = {} THEN 0 ELSE CHOOSE j \in S : \A k \in S : k <= j

StreamOf(s, j) == s.table[s.attrs[j].info].id

\* mrp_match_type_non_prop_attribute; with one port nothing is propagated.
MatchType(s, type, x) ==
  Lowest({j \in Slots : Live(s.attrs[j]) /\ s.attrs[j].type = type /\ StreamOf(s, j) = x})

MatchTalker(s, x) ==
  LET adv == MatchType(s, "ADVERTISE", x)
  IN IF adv # 0 THEN adv ELSE MatchType(s, "FAILED", x)

\* mrp_match_attribute_pair_by_stream_id and mrp_match_attr_by_stream_and_type
\* on the same port, together: another attribute of the stream of slot j.
Related(s, j) ==
  \E k \in Slots : s.attrs[k].app # "UNUSED" /\ StreamOf(s, k) = StreamOf(s, j)

\* srp_match_reservation_entry_by_id: the stream's entry, or the last empty one.
MatchEntry(s, x) ==
  LET same == {e \in Entries : s.table[e].id = x}
  IN IF same # {} THEN Lowest(same) ELSE Highest({e \in Entries : s.table[e].id = NoStream})

-----------------------------------------------------------------------------
(***************************************************************************)
(* Stream table, attribute slots, VLAN entries                             *)
(***************************************************************************)
\* srp_add_reservation_entry: the failure information of the entry is kept.
AddReservation(s, x, size) ==
  LET e == MatchEntry(s, x)
  IN IF e = 0 THEN s
     ELSE [s EXCEPT !.table[e].id = x, !.table[e].size = size, !.table[e].talker = TRUE]

\* srp_add_reservation_entry_stream_id_only.
AddStreamId(s, x) ==
  LET e == MatchEntry(s, x)
      t == s.table[e]
  IN IF e = 0 THEN s
     ELSE IF t.talker THEN [s EXCEPT !.table[e].id = x]
     ELSE [s EXCEPT !.table[e] = [t EXCEPT !.id = x, !.code = 0, !.size = 0]]

\* Mutant: the entry goes with the first attribute of its stream.
CleanupFirst(s, j) == [s EXCEPT !.table[MatchEntry(s, StreamOf(s, j))] = EmptyEntry]

\* srp_cleanup_reservation_entry, for a slot that has just become unused: the
\* stream's entry goes when no attribute of the stream is left.
Cleanup(s, j) ==
  IF Related(s, j) THEN s
  ELSE [s EXCEPT !.table[MatchEntry(s, StreamOf(s, j))] = EmptyEntry]

Declared(st) == Coarse(MadJoin(st, TRUE))
DeclaredIf(declare, st) == IF declare THEN Declared(st) ELSE st

\* mrp_get_attr, mrp_attribute_init and mrp_mad_begin, then mrp_mad_join if the
\* attribute is declared; nothing when no slot is free.
NewAttr(s, type, here, entry, declare) ==
  LET j == Lowest({k \in Slots : s.attrs[k].app = "UNUSED"})
      Begun(st) == MadBegin(AttributeInit([st EXCEPT !.type = type, !.info = entry], here))
  IN IF j = 0 THEN s ELSE [s EXCEPT !.attrs[j] = DeclaredIf(declare, Begun(@))]

Join(s, j)  == [s EXCEPT !.attrs[j] = Declared(@)]
Leave(s, j) == IF j = 0 THEN s ELSE [s EXCEPT !.attrs[j] = Coarse(MadLeave(@))]

\* avb_join_vlan.  Its third search, for an entry in use whose attribute only
\* observes, never finds one: leaving and being in use exclude each other.
JoinVlan(s, v) ==
  LET joined == {i \in VidEntries : s.vids[i].active /\ s.vids[i].vlan = v}
      free == {i \in VidEntries : ~s.vids[i].active}
      i == IF joined # {} THEN Highest(joined) ELSE Lowest(free)
  IN IF i = 0 THEN s ELSE [s EXCEPT !.vids[i] = [active |-> TRUE, vlan |-> v]]

\* avb_leave_vlan.
LeaveVlan(s, v) ==
  LET i == Highest({k \in VidEntries : s.vids[k].active /\ s.vids[k].vlan = v})
  IN IF i = 0 THEN s ELSE [s EXCEPT !.vids[i].active = FALSE]

OnVlan(s, v) == \E i \in VidEntries : s.vids[i].active /\ s.vids[i].vlan = v

-----------------------------------------------------------------------------
(***************************************************************************)
(* Requests of the stream manager                                          *)
(***************************************************************************)
\* A stream registers on the VLAN of the domain unless one was given.
VlanFor(s, vlan) == IF vlan = 0 THEN s.vid ELSE vlan

\* avb_srp_create_and_join_talker_advertise_attrs, and the VLAN it returns.
\* MatchEntry(s, x) # 0: with no entry left the code reads through NULL.
JoinTalker(s, x, vlan, size) ==
  LET e  == MatchEntry(s, x)
      WithTalker(r) == IF MatchTalker(r, x) = 0 THEN NewAttr(r, "ADVERTISE", TRUE, e, TRUE)
                       ELSE Join(r, MatchTalker(r, x))
      WithListener(r) == IF MatchType(r, "LISTENER", x) # 0 THEN r
                         ELSE NewAttr(r, "LISTENER", FALSE, e, FALSE)
  IN WithListener(WithTalker(JoinVlan(AddReservation(s, x, size), VlanFor(s, vlan))))

\* avb_srp_leave_talker_attrs.
LeaveTalker(s, x) ==
  LET WithoutListener(r, j) == IF j = 0 THEN r ELSE Leave([r EXCEPT !.attrs[j].here = FALSE], j)
  IN WithoutListener(Leave(s, MatchTalker(s, x)), MatchType(s, "LISTENER", x))

\* Mutant: a listener attribute that exists is taken to be declared.
JoinListenerOnce(s, x, vlan) ==
  LET v == VlanFor(s, vlan)
      adv == MatchType(s, "ADVERTISE", x)
      e == MatchEntry(s, x)
      s1 == JoinVlan(AddStreamId(s, x), v)
      s2 == IF MatchType(s, "LISTENER", x) = 0 THEN NewAttr(s1, "LISTENER", TRUE, e, TRUE) ELSE s1
  IN IF adv # 0 THEN JoinVlan(s, v) ELSE NewAttr(s2, "ADVERTISE", FALSE, e, FALSE)

\* Mutant: the talker of a new listener is not tracked.
JoinListenerBlind(s, x, vlan) ==
  LET s1 == JoinVlan(AddStreamId(s, x), VlanFor(s, vlan))
      listener == MatchType(s, "LISTENER", x)
  IN IF listener = 0 THEN NewAttr(s1, "LISTENER", TRUE, MatchEntry(s, x), TRUE)
     ELSE Join(s1, listener)

\* avb_srp_join_listener_attrs: a stream whose talker has failed is not joined.
JoinListener(s, x, vlan) ==
  LET v == VlanFor(s, vlan)
      adv == MatchType(s, "ADVERTISE", x)
      listener == MatchType(s, "LISTENER", x)
      e == MatchEntry(s, x)
      free == {j \in Slots : s.attrs[j].app = "UNUSED"}
      WithListener(r, info) == IF listener # 0 THEN Join(r, listener)
                               ELSE NewAttr(r, "LISTENER", TRUE, info, TRUE)
  IN CASE adv # 0 /\ (listener # 0 \/ free # {}) ->
            WithListener(JoinVlan(s, v), s.attrs[adv].info)
       [] adv = 0 /\ MatchType(s, "FAILED", x) = 0 /\ e # 0 ->
            NewAttr(WithListener(JoinVlan(AddStreamId(s, x), v), e), "ADVERTISE", FALSE, e, FALSE)
       [] OTHER -> s

\* avb_srp_leave_listener_attrs: the talker's slot is freed once it transmits.
LeaveListener(s, x) ==
  LET listener == MatchType(s, "LISTENER", x)
      s1 == IF listener = 0 THEN s
            ELSE Leave([s EXCEPT !.attrs[listener].here = FALSE], listener)
      talker == MatchTalker(s, x)
  IN IF talker = 0 THEN s1
     ELSE [s1 EXCEPT !.attrs[talker].here = FALSE, !.attrs[talker].remove = TRUE]

=============================================================================
