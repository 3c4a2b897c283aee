-------------------------- MODULE ReservationSteps --------------------------
(***************************************************************************)
(* The inductive invariant of Reservation, and that it is kept by the      *)
(* indications and the periodic pass over the attributes.  All for every   *)
(* number of sources, sinks, remote streams, slots, entries and VLANs.     *)
(*                                                                         *)
(* A step of the network or the timers works on attributes one by one, so  *)
(* most lemmas are about one slot and relate the state before to the state *)
(* after: SlotKeep and SlotStep for an attribute, SrpKeep and SrpStep for  *)
(* all of them and the stream table, WorldKeep for the streams as well.    *)
(* The loops follow, because the relations are transitive.                 *)
(***************************************************************************)
EXTENDS Reservation, TLAPS

USE DEF Off

-----------------------------------------------------------------------------
(***************************************************************************)
(* The inductive invariant                                                 *)
(***************************************************************************)
Apps   == {"UNUSED", "VO", "LO", "VN"}      \* what Coarse leaves
States == {"DISABLED", "POTENTIAL", "ENABLED"}
Tags   == Vlans \cup {0}

AttrSet ==
  [type : StreamTypes, app : Apps, reg : RegistrarStates, timer : TimerStates,
   pending : SUBSET Indications, four : FourPacked, here : BOOLEAN, remove : BOOLEAN,
   info : Entries]
EntrySet ==
  [id : Stream \cup {NoStream}, talker : BOOLEAN, failed : BOOLEAN, code : FailureCodes,
   size : Nat, bw : BOOLEAN]
DomainSet ==
  [app : {"DISABLED", "VN"}, reg : RegistrarStates, timer : TimerStates,
   pending : SUBSET Indications, four : FourPacked]
SrpSet ==
  [attrs : [Slots -> AttrSet], table : [Entries -> EntrySet],
   vids : [VidEntries -> [active : BOOLEAN, vlan : Tags]], domain : DomainSet,
   boundary : BOOLEAN, vid : Vlans, leaveall : BOOLEAN, bandwidth : Int]

\* One attribute: its timer runs only while its registrar leaves, only a talker's
\* is to be removed, and only a listener's has a four-packed parameter.
AttrOK(st) ==
  /\ st.timer # Off => st.reg = "LV"
  /\ st.remove => st.app # "UNUSED" /\ st.type \in TalkerTypes
  /\ st.app = "UNUSED" \/ st.type \in TalkerTypes => st.four = "IGNORE"

\* Something is registered, or its leave is about to be indicated.
Holds(st) == st.reg # "MT" \/ "LEAVE" \in st.pending

\* A join is indicated only for what is registered, or has just left.
Clean(st) == "JOIN" \in st.pending \/ "JOIN_NEW" \in st.pending => Holds(st)

\* What the network and the timers leave of an attribute: it is not taken, freed
\* only if it is to be removed, and keeps its entry, its side of the reservation
\* and its declaration.
SlotKeep(st, u) ==
  /\ u.info = st.info
  /\ u.app # "UNUSED" => st.app # "UNUSED"
  /\ st.app # "UNUSED" /\ u.app = "UNUSED" => st.remove
  /\ u.type = "LISTENER" <=> st.type = "LISTENER"
  /\ st.app = "VN" /\ u.app # "UNUSED" => u.app = "VN"
  /\ u.type = "LISTENER" /\ u.app = "VN" => st.app = "VN"
  /\ u.remove => st.remove

\* A step of mrp_update_state also keeps what is registered.
SlotStep(st, u) ==
  /\ SlotKeep(st, u)
  /\ Holds(st) => Holds(u)
  /\ Clean(u) \/ (~Clean(st) /\ u.four = st.four)

\* The attributes in use, of either side.
InUse(s, j)      == s.attrs[j].app # "UNUSED"
IsListener(s, j) == InUse(s, j) /\ s.attrs[j].type = "LISTENER"
IsTalker(s, j)   == InUse(s, j) /\ s.attrs[j].type \in TalkerTypes

\* The attributes and the stream table: NoDangling, only a local stream has
\* bandwidth reserved, and a stream has at most one attribute of either side.
Linked(s) ==
  /\ \A j \in Slots : InUse(s, j) => StreamOf(s, j) # NoStream
  /\ \A e, f \in Entries : s.table[e].id = s.table[f].id => e = f \/ s.table[e].id = NoStream
  /\ \A e \in Entries : s.table[e].bw => s.table[e].id \in Source
  /\ \A i, j \in Slots :
       InUse(s, i) /\ InUse(s, j) /\ (IsListener(s, i) <=> IsListener(s, j))
         => i = j \/ StreamOf(s, i) # StreamOf(s, j)

\* A join that nobody sent is pending only for a stream that is stale, and then
\* without the parameter that would start the stream.
Excused(s, j, old) ==
  Clean(s.attrs[j]) \/ (s.attrs[j].four = "IGNORE" /\ StreamOf(s, j) \in old)

SrpInv(s, old) ==
  /\ s \in SrpSet
  /\ \A j \in Slots : AttrOK(s.attrs[j])
  /\ Linked(s)
  /\ \A j \in Slots : IsListener(s, j) => Excused(s, j, old)

\* The same for the state of SRP.
SrpKeep(s, t) ==
  /\ t.vids = s.vids
  /\ \A j \in Slots : SlotKeep(s.attrs[j], t.attrs[j])
  /\ \A j \in Slots : InUse(t, j) => StreamOf(t, j) = StreamOf(s, j)

SrpStep(s, t) ==
  /\ SrpKeep(s, t)
  /\ \A j \in Slots : SlotStep(s.attrs[j], t.attrs[j])
  /\ \A e \in Entries : t.table[e].bw => s.table[e].bw /\ t.table[e].id = s.table[e].id

\* A stream has a listener.
HeardBy(s, x) ==
  \E j \in Slots : IsListener(s, j) /\ StreamOf(s, j) = x /\ Holds(s.attrs[j])

TalkerSet ==
  [vlan : Tags, stream : [Source -> [inputs : SUBSET Input, vlan : Tags, on : BOOLEAN]]]
WorldSet ==
  [srp : SrpSet,
   source : [Source -> [state : States, vlan : Tags, config : Configs]],
   sink : [Sink -> [state : States, vlan : Tags, stream : Remote \cup {NoStream}]],
   owner : [Input -> Source \cup {Unmapped}],
   talker : TalkerSet]

\* StreamingHasListener.
Streams(w, old) ==
  /\ \A x \in Source : /\ w.talker.stream[x].on <=> w.source[x].state = "ENABLED"
                       /\ w.source[x].state = "ENABLED" => HeardBy(w.srp, x)
  /\ \A e \in Entries :
       w.srp.table[e].bw => HeardBy(w.srp, w.srp.table[e].id) \/ w.srp.table[e].id \in old

WorldInv(w, old) ==
  /\ w \in WorldSet
  /\ SrpInv(w.srp, old)
  /\ Streams(w, old)

\* What the network and the timers leave of the rest.
WorldKeep(w, v) ==
  /\ SrpKeep(w.srp, v.srp)
  /\ \A k \in Sink : /\ v.sink[k].state = w.sink[k].state
                     /\ v.sink[k].stream = w.sink[k].stream
                     /\ w.sink[k].state # "DISABLED" => v.sink[k].vlan = w.sink[k].vlan
  /\ \A x \in Source : /\ v.source[x].config = w.source[x].config
                       /\ v.source[x].state = "DISABLED" <=> w.source[x].state = "DISABLED"
                       /\ v.talker.stream[x].vlan \in {w.talker.stream[x].vlan, w.talker.vlan}
  /\ v.talker.vlan = w.talker.vlan
  /\ \A i \in Input :
       \/ v.owner[i] = w.owner[i]
       \/ \E x \in Source : /\ v.owner[i] = x /\ w.source[x].state # "DISABLED"
                            /\ i \in w.source[x].config.inputs

-----------------------------------------------------------------------------
(***************************************************************************)
(* One attribute                                                           *)
(***************************************************************************)
\* The registrar's part of a step.
LEMMA RegistrarStep ==
  ASSUME NEW st \in AttrSet, AttrOK(st), st.app # "UNUSED", NEW e \in Events \ {"BEGIN"},
         NEW four \in FourPacked, four = "IGNORE" \/ st.type = "LISTENER",
         e = "LEAVETIMER" => st.reg # "IN"
  PROVE  LET r == Registrar(e, st, four)
         IN  /\ r \in AttrSet /\ AttrOK(r)
             /\ r.app = st.app /\ r.type = st.type /\ r.info = st.info
             /\ r.here = st.here /\ r.remove = st.remove
             /\ Holds(st) => Holds(r)
             /\ Clean(r) \/ (~Clean(st) /\ r.four = st.four)
<1> DEFINE Good(r) == 
             /\ r \in AttrSet /\ AttrOK(r)
             /\ r.app = st.app /\ r.type = st.type /\ r.info = st.info
             /\ r.here = st.here /\ r.remove = st.remove
             /\ Holds(st) => Holds(r)
             /\ Clean(r) \/ (~Clean(st) /\ r.four = st.four)
<1> USE DEF AttrSet, AttrOK, Holds, Clean, RegistrarStates, Indications, StreamTypes, TalkerTypes
<1>1. Good(st)
  OBVIOUS
<1>2. LeaveTime \in TimerStates /\ Off \in TimerStates
  BY LeaveTimeAssumption DEF TimerStates
<1>3. Good(ReceiveNew(st, four))
  BY <1>2, Zenon DEF ReceiveNew, Registered
<1>4. Good(ReceiveJoin(st, four))
  BY <1>2, Zenon DEF ReceiveJoin, Registered
<1>5. Good(StartLeaving(st))
  BY <1>2, LeaveTimeAssumption, Zenon DEF StartLeaving
<1>6. st.reg # "IN" => Good(LeaveTimerExpired(st))
  BY <1>2, Zenon DEF LeaveTimerExpired, FourPacked
<1> HIDE DEF Good
<1>7. Good(Registrar(e, st, four))
  BY <1>1, <1>3, <1>4, <1>5, <1>6 DEF Registrar
<1> QED BY <1>7, Zenon DEF Good

\* The events of PDUs and timers.
Happenings == ReceiveEvents \cup {"RECEIVE_LEAVE_ALL", "TX", "TX_LEAVE_ALL", "LEAVETIMER"}

\* None of them starts or ends a declaration.
LEMMA ApplicantStep ==
  ASSUME NEW st, st.app \in Apps, NEW e \in Happenings
  PROVE  /\ st.app = "UNUSED" => Applicant(e, st) = "UNUSED"
         /\ st.app = "VN" => Applicant(e, st) \in Declaring
         /\ st.app \in {"VO", "LO"} => Applicant(e, st) \in {"VO", "LO"}
<1> DEFINE Keeps(x, y) == /\ x = "UNUSED" => y = "UNUSED"
                          /\ x = "VN" => y \in Declaring
                          /\ x \in {"VO", "LO"} => y \in {"VO", "LO"}
<1> USE DEF Apps, Step, Declaring
<1>1. ASSUME NEW x \in Apps
      PROVE  /\ Step(OnReceiveJoinIn, x) = x
             /\ Step(OnReceiveIn, x) = x
             /\ Step(OnReceiveEmpty, x) \in Apps /\ Keeps(x, Step(OnReceiveEmpty, x))
             /\ Step(OnReceiveLeave, x) \in Apps /\ Keeps(x, Step(OnReceiveLeave, x))
  BY DEF OnReceiveJoinIn, OnReceiveIn, OnReceiveEmpty, OnReceiveLeave
<1>2. ASSUME NEW x \in Apps
      PROVE  Keeps(x, Step(OnTx(st.reg), x)) /\ Keeps(x, Step(OnTxLeaveAll, x))
  BY DEF OnTx, OnTxLeaveAll
<1>3. Keeps(st.app, st.app)
  OBVIOUS
<1> HIDE DEF Keeps, Apps, Step, Declaring
<1>4. Keeps(st.app, Applicant(e, st))
  BY <1>1, <1>2, <1>3 DEF Applicant, Happenings, ReceiveEvents
<1> QED BY <1>4 DEF Keeps

\* A step of mrp_update_state.
LEMMA UpdateStep ==
  ASSUME NEW st \in AttrSet, AttrOK(st), st.app # "UNUSED", NEW e \in Happenings,
         NEW four \in FourPacked, four = "IGNORE" \/ st.type = "LISTENER",
         e = "LEAVETIMER" => st.reg # "IN"
  PROVE  LET u == Coarse(UpdateState(e, st, four))
         IN  u \in AttrSet /\ AttrOK(u) /\ SlotStep(st, u)
<1> DEFINE r == Registrar(e, st, four)
           t == IF Transmits(e, r) THEN DoTx(r) ELSE r
           a == Applicant(e, t)
           c == IF a \in Declaring THEN "VN" ELSE a
           u == [t EXCEPT !.app = c]
<1>0. e \in Events \ {"BEGIN"}
  BY DEF Happenings, Events, ReceiveEvents
<1>1. /\ r \in AttrSet /\ AttrOK(r)
      /\ r.app = st.app /\ r.type = st.type /\ r.info = st.info
      /\ r.here = st.here /\ r.remove = st.remove
      /\ Holds(st) => Holds(r)
      /\ Clean(r) \/ (~Clean(st) /\ r.four = st.four)
  BY <1>0, RegistrarStep, Zenon
<1> HIDE DEF r
<1>2. /\ t \in AttrSet /\ t.app \in {r.app, "UNUSED"} /\ (t.app = "UNUSED" => r.remove)
      /\ t.type = r.type /\ t.info = r.info /\ t.reg = r.reg /\ t.timer = r.timer
      /\ t.pending = r.pending /\ t.four = r.four /\ t.here = r.here
      /\ t.remove => r.remove /\ t.app # "UNUSED"
  BY <1>1, Zenon DEF DoTx, AttrSet, Apps
<1> HIDE DEF t
<1>3. /\ t.app = "UNUSED" => a = "UNUSED"
      /\ t.app = "VN" => a \in Declaring
      /\ t.app \in {"VO", "LO"} => a \in {"VO", "LO"}
  BY <1>2, ApplicantStep DEF AttrSet
<1> HIDE DEF a
<1>4. Coarse(UpdateState(e, st, four)) = u
  <2>1. UpdateState(e, st, four) = [t EXCEPT !.app = a]
    BY DEF UpdateState, r, t, a
  <2>2. [t EXCEPT !.app = a].app = a
    BY <1>2 DEF AttrSet
  <2>3. a \notin {"LA", "AO", "QO"}
    BY <1>2, <1>3 DEF AttrSet, Apps, Declaring
  <2>4. Coarse([t EXCEPT !.app = a]) = [t EXCEPT !.app = c]
    BY <2>2, <2>3, <1>2, Zenon DEF Coarse, AttrSet
  <2> QED BY <2>1, <2>4
<1>5. /\ t.app = "UNUSED" => c = "UNUSED"
      /\ t.app = "VN" => c = "VN"
      /\ t.app \in {"VO", "LO"} => c \in {"VO", "LO"}
  BY <1>3 DEF Declaring
<1> HIDE DEF c
<1>6. /\ u \in AttrSet /\ u.app = c /\ u.type = t.type /\ u.info = t.info /\ u.reg = t.reg
      /\ u.timer = t.timer /\ u.pending = t.pending /\ u.four = t.four /\ u.remove = t.remove
  BY <1>2, <1>5 DEF AttrSet, Apps
<1> HIDE DEF u
<1>7. u \in AttrSet /\ AttrOK(u)
  BY <1>1, <1>2, <1>5, <1>6 DEF AttrOK, AttrSet, Apps
<1>8. SlotStep(st, u)
  BY <1>1, <1>2, <1>5, <1>6 DEF SlotStep, SlotKeep, Holds, Clean, AttrSet, Apps, AttrOK
<1> QED BY <1>4, <1>7, <1>8

\* mrp_mad_join declares the attribute and cancels its removal.
LEMMA DeclaredIs ==
  ASSUME NEW st \in AttrSet
  PROVE  Declared(st) = [st EXCEPT !.remove = FALSE, !.app = "VN"]
<1> DEFINE r == [st EXCEPT !.remove = FALSE]
<1>1. Registrar("JOIN_NEW", r, "IGNORE") = r
  BY DEF Registrar
<1>2. ~Transmits("JOIN_NEW", r) /\ Applicant("JOIN_NEW", r) = "VN"
  BY DEF Transmits, Applicant
<1>3. UpdateState("JOIN_NEW", r, "IGNORE") = [r EXCEPT !.app = "VN"]
  BY <1>1, <1>2, Zenon DEF UpdateState
<1>4. Coarse([r EXCEPT !.app = "VN"]) = [r EXCEPT !.app = "VN"]
  BY Zenon DEF Coarse, AttrSet, Declaring
<1>5. [r EXCEPT !.app = "VN"] = [st EXCEPT !.remove = FALSE, !.app = "VN"]
  BY DEF AttrSet
<1> QED BY <1>3, <1>4, <1>5 DEF Declared, MadJoin

\* mrp_mad_leave withdraws it.
LEMMA LeftIs ==
  ASSUME NEW st \in AttrSet
  PROVE  Coarse(MadLeave(st)) = [st EXCEPT !.app = IF @ = "VN" THEN "VO" ELSE @]
<1>1. Registrar("LEAVE", st, "IGNORE") = st /\ ~Transmits("LEAVE", st)
  BY DEF Registrar, Transmits
<1>2. MadLeave(st) = [st EXCEPT !.app = Step(OnLeave, st.app)]
  BY <1>1 DEF MadLeave, UpdateState, Applicant
<1>3. Step(OnLeave, st.app) = IF st.app = "VN" THEN "LA" ELSE st.app
  BY DEF Step, OnLeave, AttrSet, Apps
<1> QED BY <1>2, <1>3, Zenon DEF Coarse, AttrSet, Apps, Declaring

\* mrp_attribute_init and mrp_mad_begin, of a slot that was free.
BegunAs(st, type, here, entry) ==
  MadBegin(AttributeInit([st EXCEPT !.type = type, !.info = entry], here)) =
    [st EXCEPT !.type = type, !.info = entry, !.here = here, !.timer = Off,
               !.reg = "MT", !.app = "VO"]

\* mrp_attribute_init and mrp_mad_begin leave the pending indications of the slot.
LEMMA BegunIs ==
  ASSUME NEW st \in AttrSet, NEW type \in StreamTypes, NEW here \in BOOLEAN, NEW entry \in Entries
  PROVE  BegunAs(st, type, here, entry)
<1> DEFINE r == [st EXCEPT !.type = type, !.info = entry, !.here = here, !.timer = Off]
<1>1. [AttributeInit([st EXCEPT !.type = type, !.info = entry], here) EXCEPT !.timer = Off] = r
  BY DEF AttributeInit, AttrSet
<1>2. Registrar("BEGIN", r, "IGNORE") = [r EXCEPT !.reg = "MT"]
  BY DEF Registrar
<1>3. UpdateState("BEGIN", r, "IGNORE") = [r EXCEPT !.reg = "MT", !.app = "VO"]
  BY <1>2, Zenon DEF UpdateState, Transmits, Applicant, AttrSet
<1> QED BY <1>1, <1>3 DEF MadBegin, AttrSet, BegunAs

\* The registrar of the domain.
LEMMA DomainType ==
  ASSUME NEW d \in DomainSet, NEW e
  PROVE  Registrar(e, d, "IGNORE") \in DomainSet
<1> USE DEF DomainSet, RegistrarStates, Indications
<1>1. LeaveTime \in TimerStates /\ Off \in TimerStates /\ "IGNORE" \in FourPacked
  BY LeaveTimeAssumption DEF TimerStates, FourPacked
<1>2. ReceiveNew(d, "IGNORE") \in DomainSet /\ ReceiveJoin(d, "IGNORE") \in DomainSet
  BY <1>1, Zenon DEF ReceiveNew, ReceiveJoin, Registered
<1>3. StartLeaving(d) \in DomainSet /\ LeaveTimerExpired(d) \in DomainSet
  BY <1>1, Zenon DEF StartLeaving, LeaveTimerExpired
<1>4. [d EXCEPT !.reg = "MT"] \in DomainSet
  OBVIOUS
<1> QED BY <1>2, <1>3, <1>4 DEF Registrar

-----------------------------------------------------------------------------
(***************************************************************************)
(* Look-ups                                                                *)
(***************************************************************************)
(***************************************************************************)
(* A set of naturals that is not empty has a least element.  The lemmas    *)
(* that search or loop over slots and entries assume this, and the last    *)
(* part of the module proves it from the library.                          *)
(***************************************************************************)
WellOrdered == \A S \in SUBSET Nat : S # {} => \E m \in S : \A y \in S : m <= y

\* The first element of a set of indices.
LEMMA LowestIn ==
  ASSUME WellOrdered, NEW n \in Nat, NEW S \in SUBSET (1..n)
  PROVE  /\ S = {} => Lowest(S) = 0
         /\ S # {} => Lowest(S) \in S
<1> SUFFICES ASSUME S # {} PROVE Lowest(S) \in S
  BY DEF Lowest
<1>1. S \in SUBSET Nat
  OBVIOUS
<1>2. PICK m \in S : \A y \in S : m <= y
  BY <1>1, Zenon DEF WellOrdered
<1> QED BY <1>2, Zenon DEF Lowest

\* The last element of a set of indices.
LEMMA HighestIn ==
  ASSUME WellOrdered, NEW n \in Nat, NEW S \in SUBSET (1..n)
  PROVE  /\ S = {} => Highest(S) = 0
         /\ S # {} => Highest(S) \in S
<1> SUFFICES ASSUME S # {} PROVE Highest(S) \in S
  BY DEF Highest
<1>0. \A y \in S : y \in Nat
  OBVIOUS
<1> DEFINE T == {n - y : y \in S}
<1>1. T \in SUBSET Nat /\ T # {}
  OBVIOUS
<1>2. PICK m \in T : \A y \in T : m <= y
  <2> HIDE DEF T
  <2> QED BY <1>1, Zenon DEF WellOrdered
<1>3. PICK h \in S : m = n - h
  OBVIOUS
<1>4. ASSUME NEW y \in S PROVE y <= h
  <2>1. m <= n - y
    BY <1>2, Zenon
  <2> HIDE DEF T
  <2> QED BY <1>0, <1>3, <2>1
<1> QED BY <1>4, Zenon DEF Highest

\* The indices are natural numbers.
LEMMA Bounds == MaxAttrs \in Nat \ {0} /\ MaxEntries \in Nat \ {0} /\ MaxVlans \in Nat \ {0}
BY SrpAssumption

\* An attribute of a slot is live when the slot is in use.
LEMMA LiveIs ==
  ASSUME NEW st \in AttrSet
  PROVE  Live(st) <=> st.app # "UNUSED"
BY DEF Live, Idle, AttrSet, Apps

\* The types of the two sides.
LEMMA Sides ==
  ASSUME NEW s \in SrpSet, NEW j \in Slots
  PROVE  /\ InUse(s, j) => (IsTalker(s, j) <=> ~IsListener(s, j))
         /\ s.attrs[j] \in AttrSet /\ s.attrs[j].info \in Entries
         /\ StreamOf(s, j) \in Stream \cup {NoStream}
         /\ s.table[s.attrs[j].info] \in EntrySet
BY Zenon DEF SrpSet, AttrSet, EntrySet, InUse, IsTalker, IsListener, StreamTypes, TalkerTypes, StreamOf

\* mrp_match_type_non_prop_attribute.
LEMMA MatchTypeIs ==
  ASSUME WellOrdered, NEW s \in SrpSet, NEW type, NEW x
  PROVE  LET m == MatchType(s, type, x)
             Fits(j) == InUse(s, j) /\ s.attrs[j].type = type /\ StreamOf(s, j) = x
         IN  /\ m = 0 => \A j \in Slots : ~Fits(j)
             /\ m # 0 => m \in Slots /\ Fits(m)
<1> DEFINE S == {j \in Slots : Live(s.attrs[j]) /\ s.attrs[j].type = type /\ StreamOf(s, j) = x}
<1>1. S \in SUBSET (1..MaxAttrs) /\ 0 \notin S
  BY Bounds DEF Slots
<1>2. \A j \in Slots : Live(s.attrs[j]) <=> InUse(s, j)
  BY LiveIs, Sides DEF InUse
<1>3. /\ S = {} => Lowest(S) = 0
      /\ S # {} => Lowest(S) \in S
  <2> HIDE DEF S
  <2> QED BY <1>1, LowestIn, Bounds, Zenon
<1>4. MatchType(s, type, x) = Lowest(S)
  BY DEF MatchType
<1>5. CASE S = {}
  BY <1>2, <1>3, <1>4, <1>5, Zenon
<1>6. CASE S # {}
  <2>1. Lowest(S) \in S
    BY <1>3, <1>6, Zenon
  <2>2. Lowest(S) # 0
    BY <1>1, <2>1, Zenon
  <2> QED BY <1>2, <1>4, <2>1, <2>2, Zenon
<1> QED BY <1>5, <1>6, Zenon

\* The talker's attribute of a stream.
LEMMA MatchTalkerIs ==
  ASSUME WellOrdered, NEW s \in SrpSet, NEW x
  PROVE  LET m == MatchTalker(s, x)
             Fits(j) == IsTalker(s, j) /\ StreamOf(s, j) = x
         IN  /\ m = 0 => \A j \in Slots : ~Fits(j)
             /\ m # 0 => m \in Slots /\ Fits(m)
<1>1. ASSUME NEW type
      PROVE  LET m == MatchType(s, type, x)
                 Fits(j) == InUse(s, j) /\ s.attrs[j].type = type /\ StreamOf(s, j) = x
             IN  /\ m = 0 => \A j \in Slots : ~Fits(j)
                 /\ m # 0 => m \in Slots /\ Fits(m)
  BY MatchTypeIs, Zenon
<1> QED BY <1>1, Zenon DEF MatchTalker, IsTalker, TalkerTypes

\* srp_match_reservation_entry_by_id, when no stream has two entries.
LEMMA MatchEntryIs ==
  ASSUME WellOrdered, NEW s \in SrpSet, Linked(s), NEW x \in Stream
  PROVE  /\ \A e \in Entries : s.table[e].id = x => MatchEntry(s, x) = e
         /\ MatchEntry(s, x) # 0 =>
              /\ MatchEntry(s, x) \in Entries
              /\ s.table[MatchEntry(s, x)].id \in {x, NoStream}
         /\ MatchEntry(s, x) # 0 \/ \A e \in Entries : s.table[e].id # x
<1> DEFINE S == {e \in Entries : s.table[e].id = x}
           F == {e \in Entries : s.table[e].id = NoStream}
<1>0. x # NoStream
  BY SrpAssumption
<1>1. S \in SUBSET (1..MaxEntries) /\ F \in SUBSET (1..MaxEntries) /\ 0 \notin Entries
  BY Bounds DEF Entries
<1>2. /\ S # {} => Lowest(S) \in S
      /\ F = {} => Highest(F) = 0
      /\ F # {} => Highest(F) \in F
  <2> HIDE DEF S, F
  <2> QED BY <1>1, LowestIn, HighestIn, Bounds, Zenon
<1>3. MatchEntry(s, x) = IF S # {} THEN Lowest(S) ELSE Highest(F)
  BY DEF MatchEntry
<1>4. ASSUME NEW e \in Entries, s.table[e].id = x PROVE MatchEntry(s, x) = e
  <2>1. S # {} /\ Lowest(S) \in S
    BY <1>2, <1>4, Zenon
  <2>2. s.table[Lowest(S)].id = s.table[e].id /\ Lowest(S) \in Entries
    BY <2>1, <1>4, Zenon
  <2>3. Lowest(S) = e
    BY <2>2, <1>0, <1>4, Zenon DEF Linked
  <2> QED BY <2>1, <2>3, <1>3
<1>5. MatchEntry(s, x) # 0 =>
              /\ MatchEntry(s, x) \in Entries
              /\ s.table[MatchEntry(s, x)].id \in {x, NoStream}
  BY <1>2, <1>3, Zenon
<1> QED BY <1>1, <1>4, <1>5, Zenon

-----------------------------------------------------------------------------
(***************************************************************************)
(* Steps of the state of SRP                                               *)
(***************************************************************************)
\* A step that changes nothing is one.
LEMMA SlotStepSame ==
  ASSUME NEW st
  PROVE  SlotStep(st, st)
BY DEF SlotStep, SlotKeep, Clean

\* Two steps of an attribute are one.
LEMMA SlotStepTwice ==
  ASSUME NEW st, NEW u, NEW v, SlotStep(st, u), SlotStep(u, v)
  PROVE  SlotStep(st, v)
BY DEF SlotStep, SlotKeep

\* Two steps of SRP are one.
LEMMA SrpStepTwice ==
  ASSUME NEW s, NEW t, NEW u, SrpStep(s, t), SrpStep(t, u)
  PROVE  SrpStep(s, u)
<1>1. \A j \in Slots : SlotStep(s.attrs[j], u.attrs[j])
  BY SlotStepTwice, Zenon DEF SrpStep, SrpKeep, SlotStep
<1>2. \A j \in Slots : InUse(u, j) => InUse(t, j)
  BY Zenon DEF SrpStep, SrpKeep, SlotStep, SlotKeep, InUse
<1> QED BY <1>1, <1>2, Zenon DEF SrpStep, SrpKeep, SlotStep

\* A step that leaves attributes, table and VLAN entries alone is one.
LEMMA SrpStepSame ==
  ASSUME NEW s, NEW t, t.attrs = s.attrs, t.table = s.table, t.vids = s.vids
  PROVE  SrpStep(s, t)
BY SlotStepSame DEF SrpStep, SrpKeep, SlotStep, StreamOf

\* ... and keeps the invariant.
LEMMA SrpInvSame ==
  ASSUME NEW s, NEW t \in SrpSet, t.attrs = s.attrs, t.table = s.table, NEW old, SrpInv(s, old)
  PROVE  SrpInv(t, old)
BY SMTT(30) DEF SrpInv, Linked, Excused, StreamOf, InUse, IsListener

\* One attribute makes a step.
LEMMA SetAttr ==
  ASSUME NEW s, NEW old, SrpInv(s, old), NEW j \in Slots,
         NEW u \in AttrSet, AttrOK(u), SlotStep(s.attrs[j], u)
  PROVE  LET t == [s EXCEPT !.attrs[j] = u]
         IN  SrpInv(t, old) /\ SrpStep(s, t)
<1> DEFINE t == [s EXCEPT !.attrs[j] = u]
<1>0. s \in SrpSet /\ Linked(s)
  BY DEF SrpInv
<1>1. /\ t \in SrpSet /\ t.table = s.table /\ t.vids = s.vids
      /\ t.attrs[j] = u /\ \A i \in Slots \ {j} : t.attrs[i] = s.attrs[i]
  BY <1>0 DEF SrpSet
<1> HIDE DEF t
<1>2. \A i \in Slots : SlotStep(s.attrs[i], t.attrs[i])
  BY <1>1, SlotStepSame
<1>3. \A i \in Slots : /\ StreamOf(t, i) = StreamOf(s, i)
                       /\ InUse(t, i) => InUse(s, i)
                       /\ InUse(t, i) => (IsListener(t, i) <=> IsListener(s, i))
  BY <1>1, <1>2, Zenon DEF SlotStep, SlotKeep, StreamOf, InUse, IsListener
<1>4. Linked(t)
  BY <1>0, <1>1, <1>3 DEF Linked
<1>5. ASSUME NEW i \in Slots, IsListener(t, i) PROVE Excused(t, i, old)
  <2>1. IsListener(s, i)
    BY <1>3, <1>5 DEF IsListener
  <2>2. Excused(s, i, old)
    BY <2>1 DEF SrpInv
  <2> QED BY <2>2, <1>2, <1>3, Zenon DEF Excused, SlotStep, SlotKeep
<1>6. \A i \in Slots : AttrOK(t.attrs[i])
  BY <1>1 DEF SrpInv
<1>7. SrpInv(t, old)
  BY <1>1, <1>4, <1>5, <1>6 DEF SrpInv
<1>8. SrpStep(s, t)
  BY <1>1, <1>2, <1>3, Zenon DEF SrpStep, SrpKeep, SlotStep
<1> QED BY <1>7, <1>8 DEF t

\* The table changes, and no entry its stream.
LEMMA SetTable ==
  ASSUME NEW s, NEW old, SrpInv(s, old), NEW T \in [Entries -> EntrySet],
         \A e \in Entries : T[e].id = s.table[e].id /\ (T[e].bw => s.table[e].bw)
  PROVE  LET t == [s EXCEPT !.table = T]
         IN  SrpInv(t, old) /\ SrpStep(s, t)
<1> DEFINE t == [s EXCEPT !.table = T]
<1>0. s \in SrpSet /\ Linked(s)
  BY DEF SrpInv
<1>1. t \in SrpSet /\ t.table = T /\ t.vids = s.vids /\ t.attrs = s.attrs
  BY <1>0 DEF SrpSet
<1> HIDE DEF t
<1>2. \A i \in Slots : StreamOf(t, i) = StreamOf(s, i)
  BY <1>0, <1>1, Sides, Zenon DEF StreamOf
<1>3. \A i \in Slots : (InUse(t, i) <=> InUse(s, i)) /\ (IsListener(t, i) <=> IsListener(s, i))
  BY <1>1 DEF InUse, IsListener
<1>4. Linked(t)
  BY <1>0, <1>1, <1>2, <1>3 DEF Linked
<1>5. SrpInv(t, old)
  BY <1>1, <1>2, <1>3, <1>4, Zenon DEF SrpInv, Excused
<1>6. SrpStep(s, t)
  BY <1>0, <1>1, <1>2, SlotStepSame, Zenon DEF SrpStep, SrpKeep, SlotStep
<1> QED BY <1>5, <1>6 DEF t

\* srp_cleanup_reservation_entry, for a slot that has become unused: an entry
\* is cleared under no attribute.
LEMMA CleanupStep ==
  ASSUME WellOrdered, NEW s, NEW old, SrpInv(s, old), NEW j \in Slots, ~InUse(s, j), StreamOf(s, j) # NoStream
  PROVE  SrpInv(Cleanup(s, j), old) /\ SrpStep(s, Cleanup(s, j))
<1>0. s \in SrpSet /\ Linked(s)
  BY DEF SrpInv
<1>1. CASE Related(s, j)
  BY <1>1, SrpStepSame DEF Cleanup
<1>2. CASE ~Related(s, j)
  <2> DEFINE x == StreamOf(s, j)
             e == s.attrs[j].info
             t == [s EXCEPT !.table[e] = EmptyEntry]
  <2>1. x \in Stream /\ e \in Entries /\ s.table[e].id = x
    BY <1>0, Sides, Zenon DEF StreamOf
  <2>2. MatchEntry(s, x) = e
    BY <1>0, <2>1, MatchEntryIs
  <2>3. Cleanup(s, j) = t
    BY <1>2, <2>2 DEF Cleanup
  <2>4. EmptyEntry \in EntrySet /\ EmptyEntry.id = NoStream /\ EmptyEntry.bw = FALSE
    BY DEF EmptyEntry, EntrySet, FailureCodes
  <2>5. /\ t \in SrpSet /\ t.attrs = s.attrs /\ t.vids = s.vids
        /\ t.table[e] = EmptyEntry /\ \A f \in Entries \ {e} : t.table[f] = s.table[f]
    <3> HIDE DEF e
    <3> QED BY <1>0, <2>1, <2>4, Zenon DEF SrpSet
  <2> HIDE DEF t, e, x
  <2>6. ASSUME NEW i \in Slots, InUse(s, i)
        PROVE  s.attrs[i].info # e /\ StreamOf(t, i) = StreamOf(s, i)
    <3>1. StreamOf(s, i) # x
      BY <1>2, <2>6 DEF Related, InUse, x
    <3>2. s.attrs[i].info # e
      BY <2>1, <3>1, Zenon DEF StreamOf
    <3> QED BY <2>5, <3>2, <1>0, Sides, Zenon DEF StreamOf
  <2>7. \A i \in Slots : (InUse(t, i) <=> InUse(s, i)) /\ (IsListener(t, i) <=> IsListener(s, i))
    BY <2>5 DEF InUse, IsListener
  <2>8. Linked(t)
    <3>1. \A i \in Slots : InUse(t, i) => StreamOf(t, i) # NoStream
      BY <1>0, <2>6, <2>7, Zenon DEF Linked
    <3>2. \A f, g \in Entries : t.table[f].id = t.table[g].id => f = g \/ t.table[f].id = NoStream
      BY <1>0, <2>4, <2>5 DEF Linked
    <3>3. \A f \in Entries : t.table[f].bw => t.table[f].id \in Source
      BY <1>0, <2>4, <2>5, Zenon DEF Linked
    <3>4. \A i, k \in Slots :
             InUse(t, i) /\ InUse(t, k) /\ (IsListener(t, i) <=> IsListener(t, k))
               => i = k \/ StreamOf(t, i) # StreamOf(t, k)
      BY <1>0, <2>6, <2>7, Zenon DEF Linked
    <3> QED BY <3>1, <3>2, <3>3, <3>4, Zenon DEF Linked
  <2>9. SrpInv(t, old)
    BY <2>5, <2>6, <2>7, <2>8, Zenon DEF SrpInv, Excused, IsListener
  <2>10. SrpStep(s, t)
    BY <2>4, <2>5, <2>6, <2>7, SlotStepSame, Zenon DEF SrpStep, SrpKeep, SlotStep
  <2> QED BY <2>3, <2>9, <2>10
<1> QED BY <1>1, <1>2

-----------------------------------------------------------------------------
(***************************************************************************)
(* Loops over the slots                                                    *)
(***************************************************************************)
\* What holds before the first slot, and after a slot if before it, holds after
\* the last.
LEMMA AllSlots ==
  ASSUME WellOrdered, NEW T, 0 \in T, \A n \in 0..(MaxAttrs - 1) : n \in T => n + 1 \in T
  PROVE  MaxAttrs \in T
<1> DEFINE S == {n \in Nat : n <= MaxAttrs /\ n \notin T}
<1> SUFFICES ASSUME S # {} PROVE FALSE
  BY Bounds
<1>1. S \in SUBSET Nat
  OBVIOUS
<1>2. PICK m \in S : \A y \in S : m <= y
  <2> HIDE DEF S
  <2> QED BY <1>1, Zenon DEF WellOrdered
<1>3. m \in Nat /\ m # 0 /\ m - 1 \in Nat /\ m - 1 \in 0..(MaxAttrs - 1)
  BY Bounds
<1>4. m - 1 \in T
  <2>1. m - 1 < m
    BY <1>3
  <2> QED BY <1>2, <1>3, <2>1, Bounds
<1> QED BY <1>3, <1>4

\* A loop whose body keeps to a set has a result after every slot.
LEMMA LoopExists ==
  ASSUME WellOrdered, NEW D, NEW w \in D, NEW b \in [Slots -> [D -> D]]
  PROVE  \E f \in [0..MaxAttrs -> D] : f[0] = w /\ \A j \in Slots : f[j] = b[j][f[j - 1]]
<1> DEFINE Good(n) == \E f \in [0..n -> D] : f[0] = w /\ \A j \in 1..n : f[j] = b[j][f[j - 1]]
           T == {n \in 0..MaxAttrs : Good(n)}
<1>1. Good(0)
  <2>1. [i \in 0..0 |-> w] \in [0..0 -> D]
    OBVIOUS
  <2>2. [i \in 0..0 |-> w][0] = w /\ 1..0 = {}
    OBVIOUS
  <2> QED BY <2>1, <2>2, Zenon
<1>2. ASSUME NEW n \in 0..(MaxAttrs - 1), Good(n) PROVE Good(n + 1)
  <2>1. PICK f \in [0..n -> D] : f[0] = w /\ \A j \in 1..n : f[j] = b[j][f[j - 1]]
    BY <1>2
  <2> DEFINE g == [i \in 0..(n + 1) |-> IF i = n + 1 THEN b[n + 1][f[n]] ELSE f[i]]
  <2>2. g \in [0..(n + 1) -> D]
    BY <2>1, Bounds DEF Slots
  <2>3. g[0] = w
    BY <2>1
  <2>4. ASSUME NEW j \in 1..(n + 1) PROVE g[j] = b[j][g[j - 1]]
    <3>1. CASE j = n + 1
      BY <2>1, <3>1
    <3>2. CASE j # n + 1
      <4>1. /\ j \in 1..n /\ j - 1 \in 0..n /\ j \in 0..(n + 1)
            /\ j - 1 \in 0..(n + 1) /\ j - 1 # n + 1
        BY <3>2
      <4> QED BY <2>1, <4>1
    <3> QED BY <3>1, <3>2, Zenon
  <2> QED BY <2>2, <2>3, <2>4, Zenon
<1> HIDE DEF Good
<1>3. MaxAttrs \in T
  <2>1. 0 \in T /\ \A n \in 0..(MaxAttrs - 1) : n \in T => n + 1 \in T
    BY <1>1, <1>2, Bounds
  <2> HIDE DEF T
  <2> QED BY <2>1, AllSlots
<1> QED BY <1>3 DEF Good, Slots

\* Its result is in the set.
LEMMA LoopIn ==
  ASSUME WellOrdered, NEW D, NEW w \in D, NEW b \in [Slots -> [D -> D]],
         NEW f, f[0] = w, \A j \in Slots : f[j - 1] \in D => f[j] = b[j][f[j - 1]]
  PROVE  f[MaxAttrs] \in D
<1> DEFINE T == {n \in 0..MaxAttrs : f[n] \in D}
<1>1. 0 \in T
  BY Bounds
<1>2. ASSUME NEW n \in 0..(MaxAttrs - 1), n \in T PROVE n + 1 \in T
  <2>1. n + 1 \in Slots /\ n + 1 - 1 = n /\ n + 1 \in 0..MaxAttrs
    BY Bounds DEF Slots
  <2>2. f[n + 1] = b[n + 1][f[n]]
    BY <1>2, <2>1
  <2> QED BY <1>2, <2>1, <2>2
<1>3. MaxAttrs \in T
  <2> HIDE DEF T
  <2> QED BY <1>1, <1>2, AllSlots
<1> QED BY <1>3

\* The timer events of mrp_periodic before its pass.
Timeouts == {"RECEIVE_LEAVE_ALL", "TX", "TX_LEAVE_ALL"}

\* Nothing is registered by them.
LEMMA TimeoutReg ==
  ASSUME NEW st \in AttrSet, NEW e \in Timeouts
  PROVE  LET u == Coarse(UpdateState(e, st, "IGNORE"))
         IN  u.reg = "IN" => st.reg = "IN"
<1> DEFINE r == Registrar(e, st, "IGNORE")
           t == IF Transmits(e, r) THEN DoTx(r) ELSE r
           v == [t EXCEPT !.app = Applicant(e, t)]
<1>1. r \in {st, StartLeaving(st)}
  BY DEF Registrar, Timeouts
<1>2. DOMAIN r = DOMAIN st /\ (r.reg = "IN" => st.reg = "IN")
  BY <1>1, Zenon DEF StartLeaving, AttrSet
<1> HIDE DEF r
<1>3. DOMAIN t = DOMAIN r /\ t.reg = r.reg
  BY DEF DoTx
<1> HIDE DEF t
<1>4. DOMAIN v = DOMAIN t /\ v.reg = t.reg
  OBVIOUS
<1>5. v = UpdateState(e, st, "IGNORE")
  BY DEF UpdateState, r, t
<1> HIDE DEF v
<1>6. Coarse(v).reg = v.reg
  BY DEF Coarse
<1> QED BY <1>2, <1>3, <1>4, <1>5, <1>6

NoneIn(s, t) == \A j \in Slots : t.attrs[j].reg = "IN" => s.attrs[j].reg = "IN"

\* attribute_type_event for one slot.
LEMMA SlotEventStep ==
  ASSUME WellOrdered, NEW s, NEW old, SrpInv(s, old), NEW j \in Slots, NEW e \in Timeouts
  PROVE  LET t == SlotEvent(s, j, e)
         IN  SrpInv(t, old) /\ SrpStep(s, t) /\ NoneIn(s, t)
<1> DEFINE st == s.attrs[j]
           u == Coarse(Event(e, st))
           t == [s EXCEPT !.attrs[j] = u]
<1>0. s \in SrpSet /\ st \in AttrSet /\ AttrOK(st)
  BY Sides DEF SrpInv
<1>1. u \in AttrSet /\ AttrOK(u) /\ SlotStep(st, u) /\ (u.reg = "IN" => st.reg = "IN")
  <2>1. CASE st.app = "UNUSED"
    <3>1. u = st
      BY <1>0, <2>1, LiveIs, Zenon DEF Event, Coarse, AttrSet, Declaring
    <3> QED BY <1>0, <3>1, SlotStepSame
  <2>2. CASE st.app # "UNUSED"
    <3>1. u = Coarse(UpdateState(e, st, "IGNORE"))
      BY <1>0, <2>2, LiveIs DEF Event
    <3>2. e \in Happenings /\ "IGNORE" \in FourPacked /\ e # "LEAVETIMER"
      BY DEF Timeouts, Happenings, FourPacked
    <3> HIDE DEF st
    <3> QED BY <1>0, <2>2, <3>1, <3>2, UpdateStep, TimeoutReg
  <2> QED BY <2>1, <2>2, Zenon
<1> HIDE DEF u
<1>2. SrpInv(t, old) /\ SrpStep(s, t)
  BY <1>1, SetAttr
<1>3. t.attrs[j] = u /\ NoneIn(s, t) /\ t.table = s.table
      /\ \A i \in Slots \ {j} : t.attrs[i] = s.attrs[i]
  BY <1>0, <1>1 DEF SrpSet, NoneIn
<1> HIDE DEF t
<1>4. SlotEvent(s, j, e) = IF Live(st) /\ ~Live(u) THEN Cleanup(t, j) ELSE t
  BY <1>3 DEF SlotEvent, t, u
<1>5. CASE Live(st) /\ ~Live(u)
  <2>1. ~InUse(t, j) /\ InUse(s, j)
    BY <1>0, <1>1, <1>3, <1>5, LiveIs DEF InUse
  <2>2. StreamOf(t, j) # NoStream
    <3>1. StreamOf(t, j) = StreamOf(s, j)
      BY <1>1, <1>3, Zenon DEF StreamOf, SlotStep, SlotKeep
    <3> QED BY <2>1, <3>1 DEF SrpInv, Linked
  <2>3. SrpInv(Cleanup(t, j), old) /\ SrpStep(t, Cleanup(t, j))
    BY <1>2, <2>1, <2>2, CleanupStep
  <2>4. Cleanup(t, j).attrs = t.attrs
    <3>1. t \in SrpSet
      BY <1>2 DEF SrpInv
    <3> QED BY <3>1 DEF Cleanup, SrpSet
  <2> QED BY <1>2, <1>3, <1>4, <1>5, <2>3, <2>4, SrpStepTwice DEF NoneIn
<1>6. CASE ~(Live(st) /\ ~Live(u))
  BY <1>2, <1>3, <1>4, <1>6
<1> QED BY <1>5, <1>6

\* attribute_type_event for all slots and the domain.
LEMMA MsrpEventStep ==
  ASSUME WellOrdered, NEW s, NEW old, SrpInv(s, old), NEW e \in Timeouts
  PROVE  LET t == MsrpEvent(s, e)
         IN  SrpInv(t, old) /\ SrpStep(s, t) /\ NoneIn(s, t)
<1> DEFINE D == {t \in SrpSet : SrpInv(t, old) /\ SrpStep(s, t) /\ NoneIn(s, t)}
           b == [j \in Slots |-> [t \in D |-> SlotEvent(t, j, e)]]
           Rec(f) == f = [j \in 0..MaxAttrs |-> IF j = 0 THEN s ELSE SlotEvent(f[j - 1], j, e)]
<1>1. s \in D
  BY SrpStepSame DEF SrpInv, NoneIn
<1>2. ASSUME NEW j \in Slots, NEW t \in D PROVE SlotEvent(t, j, e) \in D
  <2>1. LET u == SlotEvent(t, j, e) IN SrpInv(u, old) /\ SrpStep(t, u) /\ NoneIn(t, u)
    BY SlotEventStep
  <2> QED BY <2>1, SrpStepTwice, Zenon DEF NoneIn, SrpInv
<1> HIDE DEF D
<1>3. b \in [Slots -> [D -> D]]
  BY <1>2
<1>4. PICK f \in [0..MaxAttrs -> D] : f[0] = s /\ \A j \in Slots : f[j] = b[j][f[j - 1]]
  <2> HIDE DEF b
  <2> QED BY <1>1, <1>3, LoopExists
<1>5. Rec(f)
  <2>1. ASSUME NEW j \in 0..MaxAttrs, j # 0 PROVE f[j] = SlotEvent(f[j - 1], j, e)
    <3>1. j \in Slots /\ j - 1 \in 0..MaxAttrs
      BY <2>1, Bounds DEF Slots
    <3> QED BY <1>4, <3>1, Zenon
  <2> QED BY <1>4, <2>1, Bounds
<1>6. PICK g : Rec(g) /\ MsrpEvent(s, e) =
                 [g[MaxAttrs] EXCEPT !.domain = Registrar(e, @, "IGNORE")]
  BY <1>5, Zenon DEF MsrpEvent, ForEachSlot
<1>7. g[0] = s
  BY <1>6, Bounds
<1>8. ASSUME NEW j \in Slots, g[j - 1] \in D PROVE g[j] = b[j][g[j - 1]]
  <2>1. j \in 0..MaxAttrs /\ j # 0
    BY Bounds DEF Slots
  <2> QED BY <1>6, <1>8, <2>1, Zenon
<1>9. g[MaxAttrs] \in D
  <2> HIDE DEF b
  <2> QED BY <1>1, <1>3, <1>7, <1>8, LoopIn
<1>10. PICK t \in SrpSet : t = g[MaxAttrs] /\ SrpInv(t, old) /\ SrpStep(s, t) /\ NoneIn(s, t)
  BY <1>9 DEF D
<1> DEFINE u == [t EXCEPT !.domain = Registrar(e, @, "IGNORE")]
<1>11. Registrar(e, t.domain, "IGNORE") \in DomainSet
  BY DomainType DEF SrpSet
<1>12. u \in SrpSet /\ u.attrs = t.attrs /\ u.table = t.table /\ u.vids = t.vids
  BY <1>11 DEF SrpSet
<1>13. MsrpEvent(s, e) = u
  BY <1>6, <1>10, Zenon
<1> HIDE DEF u
<1>14. SrpInv(u, old) /\ SrpStep(t, u) /\ NoneIn(s, u)
  BY <1>10, <1>12, SrpInvSame, SrpStepSame, Zenon DEF NoneIn
<1> QED BY <1>10, <1>13, <1>14, SrpStepTwice

-----------------------------------------------------------------------------
(***************************************************************************)
(* Steps of the world that only SRP makes                                  *)
(***************************************************************************)
\* A listener's attribute outlives every step.
LEMMA ListenerStays ==
  ASSUME NEW s, NEW old, SrpInv(s, old), NEW t, SrpKeep(s, t), NEW j \in Slots, IsListener(s, j)
  PROVE  IsListener(t, j) /\ StreamOf(t, j) = StreamOf(s, j)
<1>1. SlotKeep(s.attrs[j], t.attrs[j]) /\ AttrOK(s.attrs[j])
  BY DEF SrpKeep, SrpInv
<1>2. IsListener(t, j)
  BY <1>1, Zenon DEF SlotKeep, AttrOK, IsListener, InUse, TalkerTypes
<1> QED BY <1>2 DEF SrpKeep, IsListener

\* A stream keeps its listener.
LEMMA HeardStays ==
  ASSUME NEW s, NEW old, SrpInv(s, old), NEW t, SrpStep(s, t), NEW x, HeardBy(s, x)
  PROVE  HeardBy(t, x)
<1>1. PICK j \in Slots : IsListener(s, j) /\ StreamOf(s, j) = x /\ Holds(s.attrs[j])
  BY DEF HeardBy
<1>2. IsListener(t, j) /\ StreamOf(t, j) = StreamOf(s, j)
  BY <1>1, ListenerStays DEF SrpStep
<1>3. Holds(t.attrs[j])
  BY <1>1 DEF SrpStep, SlotStep
<1> QED BY <1>1, <1>2, <1>3 DEF HeardBy

\* A world in which only SRP has moved.
LEMMA SrpWorld ==
  ASSUME NEW w, NEW old, WorldInv(w, old), NEW t, SrpInv(t, old), SrpStep(w.srp, t)
  PROVE  LET v == [w EXCEPT !.srp = t]
         IN  WorldInv(v, old) /\ WorldKeep(w, v) /\ v.srp = t
<1> DEFINE v == [w EXCEPT !.srp = t]
<1>0. w \in WorldSet /\ t \in SrpSet
  BY DEF WorldInv, SrpInv
<1>1. /\ v \in WorldSet /\ v.srp = t /\ v.source = w.source /\ v.sink = w.sink
      /\ v.owner = w.owner /\ v.talker = w.talker
  BY <1>0 DEF WorldSet
<1> HIDE DEF v
<1>2. \A x : HeardBy(w.srp, x) => HeardBy(t, x)
  BY HeardStays DEF WorldInv
<1>3. Streams(v, old)
  BY <1>1, <1>2 DEF Streams, WorldInv, SrpStep
<1>4. WorldKeep(w, v)
  BY <1>1, Zenon DEF WorldKeep, SrpStep
<1> QED BY <1>1, <1>3, <1>4 DEF WorldInv, v

\* Two of these steps are one.
LEMMA SrpKeepTwice ==
  ASSUME NEW s, NEW t, NEW u, SrpKeep(s, t), SrpKeep(t, u)
  PROVE  SrpKeep(s, u)
<1>1. \A j \in Slots : SlotKeep(s.attrs[j], u.attrs[j])
  BY DEF SrpKeep, SlotKeep
<1>2. \A j \in Slots : InUse(u, j) => InUse(t, j)
  BY Zenon DEF SrpKeep, SlotKeep, InUse
<1> QED BY <1>1, <1>2 DEF SrpKeep

\* ... of the world, too.
LEMMA WorldKeepTwice ==
  ASSUME NEW w, NEW v, NEW u, WorldKeep(w, v), WorldKeep(v, u)
  PROVE  WorldKeep(w, u)
<1>1. SrpKeep(w.srp, u.srp)
  BY SrpKeepTwice, Zenon DEF WorldKeep
<1>2. \A k \in Sink : /\ u.sink[k].state = w.sink[k].state
                      /\ u.sink[k].stream = w.sink[k].stream
                      /\ w.sink[k].state # "DISABLED" => u.sink[k].vlan = w.sink[k].vlan
  BY Zenon DEF WorldKeep
<1>3. \A x \in Source : /\ u.source[x].config = w.source[x].config
                        /\ u.source[x].state = "DISABLED" <=> w.source[x].state = "DISABLED"
                        /\ u.talker.stream[x].vlan \in {w.talker.stream[x].vlan, w.talker.vlan}
  BY Zenon DEF WorldKeep
<1>4. \A i \in Input :
       \/ u.owner[i] = w.owner[i]
       \/ \E x \in Source : /\ u.owner[i] = x /\ w.source[x].state # "DISABLED"
                            /\ i \in w.source[x].config.inputs
  BY <1>3, Zenon DEF WorldKeep
<1> QED BY <1>1, <1>2, <1>3, <1>4, Zenon DEF WorldKeep

\* A step that changes nothing is one.
LEMMA WorldKeepSame ==
  ASSUME NEW w
  PROVE  WorldKeep(w, w)
BY SrpStepSame DEF WorldKeep, SrpStep

-----------------------------------------------------------------------------
(***************************************************************************)
(* Indications                                                             *)
(***************************************************************************)

\* A stream is switched on or off.
LEMMA SwitchIs ==
  ASSUME NEW w \in WorldSet, NEW x \in Source, NEW b \in BOOLEAN
  PROVE  LET v == [w EXCEPT !.talker.stream[x].on = b]
         IN  /\ v \in WorldSet /\ v.srp = w.srp /\ v.sink = w.sink /\ v.source = w.source
             /\ v.owner = w.owner
             /\ v.talker.vlan = w.talker.vlan /\ v.talker.stream[x].vlan = w.talker.stream[x].vlan
             /\ v.talker.stream[x].on = b
             /\ \A y \in Source \ {x} : v.talker.stream[y] = w.talker.stream[y]
<1> DEFINE T == w.talker
           F == [T.stream EXCEPT ![x] = [@ EXCEPT !.on = b]]
           U == [T EXCEPT !.stream = F]
           v == [w EXCEPT !.talker = U]
<1>0. T \in TalkerSet
  BY DEF WorldSet
<1>1. /\ F \in [Source -> [inputs : SUBSET Input, vlan : Tags, on : BOOLEAN]]
      /\ F[x].vlan = T.stream[x].vlan /\ F[x].on = b
      /\ \A y \in Source \ {x} : F[y] = T.stream[y]
  BY <1>0 DEF TalkerSet
<1>2. [w EXCEPT !.talker.stream[x].on = b] = v
  OBVIOUS
<1> HIDE DEF F
<1>3. U \in TalkerSet /\ U.stream = F /\ U.vlan = T.vlan
  BY <1>0, <1>1 DEF TalkerSet
<1> HIDE DEF U
<1>4. /\ v \in WorldSet /\ v.srp = w.srp /\ v.sink = w.sink /\ v.source = w.source
      /\ v.owner = w.owner /\ v.talker = U
  BY <1>3, Zenon DEF WorldSet
<1> QED BY <1>1, <1>2, <1>3, <1>4, ZenonT(40)

\* A source starts: its inputs are its own, its packets get the unit's VLAN.
LEMMA StartIs ==
  ASSUME NEW w \in WorldSet, NEW x \in Source, w.source[x].state = "POTENTIAL"
  PROVE  LET v == SetSourceState(w, x, "ENABLED")
             ins == w.source[x].config.inputs
         IN  /\ v \in WorldSet
             /\ v.srp = w.srp /\ v.sink = w.sink
             /\ v.source = [w.source EXCEPT ![x].state = "ENABLED"]
             /\ \A i \in Input : v.owner[i] = IF i \in ins THEN x ELSE w.owner[i]
             /\ v.talker.vlan = w.talker.vlan
             /\ v.talker.stream[x].vlan = w.talker.vlan /\ v.talker.stream[x].on = TRUE
             /\ \A y \in Source \ {x} : v.talker.stream[y] = w.talker.stream[y]
<1> DEFINE ins == w.source[x].config.inputs
           r == [w EXCEPT !.source[x] = [w.source[x] EXCEPT !.state = "ENABLED"]]
           c == Configure(r, x)
           v == [c EXCEPT !.talker.stream[x].on = TRUE]
<1>0. ins \in SUBSET Input
  BY ManagerAssumption DEF WorldSet
<1>1. /\ r \in WorldSet /\ r.source = [w.source EXCEPT ![x].state = "ENABLED"]
      /\ r.source[x].state = "ENABLED" /\ r.source[x].config.inputs = ins
      /\ r.srp = w.srp /\ r.sink = w.sink /\ r.owner = w.owner /\ r.talker = w.talker
  BY ZenonT(40) DEF WorldSet, States
<1>2. SetSourceState(w, x, "ENABLED") = v
  BY <1>1, Zenon DEF SetSourceState, SetSource, UpdateSource
<1> HIDE DEF r, ins
<1>3. /\ c \in WorldSet /\ c.srp = r.srp /\ c.sink = r.sink /\ c.source = r.source
      /\ c.owner = [i \in Input |-> IF i \in ins THEN x ELSE w.owner[i]]
      /\ c.talker.vlan = w.talker.vlan /\ c.talker.stream[x].vlan = w.talker.vlan
      /\ \A y \in Source \ {x} : c.talker.stream[y] = w.talker.stream[y]
  BY <1>0, <1>1, Zenon DEF WorldSet, TalkerSet, Configure
<1> HIDE DEF c
<1>4. /\ v \in WorldSet /\ v.srp = c.srp /\ v.sink = c.sink /\ v.source = c.source
      /\ v.owner = c.owner
      /\ v.talker.vlan = c.talker.vlan /\ v.talker.stream[x].vlan = c.talker.stream[x].vlan
      /\ v.talker.stream[x].on = TRUE
      /\ \A y \in Source \ {x} : v.talker.stream[y] = c.talker.stream[y]
  BY <1>3, SwitchIs, ZenonT(40)
<1> HIDE DEF v
<1>5. \A i \in Input : v.owner[i] = IF i \in ins THEN x ELSE w.owner[i]
  BY <1>3, <1>4
<1> QED BY <1>1, <1>2, <1>3, <1>4, <1>5 DEF ins

\* A source stops.
LEMMA StopIs ==
  ASSUME NEW w \in WorldSet, NEW x \in Source, w.source[x].state = "ENABLED"
  PROVE  LET v == SetSourceState(w, x, "POTENTIAL")
         IN  /\ v \in WorldSet
             /\ v.srp = w.srp /\ v.sink = w.sink /\ v.owner = w.owner
             /\ v.source = [w.source EXCEPT ![x].state = "POTENTIAL"]
             /\ v.talker.vlan = w.talker.vlan
             /\ v.talker.stream[x].vlan = w.talker.stream[x].vlan
             /\ v.talker.stream[x].on = FALSE
             /\ \A y \in Source \ {x} : v.talker.stream[y] = w.talker.stream[y]
<1> DEFINE r == [w EXCEPT !.source[x] = [w.source[x] EXCEPT !.state = "POTENTIAL"]]
           v == [r EXCEPT !.talker.stream[x].on = FALSE]
<1>1. /\ r \in WorldSet /\ r.source = [w.source EXCEPT ![x].state = "POTENTIAL"]
      /\ r.source[x].state = "POTENTIAL"
      /\ r.srp = w.srp /\ r.sink = w.sink /\ r.owner = w.owner /\ r.talker = w.talker
  BY ZenonT(40) DEF WorldSet, States
<1>2. SetSourceState(w, x, "POTENTIAL") = v
  BY <1>1 DEF SetSourceState, SetSource, UpdateSource
<1> HIDE DEF r
<1>3. /\ v \in WorldSet /\ v.srp = r.srp /\ v.sink = r.sink /\ v.source = r.source
      /\ v.owner = r.owner
      /\ v.talker.vlan = r.talker.vlan /\ v.talker.stream[x].vlan = r.talker.stream[x].vlan
      /\ v.talker.stream[x].on = FALSE
      /\ \A y \in Source \ {x} : v.talker.stream[y] = r.talker.stream[y]
  BY <1>1, SwitchIs, Zenon
<1> QED BY <1>1, <1>2, <1>3, Zenon

\* The entry of an attribute's stream is the one the attribute points to.
LEMMA EntryOfAttr ==
  ASSUME WellOrdered, NEW s, NEW old, SrpInv(s, old), NEW j \in Slots, InUse(s, j)
  PROVE  /\ s.attrs[j].info \in Entries /\ StreamOf(s, j) \in Stream
         /\ s.table[s.attrs[j].info].id = StreamOf(s, j)
         /\ MatchEntry(s, StreamOf(s, j)) = s.attrs[j].info
<1>1. s \in SrpSet /\ Linked(s) /\ StreamOf(s, j) # NoStream
  BY Zenon DEF SrpInv, Linked
<1>2. s.attrs[j].info \in Entries /\ StreamOf(s, j) \in Stream
  BY <1>1, Sides
<1>3. s.table[s.attrs[j].info].id = StreamOf(s, j)
  BY DEF StreamOf
<1> QED BY <1>1, <1>2, <1>3, MatchEntryIs

\* What an indication leaves of the state of SRP.
Indicates(s, t) ==
  /\ t.attrs = s.attrs /\ t.vids = s.vids
  /\ \A e \in Entries : t.table[e].id = s.table[e].id

\* The table changes without its streams.
LEMMA IndicatesInv ==
  ASSUME NEW s, NEW old, SrpInv(s, old), NEW t \in SrpSet, Indicates(s, t),
         \A e \in Entries : t.table[e].bw => t.table[e].id \in Source
  PROVE  SrpInv(t, old) /\ SrpKeep(s, t) /\ \A x : HeardBy(t, x) <=> HeardBy(s, x)
<1>0. s \in SrpSet /\ Linked(s)
  BY DEF SrpInv
<1>1. \A i \in Slots : StreamOf(t, i) = StreamOf(s, i)
  BY <1>0, Sides, Zenon DEF StreamOf, Indicates
<1>2. \A i \in Slots : (InUse(t, i) <=> InUse(s, i)) /\ (IsListener(t, i) <=> IsListener(s, i))
  BY DEF InUse, IsListener, Indicates
<1>3. Linked(t)
  BY <1>0, <1>1, <1>2 DEF Linked, Indicates
<1>4. SrpInv(t, old)
  BY <1>1, <1>2, <1>3, Zenon DEF SrpInv, Excused, Indicates
<1>5. SrpKeep(s, t)
  BY <1>1, SlotStepSame, Zenon DEF SrpKeep, SlotStep, Indicates
<1>6. \A x : HeardBy(t, x) <=> HeardBy(s, x)
  BY <1>1, <1>2 DEF HeardBy, Indicates
<1> QED BY <1>4, <1>5, <1>6

\* Bandwidth is reserved and given back.
LEMMA ReserveIs ==
  ASSUME NEW s, NEW old, SrpInv(s, old), NEW e \in Entries
  PROVE  /\ Reserve(s, e) \in SrpSet /\ Indicates(s, Reserve(s, e))
         /\ \A f \in Entries : Reserve(s, e).table[f].bw => s.table[f].bw \/ f = e
         /\ Unreserve(s, e) \in SrpSet /\ Indicates(s, Unreserve(s, e))
         /\ \A f \in Entries : Unreserve(s, e).table[f].bw => s.table[f].bw /\ f # e
<1>0. s \in SrpSet /\ s.table \in [Entries -> EntrySet] /\ s.bandwidth \in Int
  BY DEF SrpInv, SrpSet
<1>1. Bandwidth(s.table[e].size) \in Int
  BY <1>0 DEF Bandwidth, EntrySet
<1>2. ASSUME NEW b \in BOOLEAN, NEW n \in Int
      PROVE  LET t == [s EXCEPT !.table[e].bw = b, !.bandwidth = n]
             IN  /\ t \in SrpSet /\ Indicates(s, t)
                 /\ t.table[e].bw = b /\ \A f \in Entries \ {e} : t.table[f].bw = s.table[f].bw
  <2> DEFINE T == [s.table EXCEPT ![e].bw = b]
             t == [s EXCEPT !.table = T, !.bandwidth = n]
  <2>1. /\ T \in [Entries -> EntrySet] /\ T[e].bw = b
        /\ \A f \in Entries : T[f].id = s.table[f].id
        /\ \A f \in Entries \ {e} : T[f].bw = s.table[f].bw
    BY <1>0 DEF EntrySet
  <2> HIDE DEF T
  <2>2. t \in SrpSet /\ t.table = T /\ t.attrs = s.attrs /\ t.vids = s.vids
    BY <1>0, <2>1, Zenon DEF SrpSet
  <2>3. t = [s EXCEPT !.table[e].bw = b, !.bandwidth = n]
    BY DEF T
  <2> HIDE DEF t
  <2> QED BY <2>1, <2>2, <2>3 DEF Indicates
<1>3. Indicates(s, s)
  BY DEF Indicates
<1>4. CASE s.table[e].bw
  <2>1. Reserve(s, e) = s
    BY <1>4 DEF Reserve
  <2> DEFINE n == s.bandwidth - Bandwidth(s.table[e].size)
             t == Unreserve(s, e)
  <2>2. t = [s EXCEPT !.table[e].bw = FALSE, !.bandwidth = n]
    BY <1>4 DEF Unreserve
  <2>3. n \in Int
    BY <1>0, <1>1
  <2> HIDE DEF n, t
  <2>4. /\ t \in SrpSet /\ Indicates(s, t)
        /\ t.table[e].bw = FALSE /\ \A f \in Entries \ {e} : t.table[f].bw = s.table[f].bw
    BY <1>2, <2>2, <2>3, Zenon
  <2> QED BY <1>0, <1>3, <2>1, <2>4, Zenon DEF t
<1>5. CASE ~s.table[e].bw
  <2>1. Unreserve(s, e) = s
    BY <1>5 DEF Unreserve
  <2> DEFINE n == s.bandwidth + Bandwidth(s.table[e].size)
             t == Reserve(s, e)
  <2>2. t = [s EXCEPT !.table[e].bw = TRUE, !.bandwidth = n]
    BY <1>5 DEF Reserve
  <2>3. n \in Int
    BY <1>0, <1>1
  <2>4. \A f \in Entries : s.table[f].bw => f # e
    BY <1>5
  <2> HIDE DEF n, t
  <2>5. /\ t \in SrpSet /\ Indicates(s, t)
        /\ \A f \in Entries \ {e} : t.table[f].bw = s.table[f].bw
    BY <1>2, <2>2, <2>3, Zenon
  <2> QED BY <1>0, <1>3, <2>1, <2>4, <2>5, Zenon DEF t
<1> QED BY <1>4, <1>5, Zenon

\* A world in which only SRP has changed, by an indication.
LEMMA IndicatesWorld ==
  ASSUME NEW w, NEW old, WorldInv(w, old), NEW t \in SrpSet, Indicates(w.srp, t),
         \A e \in Entries : t.table[e].bw =>
           \/ w.srp.table[e].bw
           \/ t.table[e].id \in Source /\ (HeardBy(w.srp, t.table[e].id) \/ t.table[e].id \in old)
  PROVE  LET v == [w EXCEPT !.srp = t]
         IN  WorldInv(v, old) /\ WorldKeep(w, v) /\ v.srp = t
<1> DEFINE v == [w EXCEPT !.srp = t]
<1>0. w \in WorldSet /\ SrpInv(w.srp, old) /\ Streams(w, old)
  BY DEF WorldInv
<1>1. /\ v \in WorldSet /\ v.srp = t /\ v.source = w.source /\ v.sink = w.sink
      /\ v.owner = w.owner /\ v.talker = w.talker
  BY <1>0, Zenon DEF WorldSet
<1> HIDE DEF v
<1>2. \A e \in Entries : t.table[e].bw => t.table[e].id \in Source
  BY <1>0, Zenon DEF SrpInv, Linked, Indicates
<1>3. SrpInv(t, old) /\ SrpKeep(w.srp, t) /\ \A x : HeardBy(t, x) <=> HeardBy(w.srp, x)
  BY <1>0, <1>2, IndicatesInv, Zenon
<1>4. Streams(v, old)
  BY <1>0, <1>1, <1>3 DEF Streams, Indicates
<1>5. WorldKeep(w, v)
  BY <1>1, <1>3, Zenon DEF WorldKeep
<1> QED BY <1>1, <1>3, <1>4, <1>5 DEF WorldInv, v

\* A source with a listener starts.
LEMMA StartWorld ==
  ASSUME NEW w, NEW old, WorldInv(w, old), NEW x \in Source, w.source[x].state = "POTENTIAL",
         HeardBy(w.srp, x)
  PROVE  LET v == SetSourceState(w, x, "ENABLED")
         IN  WorldInv(v, old) /\ WorldKeep(w, v) /\ v.srp = w.srp
<1> DEFINE v == SetSourceState(w, x, "ENABLED")
           ins == w.source[x].config.inputs
<1>0. w \in WorldSet /\ SrpInv(w.srp, old) /\ Streams(w, old)
  BY DEF WorldInv
<1>1. /\ v \in WorldSet
      /\ v.srp = w.srp /\ v.sink = w.sink
      /\ v.source = [w.source EXCEPT ![x].state = "ENABLED"]
      /\ \A i \in Input : v.owner[i] = IF i \in ins THEN x ELSE w.owner[i]
      /\ v.talker.vlan = w.talker.vlan
      /\ v.talker.stream[x].vlan = w.talker.vlan /\ v.talker.stream[x].on = TRUE
      /\ \A y \in Source \ {x} : v.talker.stream[y] = w.talker.stream[y]
  BY <1>0, StartIs, Zenon
<1> HIDE DEF v
<1>2. /\ v.source[x].state = "ENABLED"
      /\ \A y \in Source : v.source[y].config = w.source[y].config
      /\ \A y \in Source \ {x} : v.source[y] = w.source[y]
  BY <1>0, <1>1 DEF WorldSet
<1>3. Streams(v, old)
  BY <1>0, <1>1, <1>2, Zenon DEF Streams
<1>4. SrpKeep(w.srp, v.srp)
  BY <1>1, SrpStepSame, Zenon DEF SrpStep
<1>5. WorldKeep(w, v)
  BY <1>1, <1>2, <1>4 DEF WorldKeep
<1> QED BY <1>0, <1>1, <1>3, <1>5, Zenon DEF WorldInv, v

\* A source stops.
LEMMA StopWorld ==
  ASSUME NEW w, NEW old, WorldInv(w, old), NEW x \in Source, w.source[x].state = "ENABLED"
  PROVE  LET v == SetSourceState(w, x, "POTENTIAL")
         IN  /\ WorldInv(v, old) /\ WorldKeep(w, v) /\ v.srp = w.srp
             /\ v.source[x].state = "POTENTIAL"
<1> DEFINE v == SetSourceState(w, x, "POTENTIAL")
<1>0. w \in WorldSet /\ SrpInv(w.srp, old) /\ Streams(w, old)
  BY DEF WorldInv
<1>1. /\ v \in WorldSet
      /\ v.srp = w.srp /\ v.sink = w.sink /\ v.owner = w.owner
      /\ v.source = [w.source EXCEPT ![x].state = "POTENTIAL"]
      /\ v.talker.vlan = w.talker.vlan
      /\ v.talker.stream[x].vlan = w.talker.stream[x].vlan
      /\ v.talker.stream[x].on = FALSE
      /\ \A y \in Source \ {x} : v.talker.stream[y] = w.talker.stream[y]
  BY <1>0, StopIs, Zenon
<1> HIDE DEF v
<1>2. /\ v.source[x].state = "POTENTIAL"
      /\ \A y \in Source : v.source[y].config = w.source[y].config
      /\ \A y \in Source \ {x} : v.source[y] = w.source[y]
  BY <1>0, <1>1 DEF WorldSet
<1>3. Streams(v, old)
  BY <1>0, <1>1, <1>2 DEF Streams
<1>4. SrpKeep(w.srp, v.srp)
  BY <1>1, SrpStepSame, Zenon DEF SrpStep
<1>5. WorldKeep(w, v)
  BY <1>1, <1>2, <1>4, Zenon DEF WorldKeep
<1> QED BY <1>0, <1>1, <1>2, <1>3, <1>5, Zenon DEF WorldInv, v

\* The attributes and the streams they are of stay.
SameAttrs(w, v) ==
  v.srp.attrs = w.srp.attrs /\ \A j \in Slots : StreamOf(v.srp, j) = StreamOf(w.srp, j)

\* ... when an indication leaves them.
LEMMA IndicatesSame ==
  ASSUME NEW w, NEW old, WorldInv(w, old), NEW v, Indicates(w.srp, v.srp)
  PROVE  SameAttrs(w, v)
<1>1. w.srp \in SrpSet
  BY DEF WorldInv, SrpInv
<1> QED BY <1>1, Sides, Zenon DEF SameAttrs, Indicates, StreamOf

\* send_join_indication.
LEMMA JoinIndStep ==
  ASSUME WellOrdered, NEW w, NEW old, WorldInv(w, old), NEW j \in Slots, InUse(w.srp, j),
         "JOIN" \in w.srp.attrs[j].pending \/ "JOIN_NEW" \in w.srp.attrs[j].pending
  PROVE  LET v == JoinInd(w, j)
         IN  WorldInv(v, old) /\ WorldKeep(w, v) /\ SameAttrs(w, v)
<1> DEFINE x == StreamOf(w.srp, j)
           e == w.srp.attrs[j].info
           t == Reserve(w.srp, e)
           r == [w EXCEPT !.srp = t]
           starts == /\ w.source[x].state = "POTENTIAL"
                     /\ w.srp.attrs[j].four \in {"READY", "READY_FAILED"}
<1>0. w \in WorldSet /\ SrpInv(w.srp, old) /\ Streams(w, old)
  BY DEF WorldInv
<1>1. e \in Entries /\ x \in Stream /\ w.srp.table[e].id = x /\ MatchEntry(w.srp, x) = e
  BY <1>0, EntryOfAttr, Zenon
<1>2. SameAttrs(w, w)
  BY DEF SameAttrs
<1>3. CASE w.srp.attrs[j].type # "LISTENER" \/ x \notin Source \/ MatchType(w.srp, "ADVERTISE", x) = 0
  <2>1. JoinInd(w, j) = w
    BY <1>3, Zenon DEF JoinInd, ListenerJoinInd
  <2> QED BY <1>2, <2>1, WorldKeepSame
<1>4. CASE w.srp.attrs[j].type = "LISTENER" /\ x \in Source /\ MatchType(w.srp, "ADVERTISE", x) # 0
  <2>1. IsListener(w.srp, j) /\ Excused(w.srp, j, old)
    BY <1>0, <1>4, Zenon DEF IsListener, SrpInv
  <2>2. HeardBy(w.srp, x) \/ (x \in old /\ w.srp.attrs[j].four = "IGNORE")
    BY <2>1, Zenon DEF Excused, Clean, HeardBy
  <2>3. t \in SrpSet /\ Indicates(w.srp, t)
        /\ \A f \in Entries : t.table[f].bw => w.srp.table[f].bw \/ f = e
    BY <1>0, <1>1, ReserveIs, ZenonT(40)
  <2>4. t.table[e].id = x
    BY <1>1, <2>3, Zenon DEF Indicates
  <2>5. WorldInv(r, old) /\ WorldKeep(w, r) /\ r.srp = t
    <3> HIDE DEF t, x, e
    <3> QED BY <1>4, <2>2, <2>3, <2>4, IndicatesWorld
  <2>6. r.source = w.source /\ SameAttrs(w, r)
    <3>1. r.source = w.source
      BY <1>0 DEF WorldSet
    <3> QED BY <2>3, <2>5, <3>1, IndicatesSame, Zenon
  <2>7. JoinInd(w, j) = IF starts THEN SetSourceState(r, x, "ENABLED") ELSE r
    BY <1>1, <1>4, Zenon DEF JoinInd, ListenerJoinInd
  <2> HIDE DEF r
  <2>8. CASE starts
    <3>1. HeardBy(r.srp, x)
      <4>1. HeardBy(w.srp, x)
        BY <2>2, <2>8, Zenon
      <4>2. \A f \in Entries : t.table[f].bw => t.table[f].id \in Source
        BY <2>5, Zenon DEF WorldInv, SrpInv, Linked
      <4> HIDE DEF t, x, e
      <4>3. HeardBy(t, x) <=> HeardBy(w.srp, x)
        BY <1>0, <2>3, <4>2, IndicatesInv, Zenon
      <4> QED BY <2>5, <4>1, <4>3, Zenon
    <3>2. LET v == SetSourceState(r, x, "ENABLED")
          IN  WorldInv(v, old) /\ WorldKeep(r, v) /\ v.srp = r.srp
      BY <1>4, <2>5, <2>6, <2>8, <3>1, StartWorld, Zenon
    <3> QED BY <2>5, <2>6, <2>7, <2>8, <3>2, WorldKeepTwice DEF SameAttrs
  <2>9. CASE ~starts
    BY <2>5, <2>6, <2>7, <2>9, Zenon
  <2> QED BY <2>8, <2>9, Zenon
<1> QED BY <1>3, <1>4, Zenon

\* No stream is on, or reserved.
Silent(w, x) ==
  /\ x \in Source => w.source[x].state # "ENABLED"
  /\ \A e \in Entries : w.srp.table[e].id = x => ~w.srp.table[e].bw

\* send_leave_indication: afterwards the stream is silent.
LEMMA LeaveIndStep ==
  ASSUME WellOrdered, NEW w, NEW old, WorldInv(w, old), NEW j \in Slots, InUse(w.srp, j)
  PROVE  LET v == LeaveInd(w, j)
         IN  /\ WorldInv(v, old) /\ WorldKeep(w, v) /\ SameAttrs(w, v)
             /\ IsListener(w.srp, j) => Silent(v, StreamOf(w.srp, j))
<1> DEFINE x == StreamOf(w.srp, j)
           e == w.srp.attrs[j].info
           t == Unreserve(w.srp, e)
           r == [w EXCEPT !.srp = t]
<1>0. w \in WorldSet /\ SrpInv(w.srp, old) /\ Streams(w, old)
  BY DEF WorldInv
<1>1. e \in Entries /\ x \in Stream /\ w.srp.table[e].id = x /\ MatchEntry(w.srp, x) = e
  BY <1>0, EntryOfAttr, Zenon
<1>2. SameAttrs(w, w)
  BY DEF SameAttrs
<1>3. CASE w.srp.attrs[j].type = "LISTENER" /\ x \notin Source
  <2>1. LeaveInd(w, j) = w
    BY <1>3 DEF LeaveInd, ListenerLeaveInd
  <2>2. Silent(w, x)
    BY <1>0, <1>3, Zenon DEF Silent, SrpInv, Linked
  <2> QED BY <1>2, <2>1, <2>2, WorldKeepSame
<1>4. CASE w.srp.attrs[j].type = "LISTENER" /\ x \in Source
  <2>1. t \in SrpSet /\ Indicates(w.srp, t)
        /\ \A f \in Entries : t.table[f].bw => w.srp.table[f].bw /\ f # e
    <3> HIDE DEF e
    <3> QED BY <1>0, <1>1, ReserveIs
  <2>2. WorldInv(r, old) /\ WorldKeep(w, r) /\ r.srp = t
    <3> HIDE DEF t
    <3> QED BY <2>1, IndicatesWorld, Zenon
  <2>3. r.source = w.source /\ SameAttrs(w, r)
    <3>1. r.source = w.source
      BY <1>0 DEF WorldSet
    <3> QED BY <2>1, <2>2, <3>1, IndicatesSame, Zenon
  <2>4. \A f \in Entries : t.table[f].id = x => ~t.table[f].bw
    <3>1. \A f \in Entries : w.srp.table[f].id = x => f = e
      BY <1>0, <1>1, SrpAssumption, Zenon DEF SrpInv, Linked
    <3> QED BY <2>1, <3>1, Zenon DEF Indicates
  <2>5. LeaveInd(w, j) = IF w.source[x].state = "ENABLED" THEN SetSourceState(r, x, "POTENTIAL") ELSE r
    BY <1>1, <1>4, Zenon DEF LeaveInd, ListenerLeaveInd
  <2> HIDE DEF r, t
  <2>6. CASE w.source[x].state = "ENABLED"
    <3>1. LET v == SetSourceState(r, x, "POTENTIAL")
          IN  /\ WorldInv(v, old) /\ WorldKeep(r, v) /\ v.srp = r.srp
              /\ v.source[x].state = "POTENTIAL"
      BY <1>4, <2>2, <2>3, <2>6, StopWorld, Zenon
    <3> QED BY <2>2, <2>3, <2>4, <2>5, <2>6, <3>1, WorldKeepTwice DEF SameAttrs, Silent
  <2>7. CASE w.source[x].state # "ENABLED"
    BY <2>2, <2>3, <2>4, <2>5, <2>7, Zenon DEF Silent
  <2> QED BY <2>6, <2>7, Zenon
<1>5. CASE w.srp.attrs[j].type = "ADVERTISE"
  <2> DEFINE T == [w.srp.table EXCEPT ![e].talker = FALSE]
             s == [w.srp EXCEPT !.table = T]
             v == [w EXCEPT !.srp = s]
  <2>1. LeaveInd(w, j) = v
    BY <1>5 DEF LeaveInd, TalkerLeaveInd
  <2>2. /\ T \in [Entries -> EntrySet]
        /\ \A f \in Entries : T[f].id = w.srp.table[f].id /\ T[f].bw = w.srp.table[f].bw
    <3>1. w.srp.table \in [Entries -> EntrySet]
      BY <1>0, Zenon DEF SrpInv, SrpSet
    <3> HIDE DEF e
    <3> QED BY <1>1, <3>1, ZenonT(40) DEF EntrySet
  <2> HIDE DEF T
  <2>3. s \in SrpSet /\ s.table = T /\ Indicates(w.srp, s)
    BY <1>0, <2>2, Zenon DEF SrpInv, SrpSet, Indicates
  <2> HIDE DEF s
  <2>4. WorldInv(v, old) /\ WorldKeep(w, v) /\ v.srp = s
    BY <2>2, <2>3, IndicatesWorld
  <2> HIDE DEF v
  <2>5. ~IsListener(w.srp, j)
    BY <1>5 DEF IsListener
  <2> QED BY <2>1, <2>3, <2>4, <2>5, IndicatesSame, Zenon
<1>6. CASE w.srp.attrs[j].type \notin {"LISTENER", "ADVERTISE"}
  <2>1. LeaveInd(w, j) = w /\ ~IsListener(w.srp, j)
    BY <1>6, Zenon DEF LeaveInd, IsListener
  <2> QED BY <1>2, <2>1, WorldKeepSame
<1> QED BY <1>3, <1>4, <1>5, <1>6, Zenon

\* The pending indications of a slot are cleared.
LEMMA ClearStep ==
  ASSUME NEW w, NEW old, WorldInv(w, old), NEW j \in Slots,
         IsListener(w.srp, j) /\ "LEAVE" \in w.srp.attrs[j].pending
           => Silent(w, StreamOf(w.srp, j))
  PROVE  LET v == [w EXCEPT !.srp.attrs[j].pending = {}]
         IN  /\ WorldInv(v, old) /\ WorldKeep(w, v)
             /\ v.srp.attrs = [w.srp.attrs EXCEPT ![j].pending = {}]
<1> DEFINE s == w.srp
           A == [s.attrs EXCEPT ![j].pending = {}]
           t == [s EXCEPT !.attrs = A]
           v == [w EXCEPT !.srp = t]
<1>0. w \in WorldSet /\ SrpInv(s, old) /\ Streams(w, old) /\ s \in SrpSet /\ Linked(s)
  BY Zenon DEF WorldInv, SrpInv
<1>1. /\ A \in [Slots -> AttrSet] /\ \A i \in Slots \ {j} : A[i] = s.attrs[i]
      /\ A[j] = [s.attrs[j] EXCEPT !.pending = {}]
  <2>1. s.attrs \in [Slots -> AttrSet]
    BY <1>0, Zenon DEF SrpSet
  <2> QED BY <2>1 DEF AttrSet
<1> HIDE DEF A
<1>2. /\ A[j].type = s.attrs[j].type /\ A[j].app = s.attrs[j].app /\ A[j].reg = s.attrs[j].reg
      /\ A[j].timer = s.attrs[j].timer /\ A[j].pending = {} /\ A[j].four = s.attrs[j].four
      /\ A[j].here = s.attrs[j].here /\ A[j].remove = s.attrs[j].remove
      /\ A[j].info = s.attrs[j].info
  BY <1>0, <1>1, Sides DEF AttrSet
<1>3. t \in SrpSet /\ t.attrs = A /\ t.table = s.table /\ t.vids = s.vids
  BY <1>0, <1>1, Zenon DEF SrpSet
<1>4. v = [w EXCEPT !.srp.attrs[j].pending = {}]
  BY DEF A
<1> HIDE DEF t
<1>5. /\ v \in WorldSet /\ v.srp = t /\ v.source = w.source /\ v.sink = w.sink
      /\ v.owner = w.owner /\ v.talker = w.talker
  BY <1>0, <1>3, Zenon DEF WorldSet
<1> HIDE DEF v, s
<1>6. \A i \in Slots : /\ StreamOf(t, i) = StreamOf(s, i) /\ (InUse(t, i) <=> InUse(s, i))
                       /\ IsListener(t, i) <=> IsListener(s, i)
  BY <1>1, <1>2, <1>3, ZenonT(40) DEF StreamOf, InUse, IsListener
<1>7. SrpInv(t, old)
  <2>1. ASSUME NEW i \in Slots PROVE AttrOK(t.attrs[i])
    <3>1. AttrOK(s.attrs[i])
      BY <1>0, Zenon DEF SrpInv
    <3>2. CASE i = j
      BY <1>2, <1>3, <3>1, <3>2, Zenon DEF AttrOK
    <3>3. CASE i # j
      BY <1>1, <1>3, <3>1, <3>3
    <3> QED BY <3>2, <3>3
  <2>2. Linked(t)
    BY <1>0, <1>3, <1>6 DEF Linked
  <2>3. ASSUME NEW i \in Slots, IsListener(t, i) PROVE Excused(t, i, old)
    <3>1. CASE i = j
      BY <1>2, <1>3, <3>1, Zenon DEF Excused, Clean
    <3>2. CASE i # j
      BY <1>0, <1>1, <1>3, <1>6, <2>3, <3>2 DEF SrpInv, Excused
    <3> QED BY <3>1, <3>2, Zenon
  <2> QED BY <1>3, <2>1, <2>2, <2>3, Zenon DEF SrpInv
<1>8. SrpKeep(s, t)
  <2>1. \A i \in Slots : SlotKeep(s.attrs[i], t.attrs[i])
    BY <1>1, <1>2, <1>3, SlotStepSame, ZenonT(40) DEF SlotKeep, SlotStep
  <2> QED BY <1>3, <1>6, <2>1, Zenon DEF SrpKeep
<1>9. ASSUME NEW x, HeardBy(s, x), ~Silent(w, x) PROVE HeardBy(t, x)
  <2>1. PICK i \in Slots : IsListener(s, i) /\ StreamOf(s, i) = x /\ Holds(s.attrs[i])
    BY <1>9, Zenon DEF HeardBy
  <2>2. Holds(t.attrs[i])
    BY <1>1, <1>2, <1>3, <1>9, <2>1, Zenon DEF Holds, s
  <2> QED BY <1>6, <2>1, <2>2, Zenon DEF HeardBy
<1>10. Streams(v, old)
  <2>1. \A x \in Source : /\ v.talker.stream[x].on <=> v.source[x].state = "ENABLED"
                          /\ v.source[x].state = "ENABLED" => HeardBy(v.srp, x)
    BY <1>0, <1>5, <1>9, Zenon DEF Streams, Silent, s
  <2>2. \A e \in Entries :
       v.srp.table[e].bw => HeardBy(v.srp, v.srp.table[e].id) \/ v.srp.table[e].id \in old
    BY <1>0, <1>3, <1>5, <1>9, Zenon DEF Streams, Silent, s
  <2> QED BY <2>1, <2>2, Zenon DEF Streams
<1>11. WorldKeep(w, v)
  BY <1>5, <1>8, Zenon DEF WorldKeep, s
<1> QED BY <1>3, <1>4, <1>5, <1>7, <1>10, <1>11, Zenon DEF WorldInv, A, s

\* The indications of a slot: joins before the leave, so that no stream stays on
\* or reserved after the last of its listeners has left.
LEMMA IndicatedStep ==
  ASSUME WellOrdered, NEW w, NEW old, WorldInv(w, old), NEW j \in Slots, InUse(w.srp, j)
  PROVE  LET v == Indicated(w, j)
         IN  /\ WorldInv(v, old) /\ WorldKeep(w, v)
             /\ v.srp.attrs = [w.srp.attrs EXCEPT ![j].pending = {}]
<1> DEFINE p == w.srp.attrs[j].pending
           Good(v) == WorldInv(v, old) /\ WorldKeep(w, v) /\ SameAttrs(w, v)
           w1 == IF "JOIN_NEW" \in p THEN JoinInd(w, j) ELSE w
           w2 == IF "JOIN" \in p THEN JoinInd(w1, j) ELSE w1
           w3 == IF "LEAVE" \in p THEN LeaveInd(w2, j) ELSE w2
           w4 == [w3 EXCEPT !.srp.attrs[j].pending = {}]
<1>1. Good(w)
  BY WorldKeepSame DEF SameAttrs
<1>2. ASSUME NEW v, Good(v), "JOIN" \in p \/ "JOIN_NEW" \in p PROVE Good(JoinInd(v, j))
  <2>1. v.srp.attrs[j].pending = p /\ InUse(v.srp, j)
    BY <1>2 DEF SameAttrs, InUse
  <2>2. LET u == JoinInd(v, j) IN WorldInv(u, old) /\ WorldKeep(v, u) /\ SameAttrs(v, u)
    <3> HIDE DEF p
    <3> QED BY <1>2, <2>1, JoinIndStep
  <2> QED BY <1>2, <2>2, WorldKeepTwice, Zenon DEF SameAttrs
<1>3. ASSUME NEW v, Good(v)
      PROVE  /\ Good(LeaveInd(v, j))
             /\ IsListener(w.srp, j) => Silent(LeaveInd(v, j), StreamOf(w.srp, j))
  <2>1. InUse(v.srp, j) /\ StreamOf(v.srp, j) = StreamOf(w.srp, j)
        /\ (IsListener(v.srp, j) <=> IsListener(w.srp, j))
    BY <1>3 DEF SameAttrs, InUse, IsListener
  <2>2. LET u == LeaveInd(v, j)
        IN  /\ WorldInv(u, old) /\ WorldKeep(v, u) /\ SameAttrs(v, u)
            /\ IsListener(v.srp, j) => Silent(u, StreamOf(v.srp, j))
    BY <1>3, <2>1, LeaveIndStep
  <2> QED BY <1>3, <2>1, <2>2, WorldKeepTwice, Zenon DEF SameAttrs
<1>4. Indicated(w, j) = w4
  BY DEF Indicated
<1> HIDE DEF p, Good
<1>5. Good(w1)
  BY <1>1, <1>2
<1> HIDE DEF w1
<1>6. Good(w2)
  BY <1>2, <1>5
<1> HIDE DEF w2
<1>7. Good(w3) /\ (IsListener(w.srp, j) /\ "LEAVE" \in p => Silent(w3, StreamOf(w.srp, j)))
  BY <1>3, <1>6
<1> HIDE DEF w3
<1>8. /\ WorldInv(w3, old) /\ WorldKeep(w, w3) /\ w3.srp.attrs = w.srp.attrs
      /\ StreamOf(w3.srp, j) = StreamOf(w.srp, j)
  BY <1>7 DEF Good, SameAttrs
<1>9. IsListener(w3.srp, j) /\ "LEAVE" \in w3.srp.attrs[j].pending => Silent(w3, StreamOf(w3.srp, j))
  BY <1>7, <1>8, Zenon DEF IsListener, InUse, p
<1>10. /\ WorldInv(w4, old) /\ WorldKeep(w3, w4)
       /\ w4.srp.attrs = [w3.srp.attrs EXCEPT ![j].pending = {}]
  BY <1>8, <1>9, ClearStep, Zenon
<1> HIDE DEF w4
<1> QED BY <1>4, <1>8, <1>10, WorldKeepTwice, Zenon

-----------------------------------------------------------------------------
(***************************************************************************)
(* The pass over the slots                                                 *)
(***************************************************************************)
\* A talker's attribute changes its type, its entry what it says of the talker.
ConvertAs(w, j, type, talks, code) ==
  [w EXCEPT !.srp.attrs[j] = Rejoined([w.srp.attrs[j] EXCEPT !.type = type]),
            !.srp.table[w.srp.attrs[j].info].talker = talks,
            !.srp.table[w.srp.attrs[j].info].code = code]

\* A step of the pass that leaves the registrars alone.
Unregistering(w, v, j, old) ==
  /\ WorldInv(v, old) /\ WorldKeep(w, v) /\ InUse(v.srp, j)
  /\ \A i \in Slots : v.srp.attrs[i].reg = w.srp.attrs[i].reg

\* ... and that is one.
LEMMA ConvertedAs ==
  ASSUME NEW w, NEW old, WorldInv(w, old), NEW j \in Slots, IsTalker(w.srp, j),
         NEW type \in TalkerTypes, NEW talks \in BOOLEAN, NEW code \in FailureCodes
  PROVE  Unregistering(w, ConvertAs(w, j, type, talks, code), j, old)
<1> DEFINE s == w.srp
           st == s.attrs[j]
           e == st.info
           r == [st EXCEPT !.type = type]
           u == Rejoined(r)
           T == [s.table EXCEPT ![e] = [@ EXCEPT !.talker = talks, !.code = code]]
           s1 == [s EXCEPT !.table = T]
           s2 == [s1 EXCEPT !.attrs[j] = u]
           v == [w EXCEPT !.srp.attrs[j] = u,
                          !.srp.table[e].talker = talks, !.srp.table[e].code = code]
<1>0. w \in WorldSet /\ SrpInv(s, old) /\ s \in SrpSet /\ st \in AttrSet /\ AttrOK(st)
      /\ e \in Entries /\ st.app # "UNUSED" /\ st.type \in TalkerTypes
  BY Sides, Zenon DEF WorldInv, SrpInv, IsTalker, InUse
<1>1. /\ r \in AttrSet /\ r.type = type /\ r.app = st.app /\ r.info = st.info
      /\ r.reg = st.reg /\ r.timer = st.timer /\ r.pending = st.pending /\ r.four = st.four
      /\ r.here = st.here /\ r.remove = st.remove
  <2> HIDE DEF st
  <2> QED BY <1>0 DEF AttrSet, StreamTypes
<1> HIDE DEF r
<1>2. u \in {r, [r EXCEPT !.remove = FALSE, !.app = "VN"]}
  BY <1>1, DeclaredIs, Zenon DEF Rejoined, DeclaredIf
<1> HIDE DEF u
<1>3. /\ u \in AttrSet /\ u.type = type /\ (u.app = st.app \/ u.app = "VN") /\ u.info = st.info
      /\ u.reg = st.reg /\ u.timer = st.timer /\ u.pending = st.pending /\ u.four = st.four
      /\ u.remove => st.remove
  <2> HIDE DEF st
  <2> QED BY <1>1, <1>2, Zenon DEF AttrSet, Apps
<1>4. AttrOK(u) /\ SlotStep(st, u)
  <2> HIDE DEF st
  <2> QED BY <1>0, <1>3, Zenon DEF AttrOK, SlotStep, SlotKeep, Holds, Clean, TalkerTypes
<1>5. /\ T \in [Entries -> EntrySet]
      /\ \A f \in Entries : T[f].id = s.table[f].id /\ (T[f].bw => s.table[f].bw)
  <2>1. s.table \in [Entries -> EntrySet]
    BY <1>0, Zenon DEF SrpSet
  <2> HIDE DEF s, e
  <2> QED BY <1>0, <2>1, ZenonT(40) DEF EntrySet
<1> HIDE DEF T
<1>6. SrpInv(s1, old) /\ SrpStep(s, s1)
  BY <1>0, <1>5, SetTable, Zenon
<1>7. s1.attrs = s.attrs
  BY <1>0, Zenon DEF SrpSet
<1> HIDE DEF s1
<1>8. SrpInv(s2, old) /\ SrpStep(s1, s2)
  BY <1>3, <1>4, <1>6, <1>7, SetAttr, Zenon
<1>9. s2.attrs = [s.attrs EXCEPT ![j] = u]
  BY <1>6, <1>7 DEF SrpInv, SrpSet
<1>10. v = [w EXCEPT !.srp = s2]
  <2> DEFINE sA == [s EXCEPT !.attrs[j] = u]
             sB == [sA EXCEPT !.table[e].talker = talks]
             sC == [sB EXCEPT !.table[e].code = code]
             q1 == [w EXCEPT !.srp = sA]
             q2 == [q1 EXCEPT !.srp = sB]
             q3 == [q2 EXCEPT !.srp = sC]
  <2>1. /\ sA \in SrpSet /\ sB.attrs = sA.attrs /\ sC.attrs = sB.attrs /\ sA.table = s.table
        /\ sB = [sA EXCEPT !.table = [s.table EXCEPT ![e].talker = talks]]
    <3> HIDE DEF s, e
    <3> QED BY <1>0, <1>3, Zenon DEF SrpSet
  <2>2. sC = s2
    <3>1. sC = [sA EXCEPT !.table = T]
      <4>1. sB.table = [s.table EXCEPT ![e].talker = talks]
        <5> HIDE DEF sA, sB, s, e
        <5> QED BY <2>1 DEF SrpSet
      <4>2. s.table \in [Entries -> EntrySet]
        BY <1>0, Zenon DEF SrpSet
      <4>3. [sB.table EXCEPT ![e].code = code] = T
        <5> HIDE DEF sB, s, e
        <5> QED BY <1>0, <4>1, <4>2, Zenon DEF T, EntrySet
      <4>4. sC = [sB EXCEPT !.table = T]
        <5> HIDE DEF sB, s, e
        <5> QED BY <4>3
      <4> HIDE DEF sB, sA, s, e, sC
      <4> QED BY <2>1, <4>4, Zenon DEF SrpSet
    <3> HIDE DEF sB, sC, s, e
    <3> QED BY <1>0, <3>1, Zenon DEF s1, s2, SrpSet
  <2>3. q1.srp = sA /\ q2.srp = sB /\ q3 = [w EXCEPT !.srp = sC]
    <3> HIDE DEF sA, sB, sC, s
    <3> QED BY <1>0, Zenon DEF WorldSet
  <2>4. /\ q1 = [w EXCEPT !.srp.attrs[j] = u]
        /\ q2 = [q1 EXCEPT !.srp.table[e].talker = talks]
        /\ q3 = [q2 EXCEPT !.srp.table[e].code = code]
    <3>1. q1 = [w EXCEPT !.srp.attrs[j] = u]
      OBVIOUS
    <3> HIDE DEF sA, e
    <3>2. q2 = [q1 EXCEPT !.srp.table[e].talker = talks]
      <4> HIDE DEF q1
      <4> QED BY <2>3
    <3> HIDE DEF sB
    <3>3. q3 = [q2 EXCEPT !.srp.table[e].code = code]
      <4> HIDE DEF q2
      <4> QED BY <2>3
    <3> QED BY <3>1, <3>2, <3>3
  <2>5. v = q3
    <3> HIDE DEF q1, q2, q3, e
    <3> QED BY <2>4, Zenon
  <2> HIDE DEF q3, sC
  <2> QED BY <2>2, <2>3, <2>5, Zenon
<1> HIDE DEF s2
<1>11. LET z == [w EXCEPT !.srp = s2]
       IN  WorldInv(z, old) /\ WorldKeep(w, z) /\ z.srp = s2
  BY <1>6, <1>8, SrpStepTwice, SrpWorld
<1>12. \A i \in Slots : s2.attrs[i].reg = s.attrs[i].reg
  BY <1>0, <1>3, <1>9, Zenon DEF SrpSet
<1>13. InUse(s2, j)
  BY <1>0, <1>3, <1>9, Zenon DEF SrpSet, InUse
<1>14. v = ConvertAs(w, j, type, talks, code)
  BY DEF ConvertAs, u, r
<1> HIDE DEF v
<1> QED BY <1>10, <1>11, <1>12, <1>13, <1>14, Zenon DEF Unregistering

\* The talker's attributes at the boundary of the domain.
LEMMA ConvertedStep ==
  ASSUME NEW w, NEW old, WorldInv(w, old), NEW j \in Slots, InUse(w.srp, j)
  PROVE  Unregistering(w, Converted(w, j), j, old)
<1> DEFINE st == w.srp.attrs[j]
           e == st.info
           c == w.srp.table[e].code
<1>1. CASE st.type = "ADVERTISE" /\ w.srp.boundary
  <2>1. IsTalker(w.srp, j) /\ "FAILED" \in TalkerTypes /\ NotForwarded \in FailureCodes
    BY <1>1 DEF IsTalker, TalkerTypes, FailureCodes
  <2>2. Converted(w, j) = ConvertAs(w, j, "FAILED", FALSE, NotForwarded)
    BY <1>1, Zenon DEF Converted, ConvertAs
  <2> QED BY <2>1, <2>2, ConvertedAs, Zenon
<1>2. CASE st.type = "FAILED" /\ ~w.srp.boundary /\ c = NotForwarded
  <2>1. IsTalker(w.srp, j) /\ "ADVERTISE" \in TalkerTypes /\ c \in FailureCodes
    BY <1>2, Zenon DEF IsTalker, TalkerTypes, FailureCodes
  <2>2. Converted(w, j) = [w EXCEPT !.srp.attrs[j] = Rejoined([st EXCEPT !.type = "ADVERTISE"]),
                      !.srp.table[e].talker = TRUE]
    BY <1>2, Zenon DEF Converted
  <2>3. Converted(w, j) = ConvertAs(w, j, "ADVERTISE", TRUE, c)
    <3>1. w \in WorldSet /\ w.srp \in SrpSet /\ e \in Entries
      BY Sides, Zenon DEF WorldInv, SrpInv
    <3> DEFINE T == [w.srp.table EXCEPT ![e].talker = TRUE]
               U == [T EXCEPT ![e].code = c]
    <3>2. T = U
      <4>1. w.srp.table \in [Entries -> EntrySet]
        BY <3>1 DEF SrpSet
      <4> HIDE DEF e
      <4> QED BY <3>1, <4>1, Zenon DEF EntrySet
    <3> DEFINE u == Rejoined([st EXCEPT !.type = "ADVERTISE"])
               s1 == [w.srp EXCEPT !.attrs[j] = u]
               s2 == [s1 EXCEPT !.table = T]
               y == [w EXCEPT !.srp = s1]
               z == [y EXCEPT !.srp = s2]
    <3>3. s1.table = w.srp.table /\ s2.table = T
      <4> HIDE DEF T, u
      <4> QED BY <3>1 DEF SrpSet
    <3>4. y.srp = s1 /\ z.srp = s2
      <4> HIDE DEF s1, s2
      <4> QED BY <3>1 DEF WorldSet
    <3>5. z = Converted(w, j)
      <4>1. y = [w EXCEPT !.srp.attrs[j] = u]
        OBVIOUS
      <4>2. z = [y EXCEPT !.srp.table[e].talker = TRUE]
        <5> HIDE DEF s1, y, e
        <5> QED BY <3>3, <3>4, Zenon
      <4> HIDE DEF z, y, u, e
      <4> QED BY <2>2, <4>1, <4>2, Zenon DEF u
    <3>6. ConvertAs(w, j, "ADVERTISE", TRUE, c) = [Converted(w, j) EXCEPT !.srp.table[e].code = c]
      BY <2>2, Zenon DEF ConvertAs
    <3>7. [z EXCEPT !.srp.table[e].code = c] = z
      <4>1. [s2 EXCEPT !.table[e].code = c] = s2
        <5>1. [s2.table EXCEPT ![e].code = c] = T
          <6> HIDE DEF s2, e, c
          <6> QED BY <3>2, <3>3, Zenon
        <5>2. [s2 EXCEPT !.table[e].code = c] = [s2 EXCEPT !.table = T]
          <6> HIDE DEF s2, e, c, T
          <6> QED BY <5>1
        <5> HIDE DEF T, s1, e, c
        <5> QED BY <5>2, Zenon
      <4>2. [z EXCEPT !.srp.table[e].code = c] = [z EXCEPT !.srp = s2]
        <5> HIDE DEF z, e, c, s2
        <5> QED BY <3>4, <4>1
      <4> HIDE DEF s2, y, e, c
      <4> QED BY <4>2, Zenon
    <3> HIDE DEF z
    <3> QED BY <3>5, <3>6, <3>7, Zenon
  <2> HIDE DEF c
  <2> QED BY <2>1, <2>3, ConvertedAs, Zenon
<1>3. CASE ~(st.type = "ADVERTISE" /\ w.srp.boundary) /\ ~(st.type = "FAILED" /\ ~w.srp.boundary /\ c = NotForwarded)
  <2>1. Converted(w, j) = w
    BY <1>3, Zenon DEF Converted
  <2> QED BY <2>1, WorldKeepSame DEF Unregistering
<1> QED BY <1>1, <1>2, <1>3, Zenon

\* The leave timer of a slot runs out.
LEMMA TimedStep ==
  ASSUME NEW w, NEW old, WorldInv(w, old), NEW j \in Slots, InUse(w.srp, j),
         w.srp.attrs[j].reg # "IN"
  PROVE  LET v == [w EXCEPT !.srp.attrs[j] = UpdateState("LEAVETIMER", @, "IGNORE")]
         IN  /\ WorldInv(v, old) /\ WorldKeep(w, v)
             /\ v.srp.attrs[j].reg = "MT"
             /\ \A i \in Slots \ {j} : v.srp.attrs[i] = w.srp.attrs[i]
<1> DEFINE s == w.srp
           st == s.attrs[j]
           r == LeaveTimerExpired(st)
           u == UpdateState("LEAVETIMER", st, "IGNORE")
           t == [s EXCEPT !.attrs[j] = u]
           v == [w EXCEPT !.srp = t]
<1>0. w \in WorldSet /\ SrpInv(s, old) /\ s \in SrpSet /\ st \in AttrSet /\ AttrOK(st)
      /\ st.app # "UNUSED"
  BY Sides, Zenon DEF WorldInv, SrpInv, InUse
<1>1. Registrar("LEAVETIMER", st, "IGNORE") = r
  BY DEF Registrar
<1>2. DOMAIN r = DOMAIN st /\ r.app = st.app /\ r.reg = "MT"
  <2> HIDE DEF st
  <2> QED BY <1>0 DEF LeaveTimerExpired, AttrSet
<1> HIDE DEF r
<1>3. u = [r EXCEPT !.app = r.app]
  BY <1>1, Zenon DEF UpdateState, Transmits, Applicant
<1> HIDE DEF u
<1>4. u.reg = "MT" /\ u.app = st.app
  <2> HIDE DEF st
  <2> QED BY <1>0, <1>2, <1>3 DEF AttrSet
<1>5. Coarse(u) = u
  <2>1. u.app = "VN" \/ u.app \notin Declaring \cup {"LA", "AO", "QO"}
    <3> HIDE DEF st
    <3> QED BY <1>0, <1>4, Zenon DEF AttrSet, Apps, Declaring
  <2>2. Coarse(u) = [u EXCEPT !.app = u.app]
    BY <2>1 DEF Coarse, Declaring
  <2>3. [u EXCEPT !.app = u.app] = u
    BY <1>3, Zenon
  <2> QED BY <2>2, <2>3
<1>6. u \in AttrSet /\ AttrOK(u) /\ SlotStep(st, u)
  <2>1. "LEAVETIMER" \in Happenings /\ "IGNORE" \in FourPacked
    BY DEF Happenings, FourPacked
  <2>2. LET z == Coarse(UpdateState("LEAVETIMER", st, "IGNORE"))
        IN  z \in AttrSet /\ AttrOK(z) /\ SlotStep(st, z)
    <3> HIDE DEF st
    <3> QED BY <1>0, <2>1, UpdateStep, Zenon DEF st
  <2> QED BY <1>5, <2>2, Zenon DEF u
<1>7. SrpInv(t, old) /\ SrpStep(s, t)
  <2> HIDE DEF s
  <2> QED BY <1>0, <1>6, SetAttr, Zenon
<1>8. t.attrs[j] = u /\ \A i \in Slots \ {j} : t.attrs[i] = s.attrs[i]
  BY <1>0, Zenon DEF SrpSet
<1> HIDE DEF t
<1>9. WorldInv(v, old) /\ WorldKeep(w, v) /\ v.srp = t
  BY <1>7, SrpWorld
<1>10. v = [w EXCEPT !.srp.attrs[j] = UpdateState("LEAVETIMER", @, "IGNORE")]
  BY DEF t, u
<1> HIDE DEF v
<1> QED BY <1>4, <1>8, <1>9, <1>10, Zenon

\* No slot whose timer runs out has been registered meanwhile.
Expirable(w, expired) == \A k \in expired : w.srp.attrs[k].reg # "IN"

\* The pass at one slot.
LEMMA PassedStep ==
  ASSUME WellOrdered, NEW w, NEW old, WorldInv(w, old), NEW j \in Slots, NEW expired \in SUBSET Slots,
         Expirable(w, expired)
  PROVE  LET v == Passed(w, j, expired)
         IN  WorldInv(v, old) /\ WorldKeep(w, v) /\ Expirable(v, expired)
<1>1. CASE w.srp.attrs[j].app = "UNUSED"
  BY <1>1, WorldKeepSame DEF Passed
<1>2. CASE w.srp.attrs[j].app # "UNUSED"
  <2> DEFINE w1 == Indicated(w, j)
             w2 == Converted(w1, j)
             w3 == [w2 EXCEPT !.srp.attrs[j] = UpdateState("LEAVETIMER", @, "IGNORE")]
  <2>1. Passed(w, j, expired) = IF j \notin expired THEN w2 ELSE w3
    BY <1>2 DEF Passed
  <2>2. /\ WorldInv(w1, old) /\ WorldKeep(w, w1)
        /\ w1.srp.attrs = [w.srp.attrs EXCEPT ![j].pending = {}]
    BY <1>2, IndicatedStep, Zenon DEF InUse
  <2> HIDE DEF w1
  <2>3. InUse(w1.srp, j) /\ \A i \in Slots : w1.srp.attrs[i].reg = w.srp.attrs[i].reg
    <3>1. w.srp.attrs \in [Slots -> AttrSet]
      BY DEF WorldInv, SrpInv, SrpSet
    <3> QED BY <1>2, <2>2, <3>1 DEF InUse, AttrSet
  <2>4. Unregistering(w1, w2, j, old)
    BY <2>2, <2>3, ConvertedStep, Zenon
  <2> HIDE DEF w2
  <2>5. /\ WorldInv(w2, old) /\ WorldKeep(w, w2) /\ InUse(w2.srp, j)
        /\ \A i \in Slots : w2.srp.attrs[i].reg = w.srp.attrs[i].reg
    BY <2>2, <2>3, <2>4, WorldKeepTwice, Zenon DEF Unregistering
  <2>6. Expirable(w2, expired)
    BY <2>5, Zenon DEF Expirable
  <2>7. CASE j \notin expired
    BY <2>1, <2>5, <2>6, <2>7
  <2>8. CASE j \in expired
    <3>1. /\ WorldInv(w3, old) /\ WorldKeep(w2, w3)
          /\ w3.srp.attrs[j].reg = "MT"
          /\ \A i \in Slots \ {j} : w3.srp.attrs[i] = w2.srp.attrs[i]
      BY <2>5, <2>6, <2>8, TimedStep, Zenon DEF Expirable
    <3> HIDE DEF w3
    <3>2. Expirable(w3, expired)
      BY <2>6, <3>1, Zenon DEF Expirable
    <3> QED BY <2>1, <2>5, <2>8, <3>1, <3>2, WorldKeepTwice
  <2> QED BY <2>7, <2>8
<1> QED BY <1>1, <1>2

\* The pass over all slots.
LEMMA PassStep ==
  ASSUME WellOrdered, NEW w, NEW old, WorldInv(w, old), NEW expired \in SUBSET Slots, Expirable(w, expired)
  PROVE  LET v == Pass(w, expired)
         IN  WorldInv(v, old) /\ WorldKeep(w, v)
<1> DEFINE D == {v \in WorldSet : WorldInv(v, old) /\ WorldKeep(w, v) /\ Expirable(v, expired)}
           b == [j \in Slots |-> [v \in D |-> Passed(v, j, expired)]]
           Rec(f) == f = [j \in 0..MaxAttrs |-> IF j = 0 THEN w ELSE Passed(f[j - 1], j, expired)]
<1>1. w \in D
  BY WorldKeepSame DEF WorldInv
<1>2. ASSUME NEW j \in Slots, NEW v \in D PROVE Passed(v, j, expired) \in D
  <2>1. LET u == Passed(v, j, expired)
        IN  WorldInv(u, old) /\ WorldKeep(v, u) /\ Expirable(u, expired)
    BY PassedStep
  <2> QED BY <2>1, WorldKeepTwice DEF WorldInv
<1> HIDE DEF D
<1>3. b \in [Slots -> [D -> D]]
  BY <1>2
<1>4. PICK f \in [0..MaxAttrs -> D] : f[0] = w /\ \A j \in Slots : f[j] = b[j][f[j - 1]]
  <2> HIDE DEF b
  <2> QED BY <1>1, <1>3, LoopExists
<1>5. Rec(f)
  <2>1. ASSUME NEW j \in 0..MaxAttrs, j # 0 PROVE f[j] = Passed(f[j - 1], j, expired)
    <3>1. j \in Slots /\ j - 1 \in 0..MaxAttrs
      BY <2>1, Bounds DEF Slots
    <3> QED BY <1>4, <3>1, Zenon
  <2> QED BY <1>4, <2>1, Bounds
<1>6. PICK g : Rec(g) /\ Pass(w, expired) = g[MaxAttrs]
  BY <1>5, Zenon DEF Pass, ForEachSlot
<1>7. g[0] = w
  BY <1>6, Bounds
<1>8. ASSUME NEW j \in Slots, g[j - 1] \in D PROVE g[j] = b[j][g[j - 1]]
  <2>1. j \in 0..MaxAttrs /\ j # 0
    BY Bounds DEF Slots
  <2> QED BY <1>6, <1>8, <2>1, Zenon
<1>9. g[MaxAttrs] \in D
  <2> HIDE DEF b
  <2> QED BY <1>1, <1>3, <1>7, <1>8, LoopIn
<1> QED BY <1>6, <1>9, Zenon DEF D

\* A write that leaves the state of a source, or of a sink, changes nothing else.
LEMMA SetSourceSame ==
  ASSUME NEW w \in WorldSet, NEW x \in Source, NEW info, info.state = w.source[x].state
  PROVE  SetSource(w, x, info) = [w EXCEPT !.source[x] = info]
<1> DEFINE v == [w EXCEPT !.source[x] = info]
<1>1. v.source[x] = info
  BY DEF WorldSet
<1> HIDE DEF v
<1>2. UpdateSource(v, x, w.source[x].state) = v
  BY <1>1, Zenon DEF UpdateSource
<1> QED BY <1>2 DEF SetSource, v

\* A write to the entry of a sink that keeps its state does nothing else.
LEMMA SetSinkSame ==
  ASSUME NEW w \in WorldSet, NEW k \in Sink, NEW info, info.state = w.sink[k].state
  PROVE  SetSink(w, k, info) = [w EXCEPT !.sink[k] = info]
<1> DEFINE v == [w EXCEPT !.sink[k] = info]
<1>1. v.sink[k] = info
  BY DEF WorldSet
<1> HIDE DEF v
<1>2. UpdateSink(v, k, w.sink[k].state) = v
  BY <1>1 DEF UpdateSink
<1> QED BY <1>2 DEF SetSink, v

\* A world whose SRP, sources and sinks differ from another's in what the domain
\* decides.
DomainOnly(w, v) ==
  /\ v.srp.attrs = w.srp.attrs /\ v.srp.table = w.srp.table /\ v.srp.vids = w.srp.vids
  /\ v.talker = w.talker /\ v.owner = w.owner
  /\ \A x \in Source : v.source[x].state = w.source[x].state
                       /\ v.source[x].config = w.source[x].config
  /\ \A k \in Sink : /\ v.sink[k].state = w.sink[k].state
                     /\ v.sink[k].stream = w.sink[k].stream
                     /\ w.sink[k].state # "DISABLED" => v.sink[k].vlan = w.sink[k].vlan

\* ... keeps the invariant.
LEMMA DomainOnlyStep ==
  ASSUME NEW w, NEW old, WorldInv(w, old), NEW v \in WorldSet, DomainOnly(w, v)
  PROVE  WorldInv(v, old) /\ WorldKeep(w, v)
<1>1. SrpInv(w.srp, old) /\ v.srp \in SrpSet
  BY DEF WorldInv, WorldSet
<1>2. SrpInv(v.srp, old)
  BY <1>1, SrpInvSame, Zenon DEF DomainOnly
<1>3. SrpKeep(w.srp, v.srp)
  BY SrpStepSame, Zenon DEF DomainOnly, SrpStep
<1>4. \A x : HeardBy(w.srp, x) => HeardBy(v.srp, x)
  BY Zenon DEF HeardBy, IsListener, InUse, StreamOf, DomainOnly
<1>5. Streams(v, old)
  BY <1>4 DEF WorldInv, Streams, DomainOnly
<1>6. WorldKeep(w, v)
  BY <1>3, Zenon DEF WorldKeep, DomainOnly
<1> QED BY <1>2, <1>5, <1>6 DEF WorldInv

\* avb_srp_domain_join_ind.
LEMMA DomainJoinIndStep ==
  ASSUME NEW w, NEW old, WorldInv(w, old)
  PROVE  LET v == DomainJoinInd(w) IN v \in WorldSet /\ DomainOnly(w, v)
<1> DEFINE n == w.srp.vid
           src == [x \in Source |-> IF w.source[x].vlan # 0 THEN w.source[x]
                                    ELSE SetSourceVlan(w, x, n).source[x]]
           snk == [k \in Sink |-> IF w.sink[k].vlan # 0 THEN w.sink[k]
                                  ELSE SetSinkVlan(w, k, n).sink[k]]
           t == [w.srp EXCEPT !.boundary = FALSE]
           v == [w EXCEPT !.srp = t, !.source = src, !.sink = snk]
<1>0. w \in WorldSet /\ w.srp \in SrpSet /\ n \in Tags
  BY Zenon DEF WorldInv, WorldSet, SrpSet, Tags
<1>1. DomainJoinInd(w) = v
  BY <1>0 DEF DomainJoinInd, WorldSet
<1> HIDE DEF n
<1>2. t \in SrpSet /\ t.attrs = w.srp.attrs /\ t.table = w.srp.table /\ t.vids = w.srp.vids
  BY <1>0, Zenon DEF SrpSet
<1>3. ASSUME NEW x \in Source
      PROVE  /\ src[x] \in [state : States, vlan : Tags, config : Configs]
             /\ src[x].state = w.source[x].state /\ src[x].config = w.source[x].config
  <2> DEFINE a == [w.source[x] EXCEPT !.vlan = n]
  <2>1. w.source[x] \in [state : States, vlan : Tags, config : Configs]
    BY <1>0 DEF WorldSet
  <2>2. /\ a \in [state : States, vlan : Tags, config : Configs]
        /\ a.state = w.source[x].state /\ a.config = w.source[x].config
    BY <1>0, <2>1
  <2>3. SetSourceVlan(w, x, n) = [w EXCEPT !.source[x] = a]
    <3>1. SetSourceVlan(w, x, n) = SetSource(w, x, a)
      BY DEF SetSourceVlan
    <3> HIDE DEF a
    <3> QED BY <1>0, <2>2, <3>1, SetSourceSame
  <2> HIDE DEF a
  <2>4. SetSourceVlan(w, x, n).source[x] = a
    BY <1>0, <2>3 DEF WorldSet
  <2>5. src[x] = w.source[x] \/ src[x] = a
    BY <2>4, Zenon
  <2> QED BY <2>1, <2>2, <2>5, Zenon
<1>4. ASSUME NEW k \in Sink
      PROVE  /\ snk[k] \in [state : States, vlan : Tags, stream : Remote \cup {NoStream}]
             /\ snk[k].state = w.sink[k].state /\ snk[k].stream = w.sink[k].stream
             /\ w.sink[k].state # "DISABLED" => snk[k].vlan = w.sink[k].vlan
  <2> DEFINE a == [w.sink[k] EXCEPT !.vlan = n]
  <2>1. w.sink[k] \in [state : States, vlan : Tags, stream : Remote \cup {NoStream}]
    BY <1>0 DEF WorldSet
  <2>2. /\ a \in [state : States, vlan : Tags, stream : Remote \cup {NoStream}]
        /\ a.state = w.sink[k].state /\ a.stream = w.sink[k].stream
    BY <1>0, <2>1
  <2>3. w.sink[k].state = "DISABLED" => SetSinkVlan(w, k, n) = [w EXCEPT !.sink[k] = a]
    <3>1. w.sink[k].state = "DISABLED" => SetSinkVlan(w, k, n) = SetSink(w, k, a)
      BY DEF SetSinkVlan
    <3> HIDE DEF a
    <3> QED BY <1>0, <2>2, <3>1, SetSinkSame
  <2>4. w.sink[k].state # "DISABLED" => SetSinkVlan(w, k, n) = w
    BY DEF SetSinkVlan
  <2> HIDE DEF a
  <2>5. SetSinkVlan(w, k, n).sink[k] = IF w.sink[k].state = "DISABLED" THEN a ELSE w.sink[k]
    BY <1>0, <2>3, <2>4 DEF WorldSet
  <2>6. snk[k] = w.sink[k] \/ (snk[k] = a /\ w.sink[k].state = "DISABLED")
    BY <2>5, Zenon
  <2> QED BY <2>1, <2>2, <2>6, Zenon
<1>5. src \in [Source -> [state : States, vlan : Tags, config : Configs]]
  BY <1>3, Zenon
<1>6. snk \in [Sink -> [state : States, vlan : Tags, stream : Remote \cup {NoStream}]]
  BY <1>4, Zenon
<1> HIDE DEF src, snk, t
<1>7. v \in WorldSet /\ v.srp = t /\ v.source = src /\ v.sink = snk
      /\ v.talker = w.talker /\ v.owner = w.owner
  BY <1>0, <1>2, <1>5, <1>6, Zenon DEF WorldSet
<1> HIDE DEF v
<1>8. DomainOnly(w, v)
  BY <1>2, <1>3, <1>4, <1>7, Zenon DEF DomainOnly
<1> QED BY <1>1, <1>7, <1>8

\* Only the domain's own state changes.
LEMMA DomainField ==
  ASSUME NEW w \in WorldSet, NEW d \in DomainSet, NEW b \in BOOLEAN
  PROVE  LET v == [w EXCEPT !.srp.boundary = b]
             u == [w EXCEPT !.srp.domain = d]
         IN  v \in WorldSet /\ DomainOnly(w, v) /\ u \in WorldSet /\ DomainOnly(w, u)
<1> DEFINE t == [w.srp EXCEPT !.boundary = b]
           r == [w.srp EXCEPT !.domain = d]
<1>1. w.srp \in SrpSet
  BY DEF WorldSet
<1>2. /\ t \in SrpSet /\ t.attrs = w.srp.attrs /\ t.table = w.srp.table /\ t.vids = w.srp.vids
      /\ r \in SrpSet /\ r.attrs = w.srp.attrs /\ r.table = w.srp.table /\ r.vids = w.srp.vids
  BY <1>1, Zenon DEF SrpSet
<1>3. [w EXCEPT !.srp.boundary = b] = [w EXCEPT !.srp = t]
  OBVIOUS
<1>4. [w EXCEPT !.srp.domain = d] = [w EXCEPT !.srp = r]
  OBVIOUS
<1> HIDE DEF t, r
<1>5. [w EXCEPT !.srp = t] \in WorldSet /\ DomainOnly(w, [w EXCEPT !.srp = t])
  BY <1>2, Zenon DEF WorldSet, DomainOnly
<1>6. [w EXCEPT !.srp = r] \in WorldSet /\ DomainOnly(w, [w EXCEPT !.srp = r])
  BY <1>2, Zenon DEF WorldSet, DomainOnly
<1> QED BY <1>3, <1>4, <1>5, <1>6

\* Two such changes are one.
LEMMA DomainOnlyTwice ==
  ASSUME NEW w, NEW v, NEW u, DomainOnly(w, v), DomainOnly(v, u)
  PROVE  DomainOnly(w, u)
BY DEF DomainOnly

\* The pass over the domain's slot.
LEMMA DomainPassedStep ==
  ASSUME NEW w, NEW old, WorldInv(w, old), NEW expires \in BOOLEAN
  PROVE  LET v == DomainPassed(w, expires)
         IN  WorldInv(v, old) /\ WorldKeep(w, v) /\ v.srp.attrs = w.srp.attrs
<1> DEFINE d == w.srp.domain
           quiet == [d EXCEPT !.pending = {}]
           q == IF expires THEN Registrar("LEAVETIMER", quiet, "IGNORE") ELSE quiet
           w1 == IF d.pending \cap {"JOIN_NEW", "JOIN"} # {} THEN DomainJoinInd(w) ELSE w
           w2 == IF "LEAVE" \in d.pending THEN [w1 EXCEPT !.srp.boundary = TRUE] ELSE w1
           w3 == [w2 EXCEPT !.srp.domain = q]
<1>0. w \in WorldSet /\ d \in DomainSet
  BY DEF WorldInv, WorldSet, SrpSet
<1>1. DomainPassed(w, expires) = w3
  BY DEF DomainPassed, DomainLeaveInd
<1>2. q \in DomainSet
  <2>1. quiet \in DomainSet
    BY <1>0 DEF DomainSet
  <2> HIDE DEF quiet
  <2> QED BY <2>1, DomainType
<1>3. w1 \in WorldSet /\ DomainOnly(w, w1)
  <2>1. DomainOnly(w, w)
    BY DEF DomainOnly
  <2>2. DomainJoinInd(w) \in WorldSet /\ DomainOnly(w, DomainJoinInd(w))
    BY DomainJoinIndStep
  <2> HIDE DEF d
  <2> QED BY <1>0, <2>1, <2>2
<1> HIDE DEF q, w1
<1>4. w2 \in WorldSet /\ DomainOnly(w, w2)
  <2>1. [w1 EXCEPT !.srp.boundary = TRUE] \in WorldSet
        /\ DomainOnly(w1, [w1 EXCEPT !.srp.boundary = TRUE])
    BY <1>2, <1>3, DomainField, Zenon
  <2> DEFINE z == [w1 EXCEPT !.srp.boundary = TRUE]
  <2> HIDE DEF z, d
  <2>2. DomainOnly(w, z)
    BY <1>3, <2>1, DomainOnlyTwice DEF z
  <2> QED BY <1>3, <2>1, <2>2 DEF z
<1> HIDE DEF w2
<1>5. w3 \in WorldSet /\ DomainOnly(w2, w3)
  BY <1>2, <1>4, DomainField, Zenon
<1> HIDE DEF w3
<1>6. DomainOnly(w, w3)
  BY <1>4, <1>5, DomainOnlyTwice
<1>7. WorldInv(w3, old) /\ WorldKeep(w, w3)
  BY <1>5, <1>6, DomainOnlyStep, Zenon
<1>8. w3.srp.attrs = w.srp.attrs
  BY <1>6, Zenon DEF DomainOnly
<1> QED BY <1>1, <1>7, <1>8

\* The flag of the leave-all timer changes nothing else.
LEMMA FlagStep ==
  ASSUME NEW s, NEW old, SrpInv(s, old), NEW b \in BOOLEAN
  PROVE  LET t == [s EXCEPT !.leaveall = b]
         IN  SrpInv(t, old) /\ SrpStep(s, t) /\ t.attrs = s.attrs
<1> DEFINE t == [s EXCEPT !.leaveall = b]
<1>1. t \in SrpSet /\ t.attrs = s.attrs /\ t.table = s.table /\ t.vids = s.vids
  BY DEF SrpInv, SrpSet
<1> HIDE DEF t
<1>2. SrpInv(t, old) /\ SrpStep(s, t)
  BY <1>1, SrpInvSame, SrpStepSame
<1> QED BY <1>1, <1>2 DEF t

\* The leave-all timer and the join timer.
LEMMA TimersStep ==
  ASSUME WellOrdered, NEW s, NEW old, SrpInv(s, old)
  PROVE  /\ LET t == LeaveAllExpired(s) IN SrpInv(t, old) /\ SrpStep(s, t) /\ NoneIn(s, t)
         /\ LET t == Transmit(s) IN SrpInv(t, old) /\ SrpStep(s, t) /\ NoneIn(s, t)
<1> DEFINE e == IF s.leaveall THEN "TX_LEAVE_ALL" ELSE "TX"
           a == MsrpEvent(s, "RECEIVE_LEAVE_ALL")
           b == MsrpEvent(s, e)
<1>1. "RECEIVE_LEAVE_ALL" \in Timeouts /\ e \in Timeouts
  BY DEF Timeouts
<1>2. LeaveAllExpired(s) = [a EXCEPT !.leaveall = TRUE] /\ Transmit(s) = [b EXCEPT !.leaveall = FALSE]
  BY DEF LeaveAllExpired, Transmit
<1> HIDE DEF e
<1>3. SrpInv(a, old) /\ SrpStep(s, a) /\ NoneIn(s, a)
  BY <1>1, MsrpEventStep
<1>4. SrpInv(b, old) /\ SrpStep(s, b) /\ NoneIn(s, b)
  BY <1>1, MsrpEventStep
<1> HIDE DEF a, b
<1>5. /\ SrpInv([a EXCEPT !.leaveall = TRUE], old) /\ SrpStep(a, [a EXCEPT !.leaveall = TRUE])
      /\ [a EXCEPT !.leaveall = TRUE].attrs = a.attrs
  BY <1>3, FlagStep, Zenon
<1>6. /\ SrpInv([b EXCEPT !.leaveall = FALSE], old) /\ SrpStep(b, [b EXCEPT !.leaveall = FALSE])
      /\ [b EXCEPT !.leaveall = FALSE].attrs = b.attrs
  BY <1>4, FlagStep, Zenon
<1>7. ASSUME NEW u, NEW v, SrpInv(v, old), SrpStep(s, u), NoneIn(s, u), SrpStep(u, v),
             v.attrs = u.attrs
      PROVE  SrpInv(v, old) /\ SrpStep(s, v) /\ NoneIn(s, v)
  <2>1. NoneIn(s, v)
    BY <1>7, Zenon DEF NoneIn
  <2> QED BY <1>7, <2>1, SrpStepTwice
<1>8. /\ SrpInv(LeaveAllExpired(s), old) /\ SrpStep(s, LeaveAllExpired(s))
      /\ NoneIn(s, LeaveAllExpired(s))
  BY <1>2, <1>3, <1>5, <1>7, Zenon
<1>9. SrpInv(Transmit(s), old) /\ SrpStep(s, Transmit(s)) /\ NoneIn(s, Transmit(s))
  BY <1>2, <1>4, <1>6, <1>7, Zenon
<1> QED BY <1>8, <1>9

\* The world after a step, for the steps that assign its parts.
Later == [srp |-> srp', source |-> source', sink |-> sink', owner |-> owner', talker |-> talker']

\* An assignment to all parts.
LEMMA BecomesIs ==
  ASSUME NEW w \in WorldSet, Becomes(w)
  PROVE  Later = w
BY DEF Becomes, Later, WorldSet

\* mrp_periodic.
LEMMA PeriodicStep ==
  ASSUME WellOrdered, WorldInv(World, stale), Periodic
  PROVE  WorldInv(Later, stale) /\ WorldKeep(World, Later) /\ stale' = stale
<1> DEFINE w0 == World
<1>0. SrpInv(srp, stale) /\ w0.srp = srp
  BY DEF WorldInv, World
<1> HIDE DEF w0
<1>1. PICK leaveall, join, gone \in BOOLEAN, expired \in SUBSET Running(srp) :
        LET s1 == IF leaveall THEN LeaveAllExpired(srp) ELSE srp
            s2 == IF join THEN Transmit(s1) ELSE s1
            w == DomainPassed([w0 EXCEPT !.srp = s2], gone)
        IN Becomes(Pass(w, expired))
  BY Zenon DEF Periodic, w0
<1> DEFINE s1 == IF leaveall THEN LeaveAllExpired(srp) ELSE srp
           s2 == IF join THEN Transmit(s1) ELSE s1
           w1 == [w0 EXCEPT !.srp = s2]
           w2 == DomainPassed(w1, gone)
           w3 == Pass(w2, expired)
<1>2. SrpInv(s1, stale) /\ SrpStep(srp, s1) /\ NoneIn(srp, s1)
  <2>1. SrpStep(srp, srp) /\ NoneIn(srp, srp)
    BY SrpStepSame DEF NoneIn
  <2> QED BY <1>0, <2>1, TimersStep
<1> HIDE DEF s1
<1>3. SrpInv(s2, stale) /\ SrpStep(s1, s2) /\ NoneIn(s1, s2)
  <2>1. SrpStep(s1, s1) /\ NoneIn(s1, s1)
    BY SrpStepSame DEF NoneIn
  <2> QED BY <1>2, <2>1, TimersStep
<1> HIDE DEF s2
<1>4. SrpStep(w0.srp, s2) /\ NoneIn(srp, s2)
  <2>1. NoneIn(srp, s2)
    BY <1>2, <1>3, Zenon DEF NoneIn
  <2> QED BY <1>0, <1>2, <1>3, <2>1, SrpStepTwice
<1>5. WorldInv(w1, stale) /\ WorldKeep(w0, w1) /\ w1.srp = s2
  <2>1. WorldInv(w0, stale)
    BY DEF w0
  <2> QED BY <1>3, <1>4, <2>1, SrpWorld
<1> HIDE DEF w1
<1>6. WorldInv(w2, stale) /\ WorldKeep(w1, w2) /\ w2.srp.attrs = w1.srp.attrs
  BY <1>5, DomainPassedStep, Zenon
<1> HIDE DEF w2
<1>7. expired \in SUBSET Slots /\ Expirable(w2, expired)
  <2>1. ASSUME NEW k \in expired PROVE k \in Slots /\ srp.attrs[k].reg = "LV"
    BY <1>0, Zenon DEF Running, SrpInv, AttrOK
  <2>2. ASSUME NEW k \in expired PROVE w2.srp.attrs[k].reg # "IN"
    BY <1>4, <1>5, <1>6, <2>1, Zenon DEF NoneIn
  <2> QED BY <2>1, <2>2, Zenon DEF Expirable
<1>8. WorldInv(w3, stale) /\ WorldKeep(w2, w3)
  BY <1>6, <1>7, PassStep, Zenon
<1>9. Becomes(w3)
  BY <1>1 DEF w2, w1, s2, s1
<1> HIDE DEF w3
<1>10. Later = w3
  BY <1>8, <1>9, BecomesIs DEF WorldInv
<1>11. WorldKeep(w0, w3)
  BY <1>5, <1>6, <1>8, WorldKeepTwice, Zenon
<1>12. stale' = stale
  BY DEF Periodic
<1> QED BY <1>8, <1>10, <1>11, <1>12 DEF w0

=============================================================================
