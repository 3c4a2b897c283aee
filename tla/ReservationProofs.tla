------------------------- MODULE ReservationProofs -------------------------
(***************************************************************************)
(* Proofs about Reservation for every number of sources, sinks, remote     *)
(* streams, slots, entries and VLANs: the commands keep the invariant of   *)
(* ReservationSteps, every step does what the action properties ask, and   *)
(* the theorems.  What each command writes is stated once (RegistersAs,    *)
(* DeregistersAs, AttachesAs, DetachesAs), and what it keeps follows.      *)
(***************************************************************************)
EXTENDS ReservationEvents

USE DEF Off

-----------------------------------------------------------------------------
(***************************************************************************)
(* The commands: what they write                                           *)
(***************************************************************************)
\* The talker unit is told a VLAN.
LEMMA SetVlanIs ==
  ASSUME NEW w \in WorldSet, NEW x \in Source, NEW n \in Tags
  PROVE  LET v == SetVlan(w, x, n)
         IN  /\ v \in WorldSet /\ v.srp = w.srp /\ v.sink = w.sink /\ v.source = w.source
             /\ v.owner = w.owner
             /\ v.talker.vlan = n /\ v.talker.stream[x].vlan = n
             /\ v.talker.stream[x].on = w.talker.stream[x].on
             /\ \A y \in Source \ {x} : v.talker.stream[y] = w.talker.stream[y]
<1> DEFINE T == w.talker
           F == [T.stream EXCEPT ![x] = [@ EXCEPT !.vlan = n]]
           U == [T EXCEPT !.vlan = n, !.stream = F]
           v == [w EXCEPT !.talker = U]
<1>0. T \in TalkerSet
  BY DEF WorldSet
<1>1. /\ F \in [Source -> [inputs : SUBSET Input, vlan : Tags, on : BOOLEAN]]
      /\ F[x].vlan = n /\ F[x].on = T.stream[x].on
      /\ \A y \in Source \ {x} : F[y] = T.stream[y]
  BY <1>0 DEF TalkerSet
<1>2. SetVlan(w, x, n) = v
  <2>1. [T EXCEPT !.vlan = n, !.stream[x].vlan = n] = U
    BY <1>0 DEF TalkerSet
  <2>2. SetVlan(w, x, n) = [w EXCEPT !.talker = [T EXCEPT !.vlan = n, !.stream[x].vlan = n]]
    BY ZenonT(40) DEF SetVlan, WorldSet
  <2> QED BY <2>1, <2>2
<1> HIDE DEF F
<1>3. U \in TalkerSet /\ U.stream = F /\ U.vlan = n
  BY <1>0, <1>1, Zenon DEF TalkerSet
<1> HIDE DEF U
<1>4. /\ v \in WorldSet /\ v.srp = w.srp /\ v.sink = w.sink /\ v.source = w.source
      /\ v.owner = w.owner /\ v.talker = U
  BY <1>3 DEF WorldSet
<1> QED BY <1>1, <1>2, <1>3, <1>4

\* The other sources and their streams stay as they are.
OthersSame(w, v, x) ==
  \A y \in Source \ {x} : /\ v.source[y] = w.source[y]
                          /\ v.talker.stream[y] = w.talker.stream[y]

\* A source is registered.
RegistersAs(w, v, x) ==
  LET ins == w.source[x].config.inputs
      n == VlanFor(w.srp, w.source[x].vlan)
  IN  /\ v \in WorldSet /\ v.sink = w.sink /\ OthersSame(w, v, x)
      /\ v.source[x].state = "POTENTIAL" /\ v.source[x].config = w.source[x].config
      /\ ~Valid(w, x) => v.srp = w.srp /\ v.owner = w.owner /\ v.talker = w.talker
      /\ Valid(w, x) =>
           /\ v.srp = JoinTalker(w.srp, x, w.source[x].vlan, w.source[x].config.size)
           /\ v.talker.vlan = n /\ v.talker.stream[x].vlan = n /\ ~v.talker.stream[x].on
           /\ \A i \in Input : v.owner[i] = IF i \in ins THEN x ELSE w.owner[i]

\* DISABLED to POTENTIAL writes no more than that.
LEMMA RegisterIs ==
  ASSUME NEW w \in WorldSet, NEW x \in Source, w.source[x].state = "DISABLED",
         JoinTalker(w.srp, x, w.source[x].vlan, w.source[x].config.size) \in SrpSet
  PROVE  RegistersAs(w, SetSourceState(w, x, "POTENTIAL"), x)
<1> DEFINE c0 == w.source[x].config
           ins == c0.inputs
           n == VlanFor(w.srp, w.source[x].vlan)
           t == JoinTalker(w.srp, x, w.source[x].vlan, c0.size)
           r == [w EXCEPT !.source[x] = [w.source[x] EXCEPT !.state = "POTENTIAL"]]
           c == Configure(r, x)
           d == [c EXCEPT !.srp = t, !.source[x].vlan = n]
           v == SetVlan(d, x, n)
           u == SetSourceState(w, x, "POTENTIAL")
<1>0. ins \in SUBSET Input /\ n \in Tags /\ w.srp \in SrpSet
  BY ManagerAssumption DEF WorldSet, SrpSet, VlanFor, Tags
<1>1. /\ r \in WorldSet /\ r.source[x].state = "POTENTIAL" /\ r.source[x].config = c0
      /\ r.source[x].vlan = w.source[x].vlan
      /\ \A y \in Source \ {x} : r.source[y] = w.source[y]
      /\ r.srp = w.srp /\ r.sink = w.sink /\ r.owner = w.owner /\ r.talker = w.talker
  BY Zenon DEF WorldSet, States
<1>2. u = Register(r, x)
  BY <1>1 DEF SetSourceState, SetSource, UpdateSource
<1>3. Valid(r, x) <=> Valid(w, x)
  BY <1>1 DEF Valid
<1> HIDE DEF r, u, c0, n
<1>4. CASE ~Valid(w, x)
  <2>1. u = r
    BY <1>2, <1>3, <1>4 DEF Register
  <2>2. OthersSame(w, r, x)
    BY <1>1 DEF OthersSame
  <2> QED BY <1>1, <1>4, <2>1, <2>2, Zenon DEF RegistersAs, u, c0
<1>5. CASE Valid(w, x)
  <2>1. /\ c \in WorldSet /\ c.srp = r.srp /\ c.sink = r.sink /\ c.source = r.source
        /\ c.owner = [i \in Input |-> IF i \in ins THEN x ELSE w.owner[i]]
        /\ c.talker.stream[x].on = FALSE
        /\ \A y \in Source \ {x} : c.talker.stream[y] = w.talker.stream[y]
    BY <1>0, <1>1, Zenon DEF WorldSet, TalkerSet, Configure
  <2>2. u = v
    <3>1. c.srp = w.srp
      BY <1>1, <2>1, Zenon
    <3> HIDE DEF c
    <3> QED BY <1>1, <1>2, <1>3, <1>5, <3>1, Zenon DEF Register, c, n, c0
  <2> HIDE DEF c
  <2>t. t \in SrpSet
    BY DEF c0
  <2> HIDE DEF t
  <2>3. /\ d \in WorldSet /\ d.srp = t /\ d.sink = c.sink /\ d.owner = c.owner /\ d.talker = c.talker
        /\ d.source[x].state = "POTENTIAL" /\ d.source[x].config = c0
        /\ \A y \in Source \ {x} : d.source[y] = c.source[y]
    <3> DEFINE src == [c.source EXCEPT ![x] = [@ EXCEPT !.vlan = n]]
    <3>1. c.source \in [Source -> [state : States, vlan : Tags, config : Configs]]
      BY <2>1 DEF WorldSet
    <3>2. c.source[x].state = "POTENTIAL" /\ c.source[x].config = c0
      BY <1>1, <2>1, Zenon
    <3>3. /\ src \in [Source -> [state : States, vlan : Tags, config : Configs]]
          /\ src[x].state = "POTENTIAL" /\ src[x].config = c0
          /\ \A y \in Source \ {x} : src[y] = c.source[y]
      BY <1>0, <3>1, <3>2
    <3>4. d = [c EXCEPT !.srp = t, !.source = src]
      BY <2>1, Zenon DEF WorldSet
    <3> HIDE DEF src, d
    <3>5. /\ d \in WorldSet /\ d.srp = t /\ d.sink = c.sink /\ d.owner = c.owner
          /\ d.talker = c.talker /\ d.source = src
      BY <2>1, <2>t, <3>3, <3>4, Zenon DEF WorldSet
    <3> QED BY <3>3, <3>5
  <2> HIDE DEF d
  <2>4. /\ v \in WorldSet /\ v.srp = d.srp /\ v.sink = d.sink /\ v.source = d.source
        /\ v.owner = d.owner
        /\ v.talker.vlan = n /\ v.talker.stream[x].vlan = n
        /\ v.talker.stream[x].on = d.talker.stream[x].on
        /\ \A y \in Source \ {x} : v.talker.stream[y] = d.talker.stream[y]
    BY <1>0, <2>3, SetVlanIs
  <2> HIDE DEF v
  <2>5. OthersSame(w, v, x)
    BY <1>1, <2>1, <2>3, <2>4 DEF OthersSame
  <2>6. \A i \in Input : v.owner[i] = IF i \in ins THEN x ELSE w.owner[i]
    BY <2>1, <2>3, <2>4
  <2>7. v.srp = t /\ v.sink = w.sink /\ v.source[x].state = "POTENTIAL"
        /\ v.source[x].config = c0 /\ ~v.talker.stream[x].on
    BY <1>1, <2>1, <2>3, <2>4
  <2>8. RegistersAs(w, v, x)
    BY <1>5, <2>4, <2>5, <2>6, <2>7, Zenon DEF RegistersAs, t, n, c0
  <2> QED BY <2>2, <2>8 DEF u
<1> QED BY <1>4, <1>5

\* The VLAN is left only with every stream disabled.
LEMMA IdleIs ==
  ASSUME WellOrdered, NEW w, NEW old, w \in WorldSet, SrpInv(w.srp, old), NEW n
  PROVE  LET v == LeaveVlanIfIdle(w, n)
         IN  /\ v \in WorldSet /\ SrpInv(v.srp, old)
             /\ v.srp.attrs = w.srp.attrs /\ v.srp.table = w.srp.table
             /\ v.srp.vids = w.srp.vids \/ AllDisabled(w)
             /\ VidsOK(w.srp) => VidsOK(v.srp)
             /\ v.source = w.source /\ v.sink = w.sink /\ v.owner = w.owner /\ v.talker = w.talker
<1> DEFINE t == LeaveVlan(w.srp, n)
           v == [w EXCEPT !.srp = t]
<1>1. /\ SrpInv(t, old) /\ t.attrs = w.srp.attrs /\ t.table = w.srp.table
      /\ VidsOK(w.srp) => VidsOK(t)
  BY LeaveVlanStep
<1>2. LeaveVlanIfIdle(w, n) = IF n # 0 /\ AllDisabled(w) THEN v ELSE w
  BY DEF LeaveVlanIfIdle
<1> HIDE DEF t
<1>3. /\ v \in WorldSet /\ v.srp = t /\ v.source = w.source /\ v.sink = w.sink
      /\ v.owner = w.owner /\ v.talker = w.talker
  BY <1>1 DEF WorldSet, SrpInv
<1> HIDE DEF v
<1>4. CASE n # 0 /\ AllDisabled(w)
  BY <1>1, <1>2, <1>3, <1>4
<1>5. CASE ~(n # 0 /\ AllDisabled(w))
  BY <1>2, <1>5
<1> QED BY <1>4, <1>5, Zenon

-----------------------------------------------------------------------------
(***************************************************************************)
(* What every step must preserve                                           *)
(***************************************************************************)
AttachedIn(w, k) == w.sink[k].state # "DISABLED"
AloneIn(w, k) ==
  \A m \in Sink \ {k} : AttachedIn(w, m) => w.sink[m].stream # w.sink[k].stream

\* DeclaresWhileAttached and TracksWhileAttached, of a step from w to v.
DeclaresStep(w, v) ==
  \A k \in Sink :
    LET x == w.sink[k].stream
    IN /\ AttachedIn(v, k)
       /\ IF AttachedIn(w, k) THEN AloneIn(w, k) /\ DeclaredIn(w.srp, x)
          ELSE /\ MatchType(w.srp, "FAILED", x) = 0 /\ MatchEntry(w.srp, x) # 0
               /\ MatchType(w.srp, "LISTENER", x) # 0 \/ FreeIn(w.srp) # {}
       => DeclaredIn(v.srp, v.sink[k].stream)
TracksStep(w, v) ==
  \A k \in Sink :
    LET x == w.sink[k].stream
    IN /\ AttachedIn(v, k)
       /\ \/ TrackedIn(w.srp, x) /\ (AttachedIn(w, k) => AloneIn(w, k))
          \/ /\ ~AttachedIn(w, k) /\ MatchTalker(w.srp, x) = 0 /\ MatchEntry(w.srp, x) # 0
             /\ \E i, j \in FreeIn(w.srp) : i # j \/ MatchType(w.srp, "LISTENER", x) # 0
       => TrackedIn(v.srp, v.sink[k].stream)

\* OnJoinedVlan, and what it rests on.  With one source, its inputs are its own,
\* and the talker unit was last told the VLAN of its stream.
SourceVlan(w) ==
  \A x \in Source : Source = {x} =>
    /\ w.source[x].state # "DISABLED" /\ w.source[x].config.inputs # {}
         => w.talker.vlan = w.talker.stream[x].vlan /\ OnVlan(w.srp, w.talker.vlan)
    /\ \A i \in Input : w.owner[i] # Unmapped
         => w.source[x].state # "DISABLED" /\ i \in w.source[x].config.inputs

\* A listener is declared only for an attached sink ...
SinkVlan(w) ==
  \A j \in Slots : IsListener(w.srp, j) /\ w.srp.attrs[j].app = "VN" =>
    \E k \in Sink : AttachedIn(w, k) /\ w.sink[k].stream = StreamOf(w.srp, j)

\* ... and the VLAN of the sink is then joined.
SinkOn(w) ==
  \A k \in Sink : AttachedIn(w, k) /\ AloneIn(w, k) /\ DeclaredIn(w.srp, w.sink[k].stream)
    => OnVlan(w.srp, w.sink[k].vlan)

VlanInv(w) == VidsOK(w.srp) /\ SourceVlan(w) /\ SinkVlan(w) /\ SinkOn(w)

StepOK(w, v, more) ==
  /\ WorldInv(v, more) /\ DeclaresStep(w, v) /\ TracksStep(w, v)
  /\ Ample /\ VlanInv(w) => VlanInv(v)

\* What the network and the timers leave alone is enough.
LEMMA KeepIsOK ==
  ASSUME NEW w, NEW v, NEW old, WorldInv(w, old), WorldInv(v, old), WorldKeep(w, v)
  PROVE  StepOK(w, v, old)
<1>0. /\ \A j \in Slots : /\ SlotKeep(w.srp.attrs[j], v.srp.attrs[j])
                          /\ InUse(v.srp, j) => StreamOf(v.srp, j) = StreamOf(w.srp, j)
                          /\ AttrOK(w.srp.attrs[j])
                          /\ w.srp.attrs[j].type \in StreamTypes
                          /\ v.srp.attrs[j].type \in StreamTypes
      /\ v.srp.vids = w.srp.vids
  BY Zenon DEF WorldKeep, SrpKeep, WorldInv, SrpInv, SrpSet, AttrSet
<1>1. \A k \in Sink : /\ v.sink[k].stream = w.sink[k].stream
                      /\ AttachedIn(v, k) <=> AttachedIn(w, k)
                      /\ AttachedIn(w, k) => v.sink[k].vlan = w.sink[k].vlan
  BY Zenon DEF WorldKeep, AttachedIn
<1>2. \A k \in Sink : AloneIn(v, k) <=> AloneIn(w, k)
  BY <1>1 DEF AloneIn
<1>3. \A x : DeclaredIn(v.srp, x) <=> DeclaredIn(w.srp, x)
  BY <1>0, Zenon DEF DeclaredIn, IsListener, InUse, SlotKeep, AttrOK, TalkerTypes
<1>4. \A x : TrackedIn(w.srp, x) => TrackedIn(v.srp, x)
  BY <1>0, Zenon DEF TrackedIn, IsTalker, InUse, SlotKeep, AttrOK, TalkerTypes, StreamTypes
<1>5. DeclaresStep(w, v) /\ TracksStep(w, v)
  BY <1>1, <1>3, <1>4, Zenon DEF DeclaresStep, TracksStep
<1>6. ASSUME VlanInv(w) PROVE VlanInv(v)
  <2>1. VidsOK(v.srp) /\ \A u : OnVlan(v.srp, u) <=> OnVlan(w.srp, u)
    BY <1>0, <1>6 DEF VlanInv, VidsOK, OnVlan
  <2>2. SourceVlan(v)
    <3> SUFFICES ASSUME NEW x \in Source, Source = {x}
                 PROVE  /\ v.source[x].state # "DISABLED" /\ v.source[x].config.inputs # {}
                             => v.talker.vlan = v.talker.stream[x].vlan /\ OnVlan(v.srp, v.talker.vlan)
                        /\ \A i \in Input : v.owner[i] # Unmapped
                             => v.source[x].state # "DISABLED" /\ i \in v.source[x].config.inputs
      BY Zenon DEF SourceVlan
    <3>1. /\ v.source[x].config = w.source[x].config /\ v.talker.vlan = w.talker.vlan
          /\ v.source[x].state = "DISABLED" <=> w.source[x].state = "DISABLED"
          /\ v.talker.stream[x].vlan \in {w.talker.stream[x].vlan, w.talker.vlan}
      BY Zenon DEF WorldKeep
    <3>2. /\ w.source[x].state # "DISABLED" /\ w.source[x].config.inputs # {}
               => w.talker.vlan = w.talker.stream[x].vlan /\ OnVlan(w.srp, w.talker.vlan)
          /\ \A i \in Input : w.owner[i] # Unmapped
               => w.source[x].state # "DISABLED" /\ i \in w.source[x].config.inputs
      BY <1>6, Zenon DEF VlanInv, SourceVlan
    <3>3. \A i \in Input :
            \/ v.owner[i] = w.owner[i]
            \/ w.source[x].state # "DISABLED" /\ i \in w.source[x].config.inputs
      BY Zenon DEF WorldKeep
    <3> QED BY <2>1, <3>1, <3>2, <3>3, Zenon
  <2>3. SinkVlan(v)
    <3> SUFFICES ASSUME NEW j \in Slots, IsListener(v.srp, j), v.srp.attrs[j].app = "VN"
                 PROVE  \E k \in Sink : AttachedIn(v, k) /\ v.sink[k].stream = StreamOf(v.srp, j)
      BY Zenon DEF SinkVlan
    <3>1. /\ IsListener(w.srp, j) /\ w.srp.attrs[j].app = "VN"
          /\ StreamOf(v.srp, j) = StreamOf(w.srp, j)
      BY <1>0, Zenon DEF IsListener, InUse, SlotKeep
    <3>2. PICK k \in Sink : AttachedIn(w, k) /\ w.sink[k].stream = StreamOf(w.srp, j)
      BY <1>6, <3>1, Zenon DEF VlanInv, SinkVlan
    <3> QED BY <1>1, <3>1, <3>2
  <2>4. SinkOn(v)
    BY <1>1, <1>2, <1>3, <1>6, <2>1, Zenon DEF VlanInv, SinkOn
  <2> QED BY <2>1, <2>2, <2>3, <2>4 DEF VlanInv
<1> QED BY <1>5, <1>6 DEF StepOK

\* A request for one stream leaves the others' declarations and talkers alone.
LEMMA TouchesOther ==
  ASSUME NEW s, NEW t, NEW x, Touches(s, t, x), NEW y, y # x
  PROVE  /\ DeclaredIn(t, y) <=> DeclaredIn(s, y)
         /\ TrackedIn(t, y) <=> TrackedIn(s, y)
<1>1. \A j \in Slots : StreamOf(t, j) = y /\ InUse(t, j) =>
        InUse(s, j) /\ StreamOf(s, j) = y /\ t.attrs[j] = s.attrs[j]
  BY DEF Touches
<1>2. \A j \in Slots : StreamOf(s, j) = y /\ InUse(s, j) =>
        InUse(t, j) /\ StreamOf(t, j) = y /\ t.attrs[j] = s.attrs[j]
  BY DEF Touches
<1> QED BY <1>1, <1>2 DEF DeclaredIn, TrackedIn, IsListener, IsTalker

\* A command whose request is for one stream, and that starts no stream.
LEMMA CommandWorld ==
  ASSUME NEW w, NEW old, WorldInv(w, old), NEW v \in WorldSet, NEW x,
         NEW more, old \subseteq more, SrpInv(v.srp, more), Touches(w.srp, v.srp, x),
         \A y \in Source : /\ v.talker.stream[y].on <=> v.source[y].state = "ENABLED"
                           /\ v.source[y].state = "ENABLED" => w.source[y].state = "ENABLED"
  PROVE  WorldInv(v, more)
<1>1. \A y : HeardBy(w.srp, y) => HeardBy(v.srp, y)
  BY HeardTouched
<1>2. \A e \in Entries : v.srp.table[e].bw =>
        w.srp.table[e].bw /\ v.srp.table[e].id = w.srp.table[e].id
  BY Zenon DEF Touches
<1>3. Streams(v, more)
  BY <1>1, <1>2 DEF Streams, WorldInv
<1> QED BY <1>3 DEF WorldInv

-----------------------------------------------------------------------------
(***************************************************************************)
(* The commands for a source                                               *)
(***************************************************************************)
\* No VLAN is left while a stream is in use.
VlansStay(w, v) == (\A u : OnVlan(w.srp, u) => OnVlan(v.srp, u)) \/ AllDisabled(v)

\* A request for a local stream does not disturb the sinks.
LEMMA SinksApart ==
  ASSUME NEW w, NEW old, WorldInv(w, old), NEW v, NEW x \in Source, v.sink = w.sink,
         Touches(w.srp, v.srp, x)
  PROVE  /\ DeclaresStep(w, v) /\ TracksStep(w, v)
         /\ NoNewListener(w.srp, v.srp) /\ SinkVlan(w) => SinkVlan(v)
         /\ VlansStay(w, v) /\ SinkOn(w) => SinkOn(v)
<1>1. \A k \in Sink : w.sink[k].stream # x
  BY SrpAssumption DEF WorldInv, WorldSet, Stream
<1>2. \A k \in Sink : /\ DeclaredIn(v.srp, w.sink[k].stream) <=> DeclaredIn(w.srp, w.sink[k].stream)
                      /\ TrackedIn(v.srp, w.sink[k].stream) <=> TrackedIn(w.srp, w.sink[k].stream)
  BY <1>1, TouchesOther
<1>3. \A k \in Sink : /\ AttachedIn(v, k) <=> AttachedIn(w, k)
                      /\ AloneIn(v, k) <=> AloneIn(w, k)
  BY DEF AttachedIn, AloneIn
<1>4. DeclaresStep(w, v) /\ TracksStep(w, v)
  BY <1>2, <1>3, Zenon DEF DeclaresStep, TracksStep
<1>5. ASSUME NoNewListener(w.srp, v.srp), SinkVlan(w) PROVE SinkVlan(v)
  <2> SUFFICES ASSUME NEW j \in Slots, IsListener(v.srp, j), v.srp.attrs[j].app = "VN"
               PROVE  \E k \in Sink : AttachedIn(v, k) /\ v.sink[k].stream = StreamOf(v.srp, j)
    BY DEF SinkVlan
  <2>1. InUse(w.srp, j) /\ w.srp.attrs[j].app = "VN"
    BY <1>5, Zenon DEF NoNewListener
  <2>2. IsListener(w.srp, j) /\ StreamOf(v.srp, j) = StreamOf(w.srp, j)
    BY <2>1, Zenon DEF Touches, IsListener
  <2>3. PICK k \in Sink : AttachedIn(w, k) /\ w.sink[k].stream = StreamOf(w.srp, j)
    BY <1>5, <2>1, <2>2, Zenon DEF SinkVlan
  <2> QED BY <1>3, <2>2, <2>3
<1>6. ASSUME VlansStay(w, v), SinkOn(w) PROVE SinkOn(v)
  <2>1. CASE AllDisabled(v)
    BY <2>1 DEF AllDisabled, SinkOn, AttachedIn
  <2>2. CASE \A u : OnVlan(w.srp, u) => OnVlan(v.srp, u)
    BY <1>2, <1>3, <1>6, <2>2 DEF SinkOn
  <2> QED BY <1>6, <2>1, <2>2 DEF VlansStay
<1> QED BY <1>4, <1>5, <1>6

\* DISABLED to POTENTIAL.
LEMMA RegisterStep ==
  ASSUME WellOrdered, NEW w, NEW old, WorldInv(w, old), NEW x \in Source, w.source[x].state = "DISABLED",
         MatchEntry(w.srp, x) # 0
  PROVE  LET v == SetSourceState(w, x, "POTENTIAL")
         IN  StepOK(w, v, old \cup TakesStale(w.srp, v.srp))
<1> DEFINE v == SetSourceState(w, x, "POTENTIAL")
           vlan == w.source[x].vlan
           size == w.source[x].config.size
           t == JoinTalker(w.srp, x, vlan, size)
           more == old \cup TakesStale(w.srp, v.srp)
<1>0. /\ w \in WorldSet /\ SrpInv(w.srp, old) /\ Streams(w, old) /\ x \in Stream
      /\ vlan \in Tags /\ size \in Nat
  BY ManagerAssumption DEF WorldInv, WorldSet, Stream
<1> HIDE DEF vlan, size
<1>1. /\ Requested(w.srp, t, x, old) /\ JoinedVids(w.srp, t, VlanFor(w.srp, vlan))
      /\ NoNewListener(w.srp, t)
  BY <1>0, JoinTalkerStep, Zenon
<1>2. t \in SrpSet
  BY <1>1, Zenon DEF Requested, SrpInv
<1>3. RegistersAs(w, v, x)
  BY <1>0, <1>2, RegisterIs, Zenon DEF vlan, size
<1> HIDE DEF v
<1>4. /\ v \in WorldSet /\ v.sink = w.sink /\ OthersSame(w, v, x)
      /\ v.source[x].state = "POTENTIAL" /\ v.source[x].config = w.source[x].config
  BY <1>3, Zenon DEF RegistersAs
<1>5. CASE ~Valid(w, x)
  <2>1. v.srp = w.srp /\ v.owner = w.owner /\ v.talker = w.talker
    BY <1>3, <1>5, Zenon DEF RegistersAs
  <2>2. Touches(w.srp, v.srp, x) /\ NoNewListener(w.srp, v.srp) /\ SrpInv(v.srp, more)
    <3>1. NoNewListener(w.srp, w.srp)
      BY Zenon DEF NoNewListener, IsListener
    <3>2. old \subseteq more
      BY Zenon
    <3> HIDE DEF more
    <3> QED BY <1>0, <2>1, <3>1, <3>2, TouchesSame, SrpInvMore
  <2>3. \A y \in Source : /\ v.talker.stream[y].on <=> v.source[y].state = "ENABLED"
                          /\ v.source[y].state = "ENABLED" => w.source[y].state = "ENABLED"
    BY <1>0, <1>4, <2>1 DEF OthersSame, Streams
  <2>4. WorldInv(v, more)
    <3>1. old \subseteq more
      OBVIOUS
    <3> HIDE DEF more
    <3> QED BY <1>4, <2>2, <2>3, <3>1, CommandWorld, Zenon
  <2>5. VlansStay(w, v)
    BY <2>1 DEF VlansStay
  <2>6. ASSUME VlanInv(w) PROVE VlanInv(v)
    <3>1. SourceVlan(v)
      <4> SUFFICES ASSUME Source = {x}
                   PROVE  /\ v.source[x].config.inputs = {}
                          /\ \A i \in Input : v.owner[i] = Unmapped
        BY <1>4, Zenon DEF SourceVlan
      <4>1. \A i \in Input : w.owner[i] = Unmapped
        BY <2>6, Zenon DEF VlanInv, SourceVlan
      <4>2. w.source[x].config.inputs \subseteq Input
        BY <1>0, ManagerAssumption DEF WorldSet
      <4> QED BY <1>4, <1>5, <2>1, <4>1, <4>2, Zenon DEF Valid
    <3> QED BY <1>4, <2>1, <2>2, <2>5, <2>6, <3>1, SinksApart, Zenon DEF VlanInv
  <2>7. DeclaresStep(w, v) /\ TracksStep(w, v)
    BY <1>4, <2>2, SinksApart, Zenon
  <2> QED BY <2>4, <2>6, <2>7 DEF StepOK, v
<1>6. CASE Valid(w, x)
  <2> DEFINE n == VlanFor(w.srp, vlan)
             ins == w.source[x].config.inputs
  <2>1. /\ v.srp = t /\ v.talker.vlan = n /\ v.talker.stream[x].vlan = n
        /\ ~v.talker.stream[x].on
        /\ \A i \in Input : v.owner[i] = IF i \in ins THEN x ELSE w.owner[i]
    BY <1>3, <1>6, Zenon DEF RegistersAs, vlan, size
  <2> HIDE DEF t, n
  <2>2. Touches(w.srp, v.srp, x) /\ NoNewListener(w.srp, v.srp) /\ SrpInv(v.srp, more)
    BY <1>1, <2>1, Zenon DEF Requested
  <2>3. \A y \in Source : /\ v.talker.stream[y].on <=> v.source[y].state = "ENABLED"
                          /\ v.source[y].state = "ENABLED" => w.source[y].state = "ENABLED"
    BY <1>0, <1>4, <2>1, Zenon DEF OthersSame, Streams
  <2>4. WorldInv(v, more)
    <3>1. old \subseteq more
      BY Zenon
    <3> HIDE DEF more
    <3> QED BY <1>4, <2>2, <2>3, <3>1, CommandWorld, Zenon
  <2>5. VlansStay(w, v)
    BY <1>1, <2>1, Zenon DEF VlansStay, JoinedVids
  <2>6. ASSUME Ample, VlanInv(w) PROVE VlanInv(v)
    <3>0. VidsOK(v.srp) /\ OnVlan(v.srp, n)
      BY <1>1, <2>1, <2>6, Zenon DEF VlanInv, JoinedVids, n
    <3>1. SourceVlan(v)
      <4> SUFFICES ASSUME Source = {x}
                   PROVE  /\ v.talker.vlan = v.talker.stream[x].vlan /\ OnVlan(v.srp, v.talker.vlan)
                          /\ \A i \in Input : v.owner[i] # Unmapped => i \in v.source[x].config.inputs
        BY <1>4, Zenon DEF SourceVlan
      <4>1. \A i \in Input : w.owner[i] = Unmapped
        BY <2>6, Zenon DEF VlanInv, SourceVlan
      <4> QED BY <1>4, <2>1, <3>0, <4>1, Zenon
    <3> QED BY <1>4, <2>2, <2>5, <2>6, <3>0, <3>1, SinksApart, Zenon DEF VlanInv
  <2>7. DeclaresStep(w, v) /\ TracksStep(w, v)
    BY <1>4, <2>2, SinksApart, Zenon
  <2> QED BY <2>4, <2>6, <2>7, Zenon DEF StepOK, v
<1> QED BY <1>5, <1>6, Zenon

\* A source is disabled.
DeregistersAs(w, v, x, old) ==
  LET ins == w.source[x].config.inputs
  IN  /\ v \in WorldSet /\ v.sink = w.sink /\ OthersSame(w, v, x)
      /\ v.source[x].state = "DISABLED" /\ v.source[x].config = w.source[x].config
      /\ ~v.talker.stream[x].on
      /\ \A i \in Input : v.owner[i] = IF i \in ins THEN Unmapped ELSE w.owner[i]
      /\ SrpInv(v.srp, old) /\ Touches(w.srp, v.srp, x) /\ NoNewListener(w.srp, v.srp)
      /\ VidsOK(w.srp) => VidsOK(v.srp)
      /\ VlansStay(w, v)

\* Disabling a source writes no more than that.
LEMMA DeregisterIs ==
  ASSUME WellOrdered, NEW w \in WorldSet, NEW old, SrpInv(w.srp, old), NEW x \in Source,
         w.source[x].state # "DISABLED"
  PROVE  DeregistersAs(w, SetSourceState(w, x, "DISABLED"), x, old)
<1> DEFINE ins == w.source[x].config.inputs
           own == [i \in Input |-> IF i \in ins THEN Unmapped ELSE w.owner[i]]
           r == [w EXCEPT !.source[x] = [w.source[x] EXCEPT !.state = "DISABLED"]]
           s0 == [r EXCEPT !.owner = own]
           s1 == [s0 EXCEPT !.talker.stream[x].on = FALSE]
           s2 == LeaveVlanIfIdle(s1, w.source[x].vlan)
           t == LeaveTalker(s2.srp, x)
           v == [s2 EXCEPT !.srp = t]
           u == SetSourceState(w, x, "DISABLED")
<1>1. /\ r \in WorldSet /\ r.source[x].state = "DISABLED" /\ r.source[x].config = w.source[x].config
      /\ r.source[x].vlan = w.source[x].vlan
      /\ \A y \in Source \ {x} : r.source[y] = w.source[y]
      /\ r.srp = w.srp /\ r.sink = w.sink /\ r.owner = w.owner /\ r.talker = w.talker
  BY Zenon DEF WorldSet, States
<1>2. u = Deregister(r, x)
  BY <1>1, Zenon DEF SetSourceState, SetSource, UpdateSource
<1> HIDE DEF r, u
<1>3. Deregister(r, x) = v
  <2>1. [r EXCEPT !.owner = own, !.talker.stream[x].on = FALSE] = s1
    BY <1>1 DEF WorldSet
  <2>2. [i \in Input |-> IF i \in ins THEN Unmapped ELSE r.owner[i]] = own
    BY <1>1
  <2> DEFINE own2 == [i \in Input |-> IF i \in ins THEN Unmapped ELSE r.owner[i]]
  <2>3. Deregister(r, x) =
          LET q == LeaveVlanIfIdle([r EXCEPT !.owner = own2, !.talker.stream[x].on = FALSE],
                                   w.source[x].vlan)
          IN  [q EXCEPT !.srp = LeaveTalker(q.srp, x)]
    BY <1>1 DEF Deregister
  <2> HIDE DEF own, own2
  <2> QED BY <2>1, <2>2, <2>3, Zenon DEF own2
<1>4. /\ s0 \in WorldSet /\ s0.srp = w.srp /\ s0.sink = w.sink /\ s0.source = r.source
      /\ s0.owner = own /\ s0.talker = w.talker
  BY <1>1, Zenon DEF WorldSet
<1> HIDE DEF s0
<1>5. /\ s1 \in WorldSet /\ s1.srp = s0.srp /\ s1.sink = s0.sink /\ s1.source = s0.source
      /\ s1.owner = s0.owner /\ s1.talker.stream[x].on = FALSE
      /\ \A y \in Source \ {x} : s1.talker.stream[y] = s0.talker.stream[y]
  BY <1>4, SwitchIs, ZenonT(40)
<1> HIDE DEF s1
<1>6. /\ s2 \in WorldSet /\ SrpInv(s2.srp, old)
      /\ s2.srp.attrs = s1.srp.attrs /\ s2.srp.table = s1.srp.table
      /\ s2.srp.vids = s1.srp.vids \/ AllDisabled(s1)
      /\ VidsOK(s1.srp) => VidsOK(s2.srp)
      /\ s2.source = s1.source /\ s2.sink = s1.sink /\ s2.owner = s1.owner /\ s2.talker = s1.talker
  <2>1. SrpInv(s1.srp, old)
    BY <1>4, <1>5, Zenon
  <2> QED BY <1>5, <2>1, IdleIs, Zenon
<1> HIDE DEF s2
<1>7. Withdraws(s2.srp, t, x, old)
  BY <1>6, LeaveTalkerStep, Zenon
<1> HIDE DEF t
<1>8. /\ v \in WorldSet /\ v.srp = t /\ v.sink = s2.sink /\ v.source = s2.source
      /\ v.owner = s2.owner /\ v.talker = s2.talker
  BY <1>6, <1>7, Zenon DEF WorldSet, Withdraws, SrpInv
<1> HIDE DEF v
<1>9. Touches(w.srp, t, x) /\ NoNewListener(w.srp, t)
  <2>1. s2.srp.attrs = w.srp.attrs /\ s2.srp.table = w.srp.table
    BY <1>4, <1>5, <1>6
  <2>2. Touches(w.srp, s2.srp, x)
    BY <2>1, TouchesSame, Zenon
  <2>3. NoNewListener(w.srp, s2.srp)
    BY <2>1, Zenon DEF NoNewListener, IsListener, InUse
  <2> QED BY <1>7, <2>2, <2>3, TouchesTwice, NoNewListenerTwice DEF Withdraws
<1>10. VidsOK(w.srp) => VidsOK(t)
  BY <1>4, <1>5, <1>6, <1>7, SMTT(30) DEF VidsOK, Withdraws
<1>11. VlansStay(w, v)
  <2>1. CASE AllDisabled(s1)
    BY <1>6, <1>8, <2>1 DEF VlansStay, AllDisabled
  <2>2. CASE s2.srp.vids = s1.srp.vids
    BY <1>4, <1>5, <1>7, <1>8, <2>2 DEF VlansStay, OnVlan, Withdraws
  <2> QED BY <1>6, <2>1, <2>2, Zenon
<1>12. OthersSame(w, v, x)
  BY <1>1, <1>4, <1>5, <1>6, <1>8 DEF OthersSame
<1>13. \A i \in Input : v.owner[i] = IF i \in ins THEN Unmapped ELSE w.owner[i]
  BY <1>4, <1>5, <1>6, <1>8
<1>14. v.sink = w.sink /\ v.source[x].state = "DISABLED" /\ v.source[x].config = w.source[x].config
       /\ ~v.talker.stream[x].on
  BY <1>1, <1>4, <1>5, <1>6, <1>8
<1>15. DeregistersAs(w, v, x, old)
  BY <1>7, <1>8, <1>9, <1>10, <1>11, <1>12, <1>13, <1>14, Zenon DEF DeregistersAs, Withdraws
<1> QED BY <1>2, <1>3, <1>15 DEF u

\* A source is disabled: its inputs are free, and a VLAN is left only by the last stream.
LEMMA DeregisterStep ==
  ASSUME WellOrdered, NEW w, NEW old, WorldInv(w, old), NEW x \in Source, w.source[x].state # "DISABLED"
  PROVE  StepOK(w, SetSourceState(w, x, "DISABLED"), old)
<1> DEFINE v == SetSourceState(w, x, "DISABLED")
           ins == w.source[x].config.inputs
<1>0. w \in WorldSet /\ SrpInv(w.srp, old) /\ Streams(w, old)
  BY Zenon DEF WorldInv
<1>1. DeregistersAs(w, v, x, old)
  BY <1>0, DeregisterIs, Zenon
<1> HIDE DEF v
<1>2. /\ v \in WorldSet /\ v.sink = w.sink /\ OthersSame(w, v, x)
      /\ v.source[x].state = "DISABLED" /\ ~v.talker.stream[x].on
      /\ SrpInv(v.srp, old) /\ Touches(w.srp, v.srp, x) /\ NoNewListener(w.srp, v.srp)
      /\ VidsOK(w.srp) => VidsOK(v.srp)
      /\ VlansStay(w, v)
  BY <1>1, Zenon DEF DeregistersAs
<1>3. \A i \in Input : v.owner[i] = IF i \in ins THEN Unmapped ELSE w.owner[i]
  BY <1>1, Zenon DEF DeregistersAs
<1>4. \A y \in Source : /\ v.talker.stream[y].on <=> v.source[y].state = "ENABLED"
                        /\ v.source[y].state = "ENABLED" => w.source[y].state = "ENABLED"
  BY <1>0, <1>2 DEF OthersSame, Streams
<1>5. WorldInv(v, old)
  BY <1>2, <1>4, CommandWorld, Zenon
<1>6. ASSUME VlanInv(w) PROVE VlanInv(v)
  <2>1. SourceVlan(v)
    <3> SUFFICES ASSUME Source = {x} PROVE \A i \in Input : v.owner[i] = Unmapped
      BY <1>2, Zenon DEF SourceVlan
    <3>1. \A i \in Input : w.owner[i] # Unmapped => i \in ins
      BY <1>6, Zenon DEF VlanInv, SourceVlan
    <3> QED BY <1>3, <3>1, Zenon
  <2> QED BY <1>2, <1>6, <2>1, SinksApart, Zenon DEF VlanInv
<1>7. DeclaresStep(w, v) /\ TracksStep(w, v)
  BY <1>2, SinksApart, Zenon
<1> QED BY <1>5, <1>6, <1>7, Zenon DEF StepOK, v

\* A source's VLAN is set, or its configuration while it is disabled.
LEMMA SourceInfoStep ==
  ASSUME NEW w, NEW old, WorldInv(w, old), NEW x \in Source,
         NEW info \in [state : States, vlan : Tags, config : Configs],
         info.state = w.source[x].state,
         info.config = w.source[x].config \/ info.state = "DISABLED"
  PROVE  StepOK(w, [w EXCEPT !.source[x] = info], old)
<1> DEFINE v == [w EXCEPT !.source[x] = info]
<1>0. w \in WorldSet /\ SrpInv(w.srp, old) /\ Streams(w, old)
  BY DEF WorldInv
<1>1. /\ v \in WorldSet /\ v.srp = w.srp /\ v.sink = w.sink /\ v.owner = w.owner
      /\ v.talker = w.talker /\ v.source[x] = info
      /\ \A y \in Source \ {x} : v.source[y] = w.source[y]
  BY <1>0, Zenon DEF WorldSet
<1> HIDE DEF v
<1>2. Touches(w.srp, v.srp, x) /\ NoNewListener(w.srp, v.srp) /\ VlansStay(w, v)
  <2>1. NoNewListener(w.srp, v.srp) /\ VlansStay(w, v)
    BY <1>1 DEF NoNewListener, IsListener, VlansStay
  <2> QED BY <1>1, <2>1, TouchesSame
<1>3. \A y \in Source : /\ v.talker.stream[y].on <=> v.source[y].state = "ENABLED"
                        /\ v.source[y].state = "ENABLED" => w.source[y].state = "ENABLED"
  BY <1>0, <1>1 DEF Streams
<1>4. WorldInv(v, old)
  BY <1>0, <1>1, <1>2, <1>3, CommandWorld
<1>5. ASSUME VlanInv(w) PROVE VlanInv(v)
  <2>1. SourceVlan(v)
    BY <1>1, <1>5 DEF VlanInv, SourceVlan
  <2> QED BY <1>1, <1>2, <1>5, <2>1, SinksApart, Zenon DEF VlanInv
<1>6. DeclaresStep(w, v) /\ TracksStep(w, v)
  BY <1>1, <1>2, SinksApart, Zenon
<1> QED BY <1>4, <1>5, <1>6 DEF StepOK, v

-----------------------------------------------------------------------------
(***************************************************************************)
(* The commands for a sink                                                 *)
(***************************************************************************)
\* The sources and the talker unit stay as they are, and so do the other sinks.
SourcesSame(w, v) == v.source = w.source /\ v.owner = w.owner /\ v.talker = w.talker
OtherSinks(w, v, k) == \A m \in Sink \ {k} : v.sink[m] = w.sink[m]

\* The sources do not notice what a command does for a sink.
LEMMA SourcesApart ==
  ASSUME NEW w, NEW old, WorldInv(w, old), NEW v \in WorldSet, SourcesSame(w, v), NEW x,
         NEW more, old \subseteq more, SrpInv(v.srp, more), Touches(w.srp, v.srp, x)
  PROVE  /\ WorldInv(v, more)
         /\ VlansStay(w, v) /\ SourceVlan(w) => SourceVlan(v)
<1>1. WorldInv(v, more)
  <2>1. \A y \in Source : /\ v.talker.stream[y].on <=> v.source[y].state = "ENABLED"
                          /\ v.source[y].state = "ENABLED" => w.source[y].state = "ENABLED"
    BY DEF WorldInv, Streams, SourcesSame
  <2> QED BY <2>1, CommandWorld
<1>2. ASSUME VlansStay(w, v), SourceVlan(w) PROVE SourceVlan(v)
  <2>1. CASE AllDisabled(v)
    BY <1>2, <2>1 DEF SourceVlan, SourcesSame, AllDisabled
  <2>2. CASE \A u : OnVlan(w.srp, u) => OnVlan(v.srp, u)
    BY <1>2, <2>2 DEF SourceVlan, SourcesSame
  <2> QED BY <1>2, <2>1, <2>2, Zenon DEF VlansStay
<1> QED BY <1>1, <1>2

\* The entry of a sink is written, and nothing else happens.
LEMMA SetSinkQuiet ==
  ASSUME NEW w \in WorldSet, NEW k \in Sink, NEW info,
         w.sink[k].state = "DISABLED" => info.state # "POTENTIAL",
         w.sink[k].state # "DISABLED" => info.state # "DISABLED"
  PROVE  SetSink(w, k, info) = [w EXCEPT !.sink[k] = info]
<1> DEFINE v == [w EXCEPT !.sink[k] = info]
<1>1. v.sink[k] = info
  BY DEF WorldSet
<1> HIDE DEF v
<1>2. UpdateSink(v, k, w.sink[k].state) = v
  BY <1>1 DEF UpdateSink
<1> QED BY <1>2 DEF SetSink, v

\* The stream ID or the VLAN of a sink that is not attached is set.
LEMMA SinkInfoStep ==
  ASSUME NEW w, NEW old, WorldInv(w, old), NEW k \in Sink,
         NEW info \in [state : States, vlan : Tags, stream : Remote \cup {NoStream}],
         w.sink[k].state = "DISABLED" <=> info.state = "DISABLED",
         w.sink[k].state # "DISABLED" => info.stream = w.sink[k].stream /\ info.vlan = w.sink[k].vlan
  PROVE  StepOK(w, [w EXCEPT !.sink[k] = info], old)
<1> DEFINE v == [w EXCEPT !.sink[k] = info]
<1>0. w \in WorldSet /\ SrpInv(w.srp, old)
  BY Zenon DEF WorldInv
<1>1. /\ v \in WorldSet /\ v.srp = w.srp /\ SourcesSame(w, v) /\ v.sink[k] = info
      /\ OtherSinks(w, v, k)
  BY <1>0, Zenon DEF WorldSet, SourcesSame, OtherSinks
<1> HIDE DEF v
<1>2. WorldInv(v, old) /\ (SourceVlan(w) => SourceVlan(v))
  <2>1. Touches(w.srp, v.srp, NoStream)
    BY <1>1, TouchesSame, Zenon
  <2>2. VlansStay(w, v)
    BY <1>1 DEF VlansStay
  <2> QED BY <1>0, <1>1, <2>1, <2>2, SourcesApart
<1>3. \A m \in Sink : /\ AttachedIn(v, m) <=> AttachedIn(w, m)
                      /\ AttachedIn(w, m) => /\ v.sink[m].stream = w.sink[m].stream
                                             /\ v.sink[m].vlan = w.sink[m].vlan
  BY <1>1 DEF AttachedIn, OtherSinks
<1>4. \A m \in Sink : AttachedIn(w, m) => (AloneIn(v, m) <=> AloneIn(w, m))
  BY <1>3 DEF AloneIn
<1>5. DeclaresStep(w, v) /\ TracksStep(w, v)
  BY <1>1, <1>3, Zenon DEF DeclaresStep, TracksStep
<1>6. ASSUME VlanInv(w) PROVE VlanInv(v)
  <2>1. SinkVlan(v)
    BY <1>1, <1>3, <1>6 DEF VlanInv, SinkVlan
  <2>2. SinkOn(v)
    BY <1>1, <1>3, <1>4, <1>6, Zenon DEF VlanInv, SinkOn
  <2> QED BY <1>1, <1>2, <1>6, <2>1, <2>2 DEF VlanInv
<1> QED BY <1>2, <1>5, <1>6 DEF StepOK, v

\* A sink is attached.
AttachesAs(w, v, k) ==
  /\ v.srp = JoinListener(w.srp, w.sink[k].stream, w.sink[k].vlan)
  /\ SourcesSame(w, v) /\ OtherSinks(w, v, k)
  /\ v.sink[k] = [state |-> "POTENTIAL", vlan |-> VlanFor(w.srp, w.sink[k].vlan),
                  stream |-> w.sink[k].stream]
  /\ v \in WorldSet

\* Attaching a sink writes no more than that.
LEMMA AttachIs ==
  ASSUME NEW w \in WorldSet, NEW k \in Sink, w.sink[k].state = "DISABLED",
         JoinListener(w.srp, w.sink[k].stream, w.sink[k].vlan) \in SrpSet
  PROVE  AttachesAs(w, SetSinkState(w, k, "POTENTIAL"), k)
<1> DEFINE b == w.sink[k]
           n == VlanFor(w.srp, b.vlan)
           t == JoinListener(w.srp, b.stream, b.vlan)
           r == [w EXCEPT !.sink[k] = [b EXCEPT !.state = "POTENTIAL"]]
           snk == [r.sink EXCEPT ![k] = [@ EXCEPT !.vlan = n]]
           v == [r EXCEPT !.srp = t, !.sink = snk]
           u == SetSinkState(w, k, "POTENTIAL")
<1>0. b \in [state : States, vlan : Tags, stream : Remote \cup {NoStream}]
  BY DEF WorldSet
<1>n. n \in Tags
  BY <1>0, Zenon DEF WorldSet, SrpSet, VlanFor, Tags
<1>1. /\ r \in WorldSet /\ r.sink[k] = [b EXCEPT !.state = "POTENTIAL"]
      /\ r.sink[k].state = "POTENTIAL"
      /\ r.sink[k].stream = b.stream /\ r.sink[k].vlan = b.vlan
      /\ \A m \in Sink \ {k} : r.sink[m] = w.sink[m]
      /\ r.srp = w.srp /\ r.source = w.source /\ r.owner = w.owner /\ r.talker = w.talker
  BY <1>0, Zenon DEF WorldSet, States
<1>2. u = Attach(r, k)
  BY <1>1 DEF SetSinkState, SetSink, UpdateSink
<1> HIDE DEF r, u, n
<1>3. Attach(r, k) = v
  <2>1. Attach(r, k) = [r EXCEPT !.srp = t, !.sink[k].vlan = n]
    BY <1>1 DEF Attach, n
  <2> HIDE DEF t
  <2>2. [r EXCEPT !.srp = t, !.sink[k].vlan = n] = v
    BY <1>1, Zenon DEF WorldSet
  <2> QED BY <2>1, <2>2
<1>t. t \in SrpSet
  OBVIOUS
<1> HIDE DEF t, b
<1>4. /\ snk \in [Sink -> [state : States, vlan : Tags, stream : Remote \cup {NoStream}]]
      /\ snk[k] = [state |-> "POTENTIAL", vlan |-> n, stream |-> b.stream]
      /\ \A m \in Sink \ {k} : snk[m] = w.sink[m]
  <2>1. r.sink \in [Sink -> [state : States, vlan : Tags, stream : Remote \cup {NoStream}]]
    BY <1>1 DEF WorldSet
  <2>2. snk[k] = [r.sink[k] EXCEPT !.vlan = n]
    BY <2>1
  <2>3. snk[k] = [state |-> "POTENTIAL", vlan |-> n, stream |-> b.stream]
    <3> DEFINE q == r.sink[k]
    <3>1. /\ q \in [state : States, vlan : Tags, stream : Remote \cup {NoStream}]
          /\ q.state = "POTENTIAL" /\ q.stream = b.stream
      BY <1>1, <2>1
    <3> HIDE DEF q
    <3>2. [q EXCEPT !.vlan = n] = [state |-> q.state, vlan |-> n, stream |-> q.stream]
      BY <3>1
    <3> QED BY <2>2, <3>1, <3>2, Zenon DEF q
  <2>4. "POTENTIAL" \in States
    BY DEF States
  <2> QED BY <1>0, <1>1, <1>n, <2>1, <2>3, <2>4
<1> HIDE DEF snk
<1>5. /\ v \in WorldSet /\ v.srp = t /\ v.sink = snk /\ v.source = r.source
      /\ v.owner = r.owner /\ v.talker = r.talker
  BY <1>1, <1>4, <1>t, Zenon DEF WorldSet
<1> HIDE DEF v
<1>6. SourcesSame(w, v) /\ OtherSinks(w, v, k)
  BY <1>1, <1>4, <1>5 DEF SourcesSame, OtherSinks
<1>7. AttachesAs(w, v, k)
  BY <1>4, <1>5, <1>6, Zenon DEF AttachesAs, t, n, b
<1> QED BY <1>2, <1>3, <1>7, Zenon DEF u

\* A sink is attached: it declares and tracks if there is room, and its VLAN is joined.
LEMMA AttachStep ==
  ASSUME WellOrdered, NEW w, NEW old, WorldInv(w, old), NEW k \in Sink, w.sink[k].state = "DISABLED",
         w.sink[k].stream # NoStream
  PROVE  LET v == SetSinkState(w, k, "POTENTIAL")
         IN  StepOK(w, v, old \cup TakesStale(w.srp, v.srp))
<1> DEFINE v == SetSinkState(w, k, "POTENTIAL")
           x == w.sink[k].stream
           n == VlanFor(w.srp, w.sink[k].vlan)
           s == w.srp
           t == v.srp
           more == old \cup TakesStale(s, t)
<1>0. w \in WorldSet /\ SrpInv(s, old) /\ x \in Stream /\ w.sink[k].vlan \in Tags
  BY Zenon DEF WorldInv, WorldSet, Stream
<1>1. ListenerJoined(s, JoinListener(s, x, w.sink[k].vlan), x, n, old)
  BY <1>0, JoinListenerStep, Zenon
<1>2. AttachesAs(w, v, k)
  <2>1. JoinListener(s, x, w.sink[k].vlan) \in SrpSet
    BY <1>1, Zenon DEF ListenerJoined, Requested, SrpInv
  <2> QED BY <1>0, <2>1, AttachIs, Zenon
<1> HIDE DEF v
<1>3. /\ SourcesSame(w, v) /\ OtherSinks(w, v, k) /\ v \in WorldSet
      /\ v.sink[k].state = "POTENTIAL" /\ v.sink[k].vlan = n /\ v.sink[k].stream = x
  BY <1>2 DEF AttachesAs
<1>4. ListenerJoined(s, t, x, n, old)
  BY <1>1, <1>2, Zenon DEF AttachesAs
<1> HIDE DEF x, n, s, t
<1>5. Touches(s, t, x) /\ Joins(s, t) /\ SrpInv(t, more) /\ (t = s \/ JoinedVids(s, t, n))
  BY <1>4, Zenon DEF ListenerJoined, Requested
<1>6. /\ \A m \in Sink \ {k} : /\ AttachedIn(v, m) <=> AttachedIn(w, m)
                               /\ v.sink[m].stream = w.sink[m].stream
                               /\ v.sink[m].vlan = w.sink[m].vlan
      /\ ~AttachedIn(w, k) /\ AttachedIn(v, k)
      /\ w.sink[k].stream = x /\ w.srp = s /\ v.srp = t
  BY <1>3 DEF OtherSinks, AttachedIn, x, s, t
<1>7. \A y : /\ DeclaredIn(s, y) => DeclaredIn(t, y)
             /\ TrackedIn(s, y) => TrackedIn(t, y)
  BY <1>5 DEF DeclaredIn, TrackedIn, IsListener, IsTalker, Touches, Joins
<1>8. DeclaresStep(w, v)
  <2> SUFFICES ASSUME NEW m \in Sink, AttachedIn(v, m),
                      IF AttachedIn(w, m) THEN DeclaredIn(s, w.sink[m].stream)
                      ELSE /\ MatchType(s, "FAILED", w.sink[m].stream) = 0
                           /\ MatchEntry(s, w.sink[m].stream) # 0
                           /\ MatchType(s, "LISTENER", w.sink[m].stream) # 0 \/ FreeIn(s) # {}
               PROVE  DeclaredIn(t, v.sink[m].stream)
    BY <1>6, Zenon DEF DeclaresStep
  <2>1. CASE m = k
    BY <1>3, <1>4, <1>6, <2>1, Zenon DEF ListenerJoined
  <2>2. CASE m # k
    BY <1>6, <1>7, <2>2, Zenon
  <2> QED BY <2>1, <2>2
<1>9. TracksStep(w, v)
  <2> SUFFICES ASSUME NEW m \in Sink, AttachedIn(v, m),
                      \/ TrackedIn(s, w.sink[m].stream)
                      \/ /\ ~AttachedIn(w, m) /\ MatchTalker(s, w.sink[m].stream) = 0
                         /\ MatchEntry(s, w.sink[m].stream) # 0
                         /\ \E i, j \in FreeIn(s) :
                              i # j \/ MatchType(s, "LISTENER", w.sink[m].stream) # 0
               PROVE  TrackedIn(t, v.sink[m].stream)
    BY <1>6 DEF TracksStep
  <2>1. CASE m = k
    BY <1>3, <1>4, <1>6, <1>7, <2>1, Zenon DEF ListenerJoined
  <2>2. CASE m # k
    BY <1>6, <1>7, <2>2, Zenon
  <2> QED BY <2>1, <2>2
<1>10. VlansStay(w, v)
  <2>1. \A u : OnVlan(s, u) => OnVlan(t, u)
    BY <1>5, Zenon DEF JoinedVids
  <2> QED BY <1>6, <2>1, Zenon DEF VlansStay
<1>11. WorldInv(v, more) /\ (SourceVlan(w) => SourceVlan(v))
  <2>1. old \subseteq more
    BY Zenon
  <2> HIDE DEF more
  <2> QED BY <1>3, <1>5, <1>6, <1>10, <2>1, SourcesApart, Zenon
<1>12. ASSUME Ample, VlanInv(w) PROVE VlanInv(v)
  <2>1. VidsOK(t) /\ (\A u : OnVlan(s, u) => OnVlan(t, u)) /\ (t = s \/ OnVlan(t, n))
    BY <1>5, <1>6, <1>12, Zenon DEF VlanInv, JoinedVids
  <2>2. SinkVlan(v)
    <3> SUFFICES ASSUME NEW j \in Slots, IsListener(t, j), t.attrs[j].app = "VN"
                 PROVE  \E m \in Sink : AttachedIn(v, m) /\ v.sink[m].stream = StreamOf(t, j)
      BY <1>6 DEF SinkVlan
    <3>1. CASE StreamOf(t, j) = x
      BY <1>3, <1>6, <3>1
    <3>2. CASE StreamOf(t, j) # x
      <4>1. IsListener(s, j) /\ s.attrs[j].app = "VN" /\ StreamOf(t, j) = StreamOf(s, j)
        BY <1>5, <3>2 DEF Touches, IsListener
      <4>2. PICK m \in Sink : AttachedIn(w, m) /\ w.sink[m].stream = StreamOf(s, j)
        BY <1>6, <1>12, <4>1, Zenon DEF VlanInv, SinkVlan
      <4> QED BY <1>6, <4>1, <4>2, Zenon
    <3> QED BY <3>1, <3>2
  <2>3. SinkOn(v)
    <3> SUFFICES ASSUME NEW m \in Sink, AttachedIn(v, m), AloneIn(v, m),
                        DeclaredIn(t, v.sink[m].stream)
                 PROVE  OnVlan(t, v.sink[m].vlan)
      BY <1>6, Zenon DEF SinkOn
    <3>1. CASE m = k
      <4>1. t # s
        <5> SUFFICES ASSUME t = s PROVE FALSE
          OBVIOUS
        <5>1. PICK j \in Slots : IsListener(s, j) /\ StreamOf(s, j) = x /\ s.attrs[j].app = "VN"
          BY <1>3, <3>1 DEF DeclaredIn
        <5>2. PICK i \in Sink : AttachedIn(w, i) /\ w.sink[i].stream = x
          BY <1>6, <1>12, <5>1, Zenon DEF VlanInv, SinkVlan
        <5>3. i # k /\ AttachedIn(v, i) /\ v.sink[i].stream = v.sink[k].stream
          BY <1>3, <1>6, <5>2, Zenon
        <5> QED BY <3>1, <5>3, Zenon DEF AloneIn
      <4> QED BY <1>3, <2>1, <3>1, <4>1, Zenon
    <3>2. CASE m # k
      <4>1. w.sink[m].stream # x
        BY <1>3, <1>6, <3>2, Zenon DEF AloneIn
      <4>2. DeclaredIn(s, w.sink[m].stream)
        BY <1>5, <1>6, <3>2, <4>1, TouchesOther
      <4>3. AloneIn(w, m) /\ AttachedIn(w, m)
        BY <1>6, <3>2, Zenon DEF AloneIn
      <4>4. OnVlan(s, w.sink[m].vlan)
        BY <1>6, <1>12, <4>2, <4>3, Zenon DEF VlanInv, SinkOn
      <4> QED BY <1>6, <2>1, <3>2, <4>4, Zenon
    <3> QED BY <3>1, <3>2, Zenon
  <2> QED BY <1>6, <1>11, <1>12, <2>1, <2>2, <2>3, Zenon DEF VlanInv
<1>13. StepOK(w, v, more)
  BY <1>8, <1>9, <1>11, <1>12, Zenon DEF StepOK
<1> QED BY <1>13 DEF v, s, t

\* A sink is detached.
DetachesAs(w, v, k, old) ==
  LET x == w.sink[k].stream
  IN  /\ v \in WorldSet /\ SourcesSame(w, v) /\ OtherSinks(w, v, k)
      /\ v.sink[k].state = "DISABLED"
      /\ SrpInv(v.srp, old) /\ Touches(w.srp, v.srp, x) /\ NoNewListener(w.srp, v.srp)
      /\ VidsOK(w.srp) => VidsOK(v.srp)
      /\ VlansStay(w, v)
      /\ ~DeclaredIn(v.srp, x)

\* Detaching a sink writes no more than that.
LEMMA DetachIs ==
  ASSUME WellOrdered, NEW w \in WorldSet, NEW old, SrpInv(w.srp, old), NEW k \in Sink,
         w.sink[k].state # "DISABLED"
  PROVE  DetachesAs(w, SetSinkState(w, k, "DISABLED"), k, old)
<1> DEFINE b == w.sink[k]
           x == b.stream
           r == [w EXCEPT !.sink[k] = [b EXCEPT !.state = "DISABLED"]]
           t == LeaveListener(w.srp, x)
           s1 == [r EXCEPT !.srp = t]
           v == LeaveVlanIfIdle(s1, b.vlan)
           u == SetSinkState(w, k, "DISABLED")
<1>0. b \in [state : States, vlan : Tags, stream : Remote \cup {NoStream}]
  BY DEF WorldSet
<1>1. /\ r \in WorldSet /\ r.sink[k].state = "DISABLED"
      /\ r.sink[k].stream = x /\ r.sink[k].vlan = b.vlan
      /\ \A m \in Sink \ {k} : r.sink[m] = w.sink[m]
      /\ r.srp = w.srp /\ r.source = w.source /\ r.owner = w.owner /\ r.talker = w.talker
  BY <1>0, Zenon DEF WorldSet, States
<1>2. u = Detach(r, k)
  BY <1>1 DEF SetSinkState, SetSink, UpdateSink
<1> HIDE DEF r, u
<1>3. Detach(r, k) = v
  BY <1>1 DEF Detach
<1>4. /\ Withdraws(w.srp, t, x, old)
      /\ \A j \in Slots : IsListener(t, j) /\ StreamOf(t, j) = x => t.attrs[j].app # "VN"
  BY LeaveListenerStep, Zenon
<1> HIDE DEF t, x, b
<1>5. /\ s1 \in WorldSet /\ s1.srp = t /\ s1.source = r.source /\ s1.sink = r.sink
      /\ s1.owner = r.owner /\ s1.talker = r.talker
  BY <1>1, <1>4, Zenon DEF WorldSet, Withdraws, SrpInv
<1> HIDE DEF s1
<1>6. /\ v \in WorldSet /\ SrpInv(v.srp, old)
      /\ v.srp.attrs = s1.srp.attrs /\ v.srp.table = s1.srp.table
      /\ v.srp.vids = s1.srp.vids \/ AllDisabled(s1)
      /\ VidsOK(s1.srp) => VidsOK(v.srp)
      /\ v.source = s1.source /\ v.sink = s1.sink /\ v.owner = s1.owner /\ v.talker = s1.talker
  <2>1. SrpInv(s1.srp, old)
    BY <1>4, <1>5, Zenon DEF Withdraws
  <2> QED BY <1>5, <2>1, IdleIs
<1> HIDE DEF v
<1>7. v.srp.attrs = t.attrs /\ v.srp.table = t.table
  BY <1>5, <1>6
<1>8. Touches(w.srp, v.srp, x) /\ NoNewListener(w.srp, v.srp)
  <2>1. Touches(t, v.srp, x)
    BY <1>7, TouchesSame
  <2>2. NoNewListener(t, v.srp)
    BY <1>7, Zenon DEF NoNewListener, IsListener, InUse
  <2> QED BY <1>4, <2>1, <2>2, TouchesTwice, NoNewListenerTwice DEF Withdraws
<1>9. VidsOK(w.srp) => VidsOK(v.srp)
  BY <1>4, <1>5, <1>6 DEF VidsOK, Withdraws
<1>10. VlansStay(w, v)
  <2>1. CASE AllDisabled(s1)
    BY <1>6, <2>1, Zenon DEF VlansStay, AllDisabled
  <2>2. CASE v.srp.vids = s1.srp.vids
    BY <1>4, <1>5, <2>2 DEF VlansStay, OnVlan, Withdraws
  <2> QED BY <1>6, <2>1, <2>2, Zenon
<1>11. ~DeclaredIn(v.srp, x)
  BY <1>4, <1>7, Zenon DEF DeclaredIn, IsListener, InUse, StreamOf
<1>12. SourcesSame(w, v) /\ OtherSinks(w, v, k) /\ v.sink[k].state = "DISABLED"
  BY <1>1, <1>5, <1>6 DEF SourcesSame, OtherSinks
<1>13. DetachesAs(w, v, k, old)
  BY <1>6, <1>8, <1>9, <1>10, <1>11, <1>12, Zenon DEF DetachesAs, x, b
<1> QED BY <1>2, <1>3, <1>13 DEF u

\* A sink is detached: no other sink of another stream is affected.
LEMMA DetachStep ==
  ASSUME WellOrdered, NEW w, NEW old, WorldInv(w, old), NEW k \in Sink, w.sink[k].state # "DISABLED"
  PROVE  StepOK(w, SetSinkState(w, k, "DISABLED"), old)
<1> DEFINE v == SetSinkState(w, k, "DISABLED")
           x == w.sink[k].stream
<1>0. w \in WorldSet /\ SrpInv(w.srp, old)
  BY Zenon DEF WorldInv
<1>1. DetachesAs(w, v, k, old)
  BY <1>0, DetachIs
<1> HIDE DEF v
<1>2. /\ v \in WorldSet /\ SourcesSame(w, v) /\ OtherSinks(w, v, k) /\ v.sink[k].state = "DISABLED"
      /\ SrpInv(v.srp, old) /\ Touches(w.srp, v.srp, x) /\ NoNewListener(w.srp, v.srp)
      /\ VidsOK(w.srp) => VidsOK(v.srp)
      /\ VlansStay(w, v)
      /\ ~DeclaredIn(v.srp, x)
  BY <1>1 DEF DetachesAs
<1>3. WorldInv(v, old) /\ (SourceVlan(w) => SourceVlan(v))
  BY <1>2, SourcesApart, Zenon
<1>4. /\ AttachedIn(w, k) /\ ~AttachedIn(v, k)
      /\ \A m \in Sink \ {k} : /\ AttachedIn(v, m) <=> AttachedIn(w, m)
                               /\ v.sink[m].stream = w.sink[m].stream
                               /\ v.sink[m].vlan = w.sink[m].vlan
  BY <1>2, Zenon DEF AttachedIn, OtherSinks
<1>5. \A m \in Sink \ {k} : AloneIn(w, m) => w.sink[m].stream # x
  BY <1>4, Zenon DEF AloneIn
<1>6. \A y : y # x => /\ DeclaredIn(v.srp, y) <=> DeclaredIn(w.srp, y)
                      /\ TrackedIn(v.srp, y) <=> TrackedIn(w.srp, y)
  BY <1>2, TouchesOther
<1>7. DeclaresStep(w, v) /\ TracksStep(w, v)
  <2>1. DeclaresStep(w, v)
    BY <1>4, <1>5, <1>6, Zenon DEF DeclaresStep
  <2>2. TracksStep(w, v)
    BY <1>4, <1>5, <1>6, Zenon DEF TracksStep
  <2> QED BY <2>1, <2>2
<1>8. ASSUME VlanInv(w) PROVE VlanInv(v)
  <2>1. SinkVlan(v)
    <3> SUFFICES ASSUME NEW j \in Slots, IsListener(v.srp, j), v.srp.attrs[j].app = "VN"
                 PROVE  \E m \in Sink : AttachedIn(v, m) /\ v.sink[m].stream = StreamOf(v.srp, j)
      BY Zenon DEF SinkVlan
    <3>1. StreamOf(v.srp, j) # x
      BY <1>2, Zenon DEF DeclaredIn
    <3>2. IsListener(w.srp, j) /\ w.srp.attrs[j].app = "VN" /\ StreamOf(v.srp, j) = StreamOf(w.srp, j)
      BY <1>2, <3>1, Zenon DEF Touches, IsListener
    <3>3. PICK m \in Sink : AttachedIn(w, m) /\ w.sink[m].stream = StreamOf(w.srp, j)
      BY <1>8, <3>2, Zenon DEF VlanInv, SinkVlan
    <3> QED BY <1>4, <3>1, <3>2, <3>3, Zenon
  <2>2. SinkOn(v)
    <3> SUFFICES ASSUME NEW m \in Sink, AttachedIn(v, m), AloneIn(v, m),
                        DeclaredIn(v.srp, v.sink[m].stream)
                 PROVE  OnVlan(v.srp, v.sink[m].vlan)
      BY Zenon DEF SinkOn
    <3>1. m # k /\ w.sink[m].stream # x /\ AttachedIn(w, m)
      BY <1>2, <1>4, Zenon
    <3>2. AloneIn(w, m)
      BY <1>4, <3>1, Zenon DEF AloneIn
    <3>3. OnVlan(w.srp, v.sink[m].vlan)
      BY <1>4, <1>6, <1>8, <3>1, <3>2, Zenon DEF VlanInv, SinkOn
    <3>4. ~AllDisabled(v)
      BY Zenon DEF AllDisabled, AttachedIn
    <3> QED BY <1>2, <3>3, <3>4, Zenon DEF VlansStay
  <2> QED BY <1>2, <1>3, <1>8, <2>1, <2>2, Zenon DEF VlanInv
<1> QED BY <1>3, <1>7, <1>8 DEF StepOK, v

-----------------------------------------------------------------------------
(***************************************************************************)
(* Every step                                                              *)
(***************************************************************************)
\* A step may leave more streams stale than it needs.
LEMMA StepMore ==
  ASSUME NEW w, NEW v, NEW old, NEW more, old \subseteq more, StepOK(w, v, old)
  PROVE  StepOK(w, v, more)
<1>1. WorldInv(v, old)
  BY DEF StepOK
<1>2. SrpInv(v.srp, more)
  BY <1>1, SrpInvMore DEF WorldInv
<1>3. Streams(v, more)
  BY <1>1 DEF WorldInv, Streams
<1> QED BY <1>1, <1>2, <1>3 DEF StepOK, WorldInv

\* set_source_state, set_source_vlan and the others.
LEMMA SourceCommandStep ==
  ASSUME WellOrdered, NEW w, NEW old, WorldInv(w, old), NEW x \in Source
  PROVE  /\ MatchEntry(w.srp, x) # 0 =>
              LET v == SetSourceState(w, x, "POTENTIAL")
              IN  StepOK(w, v, old \cup TakesStale(w.srp, v.srp))
         /\ StepOK(w, SetSourceState(w, x, "DISABLED"), old)
         /\ \A c \in Configs : StepOK(w, SetSourceConfig(w, x, c), old)
         /\ \A n \in Vlans : StepOK(w, SetSourceVlan(w, x, n), old)
<1>0. /\ w \in WorldSet /\ w.source[x] \in [state : States, vlan : Tags, config : Configs]
      /\ StepOK(w, w, old)
  <2>1. StepOK(w, w, old)
    BY WorldKeepSame, KeepIsOK
  <2> QED BY <2>1 DEF WorldInv, WorldSet
<1>1. ASSUME NEW info \in [state : States, vlan : Tags, config : Configs],
             info.state = w.source[x].state,
             info.config = w.source[x].config \/ info.state = "DISABLED"
      PROVE  StepOK(w, SetSource(w, x, info), old)
  BY <1>0, <1>1, SetSourceSame, SourceInfoStep
<1>2. ASSUME NEW st \in States, st = w.source[x].state
      PROVE  StepOK(w, SetSourceState(w, x, st), old)
  <2> DEFINE info == [w.source[x] EXCEPT !.state = st]
  <2>1. /\ info \in [state : States, vlan : Tags, config : Configs]
        /\ info.state = w.source[x].state /\ info.config = w.source[x].config
    BY <1>0, <1>2
  <2>2. SetSourceState(w, x, st) = SetSource(w, x, info)
    BY DEF SetSourceState
  <2> HIDE DEF info
  <2> QED BY <1>1, <2>1, <2>2
<1>3. ASSUME MatchEntry(w.srp, x) # 0
      PROVE  LET v == SetSourceState(w, x, "POTENTIAL")
             IN  StepOK(w, v, old \cup TakesStale(w.srp, v.srp))
  <2> DEFINE v == SetSourceState(w, x, "POTENTIAL")
  <2>1. CASE w.source[x].state = "DISABLED"
    BY <1>3, <2>1, RegisterStep
  <2>2. ASSUME StepOK(w, v, old) PROVE StepOK(w, v, old \cup TakesStale(w.srp, v.srp))
    <3> DEFINE more == old \cup TakesStale(w.srp, v.srp)
    <3>1. old \subseteq more
      OBVIOUS
    <3> HIDE DEF v, more
    <3>2. StepOK(w, v, more)
      BY <2>2, <3>1, StepMore
    <3> QED BY <3>2 DEF more
  <2>3. CASE w.source[x].state = "ENABLED"
    <3>1. WorldInv(v, old) /\ WorldKeep(w, v)
      BY <2>3, StopWorld
    <3> HIDE DEF v
    <3>2. StepOK(w, v, old)
      BY <3>1, KeepIsOK
    <3> QED BY <2>2, <3>2 DEF v
  <2>4. CASE w.source[x].state = "POTENTIAL"
    <3>1. StepOK(w, v, old)
      BY <1>2, <2>4 DEF States
    <3> QED BY <2>2, <3>1
  <2> QED BY <1>0, <2>1, <2>3, <2>4 DEF States
<1>4. StepOK(w, SetSourceState(w, x, "DISABLED"), old)
  <2>1. CASE w.source[x].state = "DISABLED"
    BY <1>2, <2>1 DEF States
  <2>2. CASE w.source[x].state # "DISABLED"
    BY <2>2, DeregisterStep
  <2> QED BY <2>1, <2>2
<1>5. ASSUME NEW c \in Configs PROVE StepOK(w, SetSourceConfig(w, x, c), old)
  <2>1. CASE w.source[x].state # "DISABLED"
    BY <1>0, <2>1 DEF SetSourceConfig
  <2>2. CASE w.source[x].state = "DISABLED"
    <3> DEFINE info == [w.source[x] EXCEPT !.config = c]
    <3>1. /\ info \in [state : States, vlan : Tags, config : Configs]
          /\ info.state = w.source[x].state
      BY <1>0
    <3>2. SetSourceConfig(w, x, c) = SetSource(w, x, info)
      BY <2>2 DEF SetSourceConfig
    <3> HIDE DEF info
    <3> QED BY <1>1, <2>2, <3>1, <3>2, Zenon
  <2> QED BY <2>1, <2>2
<1>6. ASSUME NEW n \in Vlans PROVE StepOK(w, SetSourceVlan(w, x, n), old)
  <2> DEFINE info == [w.source[x] EXCEPT !.vlan = n]
  <2>1. /\ info \in [state : States, vlan : Tags, config : Configs]
        /\ info.state = w.source[x].state /\ info.config = w.source[x].config
    BY <1>0, Zenon DEF Tags
  <2>2. SetSourceVlan(w, x, n) = SetSource(w, x, info)
    BY DEF SetSourceVlan
  <2> HIDE DEF info
  <2> QED BY <1>1, <2>1, <2>2
<1> QED BY <1>3, <1>4, <1>5, <1>6

\* set_sink_state, set_sink_id, set_sink_vlan.
LEMMA SinkCommandStep ==
  ASSUME WellOrdered, NEW w, NEW old, WorldInv(w, old), NEW k \in Sink
  PROVE  /\ w.sink[k].stream # NoStream =>
              LET v == SetSinkState(w, k, "POTENTIAL")
              IN  StepOK(w, v, old \cup TakesStale(w.srp, v.srp))
         /\ StepOK(w, SetSinkState(w, k, "DISABLED"), old)
         /\ \A x \in Remote : StepOK(w, SetSinkId(w, k, x), old)
         /\ \A n \in Vlans : StepOK(w, SetSinkVlan(w, k, n), old)
<1> DEFINE Info == [state : States, vlan : Tags, stream : Remote \cup {NoStream}]
           b == w.sink[k]
<1>0. w \in WorldSet /\ b \in Info /\ StepOK(w, w, old)
  <2>1. StepOK(w, w, old)
    BY WorldKeepSame, KeepIsOK
  <2> QED BY <2>1 DEF WorldInv, WorldSet
<1>1. ASSUME NEW info \in Info, b.state = "DISABLED" <=> info.state = "DISABLED",
             b.state # "DISABLED" => info.stream = b.stream /\ info.vlan = b.vlan
      PROVE  StepOK(w, SetSink(w, k, info), old)
  <2>1. SetSink(w, k, info) = [w EXCEPT !.sink[k] = info]
    BY <1>0, <1>1, SetSinkQuiet
  <2>2. StepOK(w, [w EXCEPT !.sink[k] = info], old)
    BY <1>1, SinkInfoStep
  <2> QED BY <2>1, <2>2
<1>2. ASSUME NEW st \in States, b.state = "DISABLED" <=> st = "DISABLED"
      PROVE  StepOK(w, SetSinkState(w, k, st), old)
  <2> DEFINE info == [b EXCEPT !.state = st]
  <2>1. info \in Info /\ info.state = st /\ info.stream = b.stream /\ info.vlan = b.vlan
    BY <1>0, <1>2
  <2>2. SetSinkState(w, k, st) = SetSink(w, k, info)
    BY DEF SetSinkState
  <2> HIDE DEF info, Info
  <2> QED BY <1>1, <1>2, <2>1, <2>2
<1>3. ASSUME b.stream # NoStream
      PROVE  LET v == SetSinkState(w, k, "POTENTIAL")
             IN  StepOK(w, v, old \cup TakesStale(w.srp, v.srp))
  <2> DEFINE v == SetSinkState(w, k, "POTENTIAL")
             more == old \cup TakesStale(w.srp, v.srp)
  <2>1. CASE b.state = "DISABLED"
    BY <1>3, <2>1, AttachStep, Zenon
  <2>2. CASE b.state # "DISABLED"
    <3>1. StepOK(w, v, old)
      BY <1>2, <2>2, Zenon DEF States
    <3>2. old \subseteq more
      OBVIOUS
    <3> HIDE DEF v, more
    <3>3. StepOK(w, v, more)
      BY <3>1, <3>2, StepMore
    <3> QED BY <3>3 DEF v, more
  <2> QED BY <2>1, <2>2
<1>4. StepOK(w, SetSinkState(w, k, "DISABLED"), old)
  <2>1. CASE b.state = "DISABLED"
    BY <1>2, <2>1 DEF States
  <2>2. CASE b.state # "DISABLED"
    BY <2>2, DetachStep
  <2> QED BY <2>1, <2>2
<1>5. ASSUME NEW x \in Remote PROVE StepOK(w, SetSinkId(w, k, x), old)
  <2>1. CASE b.state # "DISABLED"
    BY <1>0, <2>1 DEF SetSinkId
  <2>2. CASE b.state = "DISABLED"
    <3> DEFINE info == [b EXCEPT !.stream = x]
    <3>1. info \in Info /\ info.state = b.state
      BY <1>0
    <3>2. SetSinkId(w, k, x) = SetSink(w, k, info)
      BY <2>2 DEF SetSinkId
    <3> HIDE DEF info, Info
    <3> QED BY <1>1, <2>2, <3>1, <3>2
  <2> QED BY <2>1, <2>2
<1>6. ASSUME NEW n \in Vlans PROVE StepOK(w, SetSinkVlan(w, k, n), old)
  <2>1. CASE b.state # "DISABLED"
    BY <1>0, <2>1 DEF SetSinkVlan
  <2>2. CASE b.state = "DISABLED"
    <3> DEFINE info == [b EXCEPT !.vlan = n]
    <3>1. info \in Info /\ info.state = b.state
      BY <1>0 DEF Tags
    <3>2. SetSinkVlan(w, k, n) = SetSink(w, k, info)
      BY <2>2 DEF SetSinkVlan
    <3> HIDE DEF info, Info
    <3> QED BY <1>1, <2>2, <3>1, <3>2, Zenon
  <2> QED BY <2>1, <2>2
<1> QED BY <1>3, <1>4, <1>5, <1>6

\* A command that changes something takes its step.
LEMMA CommandedStep ==
  ASSUME NEW w, Command(w), StepOK(World, w, stale \cup TakesStale(srp, w.srp))
  PROVE  StepOK(World, Later, stale')
<1>1. Becomes(w) /\ stale' = stale \cup TakesStale(srp, w.srp)
  BY DEF Command
<1>2. w \in WorldSet
  BY DEF StepOK, WorldInv
<1>3. Later = w
  BY <1>1, <1>2, BecomesIs
<1> QED BY <1>1, <1>3

\* ... as it does when its request takes no slot.
LEMMA QuietStep ==
  ASSUME NEW w, Command(w), StepOK(World, w, stale)
  PROVE  StepOK(World, Later, stale')
<1> DEFINE more == stale \cup TakesStale(srp, w.srp)
<1>1. stale \subseteq more
  OBVIOUS
<1> HIDE DEF more
<1>2. StepOK(World, w, more)
  BY <1>1, StepMore
<1> QED BY <1>2, CommandedStep DEF more

\* A command of the application, or of the AVDECC entity, for a source or a sink.
LEMMA CommandsStep ==
  ASSUME WellOrdered, WorldInv(World, stale),
         \/ \E x \in Source :
              EnableSource(x) \/ DisableSource(x) \/ ConfigureSource(x) \/ MoveSource(x)
         \/ \E k \in Sink : AttachSink(k) \/ DetachSink(k) \/ SelectStream(k) \/ MoveSink(k)
  PROVE  StepOK(World, Later, stale')
<1>0. World.srp = srp /\ World.sink = sink
  BY DEF World
<1>1. ASSUME NEW x \in Source, EnableSource(x) PROVE StepOK(World, Later, stale')
  <2> DEFINE v == SetSourceState(World, x, "POTENTIAL")
  <2>1. Command(v) /\ MatchEntry(World.srp, x) # 0
    BY <1>0, <1>1 DEF EnableSource, HasEntry
  <2>2. StepOK(World, v, stale \cup TakesStale(srp, v.srp))
    BY <1>0, <2>1, SourceCommandStep
  <2> HIDE DEF v
  <2> QED BY <2>1, <2>2, CommandedStep
<1>2. ASSUME NEW x \in Source, DisableSource(x) PROVE StepOK(World, Later, stale')
  BY <1>2, SourceCommandStep, QuietStep, Zenon DEF DisableSource
<1>3. ASSUME NEW x \in Source, ConfigureSource(x) PROVE StepOK(World, Later, stale')
  <2>1. PICK c \in Configs : Command(SetSourceConfig(World, x, c))
    BY <1>3 DEF ConfigureSource
  <2> QED BY <2>1, SourceCommandStep, QuietStep, Zenon
<1>4. ASSUME NEW x \in Source, MoveSource(x) PROVE StepOK(World, Later, stale')
  <2>1. PICK n \in Vlans : Command(SetSourceVlan(World, x, n))
    BY <1>4 DEF MoveSource
  <2> QED BY <2>1, SourceCommandStep, QuietStep, Zenon
<1>5. ASSUME NEW k \in Sink, AttachSink(k) PROVE StepOK(World, Later, stale')
  <2> DEFINE v == SetSinkState(World, k, "POTENTIAL")
  <2>1. Command(v) /\ World.sink[k].stream # NoStream
    BY <1>0, <1>5 DEF AttachSink
  <2>2. StepOK(World, v, stale \cup TakesStale(srp, v.srp))
    BY <1>0, <2>1, SinkCommandStep, Zenon
  <2> HIDE DEF v
  <2> QED BY <2>1, <2>2, CommandedStep
<1>6. ASSUME NEW k \in Sink, DetachSink(k) PROVE StepOK(World, Later, stale')
  BY <1>6, SinkCommandStep, QuietStep, Zenon DEF DetachSink
<1>7. ASSUME NEW k \in Sink, SelectStream(k) PROVE StepOK(World, Later, stale')
  <2>1. PICK x \in Remote : Command(SetSinkId(World, k, x))
    BY <1>7 DEF SelectStream
  <2> QED BY <2>1, SinkCommandStep, QuietStep, Zenon
<1>8. ASSUME NEW k \in Sink, MoveSink(k) PROVE StepOK(World, Later, stale')
  <2>1. PICK n \in Vlans : Command(SetSinkVlan(World, k, n))
    BY <1>8 DEF MoveSink
  <2> QED BY <2>1, SinkCommandStep, QuietStep, Zenon
<1> QED BY <1>1, <1>2, <1>3, <1>4, <1>5, <1>6, <1>7, <1>8

\* Every step preserves what it must.
LEMMA NextStep ==
  ASSUME WellOrdered, WorldInv(World, stale), Next
  PROVE  StepOK(World, Later, stale')
<1>1. CASE \/ \E x \in Source :
                EnableSource(x) \/ DisableSource(x) \/ ConfigureSource(x) \/ MoveSource(x)
           \/ \E k \in Sink : AttachSink(k) \/ DetachSink(k) \/ SelectStream(k) \/ MoveSink(k)
  BY <1>1, CommandsStep
<1>2. CASE \/ Periodic \/ TalkerPdu \/ OtherClassPdu \/ ListenerPdu \/ DomainPdu
           \/ LinkUp \/ LeaveAllPdu \/ DomainLeaveAllPdu
  <2>1. NetworkStep
    BY <1>2, PeriodicStep, TalkerPduStep, OtherClassPduStep, ListenerPduStep, DomainPdusStep,
       LeaveAllPduStep DEF NetworkStep
  <2>2. StepOK(World, Later, stale) /\ stale' = stale
    BY <2>1, KeepIsOK DEF NetworkStep
  <2> QED BY <2>2
<1> QED BY <1>1, <1>2, Zenon DEF Next

-----------------------------------------------------------------------------
(***************************************************************************)
(* The theorems                                                            *)
(***************************************************************************)
WorldOK == WorldInv(World, stale)
VlansOK == VlanInv(World)

\* mrp_init, avb_mvrp_init and the tables of the manager establish it all.
LEMMA InitOK == Init => WorldOK /\ VlansOK
<1> SUFFICES ASSUME Init PROVE WorldOK /\ VlansOK
  OBVIOUS
<1> DEFINE W == World
<1>1. PICK config \in Configs : Starts(ManagerInit(config))
  BY DEF Init
<1> DEFINE m == ManagerInit(config)
<1>2. /\ W = m /\ stale = {}
      /\ m.srp = SrpInit
      /\ m.source = [x \in Source |-> [state |-> "DISABLED", vlan |-> 0, config |-> config]]
      /\ m.sink = [k \in Sink |-> [state |-> "DISABLED", vlan |-> 0, stream |-> NoStream]]
      /\ m.owner = [i \in Input |-> Unmapped]
      /\ m.talker.vlan = 0
      /\ m.talker.stream = [x \in Source |-> [inputs |-> {}, vlan |-> 0, on |-> FALSE]]
      /\ m.talker = [vlan |-> 0, stream |-> m.talker.stream]
      /\ m = [srp |-> m.srp, source |-> m.source, sink |-> m.sink, owner |-> m.owner,
              talker |-> [vlan |-> m.talker.vlan, stream |-> m.talker.stream]]
  BY <1>1, Zenon DEF Init, World, Starts, ManagerInit
<1> HIDE DEF m, W
<1>3. SrpInit \in SrpSet
  <2>1. FreeSlot \in AttrSet
    BY Bounds DEF FreeSlot, AttrSet, StreamTypes, TalkerTypes, Apps, RegistrarStates, TimerStates,
       FourPacked, Entries
  <2>2. EmptyEntry \in EntrySet
    BY DEF EmptyEntry, EntrySet, FailureCodes
  <2>3. DomainDown \in DomainSet
    BY DEF DomainDown, DomainSet, RegistrarStates, TimerStates, FourPacked
  <2>4. [active |-> FALSE, vlan |-> 0] \in [active : BOOLEAN, vlan : Tags]
    BY DEF Tags
  <2>5. DefaultVlan \in Vlans
    BY SrpAssumption
  <2> HIDE DEF FreeSlot, EmptyEntry, DomainDown
  <2> QED BY <2>1, <2>2, <2>3, <2>4, <2>5 DEF SrpInit, SrpSet
<1>4. /\ \A j \in Slots : SrpInit.attrs[j] = FreeSlot
      /\ \A e \in Entries : SrpInit.table[e] = EmptyEntry
      /\ \A i \in VidEntries : ~SrpInit.vids[i].active
  BY Zenon DEF SrpInit
<1>5. /\ \A j \in Slots : ~InUse(SrpInit, j) /\ AttrOK(SrpInit.attrs[j])
      /\ \A e \in Entries : SrpInit.table[e].id = NoStream /\ ~SrpInit.table[e].bw
  BY <1>4 DEF InUse, FreeSlot, EmptyEntry, AttrOK
<1> HIDE DEF SrpInit
<1>6. SrpInv(SrpInit, {})
  BY <1>3, <1>5, Zenon DEF SrpInv, Linked, IsListener
<1>7. m \in WorldSet
  <2>1. m.talker \in TalkerSet
    <3>1. m.talker.stream \in [Source -> [inputs : SUBSET Input, vlan : Tags, on : BOOLEAN]]
      BY <1>2 DEF Tags
    <3> QED BY <1>2, <3>1, Zenon DEF TalkerSet, Tags
  <2>2. m.source \in [Source -> [state : States, vlan : Tags, config : Configs]]
    BY <1>2 DEF States, Tags
  <2>3. m.sink \in [Sink -> [state : States, vlan : Tags, stream : Remote \cup {NoStream}]]
    BY <1>2 DEF States, Tags
  <2>4. m.owner \in [Input -> Source \cup {Unmapped}] /\ m.srp \in SrpSet
    BY <1>2, <1>3, Zenon
  <2> QED BY <1>2, <2>1, <2>2, <2>3, <2>4, Zenon DEF WorldSet
<1>8. Streams(m, {})
  BY <1>2, <1>5 DEF Streams
<1>9. VidsOK(SrpInit)
  BY <1>4, Zenon DEF VidsOK
<1>10. SourceVlan(m) /\ SinkVlan(m) /\ SinkOn(m)
  BY <1>2, <1>5 DEF SourceVlan, SinkVlan, SinkOn, IsListener, AttachedIn
<1> QED BY <1>2, <1>6, <1>7, <1>8, <1>9, <1>10, Zenon DEF WorldOK, VlansOK, WorldInv, VlanInv, W

\* Every step keeps it; the VLANs with room for all of them.
LEMMA StepKeeps ==
  ASSUME WellOrdered, WorldOK, [Next]_vars
  PROVE  WorldOK' /\ (Ample /\ VlansOK => VlansOK')
<1>1. World' = Later
  BY DEF World, Later
<1>2. CASE Next
  <2>1. StepOK(World, Later, stale')
    BY <1>2, NextStep DEF WorldOK
  <2>2. WorldInv(Later, stale') /\ (Ample /\ VlanInv(World) => VlanInv(Later))
    BY <2>1 DEF StepOK
  <2> QED BY <1>1, <2>2 DEF WorldOK, VlansOK
<1>3. CASE UNCHANGED vars
  <2>1. World' = World /\ stale' = stale
    BY <1>3 DEF vars, World
  <2> QED BY <2>1 DEF WorldOK, VlansOK
<1> QED BY <1>2, <1>3

\* The invariant holds in every reachable state.
LEMMA WorldIsOK ==
  ASSUME WellOrdered
  PROVE  Spec => []WorldOK
<1>1. Init => WorldOK
  BY InitOK
<1>2. WorldOK /\ [Next]_vars => WorldOK'
  BY StepKeeps
<1> QED BY <1>1, <1>2, PTL DEF Spec

\* The properties' terms, in those of the invariant.
LEMMA InTerms ==
  ASSUME NEW s \in SrpSet, NEW j \in Slots
  PROVE  /\ Live(s.attrs[j]) <=> InUse(s, j)
         /\ s.attrs[j].app \in Declaring <=> s.attrs[j].app = "VN"
<1>1. s.attrs[j] \in AttrSet
  BY DEF SrpSet
<1> QED BY <1>1, LiveIs, Zenon DEF InUse, AttrSet, Apps, Declaring

\* Tracked, for a stream with at most one talker attribute.
LEMMA TrackedIs ==
  ASSUME NEW s \in SrpSet, Linked(s), NEW x
  PROVE  LET T == {j \in Slots : Live(s.attrs[j]) /\ s.attrs[j].type \in TalkerTypes
                                 /\ StreamOf(s, j) = x}
         IN  (T # {} /\ \A j \in T : ~s.attrs[j].remove) <=> TrackedIn(s, x)
<1>1. \A i, j \in Slots : IsTalker(s, i) /\ IsTalker(s, j) /\ StreamOf(s, i) = StreamOf(s, j) => i = j
  BY DEF Linked, IsTalker, IsListener, TalkerTypes
<1> QED BY <1>1, InTerms DEF TrackedIn, IsTalker

\* SinkDeclared, in the terms of the invariant.
LEMMA DeclaredTerms ==
  ASSUME NEW s \in SrpSet, NEW x
  PROVE  (\E j \in {i \in Slots : Live(s.attrs[i]) /\ s.attrs[i].type \in {"LISTENER"}
                                  /\ StreamOf(s, i) = x} : s.attrs[j].app \in Declaring)
           <=> DeclaredIn(s, x)
BY InTerms DEF DeclaredIn, IsListener

\* The steps of the two action properties.
DeclaresAct ==
  \A k \in Sink :
       LET x == sink[k].stream
       IN /\ Attached(k)'
          /\ IF Attached(k) THEN Alone(k) /\ SinkDeclared(k)
             ELSE /\ AttrsOf(x, {"FAILED"}) = {}
                  /\ MatchEntry(srp, x) # 0
                  /\ AttrsOf(x, {"LISTENER"}) # {} \/ Free # {}
          => SinkDeclared(k)'
TracksAct ==
  \A k \in Sink :
       LET x == sink[k].stream
       IN /\ Attached(k)'
          /\ \/ Tracked(k) /\ (Attached(k) => Alone(k))
             \/ /\ ~Attached(k) /\ AttrsOf(x, TalkerTypes) = {}
                /\ MatchEntry(srp, x) # 0
                /\ \E i, j \in Free : i # j \/ AttrsOf(x, {"LISTENER"}) # {}
          => Tracked(k)'

\* The action properties, from the invariant and the step.
LEMMA ActsHold ==
  ASSUME WellOrdered, WorldOK, Next
  PROVE  DeclaresAct /\ TracksAct
<1>0. srp \in SrpSet /\ Linked(srp) /\ srp' \in SrpSet /\ Linked(srp')
  <2>1. WorldOK'
    BY StepKeeps
  <2> QED BY <2>1 DEF WorldOK, WorldInv, SrpInv, World
<1>1. DeclaresStep(World, Later) /\ TracksStep(World, Later)
  BY NextStep DEF WorldOK, StepOK
<1>2. ASSUME NEW k \in Sink
      PROVE  /\ Attached(k) <=> AttachedIn(World, k)
             /\ Attached(k)' <=> AttachedIn(Later, k)
             /\ Alone(k) <=> AloneIn(World, k)
  BY DEF Attached, AttachedIn, Alone, AloneIn, World, Later
<1>3. ASSUME NEW k \in Sink
      PROVE  /\ SinkDeclared(k) <=> DeclaredIn(srp, sink[k].stream)
             /\ SinkDeclared(k)' <=> DeclaredIn(srp', sink'[k].stream)
  <2>1. SinkDeclared(k) <=> DeclaredIn(srp, sink[k].stream)
    BY <1>0, DeclaredTerms, Zenon DEF SinkDeclared, AttrsOf, Declares
  <2>2. SinkDeclared(k)' <=> DeclaredIn(srp', sink'[k].stream)
    BY <1>0, DeclaredTerms DEF SinkDeclared, AttrsOf, Declares
  <2> QED BY <2>1, <2>2
<1>4. ASSUME NEW k \in Sink
      PROVE  /\ Tracked(k) <=> TrackedIn(srp, sink[k].stream)
             /\ Tracked(k)' <=> TrackedIn(srp', sink'[k].stream)
  <2>1. Tracked(k) <=> TrackedIn(srp, sink[k].stream)
    BY <1>0, TrackedIs, Zenon DEF Tracked, AttrsOf
  <2>2. Tracked(k)' <=> TrackedIn(srp', sink'[k].stream)
    BY <1>0, TrackedIs DEF Tracked, AttrsOf
  <2> QED BY <2>1, <2>2
<1>5. \A x, type : AttrsOf(x, {type}) = {} <=> MatchType(srp, type, x) = 0
  <2> TAKE x, type
  <2> DEFINE m == MatchType(srp, type, x)
  <2>1. /\ m = 0 => \A j \in Slots : ~(InUse(srp, j) /\ srp.attrs[j].type = type /\ StreamOf(srp, j) = x)
        /\ m # 0 => m \in Slots /\ InUse(srp, m) /\ srp.attrs[m].type = type /\ StreamOf(srp, m) = x
    BY <1>0, MatchTypeIs
  <2> HIDE DEF m
  <2> QED BY <1>0, <2>1, InTerms, Zenon DEF AttrsOf, m
<1>6. \A x : AttrsOf(x, TalkerTypes) = {} <=> MatchTalker(srp, x) = 0
  <2> TAKE x
  <2> DEFINE m == MatchTalker(srp, x)
  <2>1. /\ m = 0 => \A j \in Slots : ~(IsTalker(srp, j) /\ StreamOf(srp, j) = x)
        /\ m # 0 => m \in Slots /\ IsTalker(srp, m) /\ StreamOf(srp, m) = x
    BY <1>0, MatchTalkerIs
  <2> HIDE DEF m
  <2> QED BY <1>0, <2>1, InTerms DEF AttrsOf, IsTalker, m
<1>7. Free = FreeIn(srp) /\ World.srp = srp /\ World.sink = sink /\ Later.srp = srp' /\ Later.sink = sink'
  BY DEF Free, FreeIn, World, Later
<1>8. DeclaresAct
  BY <1>1, <1>2, <1>3, <1>5, <1>7 DEF DeclaresAct, DeclaresStep
<1>9. TracksAct
  BY <1>1, <1>2, <1>4, <1>5, <1>6, <1>7 DEF TracksAct, TracksStep
<1> QED BY <1>8, <1>9

-----------------------------------------------------------------------------
(***************************************************************************)
(* The two facts that need the library.  Its theorems are taken in only    *)
(* here, where they do not weigh on the proofs above.                      *)
(***************************************************************************)
LOCAL INSTANCE FiniteSetTheorems

\* The naturals are well-ordered.
LEMMA NaturalsWellOrdered == WellOrdered
<1> SUFFICES ASSUME NEW S \in SUBSET Nat, S # {}
             PROVE  \E m \in S : \A y \in S : m <= y
  BY DEF WellOrdered
<1>1. PICK m \in S : \A y \in S : ~(<<y, m>> \in OpToRel(<, Nat))
  <2>1. IsWellFoundedOn(OpToRel(<, Nat), Nat)
    BY NatLessThanWellFounded, Zenon
  <2> QED BY <2>1, WFMin, Zenon
<1>2. ASSUME NEW y \in S PROVE m <= y
  <2>1. y \in Nat /\ m \in Nat
    OBVIOUS
  <2>2. ~(y < m)
    BY <1>1, <2>1, Zenon DEF OpToRel
  <2> QED BY <2>1, <2>2
<1> QED BY <1>2, Zenon

\* There is an entry for every VLAN.
Roomy == IsFiniteSet(Vlans) /\ Cardinality(Vlans) <= MaxVlans

\* Then different VLANs in all the entries are all of them.
LEMMA RoomyIsAmple ==
  ASSUME Roomy
  PROVE  Ample
<1> SUFFICES ASSUME NEW f \in [VidEntries -> Vlans],
                    \A i, j \in VidEntries : f[i] = f[j] => i = j,
                    NEW v \in Vlans, \A i \in VidEntries : f[i] # v
             PROVE  FALSE
  BY DEF Ample
<1> DEFINE T == Vlans \ {v}
<1>1. IsFiniteSet(VidEntries) /\ Cardinality(VidEntries) = MaxVlans
  BY Bounds, FS_Interval DEF VidEntries
<1>2. IsFiniteSet(T) /\ Cardinality(T) = Cardinality(Vlans) - 1 /\ Cardinality(Vlans) \in Nat
  BY FS_RemoveElement, FS_CardinalityType DEF Roomy
<1>3. f \in [VidEntries -> T]
  OBVIOUS
<1>4. Cardinality(T) < Cardinality(VidEntries)
  BY <1>1, <1>2, Bounds DEF Roomy
<1> HIDE DEF T
<1>5. \E i, j \in VidEntries : i # j /\ f[i] = f[j]
  BY <1>1, <1>2, <1>3, <1>4, FS_PigeonHole
<1> QED BY <1>5

\* Every attribute in use points to the entry of a stream and no stream has two
\* entries (srp_cleanup_reservation_entry, srp_match_reservation_entry_by_id).
THEOREM EntriesFollow == Spec => []NoDangling
<1>1. WorldOK => NoDangling
  <2> SUFFICES ASSUME WorldOK PROVE NoDangling
    OBVIOUS
  <2>1. srp \in SrpSet /\ Linked(srp)
    BY DEF WorldOK, WorldInv, SrpInv, World
  <2>2. \A j \in Slots : Live(srp.attrs[j]) => StreamOf(srp, j) # NoStream
    BY <2>1, InTerms, Zenon DEF Linked
  <2>3. \A e, f \in Entries :
          e # f /\ srp.table[e].id = srp.table[f].id => srp.table[e].id = NoStream
    BY <2>1, Zenon DEF Linked
  <2> QED BY <2>2, <2>3 DEF NoDangling
<1> QED BY <1>1, NaturalsWellOrdered, WorldIsOK, PTL

\* A stream is sent, or has bandwidth reserved, only with a listener registered
\* or about to be indicated as leaving (avb_srp_listener_join_ind and
\* avb_srp_listener_leave_ind), whatever the order of commands, PDUs and timers.
THEOREM NoStreamUnheard == Spec => []StreamingHasListener
<1>1. WorldOK => StreamingHasListener
  <2> SUFFICES ASSUME WorldOK PROVE StreamingHasListener
    OBVIOUS
  <2>1. srp \in SrpSet /\ Streams(World, stale)
    BY DEF WorldOK, WorldInv, SrpInv, World
  <2>2. \A x : HeardBy(srp, x) => \E j \in AttrsOf(x, {"LISTENER"}) : Registers(j)
    BY <2>1, InTerms, Zenon DEF HeardBy, IsListener, Holds, AttrsOf, Registers
  <2>3. /\ \A x \in Source : /\ talker.stream[x].on <=> source[x].state = "ENABLED"
                             /\ source[x].state = "ENABLED" => HeardBy(srp, x)
        /\ \A e \in Entries :
             srp.table[e].bw => HeardBy(srp, srp.table[e].id) \/ srp.table[e].id \in stale
    BY <2>1, Zenon DEF Streams, World
  <2> QED BY <2>2, <2>3, Zenon DEF StreamingHasListener, Reserved
<1> QED BY <1>1, NaturalsWellOrdered, WorldIsOK, PTL

\* With an entry for every VLAN, every sink that is attached, declared and alone
\* with its stream is on a VLAN that is joined, and so is the source with channels
\* if the talker unit has just one: valid_to_leave_vlan lets none go that is in use.
THEOREM VlanStaysJoined ==
  ASSUME Roomy
  PROVE  Spec => []OnJoinedVlan
<1>1. Init => WorldOK /\ VlansOK
  BY InitOK
<1>2. WorldOK /\ VlansOK /\ [Next]_vars => WorldOK' /\ VlansOK'
  BY NaturalsWellOrdered, RoomyIsAmple, StepKeeps
<1>3. WorldOK /\ VlansOK => OnJoinedVlan
  <2> SUFFICES ASSUME WorldOK, VlansOK PROVE OnJoinedVlan
    OBVIOUS
  <2>1. srp \in SrpSet /\ SourceVlan(World) /\ SinkOn(World)
    BY DEF WorldOK, WorldInv, SrpInv, VlansOK, VlanInv, World
  <2>2. \A k \in Sink : SinkDeclared(k) => DeclaredIn(srp, sink[k].stream)
    BY <2>1, DeclaredTerms, Zenon DEF SinkDeclared, AttrsOf, Declares
  <2>3. \A k \in Sink : /\ Attached(k) <=> AttachedIn(World, k)
                        /\ Alone(k) <=> AloneIn(World, k)
    BY DEF Attached, AttachedIn, Alone, AloneIn, World
  <2>4. \A k \in Sink : Attached(k) /\ Alone(k) /\ SinkDeclared(k) => OnVlan(srp, sink[k].vlan)
    BY <2>1, <2>2, <2>3, Zenon DEF SinkOn, World
  <2>5. \A x \in Source :
          Source = {x} /\ source[x].state # "DISABLED" /\ source[x].config.inputs # {}
            => OnVlan(srp, talker.stream[x].vlan)
    BY <2>1, Zenon DEF SourceVlan, World
  <2> QED BY <2>4, <2>5, Zenon DEF OnJoinedVlan
<1> QED BY <1>1, <1>2, <1>3, PTL DEF Spec

\* A sink declares its listener from the moment it is attached and as long as it
\* stays attached (avb_srp_join_listener_attrs): no PDU, timer or command for
\* another stream withdraws the declaration.
THEOREM DeclaredWhileAttached == Spec => DeclaresWhileAttached
<1>1. WorldOK /\ [Next]_vars => [DeclaresAct]_vars
  BY NaturalsWellOrdered, ActsHold
<1> QED BY <1>1, NaturalsWellOrdered, WorldIsOK, PTL DEF Spec, DeclaresWhileAttached, DeclaresAct

\* The talker's registration is tracked while a sink is attached: the slot of the
\* talker is neither removed nor cleaned up under it, unless it was marked for
\* removal already when the sink was attached again.
THEOREM TrackedWhileAttached == Spec => TracksWhileAttached
<1>1. WorldOK /\ [Next]_vars => [TracksAct]_vars
  BY NaturalsWellOrdered, ActsHold
<1> QED BY <1>1, NaturalsWellOrdered, WorldIsOK, PTL DEF Spec, TracksWhileAttached, TracksAct

=============================================================================
