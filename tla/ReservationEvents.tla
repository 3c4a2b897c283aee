------------------------- MODULE ReservationEvents --------------------------
(***************************************************************************)
(* The invariant of ReservationSteps is kept by an arriving PDU and by the *)
(* requests of the stream manager to SRP.  A request is for one stream and *)
(* touches its attributes only (Touches); it declares (Joins) or withdraws *)
(* (Withdraws).                                                            *)
(***************************************************************************)
EXTENDS ReservationSteps

USE DEF Off

-----------------------------------------------------------------------------
(***************************************************************************)
(* Arriving PDUs                                                           *)
(***************************************************************************)
\* The attributes all make a step.
LEMMA SetAttrs ==
  ASSUME NEW s, NEW old, SrpInv(s, old), NEW A \in [Slots -> AttrSet],
         \A j \in Slots : AttrOK(A[j]) /\ SlotStep(s.attrs[j], A[j])
  PROVE  LET t == [s EXCEPT !.attrs = A]
         IN  SrpInv(t, old) /\ SrpStep(s, t)
<1> DEFINE t == [s EXCEPT !.attrs = A]
<1>0. s \in SrpSet /\ Linked(s)
  BY DEF SrpInv
<1>1. t \in SrpSet /\ t.table = s.table /\ t.vids = s.vids /\ t.attrs = A
  BY <1>0 DEF SrpSet
<1> HIDE DEF t
<1>3. \A i \in Slots : /\ StreamOf(t, i) = StreamOf(s, i)
                       /\ InUse(t, i) => InUse(s, i)
                       /\ InUse(t, i) => (IsListener(t, i) <=> IsListener(s, i))
  BY <1>1, Zenon DEF SlotStep, SlotKeep, StreamOf, InUse, IsListener
<1>4. Linked(t)
  BY <1>0, <1>1, <1>3 DEF Linked
<1>5. ASSUME NEW i \in Slots, IsListener(t, i) PROVE Excused(t, i, old)
  <2>1. IsListener(s, i)
    BY <1>3, <1>5 DEF IsListener
  <2>2. Excused(s, i, old)
    BY <2>1 DEF SrpInv
  <2> QED BY <2>2, <1>1, <1>3, Zenon DEF Excused, SlotStep, SlotKeep
<1>7. SrpInv(t, old)
  BY <1>1, <1>4, <1>5 DEF SrpInv
<1>8. SrpStep(s, t)
  BY <1>1, <1>3, Zenon DEF SrpStep, SrpKeep, SlotStep
<1> QED BY <1>7, <1>8 DEF t

\* The events of a PDU.
LEMMA WireIs ==
  ASSUME NEW three \in Wire
  PROVE  ReceiveEvent(three) \in Happenings /\ ReceiveEvent(three) # "LEAVETIMER"
<1>1. three \in {"NEW", "JOININ", "IN", "JOINMT", "MT", "LV"}
  BY WireAssumption DEF WireEvents
<1> QED BY <1>1 DEF ReceiveEvent, Happenings, ReceiveEvents

\* avb_srp_match_talker_advertise changes the type of a talker's attribute, and
\* of the table only what is said of its stream.
LEMMA NotedStep ==
  ASSUME WellOrdered, NEW s, NEW old, SrpInv(s, old), NEW j \in Slots, IsTalker(s, j),
         NEW kind \in TalkerTypes, NEW code \in FailureCodes
  PROVE  LET t == Noted(s, j, kind, code)
         IN  SrpInv(t, old) /\ SrpStep(s, t) /\ IsTalker(t, j)
<1> DEFINE st == s.attrs[j]
           e == st.info
           x == s.table[e].id
           u == [st EXCEPT !.type = kind]
           s1 == [s EXCEPT !.attrs[j] = u]
           a == s.table[e]
           a1 == IF kind = "FAILED" THEN [a EXCEPT !.failed = TRUE, !.code = code]
                 ELSE [a EXCEPT !.failed = FALSE]
           a2 == [a1 EXCEPT !.id = x, !.size = 0, !.talker = TRUE]
           T1 == [s1.table EXCEPT ![e] = a1]
           s2 == [s1 EXCEPT !.table = T1]
           T2 == [s2.table EXCEPT ![e] = a2]
           s3 == [s2 EXCEPT !.table = T2]
<1>0. s \in SrpSet /\ st \in AttrSet /\ AttrOK(st) /\ e \in Entries /\ a \in EntrySet
      /\ st.type \in TalkerTypes /\ st.app # "UNUSED"
  BY Sides, Zenon DEF SrpInv, IsTalker, InUse
<1>00. x \in Stream /\ StreamOf(s, j) = x
  BY EntryOfAttr, Zenon DEF IsTalker, StreamOf
<1>1. u \in AttrSet /\ u.app = st.app /\ u.type = kind /\ u.info = e
      /\ u.timer = st.timer /\ u.reg = st.reg /\ u.remove = st.remove /\ u.four = st.four
      /\ u.pending = st.pending
  <2> HIDE DEF st
  <2> QED BY <1>0 DEF AttrSet, StreamTypes, e
<1>2. kind # "LISTENER" /\ st.type # "LISTENER"
  BY <1>0, Zenon DEF TalkerTypes
<1>3. AttrOK(u) /\ SlotStep(st, u)
  <2> HIDE DEF st, u
  <2> QED BY <1>0, <1>1, <1>2, Zenon DEF AttrOK, SlotStep, SlotKeep, Holds, Clean, e
<1>4. a1 \in EntrySet /\ a1.id = x /\ a1.bw = a.bw /\ a1.talker = a.talker
  <2> HIDE DEF a
  <2> QED BY <1>0, Zenon DEF EntrySet, a
<1>5. a2 \in EntrySet /\ a2.id = x /\ a2.bw = a.bw
  <2> HIDE DEF a1, a, x
  <2>1. x \in Stream \cup {NoStream}
    BY <1>00
  <2> QED BY <1>4, <2>1, Zenon DEF EntrySet
<1>6. SrpInv(s1, old) /\ SrpStep(s, s1)
  <2> HIDE DEF u
  <2> QED BY <1>1, <1>3, SetAttr, Zenon
<1>7. s1 \in SrpSet /\ s1.attrs[j] = u /\ s1.table = s.table
  <2> HIDE DEF u
  <2> QED BY <1>0, <1>1, Zenon DEF SrpSet
<1>n. Noted(s, j, kind, code) = IF a.talker THEN s2 ELSE AddReservation(s2, x, 0)
  <2>1. kind = "FAILED" =>
          [s EXCEPT !.attrs[j].type = "FAILED", !.table[e].failed = TRUE, !.table[e].code = code]
            = s2
    BY <1>0, ZenonT(40) DEF SrpSet
  <2>2. kind # "FAILED" => [s EXCEPT !.attrs[j].type = "ADVERTISE", !.table[e].failed = FALSE] = s2
    <3>1. kind # "FAILED" => kind = "ADVERTISE"
      BY DEF TalkerTypes
    <3> QED BY <1>0, <3>1, Zenon DEF SrpSet
  <2> HIDE DEF s2
  <2> QED BY <2>1, <2>2 DEF Noted
<1> HIDE DEF a1, a2, s1, u
<1>8. T1 \in [Entries -> EntrySet]
      /\ \A f \in Entries : T1[f].id = s1.table[f].id /\ (T1[f].bw => s1.table[f].bw)
  BY <1>0, <1>4, <1>7, Zenon DEF SrpSet
<1> HIDE DEF T1
<1>9. SrpInv(s2, old) /\ SrpStep(s1, s2)
  BY <1>6, <1>8, SetTable
<1>10. s2 \in SrpSet /\ s2.attrs = s1.attrs /\ s2.table = T1
  BY <1>7, <1>8, Zenon DEF SrpSet
<1>11. T1[e] = a1
  BY <1>0, <1>7, Zenon DEF T1, SrpSet
<1> HIDE DEF s2
<1>12. MatchEntry(s2, x) = e
  <2> HIDE DEF x, e
  <2> QED BY <1>0, <1>00, <1>4, <1>9, <1>10, <1>11, MatchEntryIs DEF SrpInv
<1>13. AddReservation(s2, x, 0) = s3
  <2>1. e # 0
    BY <1>0, Bounds DEF Entries
  <2>2. s2.table[e] = a1
    BY <1>10, <1>11, Zenon
  <2> HIDE DEF x, e
  <2>3. AddReservation(s2, x, 0) =
          [s2 EXCEPT !.table[e].id = x, !.table[e].size = 0, !.table[e].talker = TRUE]
    BY <1>12, <2>1 DEF AddReservation
  <2> QED BY <1>0, <1>10, <2>2, <2>3, ZenonT(40) DEF SrpSet, a2
<1>14. T2 \in [Entries -> EntrySet]
      /\ \A f \in Entries : T2[f].id = s2.table[f].id /\ (T2[f].bw => s2.table[f].bw)
  <2> HIDE DEF x, e
  <2> QED BY <1>0, <1>4, <1>5, <1>10, <1>11, Zenon DEF SrpSet
<1> HIDE DEF T2
<1>15. SrpInv(s3, old) /\ SrpStep(s2, s3)
  BY <1>9, <1>14, SetTable, Zenon
<1>16. s3.attrs = s2.attrs
  BY <1>10 DEF SrpSet
<1> HIDE DEF s3
<1>17. IsTalker(s2, j) /\ IsTalker(s3, j)
  BY <1>0, <1>1, <1>7, <1>10, <1>16, Zenon DEF IsTalker, InUse
<1>18. SrpStep(s, s2) /\ SrpStep(s, s3)
  BY <1>6, <1>9, <1>15, SrpStepTwice
<1> QED BY <1>n, <1>9, <1>13, <1>15, <1>17, <1>18, Zenon

\* A talker's declaration, for one slot.
LEMMA TalkerHeardStep ==
  ASSUME WellOrdered, NEW s, NEW old, SrpInv(s, old), NEW j \in Slots, NEW x,
         NEW kind \in TalkerTypes, NEW three \in Wire, NEW code \in FailureCodes
  PROVE  LET t == TalkerHeard(s, j, x, kind, three, code)
         IN  SrpInv(t, old) /\ SrpStep(s, t)
<1>1. CASE ~MatchedTalker(s, j, x)
  BY <1>1, SrpStepSame DEF TalkerHeard
<1>2. CASE MatchedTalker(s, j, x)
  <2> DEFINE n == Noted(s, j, kind, code)
             st == n.attrs[j]
             u == Coarse(UpdateState(ReceiveEvent(three), st, "IGNORE"))
             t == [n EXCEPT !.attrs[j] = u]
  <2>1. IsTalker(s, j)
    BY <1>2, LiveIs, Sides, Zenon DEF MatchedTalker, IsTalker, InUse, SrpInv
  <2>2. SrpInv(n, old) /\ SrpStep(s, n) /\ IsTalker(n, j)
    BY <2>1, NotedStep
  <2> HIDE DEF n
  <2>3. st \in AttrSet /\ AttrOK(st) /\ st.app # "UNUSED"
    BY <2>2, Sides, Zenon DEF SrpInv, IsTalker, InUse
  <2>4. TalkerHeard(s, j, x, kind, three, code) = t
    BY <1>2 DEF TalkerHeard, MrpIn, n
  <2> HIDE DEF st
  <2>5. u \in AttrSet /\ AttrOK(u) /\ SlotStep(st, u)
    <3>1. "IGNORE" \in FourPacked
      BY DEF FourPacked
    <3> QED BY <2>3, <3>1, WireIs, UpdateStep
  <2> HIDE DEF u
  <2>6. SrpInv(t, old) /\ SrpStep(n, t)
    BY <2>2, <2>5, SetAttr DEF st
  <2> HIDE DEF t
  <2> QED BY <2>2, <2>4, <2>6, SrpStepTwice
<1> QED BY <1>1, <1>2

\* A talker's declaration, for all slots.
LEMMA TalkerDeclaredStep ==
  ASSUME WellOrdered, NEW s, NEW old, SrpInv(s, old), NEW x,
         NEW kind \in TalkerTypes, NEW three \in Wire, NEW code \in FailureCodes
  PROVE  LET t == TalkerDeclared(s, x, kind, three, code)
         IN  SrpInv(t, old) /\ SrpStep(s, t)
<1> DEFINE Body(t, j) == TalkerHeard(t, j, x, kind, three, code)
           D == {t \in SrpSet : SrpInv(t, old) /\ SrpStep(s, t)}
           b == [j \in Slots |-> [t \in D |-> Body(t, j)]]
           Rec(f) == f = [j \in 0..MaxAttrs |-> IF j = 0 THEN s ELSE Body(f[j - 1], j)]
<1>1. s \in D
  BY SrpStepSame DEF SrpInv
<1>2. ASSUME NEW j \in Slots, NEW t \in D PROVE Body(t, j) \in D
  <2>1. SrpInv(Body(t, j), old) /\ SrpStep(t, Body(t, j))
    BY TalkerHeardStep, Zenon
  <2> QED BY <2>1, SrpStepTwice, Zenon DEF SrpInv
<1>6. \A f : Rec(f) => \E g : Rec(g) /\ TalkerDeclared(s, x, kind, three, code) = g[MaxAttrs]
  BY Zenon DEF TalkerDeclared, ForEachSlot
<1> HIDE DEF D, Body
<1>3. b \in [Slots -> [D -> D]]
  BY <1>2
<1>4. PICK f \in [0..MaxAttrs -> D] : f[0] = s /\ \A j \in Slots : f[j] = b[j][f[j - 1]]
  <2> HIDE DEF b
  <2> QED BY <1>1, <1>3, LoopExists
<1>5. Rec(f)
  <2>1. ASSUME NEW j \in 0..MaxAttrs, j # 0 PROVE f[j] = Body(f[j - 1], j)
    <3>1. j \in Slots /\ j - 1 \in 0..MaxAttrs
      BY <2>1, Bounds DEF Slots
    <3> QED BY <1>4, <3>1, Zenon
  <2> QED BY <1>4, <2>1, Bounds, Zenon
<1>7. PICK g : Rec(g) /\ TalkerDeclared(s, x, kind, three, code) = g[MaxAttrs]
  BY <1>5, <1>6, Zenon
<1>8. g[0] = s
  BY <1>7, Bounds
<1>9. ASSUME NEW j \in Slots, g[j - 1] \in D PROVE g[j] = b[j][g[j - 1]]
  <2>1. j \in 0..MaxAttrs /\ j # 0
    BY Bounds DEF Slots
  <2> QED BY <1>7, <1>9, <2>1, Zenon
<1>10. g[MaxAttrs] \in D
  <2> HIDE DEF b
  <2> QED BY <1>1, <1>3, <1>8, <1>9, LoopIn
<1> QED BY <1>7, <1>10, Zenon DEF D

\* What the network and the timers do: the invariant is kept, and the rest of
\* what the commands decide.
NetworkStep ==
  WorldInv(Later, stale) /\ WorldKeep(World, Later) /\ stale' = stale

\* A PDU changes the state of SRP alone.
LEMMA ArrivesStep ==
  ASSUME WorldInv(World, stale), Arrives, SrpInv(srp', stale), SrpStep(srp, srp')
  PROVE  NetworkStep
<1> DEFINE w == World
<1>1. w.srp = srp
  BY DEF World
<1>2. Later = [w EXCEPT !.srp = srp'] /\ stale' = stale
  BY DEF Arrives, World, Later
<1> HIDE DEF w
<1>3. WorldInv(w, stale)
  BY DEF w
<1>4. WorldInv([w EXCEPT !.srp = srp'], stale) /\ WorldKeep(w, [w EXCEPT !.srp = srp'])
  BY <1>1, <1>3, SrpWorld
<1> QED BY <1>2, <1>4 DEF NetworkStep, w

\* A talker's declaration arrives.
LEMMA TalkerPduStep ==
  ASSUME WellOrdered, WorldInv(World, stale), TalkerPdu
  PROVE  NetworkStep
<1>0. SrpInv(srp, stale)
  BY Zenon DEF WorldInv, World
<1>1. PICK x \in Remote, kind \in TalkerTypes, three \in Wire, code \in FailureCodes \ {0} :
        srp' = TalkerDeclared(srp, x, kind, three, code) /\ Arrives
  BY DEF TalkerPdu
<1>2. SrpInv(srp', stale) /\ SrpStep(srp, srp')
  BY <1>0, <1>1, TalkerDeclaredStep, Zenon
<1> QED BY <1>1, <1>2, ArrivesStep

\* A talker's declaration of another class arrives.
LEMMA OtherClassPduStep ==
  ASSUME WorldInv(World, stale), OtherClassPdu
  PROVE  NetworkStep
<1>0. SrpInv(srp, stale) /\ srp \in SrpSet
  BY DEF WorldInv, World, SrpInv
<1>1. PICK x \in Remote :
        /\ srp' = [srp EXCEPT !.table = [e \in Entries |->
                     IF \E j \in Slots : MatchedTalker(srp, j, x) /\ srp.attrs[j].info = e
                     THEN [srp.table[e] EXCEPT !.failed = TRUE] ELSE srp.table[e]]]
        /\ Arrives
  BY Zenon DEF OtherClassPdu
<1> DEFINE T == [e \in Entries |->
                   IF \E j \in Slots : MatchedTalker(srp, j, x) /\ srp.attrs[j].info = e
                   THEN [srp.table[e] EXCEPT !.failed = TRUE] ELSE srp.table[e]]
<1>2. ASSUME NEW e \in Entries
      PROVE  T[e] \in EntrySet /\ T[e].id = srp.table[e].id /\ T[e].bw = srp.table[e].bw
  <2>1. srp.table[e] \in EntrySet
    BY <1>0 DEF SrpSet
  <2>2. LET a == [srp.table[e] EXCEPT !.failed = TRUE]
        IN  a \in EntrySet /\ a.id = srp.table[e].id /\ a.bw = srp.table[e].bw
    BY <2>1, Zenon DEF EntrySet
  <2> QED BY <2>1, <2>2
<1>3. T \in [Entries -> EntrySet]
  BY <1>2
<1> HIDE DEF T
<1>4. SrpInv([srp EXCEPT !.table = T], stale) /\ SrpStep(srp, [srp EXCEPT !.table = T])
  BY <1>0, <1>2, <1>3, SetTable
<1> QED BY <1>1, <1>4, ArrivesStep, Zenon DEF T

\* A listener's declaration arrives.
LEMMA ListenerPduStep ==
  ASSUME WorldInv(World, stale), ListenerPdu
  PROVE  NetworkStep
<1>0. SrpInv(srp, stale) /\ srp \in SrpSet
  BY Zenon DEF WorldInv, World, SrpInv
<1>1. PICK x \in Source, three \in Wire, four \in FourPacked \ {"IGNORE"} :
        /\ srp' = [srp EXCEPT !.attrs = [j \in Slots |->
                     IF Live(@[j]) /\ @[j].type = "LISTENER" /\ StreamOf(srp, j) = x
                     THEN Coarse(MrpIn(three, four, @[j])) ELSE @[j]]]
        /\ Arrives
  BY Zenon DEF ListenerPdu
<1> DEFINE A == [j \in Slots |->
             IF Live(srp.attrs[j]) /\ srp.attrs[j].type = "LISTENER" /\ StreamOf(srp, j) = x
             THEN Coarse(MrpIn(three, four, srp.attrs[j])) ELSE srp.attrs[j]]
<1>2. srp' = [srp EXCEPT !.attrs = A]
  BY <1>0, <1>1 DEF SrpSet
<1>3. ASSUME NEW j \in Slots
      PROVE  A[j] \in AttrSet /\ AttrOK(A[j]) /\ SlotStep(srp.attrs[j], A[j])
  <2> DEFINE st == srp.attrs[j]
             u == Coarse(UpdateState(ReceiveEvent(three), st, four))
  <2>1. st \in AttrSet /\ AttrOK(st)
    BY <1>0, Sides, Zenon DEF SrpInv
  <2>2. A[j] = IF Live(st) /\ st.type = "LISTENER" /\ StreamOf(srp, j) = x THEN u ELSE st
    BY Zenon DEF MrpIn
  <2> HIDE DEF st, A
  <2>3. CASE Live(st) /\ st.type = "LISTENER" /\ StreamOf(srp, j) = x
    <3>1. st.app # "UNUSED"
      BY <2>1, <2>3, LiveIs
    <3>2. u \in AttrSet /\ AttrOK(u) /\ SlotStep(st, u)
      BY <1>1, <2>1, <2>3, <3>1, WireIs, UpdateStep, Zenon
    <3> QED BY <2>2, <2>3, <3>2, Zenon DEF st
  <2>4. CASE ~(Live(st) /\ st.type = "LISTENER" /\ StreamOf(srp, j) = x)
    BY <2>1, <2>2, <2>4, SlotStepSame, Zenon DEF st
  <2> QED BY <2>3, <2>4, Zenon
<1>4. A \in [Slots -> AttrSet]
  BY <1>3, Zenon
<1> HIDE DEF A
<1>5. SrpInv([srp EXCEPT !.attrs = A], stale) /\ SrpStep(srp, [srp EXCEPT !.attrs = A])
  BY <1>0, <1>3, <1>4, SetAttrs
<1> QED BY <1>1, <1>2, <1>5, ArrivesStep, Zenon

\* The PDUs that only the domain's registrar sees.
LEMMA DomainPdusStep ==
  ASSUME WorldInv(World, stale), DomainPdu \/ LinkUp \/ DomainLeaveAllPdu
  PROVE  NetworkStep
<1>0. SrpInv(srp, stale) /\ srp \in SrpSet /\ srp.domain \in DomainSet
  BY Zenon DEF WorldInv, World, SrpInv, SrpSet
<1>1. /\ Arrives /\ srp' \in SrpSet
      /\ srp'.attrs = srp.attrs /\ srp'.table = srp.table /\ srp'.vids = srp.vids
  <2>1. CASE DomainPdu
    <3>1. PICK three \in Wire, vlan \in Vlans :
            /\ srp' = [srp EXCEPT !.vid = vlan,
                                  !.domain = Registrar(ReceiveEvent(three), @, "IGNORE")]
            /\ Arrives
      BY <2>1, Zenon DEF DomainPdu
    <3>2. Registrar(ReceiveEvent(three), srp.domain, "IGNORE") \in DomainSet
      BY <1>0, DomainType
    <3> QED BY <1>0, <3>1, <3>2, Zenon DEF SrpSet
  <2>2. CASE LinkUp
    <3> DEFINE d == [srp.domain EXCEPT !.app = "VN", !.timer = Off]
    <3>1. srp' = [srp EXCEPT !.domain = Registrar("BEGIN", d, "IGNORE")] /\ Arrives
      BY <2>2 DEF LinkUp, DomainJoin
    <3>2. d \in DomainSet
      BY <1>0, Zenon DEF DomainSet, TimerStates
    <3> HIDE DEF d
    <3>3. Registrar("BEGIN", d, "IGNORE") \in DomainSet
      BY <3>2, DomainType
    <3> QED BY <1>0, <3>1, <3>3 DEF SrpSet
  <2>3. CASE DomainLeaveAllPdu
    <3>1. Registrar("RECEIVE_LEAVE_ALL", srp.domain, "IGNORE") \in DomainSet
      BY <1>0, DomainType
    <3>2. /\ srp' = [srp EXCEPT !.leaveall = FALSE,
                                !.domain = Registrar("RECEIVE_LEAVE_ALL", @, "IGNORE")]
          /\ Arrives
      BY <2>3 DEF DomainLeaveAllPdu
    <3> QED BY <1>0, <3>1, <3>2, Zenon DEF SrpSet
  <2> QED BY <2>1, <2>2, <2>3, Zenon
<1>2. SrpInv(srp', stale) /\ SrpStep(srp, srp')
  BY <1>0, <1>1, SrpInvSame, SrpStepSame
<1> QED BY <1>1, <1>2, ArrivesStep

\* A LeaveAll for one type of attribute arrives.
LEMMA LeaveAllPduStep ==
  ASSUME WorldInv(World, stale), LeaveAllPdu
  PROVE  NetworkStep
<1>0. SrpInv(srp, stale) /\ srp \in SrpSet
  BY DEF WorldInv, World, SrpInv
<1>1. PICK type \in StreamTypes :
        /\ srp' = [srp EXCEPT !.leaveall = FALSE,
                     !.attrs = [j \in Slots |-> IF @[j].type = type
                                                THEN Coarse(Event("RECEIVE_LEAVE_ALL", @[j]))
                                                ELSE @[j]]]
        /\ Arrives
  BY Zenon DEF LeaveAllPdu
<1> DEFINE A == [j \in Slots |-> IF srp.attrs[j].type = type
                                 THEN Coarse(Event("RECEIVE_LEAVE_ALL", srp.attrs[j]))
                                 ELSE srp.attrs[j]]
           t == [srp EXCEPT !.attrs = A]
<1>2. srp' = [t EXCEPT !.leaveall = FALSE]
  BY <1>0, <1>1, Zenon DEF SrpSet
<1>3. ASSUME NEW j \in Slots
      PROVE  A[j] \in AttrSet /\ AttrOK(A[j]) /\ SlotStep(srp.attrs[j], A[j])
  <2> DEFINE st == srp.attrs[j]
             u == Coarse(UpdateState("RECEIVE_LEAVE_ALL", st, "IGNORE"))
  <2>1. st \in AttrSet /\ AttrOK(st)
    BY <1>0, Sides, Zenon DEF SrpInv
  <2>2. A[j] = IF st.type = type THEN Coarse(Event("RECEIVE_LEAVE_ALL", st)) ELSE st
    OBVIOUS
  <2> HIDE DEF st, A
  <2>3. CASE st.type = type /\ st.app # "UNUSED"
    <3>1. A[j] = u
      BY <2>1, <2>2, <2>3, LiveIs DEF Event
    <3>2. "RECEIVE_LEAVE_ALL" \in Happenings /\ "IGNORE" \in FourPacked
      BY DEF Happenings, FourPacked
    <3>3. u \in AttrSet /\ AttrOK(u) /\ SlotStep(st, u)
      BY <2>1, <2>3, <3>2, UpdateStep
    <3> QED BY <3>1, <3>3, Zenon DEF st
  <2>4. CASE st.type # type \/ st.app = "UNUSED"
    <3>1. A[j] = st
      BY <2>1, <2>2, <2>4, LiveIs DEF Event, Coarse, AttrSet, Declaring
    <3> QED BY <2>1, <3>1, SlotStepSame DEF st
  <2> QED BY <2>3, <2>4
<1>4. A \in [Slots -> AttrSet]
  BY <1>3, Zenon
<1> HIDE DEF A
<1>5. SrpInv(t, stale) /\ SrpStep(srp, t)
  BY <1>0, <1>3, <1>4, SetAttrs
<1> HIDE DEF t
<1>6. SrpInv([t EXCEPT !.leaveall = FALSE], stale) /\ SrpStep(t, [t EXCEPT !.leaveall = FALSE])
  BY <1>5, FlagStep, Zenon
<1>7. SrpInv(srp', stale) /\ SrpStep(srp, srp')
  BY <1>2, <1>5, <1>6, SrpStepTwice
<1> QED BY <1>1, <1>7, ArrivesStep

-----------------------------------------------------------------------------
(***************************************************************************)
(* The requests of the stream manager to SRP                               *)
(***************************************************************************)
\* What a request for stream x leaves of the state of SRP: the attributes in use
\* stay with their streams and registrations, those of other streams and the free
\* slots as they are, and no stream gets bandwidth.
Touches(s, t, x) ==
  /\ \A j \in Slots : InUse(s, j) =>
       /\ InUse(t, j) /\ StreamOf(t, j) = StreamOf(s, j)
       /\ t.attrs[j].type = s.attrs[j].type /\ t.attrs[j].reg = s.attrs[j].reg
       /\ t.attrs[j].pending = s.attrs[j].pending
       /\ StreamOf(s, j) # x => t.attrs[j] = s.attrs[j]
  /\ \A j \in Slots : InUse(t, j) => InUse(s, j) \/ StreamOf(t, j) = x
  /\ \A j \in Slots : InUse(t, j) \/ t.attrs[j] = s.attrs[j]
  /\ \A e \in Entries : t.table[e].bw => s.table[e].bw /\ t.table[e].id = s.table[e].id

\* ... and it withdraws no declaration and removes no attribute.
Joins(s, t) ==
  \A j \in Slots : InUse(s, j) => /\ s.attrs[j].app = "VN" => t.attrs[j].app = "VN"
                                  /\ t.attrs[j].remove => s.attrs[j].remove

\* With the same attributes and table, nothing is touched.
LEMMA TouchesSame ==
  ASSUME NEW s, NEW t, NEW x, t.attrs = s.attrs, t.table = s.table
  PROVE  Touches(s, t, x) /\ Joins(s, t)
BY Zenon DEF Touches, Joins, InUse, StreamOf

\* Two requests for the same stream, one after the other.
LEMMA TouchesTwice ==
  ASSUME NEW s, NEW t, NEW u, NEW x, Touches(s, t, x), Touches(t, u, x)
  PROVE  /\ Touches(s, u, x)
         /\ Joins(s, t) /\ Joins(t, u) => Joins(s, u)
<1>1. Joins(s, t) /\ Joins(t, u) => Joins(s, u)
  BY Zenon DEF Touches, Joins
<1>2. ASSUME NEW j \in Slots, InUse(s, j)
      PROVE  /\ InUse(u, j) /\ StreamOf(u, j) = StreamOf(s, j)
             /\ u.attrs[j].type = s.attrs[j].type /\ u.attrs[j].reg = s.attrs[j].reg
             /\ u.attrs[j].pending = s.attrs[j].pending
             /\ StreamOf(s, j) # x => u.attrs[j] = s.attrs[j]
  BY <1>2 DEF Touches
<1>3. ASSUME NEW j \in Slots, InUse(u, j) PROVE InUse(s, j) \/ StreamOf(u, j) = x
  BY <1>3 DEF Touches
<1>4. ASSUME NEW e \in Entries, u.table[e].bw
      PROVE  s.table[e].bw /\ u.table[e].id = s.table[e].id
  BY <1>4 DEF Touches
<1>5. ASSUME NEW j \in Slots PROVE InUse(u, j) \/ u.attrs[j] = s.attrs[j]
  BY DEF Touches, InUse
<1> QED BY <1>1, <1>2, <1>3, <1>4, <1>5, Zenon DEF Touches

\* A stream keeps its listener.
LEMMA HeardTouched ==
  ASSUME NEW s, NEW t, NEW x, Touches(s, t, x), NEW y, HeardBy(s, y)
  PROVE  HeardBy(t, y)
BY DEF Touches, HeardBy, IsListener, Holds

\* The invariant is monotone in the streams that are stale.
LEMMA SrpInvMore ==
  ASSUME NEW s, NEW old, NEW more, old \subseteq more, SrpInv(s, old)
  PROVE  SrpInv(s, more)
BY DEF SrpInv, Excused

\* One attribute in use changes in what a request may change.
Retuned(st, u) ==
  /\ u \in AttrSet /\ AttrOK(u) /\ u.app # "UNUSED"
  /\ u.type = st.type /\ u.info = st.info /\ u.reg = st.reg
  /\ u.pending = st.pending /\ u.four = st.four

\* Changing one attribute so keeps the invariant.
LEMMA SetUsed ==
  ASSUME NEW s, NEW old, SrpInv(s, old), NEW j \in Slots, InUse(s, j),
         NEW u, Retuned(s.attrs[j], u)
  PROVE  LET t == [s EXCEPT !.attrs[j] = u]
         IN  /\ SrpInv(t, old) /\ Touches(s, t, StreamOf(s, j))
             /\ t.vids = s.vids /\ t.table = s.table
             /\ t.attrs[j] = u /\ \A i \in Slots \ {j} : t.attrs[i] = s.attrs[i]
<1> DEFINE t == [s EXCEPT !.attrs[j] = u]
<1>0. s \in SrpSet /\ Linked(s)
  BY DEF SrpInv
<1>1. /\ t \in SrpSet /\ t.table = s.table /\ t.vids = s.vids
      /\ t.attrs[j] = u /\ \A i \in Slots \ {j} : t.attrs[i] = s.attrs[i]
  BY <1>0, Zenon DEF SrpSet, Retuned
<1> HIDE DEF t
<1>2. \A i \in Slots : /\ StreamOf(t, i) = StreamOf(s, i) /\ (InUse(t, i) <=> InUse(s, i))
                       /\ IsListener(t, i) <=> IsListener(s, i)
                       /\ Excused(s, i, old) => Excused(t, i, old)
  <2>1. ASSUME NEW i \in Slots, i # j
        PROVE  /\ StreamOf(t, i) = StreamOf(s, i) /\ (InUse(t, i) <=> InUse(s, i))
               /\ IsListener(t, i) <=> IsListener(s, i)
               /\ Excused(s, i, old) => Excused(t, i, old)
    BY <1>1, <2>1, Zenon DEF StreamOf, InUse, IsListener, Excused
  <2>2. StreamOf(t, j) = StreamOf(s, j) /\ InUse(t, j) /\ (IsListener(t, j) <=> IsListener(s, j))
    BY <1>1, Zenon DEF Retuned, StreamOf, InUse, IsListener
  <2>3. Excused(s, j, old) => Excused(t, j, old)
    BY <1>1, <2>2, Zenon DEF Retuned, Excused, Clean, Holds
  <2> QED BY <2>1, <2>2, <2>3, Zenon
<1>3. Linked(t)
  BY <1>0, <1>1, <1>2 DEF Linked
<1>4. SrpInv(t, old)
  BY <1>1, <1>2, <1>3, Zenon DEF SrpInv, Retuned
<1>5. Touches(s, t, StreamOf(s, j))
  BY <1>1, <1>2, Zenon DEF Touches, Retuned
<1> QED BY <1>1, <1>4, <1>5 DEF t

\* mrp_mad_join of an attribute in use.
LEMMA JoinStep ==
  ASSUME NEW s, NEW old, SrpInv(s, old), NEW j \in Slots, InUse(s, j)
  PROVE  LET t == Join(s, j)
         IN  /\ SrpInv(t, old) /\ Touches(s, t, StreamOf(s, j)) /\ Joins(s, t)
             /\ t.vids = s.vids /\ t.table = s.table
             /\ t.attrs[j].app = "VN" /\ ~t.attrs[j].remove
             /\ \A i \in Slots \ {j} : t.attrs[i] = s.attrs[i]
<1> DEFINE st == s.attrs[j]
           u == [st EXCEPT !.remove = FALSE, !.app = "VN"]
           t == [s EXCEPT !.attrs[j] = u]
<1>0. st \in AttrSet /\ AttrOK(st) /\ st.app # "UNUSED"
  BY Sides, Zenon DEF SrpInv, InUse
<1>1. Join(s, j) = t
  BY <1>0, DeclaredIs, Zenon DEF Join
<1>2. Retuned(st, u) /\ u.app = "VN" /\ ~u.remove
  <2> HIDE DEF st
  <2> QED BY <1>0, Zenon DEF AttrSet, AttrOK, Retuned, Apps
<1> HIDE DEF u
<1>3. /\ SrpInv(t, old) /\ Touches(s, t, StreamOf(s, j))
      /\ t.vids = s.vids /\ t.table = s.table
      /\ t.attrs[j] = u /\ \A i \in Slots \ {j} : t.attrs[i] = s.attrs[i]
  BY <1>2, SetUsed
<1> HIDE DEF t
<1>4. Joins(s, t)
  BY <1>2, <1>3, Zenon DEF Joins
<1> QED BY <1>1, <1>2, <1>3, <1>4, Zenon

\* mrp_mad_leave of an attribute that is no longer here.
LEMMA LeaveStep ==
  ASSUME NEW s, NEW old, SrpInv(s, old), NEW j \in Slots, InUse(s, j), NEW here \in BOOLEAN
  PROVE  LET t == Leave([s EXCEPT !.attrs[j].here = here], j)
         IN  /\ SrpInv(t, old) /\ Touches(s, t, StreamOf(s, j))
             /\ t.vids = s.vids /\ t.table = s.table
             /\ t.attrs[j].app # "VN" /\ t.attrs[j].remove = s.attrs[j].remove
             /\ \A i \in Slots \ {j} : t.attrs[i] = s.attrs[i]
<1> DEFINE st == s.attrs[j]
           h == [st EXCEPT !.here = here]
           u == [h EXCEPT !.app = IF @ = "VN" THEN "VO" ELSE @]
           t == [s EXCEPT !.attrs[j] = u]
<1>0. s \in SrpSet /\ st \in AttrSet /\ AttrOK(st) /\ st.app # "UNUSED" /\ j # 0
  BY Sides, Bounds DEF SrpInv, InUse, Slots
<1>1. h \in AttrSet /\ h.app = st.app
  <2> HIDE DEF st
  <2> QED BY <1>0 DEF AttrSet
<1>2. Leave([s EXCEPT !.attrs[j].here = here], j) = t
  <2> DEFINE r == [s EXCEPT !.attrs[j] = h]
  <2>1. [s EXCEPT !.attrs[j].here = here] = r
    OBVIOUS
  <2>2. Coarse(MadLeave(h)) = u
    <3> HIDE DEF h
    <3> QED BY <1>1, LeftIs, Zenon
  <2>3. r.attrs[j] = h
    BY <1>0, Zenon DEF SrpSet
  <2> HIDE DEF h
  <2>4. Leave(r, j) = [r EXCEPT !.attrs[j] = u]
    BY <1>0, <2>2, <2>3, Zenon DEF Leave
  <2>5. [r EXCEPT !.attrs[j] = u] = t
    <3> HIDE DEF u
    <3> QED BY <1>0, Zenon DEF SrpSet
  <2> QED BY <2>1, <2>4, <2>5, Zenon
<1>3. Retuned(st, u) /\ u.app # "VN" /\ u.remove = st.remove
  <2>1. Retuned(st, h) /\ h.remove = st.remove
    <3> HIDE DEF st
    <3> QED BY <1>0 DEF AttrSet, AttrOK, Retuned
  <2>2. Retuned(h, u) /\ u.app # "VN" /\ u.remove = h.remove
    <3> HIDE DEF h
    <3> QED BY <2>1, Zenon DEF AttrSet, AttrOK, Retuned, Apps
  <2> HIDE DEF st, h, u
  <2> QED BY <2>1, <2>2, Zenon DEF Retuned
<1> HIDE DEF u
<1>4. /\ SrpInv(t, old) /\ Touches(s, t, StreamOf(s, j))
      /\ t.vids = s.vids /\ t.table = s.table
      /\ t.attrs[j] = u /\ \A i \in Slots \ {j} : t.attrs[i] = s.attrs[i]
  BY <1>3, SetUsed, SMTT(30)
<1> HIDE DEF t
<1> QED BY <1>2, <1>3, <1>4, Zenon

\* A talker's attribute is to be removed.
LEMMA RemoveStep ==
  ASSUME NEW s, NEW old, SrpInv(s, old), NEW j \in Slots, IsTalker(s, j)
  PROVE  LET t == [s EXCEPT !.attrs[j].here = FALSE, !.attrs[j].remove = TRUE]
         IN  /\ SrpInv(t, old) /\ Touches(s, t, StreamOf(s, j))
             /\ t.vids = s.vids /\ t.table = s.table
             /\ \A i \in Slots \ {j} : t.attrs[i] = s.attrs[i]
<1> DEFINE st == s.attrs[j]
           u == [st EXCEPT !.here = FALSE, !.remove = TRUE]
           t == [s EXCEPT !.attrs[j] = u]
<1>0. s \in SrpSet /\ st \in AttrSet /\ AttrOK(st) /\ st.app # "UNUSED" /\ st.type \in TalkerTypes
  BY Sides, Zenon DEF SrpInv, InUse, IsTalker
<1>1. [s EXCEPT !.attrs[j].here = FALSE, !.attrs[j].remove = TRUE] = t
  BY <1>0, Zenon DEF SrpSet
<1>2. Retuned(st, u)
  <2> HIDE DEF st
  <2> QED BY <1>0, Zenon DEF AttrSet, AttrOK, Retuned
<1> HIDE DEF u
<1>3. /\ SrpInv(t, old) /\ Touches(s, t, StreamOf(s, j))
      /\ t.vids = s.vids /\ t.table = s.table
      /\ t.attrs[j] = u /\ \A i \in Slots \ {j} : t.attrs[i] = s.attrs[i]
  BY <1>2, SetUsed DEF IsTalker
<1> HIDE DEF t
<1> QED BY <1>1, <1>3, Zenon

\* An entry of the table gets its stream.
LEMMA SetEntry ==
  ASSUME WellOrdered, NEW s, NEW old, SrpInv(s, old), NEW x \in Stream, MatchEntry(s, x) # 0,
         NEW a \in EntrySet, a.id = x, a.bw = s.table[MatchEntry(s, x)].bw
  PROVE  LET t == [s EXCEPT !.table[MatchEntry(s, x)] = a]
         IN  /\ SrpInv(t, old) /\ Touches(s, t, x) /\ Joins(s, t)
             /\ t.vids = s.vids /\ t.attrs = s.attrs
             /\ t.table[MatchEntry(s, x)].id = x
<1> DEFINE e == MatchEntry(s, x)
           t == [s EXCEPT !.table[e] = a]
<1>0. s \in SrpSet /\ Linked(s) /\ NoStream \notin Stream
  BY SrpAssumption, Zenon DEF SrpInv
<1>1. e \in Entries /\ s.table[e].id \in {x, NoStream}
      /\ \A f \in Entries : s.table[f].id = x => f = e
  BY <1>0, MatchEntryIs
<1> HIDE DEF e
<1>2. /\ t \in SrpSet /\ t.attrs = s.attrs /\ t.vids = s.vids
      /\ t.table[e] = a /\ \A f \in Entries \ {e} : t.table[f] = s.table[f]
  BY <1>0, <1>1, Zenon DEF SrpSet
<1> HIDE DEF t
<1>3. \A j \in Slots : s.attrs[j].info \in Entries
  BY <1>0, Sides, Zenon
<1>4. \A j \in Slots : /\ InUse(t, j) <=> InUse(s, j)
                       /\ IsListener(t, j) <=> IsListener(s, j)
                       /\ InUse(s, j) => StreamOf(t, j) = StreamOf(s, j)
  BY <1>0, <1>1, <1>2, <1>3, SMTT(30) DEF InUse, IsListener, StreamOf, Linked
<1>5. \A f \in Entries : t.table[f].bw => s.table[f].bw /\ t.table[f].id = s.table[f].id
  <2>1. s.table[e].id = NoStream => ~s.table[e].bw
    BY <1>0, <1>1, Zenon DEF Linked, Stream
  <2>2. t.table[e].bw = s.table[e].bw
    BY <1>2, Zenon DEF e
  <2> QED BY <1>1, <1>2, <2>1, <2>2, Zenon
<1>6. Linked(t)
  <2>1. \A j \in Slots : InUse(t, j) => StreamOf(t, j) # NoStream
    BY <1>0, <1>4, Zenon DEF Linked
  <2>2. \A f, g \in Entries : t.table[f].id = t.table[g].id => f = g \/ t.table[f].id = NoStream
    BY <1>0, <1>1, <1>2 DEF Linked
  <2>3. \A f \in Entries : t.table[f].bw => t.table[f].id \in Source
    BY <1>0, <1>5, Zenon DEF Linked
  <2>4. \A i, j \in Slots :
          InUse(t, i) /\ InUse(t, j) /\ (IsListener(t, i) <=> IsListener(t, j))
            => i = j \/ StreamOf(t, i) # StreamOf(t, j)
    BY <1>0, <1>4, Zenon DEF Linked
  <2> QED BY <2>1, <2>2, <2>3, <2>4, Zenon DEF Linked
<1>7. SrpInv(t, old)
  <2>1. ASSUME NEW j \in Slots, IsListener(t, j) PROVE Excused(t, j, old)
    <3>1. IsListener(s, j) /\ InUse(s, j)
      BY <1>4, <2>1, Zenon DEF IsListener
    <3>2. Excused(s, j, old)
      BY <3>1, Zenon DEF SrpInv
    <3> QED BY <1>2, <1>4, <3>1, <3>2, Zenon DEF Excused
  <2> QED BY <1>2, <1>6, <2>1, Zenon DEF SrpInv
<1>8. Touches(s, t, x) /\ Joins(s, t)
  BY <1>2, <1>4, <1>5, Zenon DEF Touches, Joins
<1> QED BY <1>2, <1>7, <1>8, Zenon DEF t, e

\* srp_add_reservation_entry and srp_add_reservation_entry_stream_id_only.
EntryAdded(s, t, x, old) ==
  /\ SrpInv(t, old) /\ Touches(s, t, x) /\ Joins(s, t)
  /\ t.vids = s.vids /\ t.attrs = s.attrs
  /\ MatchEntry(s, x) \in Entries /\ t.table[MatchEntry(s, x)].id = x

\* srp_add_reservation_entry keeps the invariant.
LEMMA AddedStep ==
  ASSUME WellOrdered, NEW s, NEW old, SrpInv(s, old), NEW x \in Stream, MatchEntry(s, x) # 0, NEW size \in Nat
  PROVE  /\ EntryAdded(s, AddReservation(s, x, size), x, old)
         /\ EntryAdded(s, AddStreamId(s, x), x, old)
<1> DEFINE e == MatchEntry(s, x)
           a == s.table[e]
           a1 == [a EXCEPT !.id = x, !.size = size, !.talker = TRUE]
           a2 == [a EXCEPT !.id = x]
           a3 == [a EXCEPT !.id = x, !.code = 0, !.size = 0]
<1>0. s \in SrpSet /\ e \in Entries /\ e # 0
  BY MatchEntryIs DEF SrpInv
<1>1. a \in EntrySet
  BY <1>0 DEF SrpSet
<1>2. /\ a1 \in EntrySet /\ a1.id = x /\ a1.bw = a.bw
      /\ a2 \in EntrySet /\ a2.id = x /\ a2.bw = a.bw
      /\ a3 \in EntrySet /\ a3.id = x /\ a3.bw = a.bw
  <2> HIDE DEF a
  <2> QED BY <1>1, Zenon DEF EntrySet, FailureCodes
<1>3. ASSUME NEW b \in EntrySet, b.id = x, b.bw = a.bw
      PROVE  EntryAdded(s, [s EXCEPT !.table[e] = b], x, old)
  BY <1>0, <1>3, SetEntry DEF EntryAdded
<1>4. AddReservation(s, x, size) = [s EXCEPT !.table[e] = a1]
  BY <1>0, Zenon DEF AddReservation, SrpSet
<1>5. AddStreamId(s, x) = [s EXCEPT !.table[e] = IF a.talker THEN a2 ELSE a3]
  BY <1>0, Zenon DEF AddStreamId, SrpSet
<1> HIDE DEF a1, a2, a3, a, e
<1>6. EntryAdded(s, AddReservation(s, x, size), x, old)
  BY <1>2, <1>3, <1>4, Zenon
<1>7. EntryAdded(s, AddStreamId(s, x), x, old)
  <2>1. (IF a.talker THEN a2 ELSE a3) \in {a2, a3}
    OBVIOUS
  <2> QED BY <1>2, <1>3, <1>5, <2>1, Zenon
<1> QED BY <1>6, <1>7, Zenon

\* The slot that a new attribute takes.
Taken(s) == Lowest({k \in Slots : s.attrs[k].app = "UNUSED"})

\* A new attribute of stream x.
Begins(s, t, x, type, declare, old) ==
  /\ SrpInv(t, old) /\ Touches(s, t, x) /\ Joins(s, t)
  /\ t.vids = s.vids /\ t.table = s.table
  /\ Taken(s) = 0 => t = s /\ \A i \in Slots : InUse(s, i)
  /\ Taken(s) # 0 =>
       /\ Taken(s) \in Slots /\ ~InUse(s, Taken(s)) /\ InUse(t, Taken(s))
       /\ t.attrs[Taken(s)].type = type /\ StreamOf(t, Taken(s)) = x
       /\ t.attrs[Taken(s)].app = (IF declare THEN "VN" ELSE "VO")
       /\ ~t.attrs[Taken(s)].remove
       /\ \A i \in Slots \ {Taken(s)} : t.attrs[i] = s.attrs[i]

\* mrp_get_attr, mrp_attribute_init and mrp_mad_begin for a stream that has no
\* attribute of the side yet.
LEMMA NewAttrStep ==
  ASSUME WellOrdered, NEW s, NEW old, SrpInv(s, old), NEW type \in StreamTypes, NEW here \in BOOLEAN,
         NEW entry \in Entries, NEW declare \in BOOLEAN, s.table[entry].id \in Stream,
         \A j \in Slots : InUse(s, j) /\ (IsListener(s, j) <=> type = "LISTENER")
           => StreamOf(s, j) # s.table[entry].id,
         type = "LISTENER" /\ Taken(s) # 0 /\ s.attrs[Taken(s)].pending # {}
           => s.table[entry].id \in old
  PROVE  Begins(s, NewAttr(s, type, here, entry, declare), s.table[entry].id, type, declare, old)
<1> DEFINE x == s.table[entry].id
           j == Taken(s)
           st == s.attrs[j]
           b == [st EXCEPT !.type = type, !.info = entry, !.here = here, !.timer = Off,
                           !.reg = "MT", !.app = "VO"]
           u == DeclaredIf(declare, b)
           t == [s EXCEPT !.attrs[j] = u]
           S == {k \in Slots : s.attrs[k].app = "UNUSED"}
<1>0. s \in SrpSet /\ Linked(s) /\ NoStream \notin Stream /\ x \in Stream
  BY SrpAssumption, Zenon DEF SrpInv
<1>1. (S = {} => j = 0) /\ (S # {} => j \in S)
  <2>1. S \in SUBSET (1..MaxAttrs)
    BY Zenon DEF Slots
  <2> HIDE DEF S
  <2>2. (S = {} => Lowest(S) = 0) /\ (S # {} => Lowest(S) \in S)
    BY <2>1, Bounds, LowestIn, Zenon
  <2> QED BY <2>2, Zenon DEF Taken, S
<1>2. CASE j = 0
  <2>1. NewAttr(s, type, here, entry, declare) = s
    BY <1>2, Zenon DEF NewAttr, Taken
  <2>2. S = {}
    BY <1>1, <1>2, Bounds DEF Slots
  <2>3. \A i \in Slots : InUse(s, i)
    BY <2>2, Zenon DEF InUse
  <2>4. Touches(s, s, x) /\ Joins(s, s)
    BY TouchesSame, Zenon
  <2> HIDE DEF x
  <2>5. Begins(s, s, x, type, declare, old)
    BY <1>2, <2>3, <2>4, Zenon DEF Begins
  <2> QED BY <2>1, <2>5, Zenon DEF x
<1>3. CASE j # 0
  <2>1. j \in Slots /\ st.app = "UNUSED"
    BY <1>1, <1>3, Zenon
  <2>2. st \in AttrSet /\ AttrOK(st)
    BY <1>0, <2>1, Sides, Zenon DEF SrpInv
  <2>3. NewAttr(s, type, here, entry, declare) = t
    <3>1. MadBegin(AttributeInit([st EXCEPT !.type = type, !.info = entry], here)) = b
      <4> HIDE DEF st
      <4>1. BegunAs(st, type, here, entry)
        BY <2>2, BegunIs, Zenon
      <4> QED BY <4>1 DEF BegunAs
    <3>2. NewAttr(s, type, here, entry, declare) = [s EXCEPT !.attrs[j] =
            DeclaredIf(declare, MadBegin(AttributeInit([st EXCEPT !.type = type, !.info = entry], here)))]
      BY <1>3, Zenon DEF NewAttr, Taken
    <3> HIDE DEF b, j
    <3> QED BY <3>1, <3>2, Zenon
  <2>4. /\ b \in AttrSet /\ b.type = type /\ b.info = entry /\ b.timer = Off /\ b.reg = "MT"
        /\ b.app = "VO" /\ b.pending = st.pending /\ b.four = "IGNORE" /\ b.remove = FALSE
    <3> HIDE DEF st
    <3> QED BY <2>1, <2>2, Zenon DEF AttrSet, AttrOK, Apps, RegistrarStates, TimerStates
  <2> HIDE DEF b
  <2>5. /\ u \in AttrSet /\ u.type = type /\ u.info = entry /\ u.timer = Off /\ u.reg = "MT"
        /\ u.pending = st.pending /\ u.four = "IGNORE" /\ u.remove = FALSE
        /\ u.app = IF declare THEN "VN" ELSE "VO"
    <3>1. Declared(b) = [b EXCEPT !.remove = FALSE, !.app = "VN"]
      BY <2>4, DeclaredIs, Zenon
    <3> HIDE DEF st
    <3> QED BY <2>4, <3>1, Zenon DEF DeclaredIf, AttrSet, Apps
  <2>6. AttrOK(u) /\ u.app # "UNUSED"
    <3> HIDE DEF u
    <3> QED BY <2>5, Zenon DEF AttrOK
  <2> HIDE DEF u, j, st
  <2>7. /\ t \in SrpSet /\ t.table = s.table /\ t.vids = s.vids
        /\ t.attrs[j] = u /\ \A i \in Slots \ {j} : t.attrs[i] = s.attrs[i]
    BY <1>0, <2>1, <2>5, Zenon DEF SrpSet
  <2> HIDE DEF t
  <2>8. \A i \in Slots \ {j} : /\ StreamOf(t, i) = StreamOf(s, i) /\ (InUse(t, i) <=> InUse(s, i))
                               /\ IsListener(t, i) <=> IsListener(s, i)
    BY <2>7, Zenon DEF StreamOf, InUse, IsListener
  <2>9. InUse(t, j) /\ StreamOf(t, j) = x /\ ~InUse(s, j)
        /\ (IsListener(t, j) <=> type = "LISTENER")
    BY <2>1, <2>5, <2>6, <2>7, Zenon DEF StreamOf, InUse, IsListener, st
  <2> HIDE DEF x
  <2>10. Linked(t)
    <3>1. \A i \in Slots : InUse(t, i) => StreamOf(t, i) # NoStream
      BY <1>0, <2>8, <2>9, Zenon DEF Linked
    <3>2. \A i, k \in Slots :
            InUse(t, i) /\ InUse(t, k) /\ (IsListener(t, i) <=> IsListener(t, k))
              => i = k \/ StreamOf(t, i) # StreamOf(t, k)
      BY <1>0, <2>8, <2>9, Zenon DEF Linked, x
    <3> QED BY <1>0, <2>7, <3>1, <3>2 DEF Linked
  <2>11. ASSUME NEW i \in Slots, IsListener(t, i) PROVE Excused(t, i, old)
    <3>1. CASE i # j
      <4>1. Excused(s, i, old)
        BY <2>8, <2>11, <3>1, Zenon DEF SrpInv
      <4> QED BY <2>7, <2>8, <3>1, <4>1, Zenon DEF Excused
    <3>2. CASE i = j
      <4>1. type = "LISTENER"
        BY <2>9, <2>11, <3>2, Zenon
      <4>2. st.pending = {} \/ x \in old
        BY <1>3, <4>1, Zenon DEF st, j, x
      <4>3. st.pending = {} => Clean(u)
        BY <2>5, Zenon DEF Clean
      <4> QED BY <2>5, <2>7, <2>9, <3>2, <4>2, <4>3, Zenon DEF Excused
    <3> QED BY <3>1, <3>2, Zenon
  <2>12. SrpInv(t, old)
    <3>1. \A i \in Slots : AttrOK(t.attrs[i])
      BY <2>6, <2>7, Zenon DEF SrpInv
    <3> QED BY <2>7, <2>10, <2>11, <3>1, Zenon DEF SrpInv
  <2>13. Touches(s, t, x) /\ Joins(s, t)
    BY <2>7, <2>8, <2>9, Zenon DEF Touches, Joins
  <2>14. Begins(s, t, x, type, declare, old)
    <3>1. Taken(s) = j
      BY Zenon DEF j
    <3> QED BY <1>3, <2>1, <2>5, <2>7, <2>9, <2>12, <2>13, <3>1, Zenon DEF Begins
  <2> QED BY <2>3, <2>14, Zenon DEF x
<1> QED BY <1>2, <1>3, Zenon

\* The VLAN entries in use are of different VLANs.
VidsOK(s) ==
  /\ \A i \in VidEntries : s.vids[i].active => s.vids[i].vlan \in Vlans
  /\ \A i, j \in VidEntries :
       s.vids[i].active /\ s.vids[j].active /\ s.vids[i].vlan = s.vids[j].vlan => i = j

\* Different VLANs in all the entries are all the VLANs.
Ample ==
  \A f \in [VidEntries -> Vlans] :
    (\A i, j \in VidEntries : f[i] = f[j] => i = j)
      => \A v \in Vlans : \E i \in VidEntries : f[i] = v

\* With room for every VLAN, one that is not joined finds an entry.
LEMMA VidFound ==
  ASSUME NEW s \in SrpSet, VidsOK(s), Ample, NEW v \in Vlans,
         \A i \in VidEntries : s.vids[i].active
  PROVE  \E i \in VidEntries : s.vids[i].vlan = v
<1> DEFINE f == [i \in VidEntries |-> s.vids[i].vlan]
<1>1. f \in [VidEntries -> Vlans] /\ \A i, j \in VidEntries : f[i] = f[j] => i = j
  BY Zenon DEF VidsOK
<1>2. PICK i \in VidEntries : f[i] = v
  <2> HIDE DEF f
  <2> QED BY <1>1 DEF Ample
<1> QED BY <1>2

\* Only VLAN entries change.
LEMMA SetVids ==
  ASSUME NEW s, NEW old, SrpInv(s, old), NEW i \in VidEntries,
         NEW r \in [active : BOOLEAN, vlan : Tags]
  PROVE  LET t == [s EXCEPT !.vids[i] = r]
         IN  /\ SrpInv(t, old) /\ t.attrs = s.attrs /\ t.table = s.table
             /\ t.vids[i] = r /\ \A k \in VidEntries \ {i} : t.vids[k] = s.vids[k]
<1> DEFINE t == [s EXCEPT !.vids[i] = r]
<1>1. t \in SrpSet /\ t.attrs = s.attrs /\ t.table = s.table
      /\ t.vids[i] = r /\ \A k \in VidEntries \ {i} : t.vids[k] = s.vids[k]
  BY Zenon DEF SrpInv, SrpSet
<1> HIDE DEF t
<1>2. SrpInv(t, old)
  BY <1>1, SrpInvSame, Zenon
<1> QED BY <1>1, <1>2 DEF t

\* avb_join_vlan leaves no VLAN, and joins its own if there is room.
JoinsVlan(s, t, v, old) ==
  /\ SrpInv(t, old) /\ t.attrs = s.attrs /\ t.table = s.table
  /\ \A u : OnVlan(s, u) => OnVlan(t, u)
  /\ VidsOK(s) => VidsOK(t)
  /\ VidsOK(s) /\ Ample => OnVlan(t, v)

\* avb_join_vlan.
LEMMA JoinVlanStep ==
  ASSUME WellOrdered, NEW s, NEW old, SrpInv(s, old), NEW v \in Vlans
  PROVE  JoinsVlan(s, JoinVlan(s, v), v, old)
<1> DEFINE joined == {k \in VidEntries : s.vids[k].active /\ s.vids[k].vlan = v}
           free == {k \in VidEntries : ~s.vids[k].active}
           i == IF joined # {} THEN Highest(joined) ELSE Lowest(free)
           r == [active |-> TRUE, vlan |-> v]
           t == [s EXCEPT !.vids[i] = r]
<1>0. s \in SrpSet /\ s.vids \in [VidEntries -> [active : BOOLEAN, vlan : Tags]]
  BY Zenon DEF SrpInv, SrpSet
<1>1. JoinVlan(s, v) = IF i = 0 THEN s ELSE t
  BY DEF JoinVlan
<1>2. /\ joined # {} => i \in joined
      /\ joined = {} /\ free # {} => i \in free
      /\ joined = {} /\ free = {} => i = 0
  <2>1. joined \in SUBSET (1..MaxVlans) /\ free \in SUBSET (1..MaxVlans)
    BY Zenon DEF VidEntries
  <2> HIDE DEF joined, free
  <2> QED BY <2>1, Bounds, LowestIn, HighestIn, Zenon
<1> HIDE DEF i
<1>3. CASE i = 0
  <2>1. joined = {} /\ free = {}
    BY <1>2, <1>3, Bounds DEF VidEntries
  <2>2. \A k \in VidEntries : s.vids[k].active /\ s.vids[k].vlan # v
    BY <1>0, <2>1, Zenon
  <2>3. ~(VidsOK(s) /\ Ample)
    BY <1>0, <2>2, VidFound
  <2> QED BY <1>1, <1>3, <2>3 DEF JoinsVlan
<1>4. CASE i # 0
  <2>1. i \in VidEntries /\ (s.vids[i].active => s.vids[i].vlan = v)
        /\ (~s.vids[i].active => \A k \in VidEntries : s.vids[k].active => s.vids[k].vlan # v)
    BY <1>0, <1>2, <1>4, Zenon
  <2>2. r \in [active : BOOLEAN, vlan : Tags] /\ r.active /\ r.vlan = v
    BY Zenon DEF Tags
  <2> HIDE DEF r, joined, free
  <2>3. /\ SrpInv(t, old) /\ t.attrs = s.attrs /\ t.table = s.table
        /\ t.vids[i] = r /\ \A k \in VidEntries \ {i} : t.vids[k] = s.vids[k]
    BY <2>1, <2>2, SetVids
  <2> HIDE DEF t
  <2>4. OnVlan(t, v)
    BY <2>1, <2>2, <2>3, Zenon DEF OnVlan
  <2>5. ASSUME NEW u, OnVlan(s, u) PROVE OnVlan(t, u)
    <3>1. PICK k \in VidEntries : s.vids[k].active /\ s.vids[k].vlan = u
      BY <2>5, Zenon DEF OnVlan
    <3>2. CASE k # i
      BY <2>3, <3>1, <3>2, Zenon DEF OnVlan
    <3>3. CASE k = i
      BY <2>1, <2>4, <3>1, <3>3, Zenon
    <3> QED BY <3>2, <3>3, Zenon
  <2>6. VidsOK(s) => VidsOK(t)
    <3> SUFFICES ASSUME VidsOK(s) PROVE VidsOK(t)
      OBVIOUS
    <3>1. \A k \in VidEntries : t.vids[k].active => t.vids[k].vlan \in Vlans
      BY <2>2, <2>3, Zenon DEF VidsOK
    <3>2. \A k \in VidEntries \ {i} : s.vids[k].active => s.vids[k].vlan # v
      BY <2>1, Zenon DEF VidsOK
    <3>3. ASSUME NEW k \in VidEntries, NEW m \in VidEntries, t.vids[k].active, t.vids[m].active,
                 t.vids[k].vlan = t.vids[m].vlan
          PROVE  k = m
      BY <2>2, <2>3, <3>2, <3>3 DEF VidsOK
    <3> QED BY <3>1, <3>3, Zenon DEF VidsOK
  <2> QED BY <1>1, <1>4, <2>3, <2>4, <2>5, <2>6, Zenon DEF JoinsVlan
<1> QED BY <1>3, <1>4

\* avb_leave_vlan.
LEMMA LeaveVlanStep ==
  ASSUME WellOrdered, NEW s, NEW old, SrpInv(s, old), NEW v
  PROVE  LET t == LeaveVlan(s, v)
         IN  /\ SrpInv(t, old) /\ t.attrs = s.attrs /\ t.table = s.table
             /\ VidsOK(s) => VidsOK(t)
<1> DEFINE S == {k \in VidEntries : s.vids[k].active /\ s.vids[k].vlan = v}
           i == Highest(S)
           r == [s.vids[i] EXCEPT !.active = FALSE]
           t == [s EXCEPT !.vids[i] = r]
<1>0. s \in SrpSet /\ s.vids \in [VidEntries -> [active : BOOLEAN, vlan : Tags]]
  BY Zenon DEF SrpInv, SrpSet
<1>1. LeaveVlan(s, v) = IF i = 0 THEN s ELSE t
  BY DEF LeaveVlan
<1>2. i = 0 \/ i \in VidEntries
  <2>1. S \in SUBSET (1..MaxVlans)
    BY Zenon DEF VidEntries
  <2> HIDE DEF S
  <2> QED BY <2>1, Bounds, HighestIn, Zenon DEF VidEntries
<1> HIDE DEF i
<1>3. CASE i = 0
  BY <1>1, <1>3
<1>4. CASE i # 0
  <2>1. i \in VidEntries
    BY <1>2, <1>4
  <2>2. r \in [active : BOOLEAN, vlan : Tags] /\ ~r.active
    BY <1>0, <2>1, Zenon
  <2> HIDE DEF r
  <2>3. /\ SrpInv(t, old) /\ t.attrs = s.attrs /\ t.table = s.table
        /\ t.vids[i] = r /\ \A k \in VidEntries \ {i} : t.vids[k] = s.vids[k]
    BY <2>1, <2>2, SetVids
  <2> HIDE DEF t
  <2>4. VidsOK(s) => VidsOK(t)
    BY <2>1, <2>2, <2>3, Zenon DEF VidsOK
  <2> QED BY <1>1, <1>4, <2>3, <2>4, Zenon
<1> QED BY <1>3, <1>4, Zenon

\* A request of the manager for stream x.
Requested(s, t, x, old) == SrpInv(t, old \cup TakesStale(s, t)) /\ Touches(s, t, x)

\* What avb_join_vlan promises, of the VLAN entries alone.
JoinedVids(s, t, v) ==
  /\ \A u : OnVlan(s, u) => OnVlan(t, u)
  /\ VidsOK(s) => VidsOK(t)
  /\ VidsOK(s) /\ Ample => OnVlan(t, v)

\* JoinedVids speaks of the VLAN entries alone.
LEMMA JoinedVidsSame ==
  ASSUME NEW s, NEW t, NEW v, NEW p, NEW q, JoinedVids(s, t, v), p.vids = s.vids, q.vids = t.vids
  PROVE  JoinedVids(p, q, v)
BY DEF JoinedVids, OnVlan, VidsOK

\* Only attributes of the listener side that declared before do so now.
NoNewListener(s, t) ==
  \A j \in Slots : IsListener(t, j) /\ t.attrs[j].app = "VN" => InUse(s, j) /\ s.attrs[j].app = "VN"

\* The streams that are stale once a listener's attribute of stream x takes a slot.
Dirty(r, x, old) ==
  IF Taken(r) # 0 /\ r.attrs[Taken(r)].pending # {} THEN old \cup {x} ELSE old

\* The streams that NewAttr leaves stale are those TakesStale names.
LEMMA DirtyIs ==
  ASSUME NEW s, NEW r, NEW t, NEW u \in SrpSet, NEW x, NEW old, NEW more, NEW declare,
         Touches(s, r, x), Begins(r, t, x, "LISTENER", declare, more), Touches(t, u, x)
  PROVE  Dirty(r, x, old) \subseteq old \cup TakesStale(s, u)
<1> DEFINE j == Taken(r)
<1>1. CASE ~(j # 0 /\ r.attrs[j].pending # {})
  BY <1>1, Zenon DEF Dirty
<1>2. CASE j # 0 /\ r.attrs[j].pending # {}
  <2>1. j \in Slots /\ ~InUse(r, j) /\ InUse(t, j) /\ t.attrs[j].type = "LISTENER"
        /\ StreamOf(t, j) = x
    BY <1>2, Zenon DEF Begins
  <2>2. r.attrs[j] = s.attrs[j]
    BY <2>1, Zenon DEF Touches
  <2>3. InUse(u, j) /\ StreamOf(u, j) = x /\ u.attrs[j].type = "LISTENER"
    BY <2>1, Zenon DEF Touches
  <2>4. Live(u.attrs[j])
    BY <2>1, <2>3, LiveIs, Sides, Zenon DEF InUse
  <2> HIDE DEF j
  <2>5. s.attrs[j].app = "UNUSED" /\ s.attrs[j].pending # {}
    BY <1>2, <2>1, <2>2, Zenon DEF InUse
  <2>6. x \in TakesStale(s, u)
    BY <2>1, <2>3, <2>4, <2>5, Zenon DEF TakesStale
  <2> QED BY <2>6, Zenon DEF Dirty
<1> QED BY <1>1, <1>2, Zenon

\* A stream gets its listener's attribute.
LEMMA NewListenerStep ==
  ASSUME WellOrdered, NEW r, NEW old, SrpInv(r, old), NEW here \in BOOLEAN, NEW entry \in Entries,
         NEW declare \in BOOLEAN, NEW x \in Stream, r.table[entry].id = x,
         MatchType(r, "LISTENER", x) = 0
  PROVE  Begins(r, NewAttr(r, "LISTENER", here, entry, declare), x, "LISTENER", declare,
                Dirty(r, x, old))
<1> DEFINE more == Dirty(r, x, old)
<1>1. SrpInv(r, more)
  <2>1. old \subseteq more
    BY Zenon DEF Dirty
  <2> HIDE DEF more
  <2> QED BY <2>1, SrpInvMore, Zenon
<1>2. Taken(r) # 0 /\ r.attrs[Taken(r)].pending # {} => x \in more
  BY Zenon DEF Dirty
<1>3. \A j \in Slots : InUse(r, j) /\ IsListener(r, j) => StreamOf(r, j) # x
  BY MatchTypeIs DEF SrpInv, IsListener
<1>4. "LISTENER" \in StreamTypes
  BY Zenon DEF StreamTypes
<1> HIDE DEF more
<1> QED BY <1>1, <1>2, <1>3, <1>4, NewAttrStep DEF more

\* A stream gets its talker's attribute.
LEMMA NewTalkerStep ==
  ASSUME WellOrdered, NEW r, NEW old, SrpInv(r, old), NEW here \in BOOLEAN, NEW entry \in Entries,
         NEW declare \in BOOLEAN, NEW x \in Stream, r.table[entry].id = x,
         MatchTalker(r, x) = 0
  PROVE  Begins(r, NewAttr(r, "ADVERTISE", here, entry, declare), x, "ADVERTISE", declare, old)
<1>1. \A j \in Slots : InUse(r, j) /\ ~IsListener(r, j) => StreamOf(r, j) # x
  BY MatchTalkerIs, Sides, Zenon DEF SrpInv
<1>2. "ADVERTISE" \in StreamTypes /\ "ADVERTISE" # "LISTENER"
  BY Zenon DEF StreamTypes, TalkerTypes
<1> QED BY <1>1, <1>2, NewAttrStep, Zenon

\* avb_srp_create_and_join_talker_advertise_attrs.
LEMMA JoinTalkerStep ==
  ASSUME WellOrdered, NEW s, NEW old, SrpInv(s, old), NEW x \in Stream, MatchEntry(s, x) # 0,
         NEW vlan \in Tags, NEW size \in Nat
  PROVE  LET t == JoinTalker(s, x, vlan, size)
         IN  Requested(s, t, x, old) /\ JoinedVids(s, t, VlanFor(s, vlan)) /\ NoNewListener(s, t)
<1> DEFINE e == MatchEntry(s, x)
           v == VlanFor(s, vlan)
           s1 == AddReservation(s, x, size)
           s2 == JoinVlan(s1, v)
           s3 == IF MatchTalker(s2, x) = 0 THEN NewAttr(s2, "ADVERTISE", TRUE, e, TRUE)
                 ELSE Join(s2, MatchTalker(s2, x))
           s4 == IF MatchType(s3, "LISTENER", x) # 0 THEN s3
                 ELSE NewAttr(s3, "LISTENER", FALSE, e, FALSE)
<1>0. JoinTalker(s, x, vlan, size) = s4
  BY Zenon DEF JoinTalker
<1>1. EntryAdded(s, s1, x, old) /\ e \in Entries /\ s1.table[e].id = x
  BY AddedStep, Zenon DEF EntryAdded
<1> HIDE DEF s1, e
<1>2. v \in Vlans
  BY Zenon DEF VlanFor, Tags, SrpInv, SrpSet
<1>3. JoinsVlan(s1, s2, v, old)
  BY <1>1, <1>2, JoinVlanStep, Zenon DEF EntryAdded
<1> HIDE DEF s2, v
<1>4. SrpInv(s2, old) /\ Touches(s, s2, x) /\ s2.table[e].id = x /\ JoinedVids(s, s2, v)
      /\ s2.attrs = s.attrs
  <2>1. Touches(s1, s2, x)
    BY <1>3, TouchesSame, Zenon DEF JoinsVlan
  <2>2. JoinedVids(s1, s2, v)
    BY <1>3, Zenon DEF JoinsVlan, JoinedVids
  <2> QED BY <1>1, <1>3, <2>1, <2>2, TouchesTwice, JoinedVidsSame, Zenon DEF JoinsVlan, EntryAdded
<1>5. /\ SrpInv(s3, old) /\ Touches(s2, s3, x) /\ s3.table = s2.table /\ s3.vids = s2.vids
      /\ NoNewListener(s2, s3)
  <2>1. CASE MatchTalker(s2, x) = 0
    <3>1. Begins(s2, s3, x, "ADVERTISE", TRUE, old)
      BY <1>1, <1>4, <2>1, NewTalkerStep, Zenon
    <3> HIDE DEF s3
    <3>2. NoNewListener(s2, s3)
      BY <3>1, Zenon DEF NoNewListener, Begins, IsListener, InUse
    <3> QED BY <3>1, <3>2, Zenon DEF Begins
  <2>2. CASE MatchTalker(s2, x) # 0
    <3> DEFINE m == MatchTalker(s2, x)
    <3>1. m \in Slots /\ IsTalker(s2, m) /\ StreamOf(s2, m) = x /\ InUse(s2, m)
      BY <1>4, <2>2, MatchTalkerIs, Zenon DEF SrpInv, IsTalker
    <3> HIDE DEF m
    <3>2. s3 = Join(s2, m)
      BY <2>2, Zenon DEF m
    <3>3. /\ SrpInv(s3, old) /\ Touches(s2, s3, x) /\ s3.table = s2.table /\ s3.vids = s2.vids
          /\ \A i \in Slots \ {m} : s3.attrs[i] = s2.attrs[i]
      BY <1>4, <3>1, <3>2, JoinStep, ZenonT(40)
    <3> HIDE DEF s3
    <3>4. ~IsListener(s3, m)
      BY <3>1, <3>3, Zenon DEF Touches, IsListener, IsTalker, TalkerTypes
    <3>5. NoNewListener(s2, s3)
      BY <3>3, <3>4, Zenon DEF NoNewListener, IsListener, InUse
    <3> QED BY <3>3, <3>5, Zenon
  <2> QED BY <2>1, <2>2, Zenon
<1> HIDE DEF s3
<1>6. Touches(s, s3, x) /\ s3.table[e].id = x
  BY <1>4, <1>5, TouchesTwice, Zenon
<1>7. CASE MatchType(s3, "LISTENER", x) # 0
  <2>1. s4 = s3
    BY <1>7, Zenon
  <2>2. SrpInv(s3, old \cup TakesStale(s, s3))
    BY <1>5, SrpInvMore
  <2>3. JoinedVids(s, s3, v)
    BY <1>4, <1>5, JoinedVidsSame, Zenon
  <2>4. NoNewListener(s, s3)
    BY <1>4, <1>5, Zenon DEF NoNewListener, InUse
  <2> QED BY <1>0, <1>6, <2>1, <2>2, <2>3, <2>4, Zenon DEF Requested, v
<1>8. CASE MatchType(s3, "LISTENER", x) = 0
  <2> DEFINE more == Dirty(s3, x, old)
  <2>1. Begins(s3, s4, x, "LISTENER", FALSE, more)
    BY <1>1, <1>5, <1>6, <1>8, NewListenerStep, Zenon
  <2> HIDE DEF s4
  <2>2. SrpInv(s4, more) /\ Touches(s3, s4, x) /\ s4.vids = s3.vids /\ s4 \in SrpSet
    BY <2>1, Zenon DEF Begins, SrpInv
  <2>3. more \subseteq old \cup TakesStale(s, s4)
    <3>1. Touches(s4, s4, x)
      BY TouchesSame, Zenon
    <3> QED BY <1>6, <2>1, <2>2, <3>1, DirtyIs, Zenon
  <2>4. SrpInv(s4, old \cup TakesStale(s, s4))
    BY <2>2, <2>3, SrpInvMore, Zenon
  <2>5. JoinedVids(s, s4, v)
    BY <1>4, <1>5, <2>2, JoinedVidsSame, Zenon
  <2>6. NoNewListener(s3, s4)
    <3> HIDE DEF more
    <3> QED BY <2>1, Zenon DEF NoNewListener, Begins, IsListener, InUse
  <2>7. NoNewListener(s, s4)
    <3>1. ASSUME NEW j \in Slots, InUse(s3, j), s3.attrs[j].app = "VN", IsListener(s4, j)
          PROVE  InUse(s, j) /\ s.attrs[j].app = "VN"
      <4>1. IsListener(s3, j)
        BY <2>2, <3>1, Zenon DEF Touches, IsListener
      <4> QED BY <1>4, <1>5, <3>1, <4>1, Zenon DEF NoNewListener, InUse
    <3> QED BY <2>6, <3>1, Zenon DEF NoNewListener
  <2> QED BY <1>0, <1>6, <2>2, <2>4, <2>5, <2>7, TouchesTwice DEF Requested, v
<1> QED BY <1>7, <1>8, Zenon

\* Two requests that declare no listener, one after the other.
LEMMA NoNewListenerTwice ==
  ASSUME NEW s, NEW t, NEW u, NEW x, Touches(t, u, x), NoNewListener(s, t), NoNewListener(t, u)
  PROVE  NoNewListener(s, u)
<1>1. ASSUME NEW j \in Slots, IsListener(u, j), u.attrs[j].app = "VN"
      PROVE  InUse(s, j) /\ s.attrs[j].app = "VN"
  <2>1. InUse(t, j) /\ t.attrs[j].app = "VN"
    BY <1>1, Zenon DEF NoNewListener
  <2>2. IsListener(t, j)
    BY <1>1, <2>1, Zenon DEF Touches, IsListener
  <2> QED BY <2>1, <2>2, Zenon DEF NoNewListener
<1> QED BY <1>1, Zenon DEF NoNewListener

\* A request that withdraws: attributes and VLANs stay, and no listener declares
\* that did not.
Withdraws(s, t, x, old) ==
  SrpInv(t, old) /\ Touches(s, t, x) /\ t.vids = s.vids /\ NoNewListener(s, t)

\* Two withdrawals for the same stream, one after the other.
LEMMA WithdrawsTwice ==
  ASSUME NEW s, NEW t, NEW u, NEW x, NEW old, Withdraws(s, t, x, old), Withdraws(t, u, x, old)
  PROVE  Withdraws(s, u, x, old)
BY TouchesTwice, NoNewListenerTwice, Zenon DEF Withdraws

\* Doing nothing withdraws nothing.
LEMMA WithdrawsSame ==
  ASSUME NEW s, NEW x, NEW old, SrpInv(s, old)
  PROVE  Withdraws(s, s, x, old)
BY TouchesSame, Zenon DEF Withdraws, NoNewListener, IsListener

\* An attribute leaves.
LEMMA LeaveWithdraws ==
  ASSUME NEW s, NEW old, SrpInv(s, old), NEW j \in Slots, InUse(s, j)
  PROVE  /\ Withdraws(s, Leave(s, j), StreamOf(s, j), old)
         /\ LET t == Leave([s EXCEPT !.attrs[j].here = FALSE], j)
            IN  Withdraws(s, t, StreamOf(s, j), old) /\ t.attrs[j].app # "VN"
<1>1. ASSUME NEW here \in BOOLEAN
      PROVE  LET t == Leave([s EXCEPT !.attrs[j].here = here], j)
             IN  Withdraws(s, t, StreamOf(s, j), old) /\ t.attrs[j].app # "VN"
  <2> DEFINE t == Leave([s EXCEPT !.attrs[j].here = here], j)
  <2>1. /\ SrpInv(t, old) /\ Touches(s, t, StreamOf(s, j))
        /\ t.vids = s.vids /\ t.attrs[j].app # "VN"
        /\ \A i \in Slots \ {j} : t.attrs[i] = s.attrs[i]
    BY LeaveStep
  <2> HIDE DEF t
  <2>2. NoNewListener(s, t)
    BY <2>1, Zenon DEF NoNewListener, IsListener, InUse
  <2> QED BY <2>1, <2>2, Zenon DEF Withdraws, t
<1>2. s.attrs[j].here \in BOOLEAN /\ [s EXCEPT !.attrs[j].here = s.attrs[j].here] = s
  BY Sides DEF SrpInv, SrpSet, AttrSet
<1> DEFINE h == s.attrs[j].here
<1>3. Withdraws(s, Leave([s EXCEPT !.attrs[j].here = h], j), StreamOf(s, j), old)
  <2> HIDE DEF h
  <2>1. h \in BOOLEAN
    BY <1>2, Zenon DEF h
  <2> QED BY <1>1, <2>1, Zenon
<1>4. Withdraws(s, Leave(s, j), StreamOf(s, j), old)
  BY <1>2, <1>3, Zenon
<1>5. FALSE \in BOOLEAN
  BY Zenon
<1> QED BY <1>1, <1>4, <1>5, Zenon

\* avb_srp_leave_talker_attrs.
LEMMA LeaveTalkerStep ==
  ASSUME WellOrdered, NEW s, NEW old, SrpInv(s, old), NEW x
  PROVE  Withdraws(s, LeaveTalker(s, x), x, old)
<1> DEFINE m == MatchTalker(s, x)
           j == MatchType(s, "LISTENER", x)
           s1 == Leave(s, m)
           s2 == IF j = 0 THEN s1 ELSE Leave([s1 EXCEPT !.attrs[j].here = FALSE], j)
<1>0. LeaveTalker(s, x) = s2
  BY Zenon DEF LeaveTalker
<1>1. m = 0 \/ (m \in Slots /\ InUse(s, m) /\ StreamOf(s, m) = x)
  BY MatchTalkerIs, Zenon DEF SrpInv, IsTalker
<1>2. j = 0 \/ (j \in Slots /\ InUse(s, j) /\ StreamOf(s, j) = x)
  BY MatchTypeIs, Zenon DEF SrpInv
<1> HIDE DEF m, j
<1>3. Withdraws(s, s1, x, old)
  <2>1. CASE m = 0
    BY <2>1, WithdrawsSame, Zenon DEF Leave
  <2>2. CASE m # 0
    BY <1>1, <2>2, LeaveWithdraws, Zenon
  <2> QED BY <2>1, <2>2, Zenon
<1> HIDE DEF s1
<1>4. CASE j = 0
  BY <1>0, <1>3, <1>4, Zenon
<1>5. CASE j # 0
  <2>1. SrpInv(s1, old) /\ InUse(s1, j) /\ StreamOf(s1, j) = x /\ j \in Slots
    BY <1>2, <1>3, <1>5, Zenon DEF Withdraws, Touches
  <2>2. s2 = Leave([s1 EXCEPT !.attrs[j].here = FALSE], j)
    BY <1>5, Zenon
  <2>3. Withdraws(s1, s2, x, old)
    BY <2>1, <2>2, LeaveWithdraws, Zenon
  <2> HIDE DEF s2
  <2> QED BY <1>0, <1>3, <2>3, WithdrawsTwice, Zenon
<1> QED BY <1>4, <1>5, Zenon

\* avb_srp_leave_listener_attrs: the stream's listener no longer declares.
LEMMA LeaveListenerStep ==
  ASSUME WellOrdered, NEW s, NEW old, SrpInv(s, old), NEW x
  PROVE  LET t == LeaveListener(s, x)
         IN  /\ Withdraws(s, t, x, old)
             /\ \A j \in Slots : IsListener(t, j) /\ StreamOf(t, j) = x => t.attrs[j].app # "VN"
<1> DEFINE j == MatchType(s, "LISTENER", x)
           m == MatchTalker(s, x)
           s1 == IF j = 0 THEN s ELSE Leave([s EXCEPT !.attrs[j].here = FALSE], j)
           s2 == [s1 EXCEPT !.attrs[m].here = FALSE, !.attrs[m].remove = TRUE]
           t == LeaveListener(s, x)
<1>0. t = IF m = 0 THEN s1 ELSE s2
  BY Zenon DEF LeaveListener
<1>1. m = 0 \/ (m \in Slots /\ IsTalker(s, m) /\ StreamOf(s, m) = x)
  BY MatchTalkerIs, Zenon DEF SrpInv
<1>2. /\ j # 0 => (j \in Slots /\ IsListener(s, j) /\ InUse(s, j) /\ StreamOf(s, j) = x)
      /\ j = 0 => \A k \in Slots : ~(IsListener(s, k) /\ StreamOf(s, k) = x)
  BY MatchTypeIs, Zenon DEF SrpInv, IsListener
<1> HIDE DEF m, j, t
<1>3. Withdraws(s, s1, x, old) /\ (j # 0 => s1.attrs[j].app # "VN")
  <2>1. CASE j = 0
    BY <2>1, WithdrawsSame, Zenon
  <2>2. CASE j # 0
    <3>1. s1 = Leave([s EXCEPT !.attrs[j].here = FALSE], j)
      BY <2>2, Zenon
    <3> QED BY <1>2, <2>2, <3>1, LeaveWithdraws, Zenon
  <2> QED BY <2>1, <2>2, Zenon
<1> HIDE DEF s1
<1>4. ASSUME NEW k \in Slots, IsListener(s1, k), StreamOf(s1, k) = x
      PROVE  s1.attrs[k].app # "VN"
  <2> SUFFICES ASSUME s1.attrs[k].app = "VN" PROVE FALSE
    BY Zenon
  <2>1. j # 0
    <3>1. IsListener(s, k) /\ StreamOf(s, k) = x
      BY <1>3, <1>4, Zenon DEF Withdraws, NoNewListener, Touches, IsListener
    <3> QED BY <1>2, <3>1, Zenon
  <2>2. IsListener(s1, j) /\ StreamOf(s1, j) = x
    BY <1>2, <1>3, <2>1, Zenon DEF Withdraws, Touches, IsListener
  <2>3. k = j
    <3>1. Linked(s1)
      BY <1>3, Zenon DEF Withdraws, SrpInv
    <3>2. InUse(s1, k) /\ InUse(s1, j)
      BY <1>4, <2>2, Zenon DEF IsListener
    <3> QED BY <1>2, <1>4, <2>1, <2>2, <3>1, <3>2, Zenon DEF Linked
  <2> QED BY <1>3, <2>1, <2>3, Zenon
<1>5. CASE m = 0
  BY <1>0, <1>3, <1>4, <1>5, Zenon DEF t
<1>6. CASE m # 0
  <2>1. SrpInv(s1, old) /\ IsTalker(s1, m) /\ StreamOf(s1, m) = x /\ m \in Slots
    BY <1>1, <1>3, <1>6, Zenon DEF Withdraws, Touches, IsTalker
  <2>2. /\ SrpInv(s2, old) /\ Touches(s1, s2, x) /\ s2.vids = s1.vids
        /\ \A i \in Slots \ {m} : s2.attrs[i] = s1.attrs[i]
    BY <2>1, RemoveStep, Zenon
  <2> HIDE DEF s2
  <2>3. ~IsListener(s2, m)
    BY <2>1, <2>2, Zenon DEF Touches, IsListener, IsTalker, TalkerTypes
  <2>4. NoNewListener(s1, s2)
    BY <2>2, <2>3, Zenon DEF NoNewListener, IsListener, InUse
  <2>5. Withdraws(s, s2, x, old)
    BY <1>3, <2>2, <2>4, WithdrawsTwice, Zenon DEF Withdraws
  <2>6. ASSUME NEW k \in Slots, IsListener(s2, k), StreamOf(s2, k) = x
        PROVE  s2.attrs[k].app # "VN"
    <3>1. s2.attrs[k] = s1.attrs[k]
      BY <2>2, <2>3, <2>6, Zenon
    <3>2. IsListener(s1, k) /\ InUse(s1, k)
      BY <2>6, <3>1, Zenon DEF IsListener, InUse
    <3>3. StreamOf(s1, k) = x
      BY <2>2, <2>6, <3>2, Zenon DEF Touches
    <3> QED BY <1>4, <3>1, <3>2, <3>3, Zenon
  <2> QED BY <1>0, <1>6, <2>5, <2>6, Zenon DEF t
<1> QED BY <1>5, <1>6, Zenon

\* A stream has a listener here, or a talker that is not to be removed.
DeclaredIn(s, x) ==
  \E j \in Slots : IsListener(s, j) /\ StreamOf(s, j) = x /\ s.attrs[j].app = "VN"
TrackedIn(s, x) ==
  \E j \in Slots : IsTalker(s, j) /\ StreamOf(s, j) = x /\ ~s.attrs[j].remove

FreeIn(s) == {j \in Slots : s.attrs[j].app = "UNUSED"}

\* What avb_srp_join_listener_attrs promises: it joins the VLAN or does nothing;
\* it declares the listener if the talker has not failed and there is room; and
\* it tracks a talker that had no attribute if there is room.
ListenerJoined(s, t, x, v, old) ==
  /\ Requested(s, t, x, old) /\ Joins(s, t)
  /\ t = s \/ JoinedVids(s, t, v)
  /\ /\ MatchType(s, "FAILED", x) = 0 /\ MatchEntry(s, x) # 0
     /\ MatchType(s, "LISTENER", x) # 0 \/ FreeIn(s) # {}
     => DeclaredIn(t, x)
  /\ /\ MatchTalker(s, x) = 0 /\ MatchEntry(s, x) # 0
     /\ \E i, j \in FreeIn(s) : i # j \/ MatchType(s, "LISTENER", x) # 0
     => TrackedIn(t, x)

\* A free slot is taken if there is one.
LEMMA TakenIs ==
  ASSUME WellOrdered, NEW s, FreeIn(s) # {}
  PROVE  Taken(s) # 0
<1>1. FreeIn(s) \in SUBSET (1..MaxAttrs)
  BY Zenon DEF FreeIn, Slots
<1>2. Lowest(FreeIn(s)) \in FreeIn(s)
  <2> DEFINE S == FreeIn(s)
  <2> HIDE DEF S
  <2>1. S \in SUBSET (1..MaxAttrs) /\ S # {}
    BY <1>1, Zenon DEF S
  <2>2. Lowest(S) \in S
    BY <2>1, Bounds, LowestIn, Zenon
  <2> QED BY <2>2 DEF S
<1>3. Taken(s) \in Slots
  BY <1>2, Zenon DEF Taken, FreeIn
<1> QED BY <1>3, Bounds DEF Slots

\* The listener's attribute of a stream that has an entry.
WithListenerOf(s1, listener, x, entry) ==
  IF listener # 0 THEN Join(s1, listener) ELSE NewAttr(s1, "LISTENER", TRUE, entry, TRUE)

DirtyIf(s1, listener, x, old) == IF listener = 0 THEN Dirty(s1, x, old) ELSE old

WithListenerAs(s1, t, listener, x, more) ==
  /\ SrpInv(t, more) /\ Touches(s1, t, x) /\ Joins(s1, t)
  /\ t.vids = s1.vids /\ t.table = s1.table
  /\ listener # 0 \/ FreeIn(s1) # {} => DeclaredIn(t, x)
  /\ listener = 0 => Begins(s1, t, x, "LISTENER", TRUE, more)
  /\ \A j \in Slots : IsTalker(t, j) <=> IsTalker(s1, j)
  /\ listener # 0 => FreeIn(t) = FreeIn(s1)

\* The listener's attribute is declared, in a new slot if it had none.
LEMMA WithListenerStep ==
  ASSUME WellOrdered, NEW s1, NEW old, SrpInv(s1, old), NEW entry \in Entries, NEW x \in Stream,
         s1.table[entry].id = x, NEW listener, listener = MatchType(s1, "LISTENER", x)
  PROVE  WithListenerAs(s1, WithListenerOf(s1, listener, x, entry), listener, x,
                        DirtyIf(s1, listener, x, old))
<1> DEFINE t == WithListenerOf(s1, listener, x, entry)
<1>1. CASE listener = 0
  <2> DEFINE more == Dirty(s1, x, old)
  <2>1. t = NewAttr(s1, "LISTENER", TRUE, entry, TRUE)
    BY <1>1, Zenon DEF WithListenerOf
  <2>2. Begins(s1, t, x, "LISTENER", TRUE, more)
    BY <1>1, <2>1, NewListenerStep, Zenon
  <2> HIDE DEF t, more
  <2>3. FreeIn(s1) # {} => DeclaredIn(t, x)
    <3> SUFFICES ASSUME FreeIn(s1) # {} PROVE DeclaredIn(t, x)
      BY Zenon
    <3>1. Taken(s1) # 0
      BY TakenIs, Zenon
    <3> QED BY <2>2, <3>1, Zenon DEF Begins, DeclaredIn, IsListener
  <2>4. \A j \in Slots : IsTalker(t, j) <=> IsTalker(s1, j)
    BY <2>2, Zenon DEF Begins, IsTalker, InUse, TalkerTypes
  <2>5. WithListenerAs(s1, t, listener, x, more)
    BY <1>1, <2>2, <2>3, <2>4, Zenon DEF Begins, WithListenerAs
  <2>6. more = DirtyIf(s1, listener, x, old)
    BY <1>1, Zenon DEF more, DirtyIf
  <2> QED BY <2>5, <2>6, Zenon DEF t
<1>2. CASE listener # 0
  <2>1. listener \in Slots /\ IsListener(s1, listener) /\ InUse(s1, listener)
        /\ StreamOf(s1, listener) = x
    BY <1>2, MatchTypeIs DEF SrpInv, IsListener
  <2>2. t = Join(s1, listener)
    BY <1>2, Zenon DEF WithListenerOf
  <2>3. /\ SrpInv(t, old) /\ Touches(s1, t, x) /\ Joins(s1, t)
        /\ t.vids = s1.vids /\ t.table = s1.table /\ t.attrs[listener].app = "VN"
        /\ \A i \in Slots \ {listener} : t.attrs[i] = s1.attrs[i]
    BY <2>1, <2>2, JoinStep
  <2> HIDE DEF t
  <2>4. DeclaredIn(t, x)
    BY <2>1, <2>3 DEF DeclaredIn, Touches, IsListener
  <2>5. \A j \in Slots : IsTalker(t, j) <=> IsTalker(s1, j)
    BY <2>1, <2>3 DEF Touches, IsTalker, InUse
  <2>6. FreeIn(t) = FreeIn(s1)
    BY <2>1, <2>3 DEF Touches, FreeIn, InUse
  <2>7. WithListenerAs(s1, t, listener, x, old)
    BY <1>2, <2>3, <2>4, <2>5, <2>6, Zenon DEF WithListenerAs
  <2>8. old = DirtyIf(s1, listener, x, old)
    BY <1>2, Zenon DEF DirtyIf
  <2> QED BY <2>7, <2>8, Zenon DEF t
<1> QED BY <1>1, <1>2, Zenon

\* The look-ups do not depend on the parts of the table that a request changes.
LEMMA MatchTypeSame ==
  ASSUME NEW s \in SrpSet, NEW t \in SrpSet, t.attrs = s.attrs, NEW x, Touches(s, t, x),
         NEW type, NEW y
  PROVE  MatchType(t, type, y) = MatchType(s, type, y)
<1> DEFINE S(r) == {j \in Slots : Live(r.attrs[j]) /\ r.attrs[j].type = type /\ StreamOf(r, j) = y}
<1>1. ASSUME NEW j \in Slots, Live(s.attrs[j]) PROVE StreamOf(t, j) = StreamOf(s, j)
  BY <1>1, LiveIs, Sides DEF Touches, InUse
<1>2. S(t) = S(s)
  BY <1>1, Zenon
<1> QED BY <1>2, Zenon DEF MatchType

\* The talker is advertised.
LEMMA JoinAdvertised ==
  ASSUME WellOrdered, NEW s, NEW old, SrpInv(s, old), NEW x \in Stream, NEW v \in Vlans,
         MatchType(s, "ADVERTISE", x) # 0,
         MatchType(s, "LISTENER", x) # 0 \/ FreeIn(s) # {}
  PROVE  ListenerJoined(s, WithListenerOf(JoinVlan(s, v), MatchType(s, "LISTENER", x), x,
                                          s.attrs[MatchType(s, "ADVERTISE", x)].info), x, v, old)
<1> DEFINE adv == MatchType(s, "ADVERTISE", x)
           listener == MatchType(s, "LISTENER", x)
           s1 == JoinVlan(s, v)
           entry == s.attrs[adv].info
           t == WithListenerOf(s1, listener, x, entry)
           more == DirtyIf(s1, listener, x, old)
<1>1. adv \in Slots /\ InUse(s, adv) /\ StreamOf(s, adv) = x /\ IsTalker(s, adv)
  BY MatchTypeIs DEF SrpInv, IsTalker, TalkerTypes
<1>2. entry \in Entries /\ s.table[entry].id = x
  BY <1>1, EntryOfAttr, Zenon
<1>3. JoinsVlan(s, s1, v, old)
  BY JoinVlanStep, Zenon
<1> HIDE DEF s1
<1>4. /\ SrpInv(s1, old) /\ s1.attrs = s.attrs /\ s1.table = s.table /\ s1 \in SrpSet
      /\ s \in SrpSet /\ Touches(s, s1, x) /\ Joins(s, s1) /\ JoinedVids(s, s1, v)
  BY <1>3, TouchesSame, Zenon DEF JoinsVlan, JoinedVids, SrpInv
<1>5. listener = MatchType(s1, "LISTENER", x)
  BY <1>4, MatchTypeSame
<1>6. FreeIn(s1) = FreeIn(s)
  BY <1>4, Zenon DEF FreeIn
<1>7. MatchTalker(s, x) # 0
  BY <1>1, MatchTalkerIs, Zenon DEF SrpInv
<1> HIDE DEF listener, entry, adv
<1>8. /\ SrpInv(t, more) /\ Touches(s1, t, x) /\ Joins(s1, t)
      /\ t.vids = s1.vids
      /\ listener # 0 \/ FreeIn(s1) # {} => DeclaredIn(t, x)
      /\ listener = 0 => Begins(s1, t, x, "LISTENER", TRUE, more)
  <2>1. WithListenerAs(s1, t, listener, x, more)
    BY <1>2, <1>4, <1>5, WithListenerStep, Zenon
  <2> HIDE DEF t, more
  <2> QED BY <2>1, Zenon DEF WithListenerAs
<1> HIDE DEF t
<1>9. more \subseteq old \cup TakesStale(s, t)
  <2>1. CASE listener = 0
    <3>1. Touches(t, t, x) /\ t \in SrpSet
      BY <1>8, TouchesSame, Zenon DEF SrpInv
    <3>2. Dirty(s1, x, old) \subseteq old \cup TakesStale(s, t)
      BY <1>4, <1>8, <2>1, <3>1, DirtyIs, Zenon
    <3> QED BY <2>1, <3>2, Zenon DEF DirtyIf
  <2>2. CASE listener # 0
    BY <2>2, Zenon DEF DirtyIf
  <2> QED BY <2>1, <2>2, Zenon
<1> HIDE DEF more
<1>10. Requested(s, t, x, old) /\ Joins(s, t)
  <2>1. SrpInv(t, old \cup TakesStale(s, t))
    BY <1>8, <1>9, SrpInvMore, Zenon
  <2> QED BY <1>4, <1>8, <2>1, TouchesTwice, Zenon DEF Requested
<1>11. JoinedVids(s, t, v)
  BY <1>4, <1>8, JoinedVidsSame, Zenon
<1>12. DeclaredIn(t, x)
  BY <1>6, <1>8, Zenon DEF listener
<1>13. ListenerJoined(s, t, x, v, old)
  BY <1>7, <1>10, <1>11, <1>12, Zenon DEF ListenerJoined
<1> QED BY <1>13, Zenon DEF t, s1, entry, adv, listener

\* The stream has no talker yet.
LEMMA JoinUnknown ==
  ASSUME WellOrdered, NEW s, NEW old, SrpInv(s, old), NEW x \in Stream, NEW v \in Vlans,
         MatchType(s, "ADVERTISE", x) = 0, MatchType(s, "FAILED", x) = 0, MatchEntry(s, x) # 0
  PROVE  ListenerJoined(s, NewAttr(WithListenerOf(JoinVlan(AddStreamId(s, x), v),
                                                  MatchType(s, "LISTENER", x), x, MatchEntry(s, x)),
                                   "ADVERTISE", FALSE, MatchEntry(s, x), FALSE), x, v, old)
<1> DEFINE listener == MatchType(s, "LISTENER", x)
           e == MatchEntry(s, x)
           s1 == AddStreamId(s, x)
           s2 == JoinVlan(s1, v)
           s3 == WithListenerOf(s2, listener, x, e)
           t == NewAttr(s3, "ADVERTISE", FALSE, e, FALSE)
           more == DirtyIf(s2, listener, x, old)
<1>1. EntryAdded(s, s1, x, old) /\ e \in Entries /\ s1.table[e].id = x
  <2>1. 0 \in Nat
    OBVIOUS
  <2> QED BY <2>1, AddedStep DEF EntryAdded
<1>2. \A j \in Slots : IsTalker(s, j) => StreamOf(s, j) # x
  BY MatchTypeIs DEF SrpInv, IsTalker, TalkerTypes
<1> HIDE DEF s1, e
<1>3. JoinsVlan(s1, s2, v, old)
  BY <1>1, JoinVlanStep, Zenon DEF EntryAdded
<1> HIDE DEF s2
<1>4. /\ SrpInv(s2, old) /\ s2.attrs = s.attrs /\ s2 \in SrpSet /\ s \in SrpSet
      /\ Touches(s, s2, x) /\ Joins(s, s2) /\ s2.table[e].id = x /\ JoinedVids(s, s2, v)
  <2>1. Touches(s1, s2, x) /\ Joins(s1, s2)
    BY <1>3, TouchesSame, Zenon DEF JoinsVlan
  <2>2. JoinedVids(s1, s2, v)
    BY <1>3, Zenon DEF JoinsVlan, JoinedVids
  <2>3. s2 \in SrpSet /\ s \in SrpSet
    BY <1>3, Zenon DEF JoinsVlan, SrpInv
  <2> QED BY <1>1, <1>3, <2>1, <2>2, <2>3, TouchesTwice, JoinedVidsSame, Zenon DEF JoinsVlan, EntryAdded
<1>5. listener = MatchType(s2, "LISTENER", x)
  BY <1>4, MatchTypeSame
<1>6. FreeIn(s2) = FreeIn(s)
  BY <1>4, Zenon DEF FreeIn
<1> HIDE DEF listener
<1>7. /\ SrpInv(s3, more) /\ Touches(s2, s3, x) /\ Joins(s2, s3)
      /\ s3.vids = s2.vids /\ s3.table = s2.table
      /\ listener # 0 \/ FreeIn(s2) # {} => DeclaredIn(s3, x)
      /\ listener = 0 => Begins(s2, s3, x, "LISTENER", TRUE, more)
      /\ \A j \in Slots : IsTalker(s3, j) <=> IsTalker(s2, j)
      /\ listener # 0 => FreeIn(s3) = FreeIn(s2)
  <2>1. WithListenerAs(s2, s3, listener, x, more)
    BY <1>1, <1>4, <1>5, WithListenerStep, Zenon
  <2> HIDE DEF s3, more
  <2> QED BY <2>1, Zenon DEF WithListenerAs
<1> HIDE DEF s3, more
<1>8. MatchTalker(s3, x) = 0
  <2>1. ASSUME NEW j \in Slots, IsTalker(s3, j), StreamOf(s3, j) = x PROVE FALSE
    <3>1. IsTalker(s2, j) /\ InUse(s2, j) /\ IsTalker(s, j) /\ InUse(s, j)
      BY <1>4, <1>7, <2>1, Zenon DEF IsTalker, InUse
    <3>2. StreamOf(s, j) = x
      BY <1>4, <1>7, <2>1, <3>1 DEF Touches
    <3> QED BY <1>2, <3>1, <3>2, Zenon
  <2>2. s3 \in SrpSet
    BY <1>7, Zenon DEF SrpInv
  <2> QED BY <2>1, <2>2, MatchTalkerIs, Zenon
<1>9. Begins(s3, t, x, "ADVERTISE", FALSE, more)
  BY <1>1, <1>4, <1>7, <1>8, NewTalkerStep, Zenon
<1> HIDE DEF t
<1>10. SrpInv(t, more) /\ Touches(s3, t, x) /\ Joins(s3, t) /\ t.vids = s3.vids /\ t \in SrpSet
  BY <1>9, Zenon DEF Begins, SrpInv
<1>11. more \subseteq old \cup TakesStale(s, t)
  <2>1. CASE listener = 0
    <3>1. Dirty(s2, x, old) \subseteq old \cup TakesStale(s, t)
      <4>1. Touches(s, s2, x)
        BY <1>4, Zenon
      <4>2. Begins(s2, s3, x, "LISTENER", TRUE, more)
        BY <1>7, <2>1, Zenon
      <4>3. Touches(s3, t, x) /\ t \in SrpSet
        BY <1>10, Zenon
      <4> QED BY <4>1, <4>2, <4>3, DirtyIs, Zenon
    <3> QED BY <2>1, <3>1, Zenon DEF more, DirtyIf
  <2>2. CASE listener # 0
    BY <2>2, Zenon DEF more, DirtyIf
  <2> QED BY <2>1, <2>2, Zenon
<1>12. Requested(s, t, x, old) /\ Joins(s, t)
  <2>1. SrpInv(t, old \cup TakesStale(s, t))
    BY <1>10, <1>11, SrpInvMore, Zenon
  <2>2. Touches(s, s3, x) /\ Joins(s, s3)
    BY <1>4, <1>7, TouchesTwice, Zenon
  <2> QED BY <1>10, <2>1, <2>2, TouchesTwice, Zenon DEF Requested
<1>13. JoinedVids(s, t, v)
  BY <1>4, <1>7, <1>10, JoinedVidsSame, Zenon
<1>14. listener # 0 \/ FreeIn(s) # {} => DeclaredIn(t, x)
  <2>1. DeclaredIn(s3, x) => DeclaredIn(t, x)
    BY <1>10 DEF DeclaredIn, Touches, Joins, IsListener
  <2> QED BY <1>6, <1>7, <2>1, Zenon
<1>15. ASSUME NEW i \in FreeIn(s), NEW j \in FreeIn(s), i # j \/ listener # 0
       PROVE  TrackedIn(t, x)
  <2>1. FreeIn(s3) # {}
    <3>1. CASE listener # 0
      BY <1>6, <1>7, <3>1, Zenon
    <3>2. CASE listener = 0
      <4>1. i # j /\ i \in Slots /\ j \in Slots /\ s2.attrs[i].app = "UNUSED"
            /\ s2.attrs[j].app = "UNUSED"
        BY <1>4, <1>15, <3>2, Zenon DEF FreeIn
      <4>2. \A k \in Slots \ {Taken(s2)} : s3.attrs[k] = s2.attrs[k]
        BY <1>7, <3>2, Zenon DEF Begins
      <4> QED BY <4>1, <4>2, Zenon DEF FreeIn
    <3> QED BY <3>1, <3>2, Zenon
  <2>2. Taken(s3) # 0
    BY <2>1, TakenIs, Zenon
  <2> QED BY <1>9, <2>2, Zenon DEF Begins, TrackedIn, IsTalker, TalkerTypes
<1>16. ListenerJoined(s, t, x, v, old)
  BY <1>12, <1>13, <1>14, <1>15, Zenon DEF ListenerJoined, listener
<1> QED BY <1>16, Zenon DEF t, s3, s2, s1, e, listener

\* avb_srp_join_listener_attrs.
LEMMA JoinListenerStep ==
  ASSUME WellOrdered, NEW s, NEW old, SrpInv(s, old), NEW x \in Stream, NEW vlan \in Tags
  PROVE  ListenerJoined(s, JoinListener(s, x, vlan), x, VlanFor(s, vlan), old)
<1> DEFINE v == VlanFor(s, vlan)
           t == JoinListener(s, x, vlan)
           adv == MatchType(s, "ADVERTISE", x)
           listener == MatchType(s, "LISTENER", x)
           failed == MatchType(s, "FAILED", x)
           e == MatchEntry(s, x)
<1>0. v \in Vlans
  BY Zenon DEF VlanFor, Tags, SrpInv, SrpSet
<1>1. CASE adv # 0 /\ (listener # 0 \/ FreeIn(s) # {})
  <2>1. t = WithListenerOf(JoinVlan(s, v), listener, x, s.attrs[adv].info)
    BY <1>1, Zenon DEF JoinListener, WithListenerOf, FreeIn
  <2> QED BY <1>0, <1>1, <2>1, JoinAdvertised, Zenon
<1>2. CASE adv = 0 /\ failed = 0 /\ e # 0
  <2>1. t = NewAttr(WithListenerOf(JoinVlan(AddStreamId(s, x), v), listener, x, e),
                    "ADVERTISE", FALSE, e, FALSE)
    BY <1>2, Zenon DEF JoinListener, WithListenerOf
  <2> QED BY <1>0, <1>2, <2>1, JoinUnknown, Zenon
<1>3. CASE /\ ~(adv # 0 /\ (listener # 0 \/ FreeIn(s) # {}))
           /\ ~(adv = 0 /\ failed = 0 /\ e # 0)
  <2>1. t = s
    BY <1>3, Zenon DEF JoinListener, FreeIn
  <2>2. Requested(s, s, x, old) /\ Joins(s, s)
    BY TouchesSame, SrpInvMore DEF Requested
  <2>3. ~(failed = 0 /\ e # 0 /\ (listener # 0 \/ FreeIn(s) # {}))
    BY <1>3, Zenon
  <2>4. ASSUME MatchTalker(s, x) = 0, e # 0 PROVE FALSE
    <3>1. adv = 0 /\ failed = 0
      BY <2>4, MatchTalkerIs, MatchTypeIs DEF SrpInv, IsTalker, TalkerTypes
    <3> QED BY <1>3, <2>4, <3>1, Zenon
  <2>5. ListenerJoined(s, s, x, v, old)
    BY <2>2, <2>3, <2>4, Zenon DEF ListenerJoined
  <2> QED BY <2>1, <2>5, Zenon
<1> QED BY <1>1, <1>2, <1>3, Zenon

=============================================================================
