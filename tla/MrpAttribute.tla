---------------------------- MODULE MrpAttribute ----------------------------
(***************************************************************************)
(* The per-attribute state machines of MRP (IEEE 802.1ak) as avb_mrp.c     *)
(* implements them: the registrar, the applicant, the event a transmit     *)
(* opportunity puts on the wire, and the order in which pending            *)
(* indications reach the application.  mrp_update_state() is one switch    *)
(* over the event for the registrar followed by one for the applicant;     *)
(* here each transition of the applicant is a small table from states to   *)
(* states, and a fall-through of the C switch is a composition of tables.  *)
(*                                                                         *)
(* An attribute is a record with the fields of mrp_attribute_state that    *)
(* the protocol reads:                                                     *)
(*   app      applicant_state          reg      registrar_state            *)
(*   timer    leaveTimer (Off, or the ticks left before it expires)        *)
(*   pending  pending_indications      four     four_vector_parameter      *)
(*   here     here                     remove   remove_after_next_tx       *)
(***************************************************************************)
EXTENDS Integers, FiniteSets

CONSTANT LeaveTime      \* MRP_LEAVETIMER_PERIOD_CENTISECONDS, in ticks

ASSUME LeaveTimeAssumption == LeaveTime \in Nat

-----------------------------------------------------------------------------
Idle        == {"UNUSED", "DISABLED"}
Observers   == {"VO", "AO", "QO", "LO"}
Declaring   == {"VP", "VN", "AN", "AA", "QA", "AP", "QP"}
ApplicantStates == Idle \cup Observers \cup Declaring \cup {"LA"}
RegistrarStates == {"IN", "LV", "MT"}
Indications == {"JOIN_NEW", "JOIN", "LEAVE"}
FourPacked  == {"IGNORE", "ASKING_FAILED", "READY", "READY_FAILED"}
WireEvents  == {"NEW", "JOININ", "IN", "JOINMT", "MT", "LV"}
ReceiveEvents == {"RECEIVE_NEW", "RECEIVE_JOININ", "RECEIVE_IN",
                  "RECEIVE_JOINMT", "RECEIVE_MT", "RECEIVE_LEAVE"}
Events == ReceiveEvents \cup
  {"BEGIN", "JOIN_NEW", "JOIN", "LEAVE", "RECEIVE_LEAVE_ALL", "PERIODIC", "TX",
   "TX_LEAVE_ALL", "LEAVETIMER"}

Off == -1
TimerStates == {Off} \cup 0..LeaveTime

Attributes ==
  [app : ApplicantStates, reg : RegistrarStates, timer : TimerStates,
   pending : SUBSET Indications, four : FourPacked,
   here : BOOLEAN, remove : BOOLEAN]

\* mrp_attribute_init: the fields it assigns, over whatever the slot held (the
\* memset has its length and value arguments swapped and clears nothing).
AttributeInit(st, here) == [st EXCEPT !.here = here]

-----------------------------------------------------------------------------
(***************************************************************************)
(* Registrar                                                               *)
(***************************************************************************)
Registered(st) ==
  [st EXCEPT !.reg = "IN", !.timer = IF st.reg = "LV" THEN Off ELSE @]

ReceiveNew(st, four) ==
  [Registered(st) EXCEPT !.pending = @ \cup {"JOIN_NEW"}, !.four = four]

\* A join is indicated when nothing was registered, or when a listener that
\* had asked and failed is now ready.
ReceiveJoin(st, four) ==
  IF st.reg = "MT" \/ (st.four = "ASKING_FAILED" /\ four = "READY")
  THEN [Registered(st) EXCEPT !.pending = @ \cup {"JOIN"}, !.four = four]
  ELSE Registered(st)

\* Mutant: the leave timer runs for a single tick.
StartLeavingEarly(st) ==
  IF st.reg = "IN" THEN [st EXCEPT !.reg = "LV", !.timer = 1] ELSE st

StartLeaving(st) ==
  IF st.reg = "IN" THEN [st EXCEPT !.reg = "LV", !.timer = LeaveTime] ELSE st

\* Mutant: the expiry empties the registrar without a leave indication.
LeaveTimerExpiredSilently(st) == [st EXCEPT !.reg = "MT", !.timer = Off]

\* avb_timer_expired() has already cleared the timer when this event is raised.
LeaveTimerExpired(st) ==
  IF st.reg = "LV"
  THEN [st EXCEPT !.reg = "MT", !.timer = Off,
                  !.pending = @ \cup {"LEAVE"}, !.four = "IGNORE"]
  ELSE [st EXCEPT !.reg = "MT", !.timer = Off]

\* Mutant: a LeaveAll does not start the leave timer.
RegistrarNoLeaveAll(e, st, four) ==
  CASE e = "BEGIN"         -> [st EXCEPT !.reg = "MT"]
    [] e = "RECEIVE_NEW"   -> ReceiveNew(st, four)
    [] e \in {"RECEIVE_JOININ", "RECEIVE_JOINMT"} -> ReceiveJoin(st, four)
    [] e = "RECEIVE_LEAVE" -> StartLeaving(st)
    [] e = "LEAVETIMER"    -> LeaveTimerExpired(st)
    [] OTHER               -> st

Registrar(e, st, four) ==
  CASE e = "BEGIN"       -> [st EXCEPT !.reg = "MT"]
    [] e = "RECEIVE_NEW" -> ReceiveNew(st, four)
    [] e \in {"RECEIVE_JOININ", "RECEIVE_JOINMT"} -> ReceiveJoin(st, four)
    [] e \in {"RECEIVE_LEAVE", "RECEIVE_LEAVE_ALL", "TX_LEAVE_ALL"}
                         -> StartLeaving(st)
    [] e = "LEAVETIMER"  -> LeaveTimerExpired(st)
    [] OTHER             -> st

-----------------------------------------------------------------------------
(***************************************************************************)
(* Applicant                                                               *)
(***************************************************************************)
Step(table, s) == IF s \in DOMAIN table THEN table[s] ELSE s

OnJoin == [VO |-> "VP", LO |-> "VP", LA |-> "AA", AO |-> "AP", QO |-> "QP"]
OnLeave == [QP |-> "QO", AP |-> "AO", VP |-> "VO",
            VN |-> "LA", AN |-> "LA", AA |-> "LA", QA |-> "LA"]
OnReceiveJoinIn == [AA |-> "QA", AO |-> "QO", AP |-> "QP"]
OnReceiveIn == [AA |-> "QA"]
OnReceiveEmpty == [QA |-> "AA", QO |-> "AO", QP |-> "AP", LO |-> "VO"]
OnReceiveLeave == [VO |-> "LO", AO |-> "LO", QO |-> "LO", AN |-> "VN",
                   AA |-> "VP", QA |-> "VP", AP |-> "VP", QP |-> "VP"]
OnPeriodic == [QA |-> "AA", QP |-> "AP"]
OnTx(reg) == [VP |-> "AA", VN |-> "AN",
              AN |-> IF reg # "IN" THEN "AA" ELSE "QA",
              AA |-> "QA", AP |-> "QA", LA |-> "VO", LO |-> "VO"]
OnTxLeaveAll == [VO |-> "LO", LA |-> "LO", AO |-> "LO", QO |-> "LO",
                 VN |-> "AN", AN |-> "QA", AA |-> "QA", AP |-> "QA", QP |-> "QA"]

\* RECEIVE_JOININ falls through RECEIVE_IN, and both fall through RECEIVE_MT.
Applicant(e, st) ==
  LET s == st.app
  IN CASE e = "BEGIN"    -> "VO"
       [] e = "JOIN_NEW" -> "VN"
       [] e = "JOIN"     -> Step(OnJoin, s)
       [] e = "LEAVE"    -> Step(OnLeave, s)
       [] e = "RECEIVE_JOININ" ->
            Step(OnReceiveEmpty, Step(OnReceiveIn, Step(OnReceiveJoinIn, s)))
       [] e = "RECEIVE_IN" -> Step(OnReceiveEmpty, Step(OnReceiveIn, s))
       [] e \in {"RECEIVE_JOINMT", "RECEIVE_MT"} -> Step(OnReceiveEmpty, s)
       [] e \in {"RECEIVE_LEAVE", "RECEIVE_LEAVE_ALL"} -> Step(OnReceiveLeave, s)
       [] e = "PERIODIC"     -> Step(OnPeriodic, s)
       [] e = "TX"           -> Step(OnTx(st.reg), s)
       [] e = "TX_LEAVE_ALL" -> Step(OnTxLeaveAll, s)
       [] OTHER -> s

\* The states in which a transmit opportunity puts something on the wire.
Transmits(e, st) ==
  \/ e = "TX"           /\ st.app \in {"VP", "VN", "AN", "AA", "LA", "AP", "LO"}
  \/ e = "TX_LEAVE_ALL" /\ st.app \in {"VP", "VN", "AN", "AA", "LA", "QA", "AP", "QP"}

\* Mutant: an applicant that declares sends the state of its registrar only.
MakeTxEventUndeclared(st, leave_all) ==
  IF st.app = "LA" THEN "LV" ELSE IF st.reg = "IN" THEN "IN" ELSE "MT"

\* makeTxEvent: the wire event of an applicant that transmits.
MakeTxEvent(st, leave_all) ==
  LET isIn == st.reg = "IN"
  IN CASE st.app = "VP" /\ leave_all -> IF isIn THEN "IN" ELSE "MT"
       [] st.app = "LO"              -> IF isIn THEN "IN" ELSE "MT"
       [] st.app \in {"VN", "AN"}    -> "NEW"
       [] st.app = "LA"              -> "LV"
       [] OTHER                      -> IF isIn THEN "JOININ" ELSE "JOINMT"

\* The tail of doTx: an attribute marked for removal is freed unless it
\* originated here (srp_cleanup_reservation_entry keeps those).
DoTx(st) ==
  [st EXCEPT !.app = IF st.remove /\ ~st.here THEN "UNUSED" ELSE @,
             !.remove = FALSE]

-----------------------------------------------------------------------------
\* mrp_update_state: registrar first, then (on a transmit event) the message,
\* then the applicant.
UpdateState(e, st, four) ==
  LET r == Registrar(e, st, four)
      t == IF Transmits(e, r) THEN DoTx(r) ELSE r
  IN [t EXCEPT !.app = Applicant(e, t)]

\* What mrp_update_state hands to doTx, as the empty set or a singleton.
Transmitted(e, st) ==
  LET r == Registrar(e, st, "IGNORE")
  IN IF Transmits(e, r) THEN {MakeTxEvent(r, e = "TX_LEAVE_ALL")} ELSE {}

\* mrp_in: a three-packed event of a PDU becomes a state machine event.
ReceiveEvent(three) ==
  CASE three = "NEW"    -> "RECEIVE_NEW"
    [] three = "JOININ" -> "RECEIVE_JOININ"
    [] three = "IN"     -> "RECEIVE_IN"
    [] three = "JOINMT" -> "RECEIVE_JOINMT"
    [] three = "MT"     -> "RECEIVE_MT"
    [] three = "LV"     -> "RECEIVE_LEAVE"

MrpIn(three, four, st) == UpdateState(ReceiveEvent(three), st, four)

\* mrp_mad_begin, mrp_mad_join, mrp_mad_leave.
MadBegin(st) == UpdateState("BEGIN", [st EXCEPT !.timer = Off], "IGNORE")
MadJoin(st, new) ==
  UpdateState(IF new THEN "JOIN_NEW" ELSE "JOIN",
              [st EXCEPT !.remove = FALSE], "IGNORE")
MadLeave(st) == UpdateState("LEAVE", st, "IGNORE")

\* global_event and attribute_type_event skip attributes that are not live.
Live(st) == st.app \notin Idle
Event(e, st) == IF Live(st) THEN UpdateState(e, st, "IGNORE") ELSE st

=============================================================================
