----------------------------- MODULE AvbManager -----------------------------
(***************************************************************************)
(* avb_manager(): the table of sources and sinks, the client functions of  *)
(* avb.h that read one entry, change a field and write it back, and what   *)
(* the manager does when the write changes the state of a stream.          *)
(*                                                                         *)
(* The manager, the application and the task that runs SRP are combinable  *)
(* and share one logical core, so a client function, the calls it makes    *)
(* and the calls these make run without a step of another task between.    *)
(* Every operator maps the record w of all their statics to the next one:  *)
(*   srp      the state of module Srp                                      *)
(*   source   sources[]: state, VLAN and configuration (map and channels)  *)
(*   sink     sinks[]: state, VLAN and stream ID                           *)
(*   owner    inputs[].mapped_to                                           *)
(*   talker   the talker unit: its streams, with the VLAN in the header of *)
(*            their packets, and the VLAN it was last told                 *)
(***************************************************************************)
EXTENDS Srp

CONSTANTS
  Sink,         \* indices of sinks[]
  Input,        \* indices of inputs[]
  Unmapped,     \* UNMAPPED
  Configs       \* source configurations: [inputs, size]

ASSUME ManagerAssumption ==
  /\ Unmapped \notin Source
  /\ Configs \subseteq [inputs : SUBSET Input, size : Nat]

ManagerInit(config) ==
  [srp |-> SrpInit,
   source |-> [x \in Source |-> [state |-> "DISABLED", vlan |-> 0, config |-> config]],
   sink |-> [k \in Sink |-> [state |-> "DISABLED", vlan |-> 0, stream |-> NoStream]],
   owner |-> [i \in Input |-> Unmapped],
   talker |-> [vlan |-> 0,
               stream |-> [x \in Source |-> [inputs |-> {}, vlan |-> 0, on |-> FALSE]]]]

-----------------------------------------------------------------------------
(***************************************************************************)
(* Sources                                                                 *)
(***************************************************************************)
\* Mutant: the sinks are not asked.
NoSourceEnabled(w) == \A x \in Source : w.source[x].state = "DISABLED"

\* valid_to_leave_vlan: whatever the VLAN, every stream must be disabled.
AllDisabled(w) ==
  /\ \A x \in Source : w.source[x].state = "DISABLED"
  /\ \A k \in Sink : w.sink[k].state = "DISABLED"

LeaveVlanIfIdle(w, vlan) ==
  IF vlan # 0 /\ AllDisabled(w) THEN [w EXCEPT !.srp = LeaveVlan(@, vlan)] ELSE w

\* configure_talker_stream, and what the unit does: AVB1722_Talker_bufInit writes
\* the header anew, with the VLAN the unit was last told for any stream.
Configure(w, x) ==
  LET ins == w.source[x].config.inputs
  IN [w EXCEPT !.owner = [i \in Input |-> IF i \in ins THEN x ELSE @[i]],
               !.talker.stream[x] = [inputs |-> ins, vlan |-> w.talker.vlan, on |-> FALSE]]

\* AVB1722_SET_VLAN.
SetVlan(w, x, v) == [w EXCEPT !.talker.vlan = v, !.talker.stream[x].vlan = v]

\* The checks made before a source is registered.
Valid(w, x) ==
  LET ins == w.source[x].config.inputs
  IN ins # {} /\ \A i \in ins : w.owner[i] = Unmapped

\* DISABLED to POTENTIAL: a source that is not valid stays unregistered, and
\* its state is POTENTIAL all the same.
Register(w, x) ==
  LET c  == Configure(w, x)
      v  == VlanFor(w.srp, w.source[x].vlan)
  IN IF ~Valid(w, x) THEN w
     ELSE SetVlan([c EXCEPT !.srp = JoinTalker(@, x, w.source[x].vlan, w.source[x].config.size),
                            !.source[x].vlan = v], x, v)

\* To DISABLED.
Deregister(w, x) ==
  LET ins == w.source[x].config.inputs
      s1 == [w EXCEPT !.owner = [i \in Input |-> IF i \in ins THEN Unmapped ELSE @[i]],
                      !.talker.stream[x].on = FALSE]
      s2 == LeaveVlanIfIdle(s1, w.source[x].vlan)
  IN [s2 EXCEPT !.srp = LeaveTalker(@, x)]

\* update_source_state, after the new state has been written.
UpdateSource(w, x, prev) ==
  LET state == w.source[x].state
  IN CASE prev = "DISABLED" /\ state = "POTENTIAL" -> Register(w, x)
       [] prev = "ENABLED" /\ state = "POTENTIAL" -> [w EXCEPT !.talker.stream[x].on = FALSE]
       [] prev = "POTENTIAL" /\ state = "ENABLED" ->
            [Configure(w, x) EXCEPT !.talker.stream[x].on = TRUE]
       [] prev # "DISABLED" /\ state = "DISABLED" -> Deregister(w, x)
       [] OTHER -> w

\* _set_source_info.
SetSource(w, x, info) == UpdateSource([w EXCEPT !.source[x] = info], x, w.source[x].state)

\* set_source_state, set_source_vlan.
SetSourceState(w, x, state) == SetSource(w, x, [w.source[x] EXCEPT !.state = state])
SetSourceVlan(w, x, v) == SetSource(w, x, [w.source[x] EXCEPT !.vlan = v])

\* set_source_format, _channels, _sync, _presentation, _map and _dest: each
\* changes one field of a source that is disabled, and is refused otherwise.
SetSourceConfig(w, x, config) ==
  IF w.source[x].state # "DISABLED" THEN w
  ELSE SetSource(w, x, [w.source[x] EXCEPT !.config = config])

-----------------------------------------------------------------------------
(***************************************************************************)
(* Sinks                                                                   *)
(***************************************************************************)
Attach(w, k) ==
  LET sink == w.sink[k]
  IN [w EXCEPT !.srp = JoinListener(@, sink.stream, sink.vlan),
               !.sink[k].vlan = VlanFor(w.srp, sink.vlan)]

Detach(w, k) ==
  LeaveVlanIfIdle([w EXCEPT !.srp = LeaveListener(@, w.sink[k].stream)], w.sink[k].vlan)

\* update_sink_state, after the new state has been written.  Between two states
\* other than DISABLED it sends the listener unit its channel map again.
UpdateSink(w, k, prev) ==
  LET state == w.sink[k].state
  IN CASE prev = "DISABLED" /\ state = "POTENTIAL" -> Attach(w, k)
       [] prev # "DISABLED" /\ state = "DISABLED" -> Detach(w, k)
       [] OTHER -> w

\* _set_sink_info.
SetSink(w, k, info) == UpdateSink([w EXCEPT !.sink[k] = info], k, w.sink[k].state)

\* set_sink_state.
SetSinkState(w, k, state) == SetSink(w, k, [w.sink[k] EXCEPT !.state = state])

\* set_sink_id and set_sink_vlan (and _format, _channels, _sync, _addr,
\* whose fields are left out): only while the sink is disabled.
SetSinkId(w, k, x) ==
  IF w.sink[k].state # "DISABLED" THEN w ELSE SetSink(w, k, [w.sink[k] EXCEPT !.stream = x])
SetSinkVlan(w, k, v) ==
  IF w.sink[k].state # "DISABLED" THEN w ELSE SetSink(w, k, [w.sink[k] EXCEPT !.vlan = v])

=============================================================================
