# lib_tsn in TLA+

A specification of the AVB/TSN endpoint library `lib_tsn` (`src/lib_tsn`): what its
protocol state machines do, which properties TLC has checked on small instances, and
which of them TLAPS has proved for every value of the constants.

Paths below are relative to `src/lib_tsn/src` unless they start with `src/`.

## 1. The system

An endpoint is a set of xCORE tasks that communicate over XC interfaces (synchronous
calls) and channels.  A task handles one event at a time: a packet, an interface call,
or the expiry of a polled timer.  Most protocols have the same shape: a packet handler
that changes state at once, and a `..._periodic()` function that is polled every few
microseconds, looks at timers, and sends.

| Part | Source | State | Operations | Talks to |
|---|---|---|---|---|
| MRP | `srp/avb_mrp.c` | `attrs[]`: applicant, registrar, leave timer, pending indications; LeaveAll, join and periodic timers | join, leave, periodic pass, packet | MRP peers, MSRP, MVRP |
| MSRP | `srp/avb_srp.c` | stream table, reserved bandwidth | register/deregister talker and listener, indications | MRP, AVB manager |
| MVRP | `srp/avb_mvrp.c` | VLAN attribute | join, leave | MRP |
| MAAP | `1722/maap` | one range, its state, probe count, timer | request, rerequest, relinquish, periodic, packet | MAAP peers, AVB manager, ACMP |
| ACMP | `1722_1/avb_1722_1_acmp*` | per role a state, the command in hand, inflight commands; talker and listener tables | connect, disconnect, get state, timeouts and retries | controllers, ACMP peers, AVB manager |
| ADP | `1722_1/avb_1722_1_adp.xc` | entity database, advertise and discovery state | announce, depart, discover, timeouts | ADP peers, application |
| AECP | `1722_1/avb_1722_1_aecp*` | owner, pending owner, flash write position | acquire, release, read, set, flash write | controllers, AVB manager |
| AVB manager | `avb/avb.xc`, `src/lib_tsn/api/avb.h` | sources, sinks, media maps | get and set records, state changes | SRP, 1722 talker and listener, media clock |
| gPTP | `ptp` | role, peer delay, best master, clock ratio | announce, sync, peer delay, timeouts | PTP peers, media clock |
| 1722 talker/listener | `1722` | stream records, data block counter, sequence | packetise, depacketise | FIFOs, AVB manager |
| Audio FIFO, buffers | `audio_buffering` | read and write pointers, lock state, timestamps | push, pull, adjust, reset | listener, audio task, media clock |
| Media clock | `media_clock` | clock records, lock state | buffer notifications, clock recovery | FIFO, gPTP |

What makes it hard: packets are lost, duplicated by retries, and overtaken by timers;
handlers store one packet and drop the rest until the next pass; indications and
timeouts found in one pass are used in the next; tables and inflight lists fill up; two
ends keep a view of one connection each; several tasks update one record.

What should hold: a registration outlives LeaveAll as long as it is declared and ends
when it is not; a stream is sent only while someone listens, on a VLAN that is joined,
with its bandwidth reserved; what a peer decodes is what was declared; no two nodes hold
the same multicast address; talker, listener and sink agree on a connection; each command
is answered once and in the end; the entity has one owner and the image in flash is the
one that was sent; packets carry consecutive samples and say which one a timestamp belongs
to; the FIFO is a queue, silent until the clock has locked.  The hazards behind these,
with the lines where they bite, are listed in `PROJECT.json`.

## 2. Modules

| Module | Models | Uses |
|---|---|---|
| `MrpAttribute` | `mrp_update_state`, `doTx`, `makeTxEvent`, `mrp_in` for one attribute, as operators | |
| `MrpLink` | two participants on a link: `mrp_periodic`, `avb_mrp_process_packet`, join, leave, loss, time | `MrpAttribute` |
| `MrpPdu` | sorting, merging, packing, splitting of attributes, and decoding | |
| `Srp` | attribute slots, stream table and VLAN entries with their functions, as operators | `MrpAttribute` |
| `AvbManager` | source and sink state changes and the calls they make | `Srp` |
| `Reservation` | the manager, SRP, MVRP, the network and the periodic pass together | `AvbManager` |
| `Maap` | nodes that reserve address ranges | |
| `Acmp` | talkers, listeners and controllers with their packets | |
| `AcmpDisconnectAll` | the same with `avb_1722_1_controller_disconnect_all_listeners` | `Acmp` |
| `AecpAcquire`, `AecpUpgrade`, `AecpDescriptors` | acquiring the entity, the firmware upgrade, reading descriptors | |
| `Aecp` | the three together, with reboots | the three |
| `Stream1722` | talker unit, network and listener of an audio stream | |
| `SampleQueue` | abstract: what an audio FIFO promises | |
| `AudioFifo` | the output FIFO with listener, audio task and buffer manager | `SampleQueue` |
| `WireProofs` | theorems about the audio stream and about MRP | `Stream1722`, `MrpLink` |
| `ControlProofs` | theorems about AECP and about MAAP | `Aecp`, `Maap` |
| `AcmpSteps` | two invariants, and that every step keeps them | `Acmp` |
| `AcmpProofs` | the two ends agree, and the theorems | `AcmpSteps` |
| `ReservationSteps` | the invariant, and that indications and the periodic pass keep it | `Reservation` |
| `ReservationEvents` | arriving PDUs and requests of the manager to SRP keep it | `ReservationSteps` |
| `ReservationProofs` | the commands keep it, and the theorems | `ReservationEvents` |
| `AudioFifoProofs` | theorems, and that `AudioFifo` implements `SampleQueue` | `AudioFifo` |
| `MC...` | instances for TLC | the module named |

Definitions marked "Mutant:" are not part of the model: each is a plausible bug of the
definition that follows it, and substituting it makes TLC refute the property that
`PROJECT.json` names with it.

### MRP (`MrpAttribute`, `MrpLink`)

An attribute is a record of the fields of `mrp_attribute_state`.  `Registrar` and
`Applicant` are the two switches of `mrp_update_state`; each applicant transition is a
small table, and a fall-through of the C switch is a composition of tables.
`MrpPeriodic(n)` is one pass of `mrp_periodic` in the order of the code: timers, LeaveAll,
transmission, pending indications, and last the leave timers.  Time is a `Tick` that
moves all timers; it waits until packets of the tick have been received or lost and the
passes that are due have run, because the code polls many times per tick.

The messages of one attribute in a PDU are a set of events with a LeaveAll flag.  How
messages are packed is the subject of `MrpPdu`, the pool of attributes that of `Srp`.

### MRP packets (`MrpPdu`)

An attribute is in the list or not and has an event to send or none.  `SortAttrs` is the
one pass over the linked list that each join timer makes; `Pdus` goes through the types
and the list as the join timer's part of `mrp_periodic` does with `doTx`, with the merging
functions of MSRP and MVRP, `EncodeThreePackedEvent` and `EncodeFourPackedEvent` byte by byte, and
`Send` when a message might not fit.  `Heard` is what `avb_mrp_process_packet` decodes.
"Heard" means decoded and handed to the matching functions: with one port the matching of
talkers then ignores the values of a vector that carries a LeaveAll (`srp/avb_srp.c:371`).

What the model shows besides its properties: `avb_srp_compare_talker_attributes` reads a
byte of the stream ID where it means the local id, so two local talkers compare alike in
both directions and change places at every pass; a merged Talker Failed keeps the failure
code of its first stream.

### Reservation (`Srp`, `AvbManager`, `Reservation`)

The functions are operators on a record of the statics, because they call each other: a
command of the application runs through the manager, SRP and MVRP in one step, as it does
in tasks that share a logical core.  `Reservation` adds the variables, the PDUs that arrive
(a join or leave of a remote talker, a listener or the domain, a LeaveAll), link changes
and `Periodic`, one pass of `mrp_periodic`: the LeaveAll and join timers, with the slots
that a last transmission frees, then the domain's slot and the other slots one by one, each
with its pending indications, the conversion between Advertise and Failed when the domain
boundary has moved, and its leave timer.  The leave timer may expire at any pass.  Applicant
states that only decide what is transmitted are merged (`Coarse`).

A reused slot keeps its pending indications: `mrp_attribute_init` means to clear the slot,
but its `memset` has the last two arguments swapped and clears nothing
(`srp/avb_mrp.c:796`).  The proof of `StreamingHasListener` failed on this.  The slot of a
talker that was removed may hold a join; when the listener attribute of a local source
takes it, the next pass calls `avb_srp_listener_join_ind`, which reserves bandwidth that no
listener asked for.  The stream does not start, since the attribute has no four-packed
parameter yet.  The history variable `stale` holds the streams this has happened to, and
the clause on bandwidth excepts them.  It takes more streams than the run has: there
`stale` stays empty.

What the properties except, the code really does: a stream that is registered again with
another frame size while reserved makes the bandwidth drift; a sink that is attached while
the talker has failed joins nothing and is not joined later; one that is attached again
before the talker's marked slot is freed loses track of the talker; the conversion between
Advertise and Failed declares the talker of a disabled source; `valid_to_leave_vlan`
ignores its argument, so VLANs are left late or never.

### MAAP (`Maap`)

An address is its offset in the pool.  `addr[n]` holds `maap_addr`, the timer and its
period.  One action per API call, per branch of `avb_1722_maap_periodic` and per packet
type; a node whose link is down neither sends nor receives.  `Conflict`, `ConflictStart`
and `ConflictCount` are the three cases of `maap_conflict`.  The random base is any base
the modulus allows.

### ACMP (`Acmp`, `AcmpDisconnectAll`)

A packet that arrives in WAITING is stored (`TalkerReceive`, `ListenerReceive`) and any
other packet is dropped, as in the packet handlers; each `case` of the periodic functions
is an action.  The default application hooks are part of them: a connected sink is
enabled, a source becomes POTENTIAL with its first listener and DISABLED with its last.
What a state machine received before it went back to WAITING is dead and forgotten, which
keeps the state space small.  Timeouts may happen at any time, except with `Patient`:
then nobody times out while an answer can still come, and controllers wait for an answer
before they send the listener another command.  Sequence ids are
unbounded: `sequence_id` has 16 bits, and a command draws at most two ids and is gone
after two timeouts, so up to 32,767 commands the model and the code agree.  A talker and a listener are different entities.  Fast connect is off by
default and left out.

### AECP (`AecpAcquire`, `AecpUpgrade`, `AecpDescriptors`, `Aecp`)

`AecpAcquire` has one action per branch of the switch of `process_aem_cmd_acquire`, for
the answers to CONTROLLER_AVAILABLE and for the states of its timer.  Packets of three
controllers arrive in any order, late or never.  `AecpUpgrade` takes the write loop of
ADDRESS_ACCESS one iteration at a time; a byte of the image is its address, so the
properties can say where it went.  A page write may fail at any time.  `AecpDescriptors`
is what `create_aem_read_descriptor_response` finds for every type and number, in the
descriptors of the examples (`aem_descriptors.h.in`): its templates, the list it searches,
and the counts with which the entity announces them.  How many sinks, sources and channels
there are is fixed when a device is built, so `device` is chosen in the initial state and
never changes.  `Aecp` composes the three and adds the reboot, which forgets the statics
and keeps the flash.

What the properties except: a third controller is told SUCCESS while a request is pending
and gets nothing (`1722_1/avb_1722_1_aecp.c:467`); a release while a request is pending
leaves the timer running, which later takes the entity from whoever holds it; a write that
ends inside a page and is followed by another misplaces the rest of the image.  Of the
descriptors: the first map of an output port is taken to be `AVB_NUM_SOURCES`
(`1722_1/avb_1722_1_aecp.c:260`) and the stream of a map is its number modulo
`AVB_NUM_SINKS` (`:301`), so an output port has the map of its own stream only in a device
with as many sources as sinks; without sources the cases of the sinks are compiled out
(`:196`), and only the first sink is found; channels that the ports cannot share evenly are
left over.

### Streams (`Stream1722`)

Samples are numbered; a packet is a header and the numbers of its samples, so that its
content can be compared with what its block count and timestamp say.  One call of
`avb_1722_talker_send_packets` is one frame of the word clock.  The rate accumulator is
computed in the code's 16.16 fixed point.  The listener learns as
`avb_1722_listener_process_packet` does, from packets some of which are lost.

What the properties except: a packet that waits because another stream's is sent first is
overwritten meanwhile; at 44.1 kHz, whose fraction is more than one half, the mask of the
accumulator may drop a carry, so the stream runs slow, by at most one sample in forty
packets; at 176.4 kHz the listener learns the channels and no rate, for its table has no
case for 22 samples in a packet.

### Audio FIFO (`SampleQueue`, `AudioFifo`)

`AudioFifo` has the listener's push sample by sample, the pull of the audio task, the
buffer control commands of the listener and the buffer manager's decisions, in any order.
The push publishes the write pointer at its end, which is why the FIFO implements
`SampleQueue`: `Unread`, the words between the two pointers, is the queue.  The words are
told apart as silence, marked and other samples.  `crowded` and `raced` are history: no
room for a packet since a sample was marked, and a FIFO that was enabled, or has since been
disabled, while a notification was under way; the properties that except them fail
otherwise.  Enabling restarts `sample_count` and leaves `last_notification_time` alone
(`audio_buffering/audio_output_fifo.c:56`).  The model takes the unsigned difference to be
above the period from then on; that it comes past zero when nothing is notified for as long
as before, which delays a notification by 250 samples, is left out.

## 3. What TLC checks

| Run | States | Shows |
|---|---|---|
| `mrp_vlan` | 794,633 | both ends declare and withdraw with and without New: `NoStaleJoin`, `RegistrationHeld`, no loss |
| `mrp_listener` | 126,602 | the code's ratio of timers, one loss: `RegistrationHeld`; a standing declaration is in the end registered, a withdrawn one deregistered |
| `pdu` | 45,748 | a peer decodes what was declared, PDUs fit the buffer to within the bytes the code does not count, and once attributes stay as they are the list holds all of them with the listeners sorted |
| `reservation` | 708,074 | a stream is on, and bandwidth reserved, only with a listener; the account of the bandwidth, VLANs, declarations and tracking follow every order of commands, PDUs and indications |
| `maap_reserve` | 3,254,169 | `NoOverlap`, `TalkersDisjoint`, `NeverStuck`, and that a Defend names exactly the shared addresses, with a loss, a link failure and a restart |
| `maap_resolve` | 1,017,426 | overlaps that losses cause go away for good |
| `acmp_race` | 4,574,995 | table and count, records and sinks, distinct sequence ids, no stuck listener, one answer per command, with timeouts at any time |
| `acmp_live` | 1,052,266 | patient controllers, all commands and `disconnect_all`, valid and invalid ids: `EndsAgree`, that is both tables agree and no sink is enabled without a record, and every command taken is answered |
| `acmp_overlap` | violation | a sink that no disconnect disables |
| `entity` | 1,289,689 | three controllers, uploads and reads on four devices: a pending request is answered, a persistent holder keeps the entity, the image is in order and complete, descriptors fit together |
| `stream` | 4,391,818 | six rates: packets are whole, the rate is kept, the listener learns channels and rate and marks the stamped sample |
| `fifo` | 1,574,072 | the FIFO is a queue, timestamps pair up, silence until locked, every notification answered |

The violation is a disagreement between the code and a document of the repository;
`PROJECT.json` quotes both sides under `findings`.

Five more configurations give counterexamples to what a comment or document says.  They
are kept for whoever repairs the code; each is checked with
`tlc -config X.cfg M`:

| Configuration, module | Property | What happens |
|---|---|---|
| `MrpLinkIndication`, `MCMrpLink` | `RegisteredIsIndicated` | `mrp_periodic` raises LEAVETIMER after the pass has delivered its indications (`srp/avb_mrp.c:1138`).  A join received before the next pass is indicated before the older leave: the attribute is registered, the application was last told that it left. |
| `MaapPool`, `MCMaap` | `RangeInPool` | The first base is drawn with the modulus of the empty range (`1722/maap/avb_1722_maap.xc:129`), so the range may pass the "upper address" of `avb_1722_maap_protocol.h:8`. |
| `AcmpFull`, `MCAcmp` | `SourceDisabledByLast` | A full table drops the listener and answers SUCCESS (`1722_1/avb_1722_1_acmp.c:561`); the source is disabled under it, against "disable source only with last listener leaving" (`src/lib_tsn/doc/rst/tsn.rst:580`). |
| `AcmpDisconnectAll`, `AcmpDisconnectAll` | `DisconnectAllReaches` | The slot index is passed as the sink's id (`1722_1/avb_1722_1_acmp.c:311`), against `avb_1722_1_acmp.h:94`. |
| `ReservationVlan`, `MCReservation` | `VlanTakesEffect` | The talker unit keeps one VLAN for all streams (`1722/avb_1722_talker.xc:192`), so starting a stream gives its packets the VLAN last set for any other, against `src/lib_tsn/api/avb.h:343`. |

### Bounds

- **MRP timers.** The code has a join timer of 20 cs, a leave timer of 80 cs (ratio 1:4,
  kept), a LeaveAll timer of 10 s and a periodic timer of 1 s.  The LeaveAll and periodic
  timers are shortened to just over the leave timer, so that LeaveAlls come as close
  together as can matter.  `SettleTime` is the time a declaration needs to be sent, one
  join timer more for each loss.
- **MRP losses.** `RegistrationHeld` holds with one loss when declarations start with New
  (as MSRP does), and fails with two, or with one when they start with a plain Join.  The
  bounds of the runs are therefore as large as they can be.
- **MAAP pool.** Three addresses and ranges of two and one: most draws conflict.  The
  probe time is large against `base % 8`, which the code adds to it (50 cs to 7 cs in
  the code; 13 ticks here).
- **MAAP losses.** `NoOverlap` holds with one loss and fails with two (four probes, but a
  Defend and a Probe may both be lost); `maap_resolve` uses three and shows recovery.
  Three nodes exceed what TLC can enumerate in minutes.
- **ACMP.** Two listeners, one talker, one source and one sink each; a table of one slot
  makes it full at once, an inflight list of one or two likewise.  Three or four commands
  allow connect, reconnect and disconnect in any interleaving; two losses are enough to
  lose both tries of a command.  `ClassB` are the commands that may carry the CLASS_B flag,
  one of them in `acmp_race`.
- **PDUs.** Five mergeable listeners need two bytes of each packing; a device with every
  type of attribute and a send buffer of 83 bytes (500 in the code) needs several PDUs.
  With 83 bytes some PDU fills the buffer to its last byte, and one with a Talker Failed
  passes it by the nine bytes that `MAX_MRP_MSG_SIZE` leaves out; `force_send` then writes
  its four zero bytes behind that.  Attribute events run through all values by two patterns.
- **Reservation.** One source and one sink: two sizes, two VLANs, four commands and three
  PDUs or link changes reach every action; four slots and two entries are all that one
  source and one remote stream can use.  `ReservationVlan` has two sources.
- **AECP.** A third controller can come between holder and contender.  Pages of two bytes
  and writes of 1, 2, 3 and 5: shorter than a page, a page, longer with and without rest.
  Four devices: as many sources as sinks, more, fewer and none, with channels that divide
  evenly and that do not.
- **Streams.** Two streams, so that one waits; 490 frames are more than eighteen packets
  at the highest rate, the sixteen that the listener learns from and two lost ones, and
  enough for the first long packet of 88.2 kHz (frame 463).  The rates have every kind of
  fraction: none, small, and above one half (44.1 kHz).
- **FIFO.** Three words and packets of two: full, empty and wrapped within a few steps.
  Thresholds of zero and one let the manager reach every decision.

### Fairness

`MrpLink`, `Maap` and `Acmp` assume weak fairness of the periodic passes, of packet
reception and of time: the code polls in an endless loop and every select case is served.
`Aecp` assumes it of the periodic pass and the write loop, and `MrpPdu` of the join timer.
`AudioFifo` assumes it of a push that has begun, and strong fairness of the listener's
handling of buffer control: a packet may be waiting each time, but the listener's `select`
is `#pragma ordered` with the buffer control channel first (`1722/avb_1722_listener.xc:234`).
Losing packets, applications and controllers are not fair.  In `Acmp` a timeout is fair
once no answer can overtake it.

## 4. What is proved

All theorems hold for every value of the constants that satisfies the named assumptions.
What the proofs of `Acmp` and `Reservation` use of the naturals and of finite sets is a
hypothesis of the lemmas (`WellOrdered`, `Counting`, `Ample`).  The last part of `AcmpProofs`
and of `ReservationProofs` proves it from the library, before the theorems, so no theorem
rests on it.

`WireProofs` on `MrpLink` (from `LinkAssumption`, `LeaveTimeAssumption`)
- `TypeCorrect`, and `LeaveTimerCorrect`: the leave timer runs exactly in LV.  Together
  they are the inductive invariant; without the timer's half LEAVETIMER could empty a
  registrar that is IN.
- `NoStaleJoinCorrect`: an application that was told of a join and is owed no indication
  still has the registration.  The strengthening says which pending indications go with
  an empty registrar.

`ReservationSteps`, `ReservationEvents`, `ReservationProofs` (from the assumptions of `Srp`,
`AvbManager` and `Reservation`): any number of sources, sinks, remote streams, slots,
entries and VLANs
- `EntriesFollow`, `NoStreamUnheard`, `DeclaredWhileAttached`, `TrackedWhileAttached`, and
  `VlanStaysJoined` for a VLAN table with an entry for every VLAN in use (`Roomy`; the code
  ignores a join that finds no entry).  Their exceptions are those of section 2: a slot
  that keeps an indication of its last user, a sink attached again before its talker's
  slot is freed.  What `VlanStaysJoined` says of a source is for a talker unit with exactly
  one; with two, packets carry the VLAN last set (`ReservationVlan`).
- The inductive invariant `WorldInv` is about all slots and entries at once.  `Linked` is
  `NoDangling` with two additions: a stream has at most one attribute of either side, and
  only local streams have bandwidth reserved; without the first a clean-up could free the
  entry of another attribute.  `AttrOK` says that a timer runs only while the registrar is
  leaving, which is what makes an expired timer leave a LEAVE to be indicated.  `Excused`
  says that a join is pending only for what is registered or for a stale slot, so an
  indication never starts a stream that nobody listens to.  `Streams` is
  `StreamingHasListener`.
- Loops over the slots keep a relation between the state before the loop and after each
  slot (`SlotKeep`, `SrpKeep`, `WorldKeep`).  It says what the network and the timers can
  never do to an attribute: take a slot, free one that is not marked, change its entry or
  side, or end a declaration.  The action properties follow from it for all steps but
  commands.
- A command changes the attributes of one stream; what it leaves of the others is a lemma
  for each function of SRP and the manager (`RegisterIs`, `DeregisterIs`, `AttachIs`,
  `DetachIs`, ...).  `VlanInv` adds that the entries of the VLAN table are distinct and
  that every stream that counts has joined its VLAN; a join then finds the VLAN's entry or
  a free one, by counting.

`ControlProofs` on `Maap` (from `MaapAssumption`)
- `ConflictIsOverlap`, `ConflictNamesOverlap`: for all ranges that are not empty,
  `maap_conflict` answers yes exactly if they share an address, and the start and count
  it fills in are exactly the shared addresses.
- `TypeCorrect`, `NeverStuckCorrect`, `DefendNamesOverlapCorrect` from one inductive
  invariant: ranges are not empty and timers run while a node is not DISABLED, probe
  counts never drop below zero, and every packet in flight is sound.  That a Defend names
  exactly the shared addresses is a property of the step that sends it, for the defender's
  range may change while it is in flight.

`AcmpSteps`, `AcmpProofs` (from `AcmpAssumption`): any number of entities, ports, slots,
inflight commands, overlapping commands and losses, timeouts at any moment
- `TypeCorrect`, `CountCorrect`, `ListenerNotWedgedCorrect`, `SequenceIdsCorrect` and
  `ConnectedCorrect`.  The inductive invariant adds to the properties what travels:
  commands and responses between talker and listener name an existing port, a
  controller's command carries the controller's id, and every inflight command was sent
  with an id below the next one.  The last is what makes ids distinct after a retry, and
  the first what lets the listener leave every state.  The count needs the listeners of
  the table to be distinct, and that `First` of a set that is not empty is in it, which
  rests on the well-foundedness of the naturals.
- `AnsweredCorrect`: no command is answered twice.  `TokenInv` follows a command as a token
  that is in one place, an inbox, a hand or an inflight list, until it is answered; a late
  answer of the talker finds no inflight command to close.
- `EndsAgreeCorrect`, also from `PatientWithRoom`: with patient controllers and a slot for
  every sink, what a listener records its talker lists, and what it has enabled it records.
  Patience gives each listener one open command, so at most one packet between talkers and
  listeners is about a given listener, and it is the one its inflight command waits for.
  The invariant says, for each place this packet can be in, what the talker has already
  done.  Without the assumptions the property fails: see `acmp_overlap` and `AcmpFull`.

`ControlProofs` on `Aecp` (from `ControllerAssumption`, `UpgradeAssumption`,
`DescriptorAssumption`): any controllers, page size, image and lengths of writes, and any
device with at least one sink
- `TypeTheorem`, `PendingTheorem`, `GrantTheorem`, `PersistentTheorem`: the invariant adds
  that the timer of a pending request runs in one of its six states, and that a timer that
  runs without a pending request was left by a release.  `PersistentKept` excepts the time
  in which such a timer runs.
- `ImageTheorem`, `HeldTheorem`: the invariant follows the write loop.  It says where the
  buffered bytes belong, that the bytes still in the packet follow them, and that flash
  address, offset and counters agree as long as no write was misaligned.
- `DescriptorsTheorem`, for every device, with the exceptions of section 2.  `IndexInv` says
  that the number a template was last read with is that of an announced descriptor, which
  is what makes the search harmless that follows a refused read, and that without sources
  the templates of the sinks are never written.  The rest is arithmetic: the share of a
  port ends before the next one's begins although both are rounded down (`ShareApart`).

`AudioFifoProofs` (from `FifoAssumption`): any size, packet length and thresholds
- `TypeTheorem`, `NotifiedTheorem`, `SilentTheorem`, `HeardTheorem`: a FIFO that is not
  muted is locked, or disabled and empty.
- `QueueTheorem`: `AudioFifo` implements `SampleQueue`.  A push is a stutter of the queue
  until it publishes; the invariant `PushInv` says that the words between the published and
  the private write pointer are an increasing choice of the packet's samples so far.
- `StampsTheorem`: the two timestamps handed to the clock recovery belong to one sample,
  unless `crowded` or `raced`.
  `MarkInv` says where the marked sample is until it is played: among the unread words or
  in the push under way.

`WireProofs` on `Stream1722` (from `StreamAssumption`): any number of streams and frames,
every rate
- `AccumulatorTheorem`: samples sent and accumulator make up the nominal number.  The
  invariant `AccountInv` is that what is owed is the accumulator itself where no carry can
  be dropped, and otherwise at most twice the excess over one half for each packet more.
- `PromptTheorem`: packets that did not wait are whole.  The invariant says that a packet
  being filled holds the last samples in order and that the stream remembers the timestamp
  of the one that was due; it needs that no packet is longer than the timestamp interval,
  which holds rate by rate.

Only model-checked: liveness, which is out of the prover's reach; `RegistrationHeld`,
`NoOverlap`, `TalkersDisjoint`, which depend on timing and on the number of losses;
`StreamLearned` and `MarkIsStamped`, which rest on arithmetic rate by rate; `PduHeard` and
`PduFits`, and `BandwidthFollows`, whose sum over the reserved entries is recursive: they say
what a recursive definition computes, which needs induction over data.

## 5. What comes next

1. **ADP**: entity database with timeouts, and the advertise state machine, which drops a
   request made while an advertisement is being sent (`1722_1/avb_1722_1_adp.xc:72`).
2. **gPTP**: roles, receipt timeouts, the peer delay exchange between two ports, best
   master selection as a total order, sequence ids across their wrap (`ptp/gptp.xc:1291`,
   `:1468`, `:1484`).
3. **The entity's own ACMP controller**: one buffer for the response in hand and the next
   command (`1722_1/avb_1722_1_acmp_periodic.xc:187`).
4. **MAAP with the AVB manager**: a source that is not disabled refuses the address it is
   given after a conflict (`src/lib_tsn/api/avb.h:490`).
5. **Proofs** of `NoOverlap` and `RegistrationHeld`, from a bound on the losses.

## 6. Not modelled

- Packet layout and parsing where no property is about it; checks of lengths and versions.
- The second Ethernet port: `ethernet_conf.h` configures one, so the propagation of
  attributes between ports is compiled out or dead.
- ADP, gPTP and the entity's own ACMP controller, see section 5; fast connect, which is
  off by default.
- A client of the AVB manager on another logical core, which could lose an update between
  a get and a set.
- The control loop and PLL arithmetic of the media clock, and the clock servo of gPTP:
  numeric filters over wide integers, beyond what TLC can enumerate.
- AECP commands that only read or set a field, and the control values behind them.
- I2C drivers of the external PLLs, copying of samples between I2S/TDM and the buffers,
  `set_volume`, the flash library, debug output, and `avb_1722_router.c`, whose functions
  only print.

`PROJECT.json` gives the reason for each part.
