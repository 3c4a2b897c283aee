------------------------------- MODULE MrpPdu -------------------------------
(***************************************************************************)
(* How MRP turns its attributes into packets, and what a peer reads from   *)
(* them (avb_mrp.c, avb_srp.c, avb_mvrp.c).  At each join timer the        *)
(* attributes are sorted by one pass of sort_attrs, written type by type   *)
(* into the send buffer, where consecutive values share a message with     *)
(* three or four events to a byte, and sent when the buffer is full or     *)
(* everything is in it.                                                    *)
(*                                                                         *)
(* The state machines of the attributes are in MrpAttribute; here an       *)
(* attribute is in the list or not, and has an event to send or none.  The *)
(* bytes of a message are kept where their place matters: the packed       *)
(* events and the list length.                                             *)
(***************************************************************************)
EXTENDS Integers, Sequences, FiniteSets, SequencesExt

CONSTANTS
  Inventories,   \* what the slots are taken for: sequences of [type, id, dest, vlan, size]
  BufferSize,    \* MRP_SEND_BUFFER_SIZE
  DomainVlan,    \* current_vlan_id_from_domain
  Starts,        \* the patterns of events: slot a has the event (start + a) % 7
  MaxChanges     \* bound on the changes of attributes

VARIABLES
  attr,       \* attrs[]: state (UNUSED, DISABLED or ON for any other), type and value
  list,       \* the list from first_attr on, by slots
  wire,       \* the PDUs of the last join timer
  declared,   \* what was to be sent with them
  changes

vars == <<attr, list, wire, declared, changes>>

MsrpTypes == <<"ADVERTISE", "FAILED", "LISTENER", "DOMAIN">>
MvrpTypes == <<"VID">>
Types == MsrpTypes \o MvrpTypes
Slot == DOMAIN attr

(* A loop over the sequence s.  The quantifier binds what the iteration     *)
(* before gave, which TLC would otherwise compute at each use of it.        *)
Through(Body(_, _), start, s) ==
  LET after[k \in 0 .. Len(s)] ==
        IF k = 0 THEN start
        ELSE CHOOSE r \in {Body(x, s[k]) : x \in {after[k - 1]}} : TRUE
  IN after[Len(s)]

Number(type) == CHOOSE i \in DOMAIN Types : Types[i] = type

(* FIRST_VALUE_LENGTHS.                                                     *)
FirstValueLength(type) == <<25, 34, 8, 4, 2>>[Number(type)]

-----------------------------------------------------------------------------
(* compare_attr.  avb_srp_compare_talker_attributes reads "local_id" from   *)
(* what is a reservation: the second byte of the lower word of the stream   *)
(* id, which is the same for the streams of one device.                     *)
LocalId(a) == (attr[a].id \div 256) % 256

Rank(a) == CASE attr[a].state = "ON" -> 0
             [] attr[a].state = "DISABLED" -> 1
             [] attr[a].state = "UNUSED" -> 2

CompareAttr(a, b) ==
  IF Rank(a) # Rank(b) THEN Rank(a) < Rank(b)
  ELSE IF attr[a].state # "ON" THEN a < b
  ELSE IF attr[a].type # attr[b].type THEN Number(attr[a].type) < Number(attr[b].type)
  ELSE CASE attr[a].type = "ADVERTISE" -> LocalId(a) < LocalId(b)
         [] attr[a].type = "LISTENER" -> attr[a].id < attr[b].id
         [] OTHER -> a < b

(* Mutant: attributes are put back in front.                                *)
InsertFront(s, x) == <<x>> \o s

Insert(s, x) ==
  IF CompareAttr(x, s[1]) THEN <<x>> \o s
  ELSE LET fits == {i \in DOMAIN s : i < Len(s) => /\ CompareAttr(s[i], x)
                                                   /\ CompareAttr(x, s[i + 1])}
       IN InsertAt(s, Min(fits) + 1, x)

(* sort_attrs: one pass.  An attribute that does not come before the next   *)
(* one is taken out; those are put back in, the last one first.             *)
SortAttrs ==
  LET out == {list[i] : i \in {j \in 1 .. (Len(list) - 1) :
                                 ~CompareAttr(list[j], list[j + 1])}}
      kept == SelectSeq(list, LAMBDA a : a \notin out)
      toInsert == Reverse(SelectSeq(list, LAMBDA a : a \in out))
  IN Through(Insert, kept, toInsert)

-----------------------------------------------------------------------------
(* Messages.  vector holds the three packed events and then the four packed *)
(* ones; the list length counts the vector header, the first value, the     *)
(* vector and the end mark.                                                 *)
EmptyMsg(type, leaveAll) ==
  [type |-> type, leaveAll |-> leaveAll, first |-> <<>>, numValues |-> 0,
   vector |-> <<>>, listLength |-> 2 + FirstValueLength(type) + 2]

(* encode_three_packed, encode_four_packed and their inverses.              *)
EncodeThreePacked(event, i, byte) == byte + event * 6 ^ (2 - i)
DecodeThreePacked(byte, i) == (byte \div 6 ^ (2 - i)) % 6
EncodeFourPacked(event, i, byte) == byte + event * 4 ^ (3 - i)
DecodeFourPacked(byte, i) == (byte \div 4 ^ (3 - i)) % 4

(* The memmove that makes room for a new byte.                              *)
Shift(msg, at) ==
  [msg EXCEPT !.vector = InsertAt(@, at, 0), !.listLength = @ + 1]

EncodeThreePackedEvent(msg, event) ==
  LET n == msg.numValues
      at == n \div 3 + 1
      room == IF n % 3 = 0 THEN Shift(msg, at) ELSE msg
  IN [room EXCEPT !.vector[at] = EncodeThreePacked(event, n % 3, @)]

(* Mutant: the three packed event just written is not counted.              *)
EncodeFourPackedEventEarly(msg, event) ==
  LET n == msg.numValues
      at == (n + 2) \div 3 + n \div 4 + 1
      room == IF n % 4 = 0 THEN Shift(msg, at) ELSE msg
  IN [room EXCEPT !.vector[at] = EncodeFourPacked(event, n % 4, @)]

EncodeFourPackedEvent(msg, event) ==
  LET n == msg.numValues
      at == (n + 3) \div 3 + n \div 4 + 1
      room == IF n % 4 = 0 THEN Shift(msg, at) ELSE msg
  IN [room EXCEPT !.vector[at] = EncodeFourPacked(event, n % 4, @)]

-----------------------------------------------------------------------------
(* A declaration d is [type, value, event, four] with the value             *)
(* [id, dest, vlan, size] of the attribute.                                 *)

FirstValue(d) ==
  CASE d.type \in {"ADVERTISE", "FAILED"} ->
         [d.value EXCEPT !.vlan = IF @ = 0 THEN DomainVlan ELSE @]
    [] d.type = "DOMAIN" -> [d.value EXCEPT !.vlan = DomainVlan]
    [] OTHER -> d.value

(* check_talker_firstvalue_merge and its companions.                        *)
FirstValueMerge(msg, d) ==
  LET v == d.value
      f == msg.first
  IN CASE d.type \in {"ADVERTISE", "FAILED"} ->
            /\ v.dest = f.dest + msg.numValues
            /\ v.id = f.id + msg.numValues
            /\ v.vlan = f.vlan /\ v.size = f.size
       [] d.type = "LISTENER" -> v.id = f.id + msg.numValues
       [] OTHER -> FALSE

Merges(msg, d) ==
  msg.type = d.type /\ (msg.numValues = 0 \/ FirstValueMerge(msg, d))

(* encode_talker_message, encode_listener_message, encode_domain_message    *)
(* and avb_mvrp_merge_message.                                              *)
EncodeMsg(msg, d) ==
  LET named == IF msg.numValues = 0 THEN [msg EXCEPT !.first = FirstValue(d)] ELSE msg
      three == EncodeThreePackedEvent(named, d.event)
      four == IF d.type = "LISTENER" THEN EncodeFourPackedEvent(three, d.four) ELSE three
  IN [four EXCEPT !.numValues = @ + 1]

-----------------------------------------------------------------------------
(* The send buffer: the messages under construction, and the PDUs sent.     *)
HeaderSize == 14 + 1      \* mrp_ethernet_hdr and mrp_header
MsgHeaderSize == 4
MaxMsgSize == MsgHeaderSize + FirstValueLength("ADVERTISE") + 1 + 2
FooterSize == 2

Used(msgs) ==
  Through(LAMBDA n, msg : n + MsgHeaderSize + msg.listLength, HeaderSize, msgs)

(* force_send puts zeros behind the messages: at least four of them, and as *)
(* many as an Ethernet frame needs.                                         *)
Written(msgs) == Max({Used(msgs) + 4, 64})

ForceSend(b) ==
  IF b.msgs = <<>> THEN b ELSE [sent |-> Append(b.sent, b.msgs), msgs |-> <<>>]

(* Mutant: the buffer is sent only once it is full.                         *)
SendLate(b) == IF BufferSize < Used(b.msgs) THEN ForceSend(b) ELSE b

Send(b) ==
  IF BufferSize < Used(b.msgs) + MaxMsgSize + FooterSize THEN ForceSend(b) ELSE b

LeaveAll(b, type) ==
  Send([b EXCEPT !.msgs = Append(@, EmptyMsg(type, TRUE))])

(* doTx: the first message that takes the declaration, or a new one.        *)
DoTx(b, d) ==
  LET takers == {i \in DOMAIN b.msgs : Merges(b.msgs[i], d)}
  IN IF takers # {}
     THEN Send([b EXCEPT !.msgs[Min(takers)] = EncodeMsg(@, d)])
     ELSE Send([b EXCEPT !.msgs = Append(@, EncodeMsg(EmptyMsg(d.type, FALSE), d))])

(* What the attributes in the list l declare, in the order of               *)
(* attribute_type_event for each type.  event[a] is the event of slot a; it *)
(* has none to send when that is no event.                                  *)
Sends(a, event) == attr[a].state = "ON" /\ event[a] < 6

Declares(l, types, event) ==
  LET of(type) == SelectSeq(l, LAMBDA a : attr[a].type = type /\ Sends(a, event))
      slots == Through(LAMBDA s, type : s \o of(type), <<>>, types)
  IN [k \in DOMAIN slots |->
        LET a == slots[k]
        IN [type |-> attr[a].type, event |-> event[a],
            four |-> IF attr[a].type = "LISTENER" THEN attr[a].four ELSE 0,
            value |-> [id |-> attr[a].id, dest |-> attr[a].dest,
                       vlan |-> attr[a].vlan, size |-> attr[a].size]]]

Pdus(l, types, event, leaveAll) ==
  LET empty == [sent |-> <<>>, msgs |-> <<>>]
      start == IF leaveAll THEN Through(LeaveAll, empty, types) ELSE empty
  IN ForceSend(Through(DoTx, start, Declares(l, types, event))).sent

-----------------------------------------------------------------------------
(* avb_mrp_process_packet of a peer.                                        *)
ThreePackedLength(msg) == (msg.numValues + 2) \div 3
FourPackedLength(msg) ==
  IF msg.type = "LISTENER" THEN (msg.numValues + 3) \div 4 ELSE 0

(* Only MSRP has the list length on the wire.                               *)
Refused(msg) ==
  /\ msg.type # "VID"
  /\ 2 + FirstValueLength(msg.type) + ThreePackedLength(msg) + FourPackedLength(msg) + 2
       > msg.listLength

ValueAt(msg, i) ==
  IF msg.type \in {"ADVERTISE", "FAILED"}
  THEN [msg.first EXCEPT !.id = @ + i, !.dest = @ + i]
  ELSE [msg.first EXCEPT !.id = @ + i]

EventAt(msg, i) ==
  [type |-> msg.type, value |-> ValueAt(msg, i),
   event |-> DecodeThreePacked(msg.vector[i \div 3 + 1], i % 3),
   four |-> IF msg.type = "LISTENER"
            THEN DecodeFourPacked(msg.vector[ThreePackedLength(msg) + i \div 4 + 1], i % 4)
            ELSE 0]

Unused3(msg, i) == msg.vector[i \div 3 + 1] > 215

HeardFrom(msg) ==
  LET stop == {i \in 0 .. (msg.numValues - 1) : Unused3(msg, i)} \cup {msg.numValues}
  IN [k \in 1 .. Min(stop) |-> EventAt(msg, k - 1)]

Readable(pdu) ==
  SubSeq(pdu, 1, Min({i \in DOMAIN pdu : Refused(pdu[i])} \cup {Len(pdu) + 1}) - 1)

Heard(pdus) ==
  Through(LAMBDA s, pdu : Through(LAMBDA t, msg : t \o HeardFrom(msg), s, Readable(pdu)),
           <<>>, pdus)

LeaveAllsHeard(pdus) ==
  {type \in ToSet(Types) : \E k \in DOMAIN pdus : \E i \in DOMAIN Readable(pdus[k]) :
     pdus[k][i].leaveAll /\ pdus[k][i].type = type}

-----------------------------------------------------------------------------
Init ==
  /\ \E inv \in Inventories : attr = [a \in DOMAIN inv |->
       inv[a] @@ [state |-> "UNUSED", four |-> 1, remove |-> FALSE]]
  /\ list = [a \in DOMAIN attr |-> a]
  /\ wire = <<>>
  /\ declared = [events |-> <<>>, leaveAll |-> {}]
  /\ changes = 0

Changed ==
  /\ changes < MaxChanges
  /\ changes' = changes + 1
  /\ UNCHANGED <<list, wire, declared>>

(* mrp_get_attr takes the first unused slot; mrp_mad_begin follows at once  *)
(* or when the stream, the VLAN or the domain is joined.                    *)
GetAttr ==
  LET unused == {a \in Slot : attr[a].state = "UNUSED"}
  IN /\ unused # {}
     /\ \E state \in {"DISABLED", "ON"} : attr' = [attr EXCEPT ![Min(unused)].state = state]
     /\ Changed

Begin(a) ==
  /\ attr[a].state = "DISABLED"
  /\ attr' = [attr EXCEPT ![a].state = "ON"]
  /\ Changed

(* The domain boundary comes or goes, or the stream fails or recovers: a    *)
(* talker becomes Failed or Advertise, a listener Ready or Asking Failed.   *)
Convert(a) ==
  /\ attr[a].state = "ON"
  /\ \/ attr[a].type = "ADVERTISE" /\ attr' = [attr EXCEPT ![a].type = "FAILED"]
     \/ attr[a].type = "FAILED" /\ attr' = [attr EXCEPT ![a].type = "ADVERTISE"]
     \/ attr[a].type = "LISTENER" /\ attr' = [attr EXCEPT ![a].four = 3 - @]
  /\ Changed

(* The talker of a stream that is no longer listened to.                    *)
Leave(a) ==
  /\ attr[a].state = "ON" /\ attr[a].type \in {"ADVERTISE", "FAILED"} /\ ~attr[a].remove
  /\ attr' = [attr EXCEPT ![a].remove = TRUE]
  /\ Changed

(* The join timer: sort, then MVRP and MSRP, each with a LeaveAll or        *)
(* without.  An attribute marked for it is freed when it has been sent.     *)
Resort == list' = SortAttrs

JoinTimer ==
  /\ Resort
  /\ \E start \in Starts, leaveAll \in BOOLEAN :
       LET event == [a \in Slot |-> (start + a) % 7]
       IN /\ wire' = Pdus(list', MvrpTypes, event, leaveAll)
                       \o Pdus(list', MsrpTypes, event, leaveAll)
          /\ declared' = [events |-> Declares(list', MvrpTypes, event)
                                      \o Declares(list', MsrpTypes, event),
                          leaveAll |-> IF leaveAll THEN ToSet(Types) ELSE {}]
          /\ attr' = [a \in Slot |->
                        IF attr[a].remove /\ Sends(a, event)
                        THEN [attr[a] EXCEPT !.state = "UNUSED", !.remove = FALSE] ELSE attr[a]]
  /\ UNCHANGED changes

Next == JoinTimer \/ GetAttr \/ \E a \in Slot : Begin(a) \/ Convert(a) \/ Leave(a)

(* The join timer runs again and again; only it changes the list.           *)
Spec == Init /\ [][Next]_vars /\ WF_list(Resort)

-----------------------------------------------------------------------------
(* What a peer reads is what was declared: no value, event or LeaveAll is   *)
(* lost, doubled or changed by merging, packing, shifting and splitting.    *)
PduHeard ==
  LET sent == [k \in DOMAIN declared.events |->
                 [declared.events[k] EXCEPT !.value = FirstValue(declared.events[k])]]
  IN /\ Len(Heard(wire)) = Len(sent)
     /\ ToSet(Heard(wire)) = ToSet(sent)
     /\ LeaveAllsHeard(wire) = declared.leaveAll

(* What force_send writes of a PDU into send_buf, the zeros behind the      *)
(* messages included, ends at most four bytes behind the buffer, for send   *)
(* makes room for the messages only.  A PDU with a Talker Failed may be     *)
(* nine bytes longer: MAX_MRP_MSG_SIZE is the size of a Talker Advertise.   *)
PduFits ==
  \A k \in DOMAIN wire :
    LET failed == \E i \in DOMAIN wire[k] : wire[k][i].type = "FAILED"
    IN Written(wire[k]) <= BufferSize + 4 + (IF failed THEN 9 ELSE 0)

(* Once the attributes stay as they are, the passes of sort_attrs, which    *)
(* relink the list in place, leave it with all attributes, each once, and   *)
(* with the listeners in the order in which they merge.                     *)
ListenersSettle ==
  <>[](/\ Len(list) = Len(attr) /\ ToSet(list) = Slot
       /\ \A i, j \in DOMAIN list :
            LET a == list[i]
                b == list[j]
            IN (/\ i < j
                /\ attr[a].state = "ON" /\ attr[a].type = "LISTENER"
                /\ attr[b].state = "ON" /\ attr[b].type = "LISTENER")
               => attr[a].id < attr[b].id)

=============================================================================
