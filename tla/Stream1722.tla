----------------------------- MODULE Stream1722 -----------------------------
(***************************************************************************)
(* An audio stream from a talker to a listener: avb1722_create_packet and  *)
(* avb_1722_talker_send_packets, which pack the frames of the word clock   *)
(* into 61883-6 packets for every stream of a talker unit, and             *)
(* avb_1722_listener_process_packet, which learns the number of channels   *)
(* and the rate from the first packets and then says which sample of a     *)
(* packet its timestamp belongs to.                                        *)
(*                                                                         *)
(* The talker task polls much faster than the word clock, so one frame is  *)
(* one call of avb_1722_talker_send_packets.  A stream's samples are       *)
(* numbered from 0 since it was last started; a timestamp is the number of *)
(* the sample it was taken with.                                           *)
(***************************************************************************)
EXTENDS Integers, Sequences, FiniteSets, FiniteSetsExt

CONSTANTS
  Streams,          \* the streams of the talker unit, 1..n
  Rates,            \* the sample rates to try, in Hz
  Channels,         \* the channels of a stream
  LockPackets,      \* packets the listener learns from (16)
  MaxLostPackets,   \* packets lost while it does, at most
  CommandFrames,    \* talker commands come before this many frames
  MaxFrames         \* the frames looked at

\* The rates configure_stream knows; it traps on any other.
ASSUME StreamAssumption ==
  /\ Streams \subseteq Nat
  /\ Rates \subseteq {8000, 16000, 32000, 44100, 48000, 88200, 96000, 176400, 192000}

One        == 65536 \* 1.0 in 16.16 fixed point
DbcMod     == 256
PacketRate == 8000  \* AVB1722_PACKET_RATE, class A
None       == -1

VARIABLES
  rate,             \* the sample rate of the streams
  frame,            \* frames so far
  stream,           \* talker_streams: what the talker keeps of each stream
  txBuf,            \* tx_buf: the packet each stream is filling
  fillSize,         \* tx_buf_fill_size: 0, or a packet waits to be sent
  held,             \* it waited for another frame (history)
  link,             \* the packet sent by the last frame, in a set
  listener,         \* avb_1722_stream_info_t of a listener to stream 1
  pushed,           \* what the listener last handed to its FIFOs
  lostPackets       \* packets lost since the listener was configured

talker == <<stream, txBuf, fillSize, held>>
streamVars == <<rate, frame, stream, txBuf, fillSize, held, link, listener, pushed, lostPackets>>

------------------------------------------------------------------------------
(* The two tables of sample rates. *)

\* configure_stream of the talker, process_packet of the listener: SYT_INTERVAL.
TsInterval(r) ==
  CASE r = 8000 -> 1 [] r = 16000 -> 2
    [] r \in {32000, 44100, 48000} -> 8
    [] r \in {88200, 96000} -> 16
    [] r \in {176400, 192000} -> 32

\* The listener's guess, from the average number of samples in a packet.
LearnedRate(samples) ==
  CASE samples = 1 -> 8000 [] samples = 2 -> 16000 [] samples = 4 -> 32000
    [] samples = 5 -> 44100 [] samples = 6 -> 48000 [] samples = 11 -> 88200
    [] samples = 12 -> 96000 [] samples = 24 -> 192000 [] OTHER -> 0

\* The number of samples in a packet, in 16.16 fixed point.
SamplesPerPacket(r) == ((r \div 100) * One) \div (PacketRate \div 100)
Base(r) == SamplesPerPacket(r) \div One
Frac(r) == SamplesPerPacket(r) % One

------------------------------------------------------------------------------
(* The talker. *)

Fresh == [active |-> 1, current |-> 0, tv |-> FALSE, ts |-> 0, dbc |-> 0, rem |-> 0,
          seq |-> 0, made |-> 0]
BlankHeader == [dbc |-> 0, tv |-> FALSE, ts |-> 0, samples |-> 0, seq |-> 0]
Unlearned == [active |-> TRUE, lock |-> 0, rate |-> 0, prev |-> 0, channels |-> 0, dbc |-> -1]

StreamInit ==
  /\ rate \in Rates
  /\ frame = 0
  /\ stream = [i \in Streams |-> [Fresh EXCEPT !.active = 0]]
  /\ txBuf = [i \in Streams |-> [header |-> BlankHeader, word |-> [k \in {} |-> 0]]]
  /\ fillSize = [i \in Streams |-> 0]
  /\ held = [i \in Streams |-> FALSE]
  /\ link = {}
  /\ listener = Unlearned
  /\ pushed = [mark |-> None, ts |-> 0, word |-> <<>>]
  /\ lostPackets = 0

\* AVB1722_CONFIGURE_TALKER_STREAM: configure_stream, AVB1722_Talker_bufInit.
ConfigureTalker(i) ==
  /\ frame < CommandFrames /\ link = {}
  /\ stream[i].active \in {0, 1}
  /\ stream' = [stream EXCEPT ![i] = Fresh]
  /\ txBuf' = [txBuf EXCEPT ![i].header = BlankHeader]
  /\ UNCHANGED <<rate, frame, fillSize, held, link, listener, pushed, lostPackets>>

\* AVB1722_TALKER_GO, which the AVB manager sends after configuring the stream.
Go(i) ==
  /\ frame < CommandFrames /\ link = {}
  /\ stream[i] = Fresh
  /\ stream' = [stream EXCEPT ![i].active = 2, ![i].seq = 0]
  /\ UNCHANGED <<rate, frame, txBuf, fillSize, held, link, listener, pushed, lostPackets>>

\* AVB1722_TALKER_STOP.
Stop(i) ==
  /\ frame < CommandFrames /\ link = {}
  /\ stream[i].active = 2
  /\ stream' = [stream EXCEPT ![i].active = 1]
  /\ UNCHANGED <<rate, frame, txBuf, fillSize, held, link, listener, pushed, lostPackets>>

\* avb1722_create_packet, one frame of it.
\* Mutant: any fraction makes the packet longer.
SamplesInPacketEarly(t) == Base(rate) + IF t.rem > 0 THEN 1 ELSE 0

SamplesInPacket(t) == Base(rate) + IF t.rem >= One THEN 1 ELSE 0
Number(t)          == t.dbc + t.current      \* this_dbc: the number of this sample
Stamps(t)          == Number(t) % TsInterval(rate) = 0
Completes(t)       == t.current + 1 = SamplesInPacket(t)

\* Mutant: the timestamp stays valid for the next packet.
SampledStillValid(t) ==
  IF Completes(t)
  THEN [t EXCEPT !.rem = IF SamplesInPacket(t) > Base(rate)
                         THEN (t.rem + Frac(rate)) % One ELSE t.rem + Frac(rate),
                 !.dbc = t.dbc + SamplesInPacket(t), !.seq = (t.seq + 1) % 256,
                 !.current = 0, !.made = t.made + 1]
  ELSE [t EXCEPT !.tv = t.tv \/ Stamps(t), !.ts = IF Stamps(t) THEN Number(t) ELSE t.ts,
                 !.current = t.current + 1]

Sampled(t) ==
  IF Completes(t)
  THEN [t EXCEPT !.rem = IF SamplesInPacket(t) > Base(rate)
                         THEN (t.rem + Frac(rate)) % One ELSE t.rem + Frac(rate),
                 !.dbc = t.dbc + SamplesInPacket(t), !.seq = (t.seq + 1) % 256,
                 !.current = 0, !.tv = FALSE, !.made = t.made + 1]
  ELSE [t EXCEPT !.tv = t.tv \/ Stamps(t), !.ts = IF Stamps(t) THEN Number(t) ELSE t.ts,
                 !.current = t.current + 1]

Written(t, b) ==
  LET word   == [k \in DOMAIN b.word \cup {t.current} |-> IF k = t.current THEN Number(t) ELSE b.word[k]]
      header == [dbc |-> t.dbc % DbcMod, tv |-> t.tv \/ Stamps(t),
                 ts |-> IF Stamps(t) THEN Number(t) ELSE IF t.tv THEN t.ts ELSE 0,
                 samples |-> SamplesInPacket(t), seq |-> t.seq]
  IN [header |-> IF Completes(t) THEN header ELSE b.header, word |-> word]

\* avb_1722_talker_send_packets: every streaming stream takes the frame; then
\* the first packet that waits, and only that one, is sent.
Streaming   == {i \in Streams : stream[i].active = 2}
Waiting     == {i \in Streams : fillSize[i] > 0}
NowWaiting  == Waiting \cup {i \in Streaming : Completes(stream[i])}
Sent        == IF NowWaiting = {} THEN {} ELSE {Min(NowWaiting)}

SendPackets ==
  /\ frame < MaxFrames /\ link = {}
  /\ frame' = frame + 1
  /\ stream' = [i \in Streams |-> IF i \in Streaming THEN Sampled(stream[i]) ELSE stream[i]]
  /\ txBuf' = [i \in Streams |-> IF i \in Streaming THEN Written(stream[i], txBuf[i]) ELSE txBuf[i]]
  /\ fillSize' = [i \in Streams |-> IF i \in Sent THEN 0 ELSE IF i \in Waiting THEN fillSize[i]
                                   ELSE IF i \in NowWaiting THEN SamplesInPacket(stream[i]) ELSE 0]
  /\ held' = [i \in Streams |-> i \in NowWaiting \ Sent]
  /\ link' = {[stream |-> i, header |-> txBuf'[i].header, held |-> held[i],
               word |-> [k \in 1..IF i \in Waiting THEN fillSize[i] ELSE SamplesInPacket(stream[i])
                           |-> txBuf'[i].word[k - 1]]] : i \in Sent}
  /\ UNCHANGED <<rate, listener, pushed, lostPackets>>

------------------------------------------------------------------------------
(* The network and the listener. *)

\* A packet is lost, or is of a stream that this listener does not take.  Once
\* the listener has learned the stream a lost packet changes nothing in it.
LosePacket ==
  /\ \E p \in link :
       \/ p.stream # 1 /\ UNCHANGED lostPackets
       \/ /\ p.stream = 1 /\ lostPackets < MaxLostPackets /\ listener.lock < LockPackets
          /\ lostPackets' = lostPackets + 1
  /\ link' = {}
  /\ UNCHANGED <<rate, frame, talker, listener, pushed>>

\* Learning: how many channels the payload of the packet before this one must
\* have had, given how far the block count has moved since.
BlocksSince(p)  == LET d == p.header.dbc - listener.dbc IN IF d < 0 THEN d + DbcMod ELSE d
Payload(p)      == p.header.samples * Channels
Uninformative(p) == listener.prev = 0 \/ BlocksSince(p) = 0
Guess(p)        == listener.prev \div BlocksSince(p)

\* Mutant: the sum goes on when the learning starts again.
LearnedSum(l, p) ==
  LET m == IF l.channels = 0 \/ l.channels # Guess(p)
           THEN [l EXCEPT !.channels = Guess(p), !.lock = 0] ELSE l
      n == [m EXCEPT !.rate = m.rate + Payload(p), !.lock = m.lock + 1]
  IN IF n.lock = LockPackets
     THEN [n EXCEPT !.rate = LearnedRate((n.rate \div n.channels) \div LockPackets)] ELSE n

Learned(l, p) ==
  LET m == IF l.channels = 0 \/ l.channels # Guess(p)
           THEN [l EXCEPT !.channels = Guess(p), !.lock = 0, !.rate = 0] ELSE l
      n == [m EXCEPT !.rate = m.rate + Payload(p), !.lock = m.lock + 1]
  IN IF n.lock = LockPackets
     THEN [n EXCEPT !.rate = LearnedRate((n.rate \div n.channels) \div LockPackets)] ELSE n

Seen(l, p) == [l EXCEPT !.dbc = p.header.dbc, !.prev = Payload(p)]

Learn ==
  /\ listener.lock < LockPackets
  /\ \E p \in link :
       /\ p.stream = 1
       /\ listener' = Seen(IF Uninformative(p) THEN listener ELSE Learned(listener, p), p)
  /\ link' = {}
  /\ UNCHANGED <<rate, frame, talker, pushed, lostPackets>>

\* Mutant: a block count that is a multiple of the interval is not reduced.
SampleOfUnreduced(p) == LET n == TsInterval(listener.rate) IN n - (p.header.dbc % n)

\* A stamped packet of a stream whose rate was not recognised is dropped.
SampleOf(p) == LET n == TsInterval(listener.rate) IN (n - (p.header.dbc % n)) % n

Unstampable(p) == p.header.tv /\ listener.rate = 0

Process ==
  /\ listener.lock = LockPackets
  /\ \E p \in link :
       /\ p.stream = 1
       /\ listener' = Seen(listener, p)
       /\ IF Unstampable(p) THEN UNCHANGED pushed
          ELSE pushed' = [mark |-> IF p.header.tv THEN SampleOf(p) ELSE None,
                          ts |-> p.header.ts, word |-> p.word]
  /\ link' = {}
  /\ UNCHANGED <<rate, frame, talker, lostPackets>>

StreamNext ==
  \/ \E i \in Streams : ConfigureTalker(i) \/ Go(i) \/ Stop(i)
  \/ SendPackets
  \/ LosePacket \/ Learn \/ Process

StreamSpec == StreamInit /\ [][StreamNext]_streamVars

------------------------------------------------------------------------------
(* Correctness. *)

\* A packet that leaves the talker carries consecutive samples of its stream,
\* counted by its block count, and the timestamp of exactly the sample whose
\* number is a multiple of the interval, if there is one.
Whole(p) ==
  LET first == p.word[1]
      due   == {k \in 1..Len(p.word) : p.word[k] % TsInterval(rate) = 0}
  IN /\ Len(p.word) = p.header.samples
     /\ \A k \in 1..Len(p.word) : p.word[k] = first + k - 1
     /\ p.header.dbc = first % DbcMod
     /\ p.header.tv <=> due # {}
     /\ \A k \in due : p.header.ts = p.word[k]

\* Every packet that did not have to wait for another stream's is whole.  (One
\* that waited is overwritten by the frames that arrive meanwhile.)
PromptPacketsWhole == \A p \in link : ~p.held => Whole(p)

\* The fraction accumulator keeps the packets at their nominal size: those made
\* so far hold the samples that so many packets of SamplesPerPacket would, to
\* within two.  The exception is 44.1 kHz, whose fraction is above one half: the
\* mask after a long packet may drop two carries at once, and the packets fall
\* behind, but by no more than twice the excess over one half for each of them,
\* one sample in forty packets.
AccumulatorExact ==
  \A i \in Streams :
    LET due    == stream[i].made * SamplesPerPacket(rate) - stream[i].dbc * One
        excess == IF 2 * Frac(rate) > One THEN 2 * Frac(rate) - One ELSE 0
    IN 0 <= due /\ due < 2 * One + stream[i].made * excess

\* The listener ends up knowing how many channels the packets have and which rate
\* the talker uses, as long as fewer packets were lost than it learns from.  The
\* rate it cannot learn is 176.4 kHz, which the talker sends: its table has no
\* case for 22 samples in a packet.
StreamLearned ==
  listener.lock = LockPackets /\ lostPackets < LockPackets
    => /\ listener.channels = Channels
       /\ rate # 176400 => listener.rate = rate

\* The sample the listener marks is the one the talker stamped.
MarkIsStamped ==
  pushed.mark # None =>
    pushed.mark < Len(pushed.word) /\ pushed.word[pushed.mark + 1] = pushed.ts

=============================================================================
