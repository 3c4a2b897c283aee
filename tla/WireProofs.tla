----------------------------- MODULE WireProofs ------------------------------
(***************************************************************************)
(* Proofs about what two end stations exchange: first the packets of an    *)
(* audio stream, then the declarations of an MRP attribute.                *)
(***************************************************************************)
EXTENDS Stream1722, MrpLink, SequenceTheorems, WellFoundedInduction, TLAPS

(***************************************************************************)
(* Proofs about the talker of Stream1722, for any number of streams, every *)
(* rate the talker knows and any number of frames.                         *)
(***************************************************************************)
KnownRates == {8000, 16000, 32000, 44100, 48000, 88200, 96000, 176400, 192000}

Words == UNION {[D -> Nat] : D \in SUBSET Nat}

StreamInfo == [active: {0, 1, 2}, current: Nat, tv: BOOLEAN, ts: Nat,
               dbc: Nat, rem: Nat, seq: Nat, made: Nat]

\* What the talker keeps of a stream and of the packet it fills.
TalkerType ==
  /\ rate \in Rates
  /\ stream \in [Streams -> StreamInfo]
  /\ DOMAIN txBuf = Streams
  /\ \A i \in Streams : /\ txBuf[i] = [header |-> txBuf[i].header, word |-> txBuf[i].word]
                        /\ txBuf[i].word \in Words
  /\ fillSize \in [Streams -> Nat]
  /\ held \in [Streams -> BOOLEAN]

\* A packet b that is being filled holds the last samples of its stream t in
\* order, and t the timestamp of the one that is due one, if it has come.
Filled(t, b) ==
  LET n == TsInterval(rate)
  IN /\ t.current < SamplesInPacket(t)
     /\ \A k \in 0..(t.current - 1) : k \in DOMAIN b.word /\ b.word[k] = t.dbc + k
     /\ t.tv <=> \E k \in 0..(t.current - 1) : (t.dbc + k) % n = 0
     /\ \A k \in 0..(t.current - 1) : (t.dbc + k) % n = 0 => t.ts = t.dbc + k

\* Every packet is being filled in order; only one that had to wait waits.
PacketInv ==
  /\ \A i \in Streams : Filled(stream[i], txBuf[i])
  /\ \A i \in Streams : fillSize[i] > 0 => held[i]
  /\ PromptPacketsWhole

\* What the packets made so far fall short of is what the accumulator holds.  At
\* a rate whose fraction is above one half the carries that the mask has dropped
\* come on top.  Owed and held together then grow by 2 * Frac in a short packet
\* and shrink in a long one, so they follow the excess of the fraction over one
\* half, up to how far the accumulator is on its way to the next long packet.
Owed(t) == t.made * SamplesPerPacket(rate) - t.dbc * One

Behind(t) ==
  IF t.rem < One - Frac(rate) THEN 0 ELSE IF t.rem < One THEN One ELSE 2 * One

Accounted(t) ==
  IF 2 * Frac(rate) <= One
  THEN t.rem < One + Frac(rate) /\ Owed(t) = t.rem
  ELSE /\ t.rem < 2 * One /\ Owed(t) >= t.rem
       /\ Owed(t) + t.rem <= t.made * (2 * Frac(rate) - One) + Behind(t)

AccountInv == \A i \in Streams : Accounted(stream[i])

------------------------------------------------------------------------------
(* Rates.                                                                   *)

\* No packet holds more samples than the interval of timestamps.
LEMMA RateFacts ==
  ASSUME NEW r \in KnownRates
  PROVE  /\ TsInterval(r) \in {1, 2, 8, 16, 32}
         /\ Base(r) \in Nat /\ Base(r) >= 1 /\ Frac(r) \in Nat /\ Frac(r) < One
         /\ SamplesPerPacket(r) \in Nat
         /\ SamplesPerPacket(r) = Base(r) * One + Frac(r)
         /\ Base(r) <= TsInterval(r)
         /\ Frac(r) > 0 => Base(r) + 1 <= TsInterval(r)
<1>1. /\ TsInterval(8000) = 1 /\ SamplesPerPacket(8000) = 65536
      /\ Base(8000) = 1 /\ Frac(8000) = 0
  <2>1. (8000 \div 100) * 65536 = 5242880
    OBVIOUS
  <2>2. SamplesPerPacket(8000) = 65536
    BY <2>1 DEF SamplesPerPacket, One, PacketRate
  <2> QED  BY <2>2 DEF TsInterval, Base, Frac, One
<1>2. /\ TsInterval(16000) = 2 /\ SamplesPerPacket(16000) = 131072
      /\ Base(16000) = 2 /\ Frac(16000) = 0
  <2>1. (16000 \div 100) * 65536 = 10485760
    OBVIOUS
  <2>2. SamplesPerPacket(16000) = 131072
    BY <2>1 DEF SamplesPerPacket, One, PacketRate
  <2> QED  BY <2>2 DEF TsInterval, Base, Frac, One
<1>3. /\ TsInterval(32000) = 8 /\ SamplesPerPacket(32000) = 262144
      /\ Base(32000) = 4 /\ Frac(32000) = 0
  <2>1. (32000 \div 100) * 65536 = 20971520
    OBVIOUS
  <2>2. SamplesPerPacket(32000) = 262144
    BY <2>1 DEF SamplesPerPacket, One, PacketRate
  <2> QED  BY <2>2 DEF TsInterval, Base, Frac, One
<1>4. /\ TsInterval(44100) = 8 /\ SamplesPerPacket(44100) = 361267
      /\ Base(44100) = 5 /\ Frac(44100) = 33587
  <2>1. (44100 \div 100) * 65536 = 28901376
    OBVIOUS
  <2>2. SamplesPerPacket(44100) = 361267
    BY <2>1 DEF SamplesPerPacket, One, PacketRate
  <2> QED  BY <2>2 DEF TsInterval, Base, Frac, One
<1>5. /\ TsInterval(48000) = 8 /\ SamplesPerPacket(48000) = 393216
      /\ Base(48000) = 6 /\ Frac(48000) = 0
  <2>1. (48000 \div 100) * 65536 = 31457280
    OBVIOUS
  <2>2. SamplesPerPacket(48000) = 393216
    BY <2>1 DEF SamplesPerPacket, One, PacketRate
  <2> QED  BY <2>2 DEF TsInterval, Base, Frac, One
<1>6. /\ TsInterval(88200) = 16 /\ SamplesPerPacket(88200) = 722534
      /\ Base(88200) = 11 /\ Frac(88200) = 1638
  <2>1. (88200 \div 100) * 65536 = 57802752
    OBVIOUS
  <2>2. SamplesPerPacket(88200) = 722534
    BY <2>1 DEF SamplesPerPacket, One, PacketRate
  <2> QED  BY <2>2 DEF TsInterval, Base, Frac, One
<1>7. /\ TsInterval(96000) = 16 /\ SamplesPerPacket(96000) = 786432
      /\ Base(96000) = 12 /\ Frac(96000) = 0
  <2>1. (96000 \div 100) * 65536 = 62914560
    OBVIOUS
  <2>2. SamplesPerPacket(96000) = 786432
    BY <2>1 DEF SamplesPerPacket, One, PacketRate
  <2> QED  BY <2>2 DEF TsInterval, Base, Frac, One
<1>8. /\ TsInterval(176400) = 32 /\ SamplesPerPacket(176400) = 1445068
      /\ Base(176400) = 22 /\ Frac(176400) = 3276
  <2>1. (176400 \div 100) * 65536 = 115605504
    OBVIOUS
  <2>2. SamplesPerPacket(176400) = 1445068
    BY <2>1 DEF SamplesPerPacket, One, PacketRate
  <2> QED  BY <2>2 DEF TsInterval, Base, Frac, One
<1>9. /\ TsInterval(192000) = 32 /\ SamplesPerPacket(192000) = 1572864
      /\ Base(192000) = 24 /\ Frac(192000) = 0
  <2>1. (192000 \div 100) * 65536 = 125829120
    OBVIOUS
  <2>2. SamplesPerPacket(192000) = 1572864
    BY <2>1 DEF SamplesPerPacket, One, PacketRate
  <2> QED  BY <2>2 DEF TsInterval, Base, Frac, One
<1>11. CASE r = 8000  BY <1>1, <1>11 DEF One
<1>12. CASE r = 16000  BY <1>2, <1>12 DEF One
<1>13. CASE r = 32000  BY <1>3, <1>13 DEF One
<1>14. CASE r = 44100  BY <1>4, <1>14 DEF One
<1>15. CASE r = 48000  BY <1>5, <1>15 DEF One
<1>16. CASE r = 88200  BY <1>6, <1>16 DEF One
<1>17. CASE r = 96000  BY <1>7, <1>17 DEF One
<1>18. CASE r = 176400  BY <1>8, <1>18 DEF One
<1>19. CASE r = 192000  BY <1>9, <1>19 DEF One
<1> QED  BY <1>11, <1>12, <1>13, <1>14, <1>15, <1>16, <1>17, <1>18, <1>19 DEF KnownRates

\* Of a packet's samples at most one has a number that is a multiple of the interval.
LEMMA OneDue ==
  ASSUME NEW n \in {1, 2, 8, 16, 32}, NEW d \in Nat,
         NEW j \in 0..(n - 1), NEW k \in 0..(n - 1),
         (d + j) % n = 0, (d + k) % n = 0
  PROVE  j = k
<1>1. CASE n = 1   BY <1>1
<1>2. CASE n = 2   BY <1>2
<1>3. CASE n = 8   BY <1>3
<1>4. CASE n = 16  BY <1>4
<1>5. CASE n = 32  BY <1>5
<1> QED  BY <1>1, <1>2, <1>3, <1>4, <1>5

\* The first waiting packet is one of those that wait.
LEMMA MinIn ==
  ASSUME NEW S \in SUBSET Nat, S # {}
  PROVE  Min(S) \in S
<1> DEFINE R == {pair \in Nat \X Nat : pair[1] < pair[2]}
<1>1. IsWellFoundedOn(R, Nat)
  BY NatLessThanWellFounded DEF OpToRel
<1> HIDE DEF R
<1>2. PICK x \in S : \A y \in S : ~(<<y, x>> \in R)
  BY <1>1, WFMin, Zenon
<1>3. ASSUME NEW y \in S, y < x PROVE FALSE
  <2>1. <<y, x>> \in R
    BY <1>3 DEF R
  <2> QED  BY <1>2, <2>1
<1>4. \A y \in S : x <= y
  BY <1>3
<1> QED  BY <1>4, Zenon DEF Min

------------------------------------------------------------------------------
(* One frame of a stream.                                                   *)

\* A packet has at least one sample and no more than the interval, unless the
\* accumulator has a carry that this rate cannot produce.
LEMMA SamplesFacts ==
  ASSUME NEW t \in StreamInfo, rate \in KnownRates
  PROVE  /\ SamplesInPacket(t) \in Nat /\ SamplesInPacket(t) >= 1
         /\ Number(t) \in Nat
         /\ TsInterval(rate) \in {1, 2, 8, 16, 32}
BY RateFacts DEF SamplesInPacket, Number, StreamInfo

\* The end of a packet starts the next one.
LEMMA SampledLast ==
  ASSUME NEW t \in StreamInfo, rate \in KnownRates, Completes(t)
  PROVE  /\ Sampled(t) \in StreamInfo
         /\ Sampled(t).current = 0 /\ Sampled(t).tv = FALSE
         /\ Sampled(t).made = t.made + 1
         /\ Sampled(t).dbc = t.dbc + SamplesInPacket(t)
         /\ Sampled(t).rem = IF SamplesInPacket(t) > Base(rate)
                              THEN (t.rem + Frac(rate)) % One ELSE t.rem + Frac(rate)
<1> DEFINE rem == IF SamplesInPacket(t) > Base(rate)
                  THEN (t.rem + Frac(rate)) % One ELSE t.rem + Frac(rate)
           d == t.dbc + SamplesInPacket(t)
           q == (t.seq + 1) % 256
           m == t.made + 1
<1>1. rem \in Nat
  <2>1. t.rem + Frac(rate) \in Nat
    BY RateFacts DEF StreamInfo
  <2>2. (t.rem + Frac(rate)) % One \in Nat
    BY <2>1 DEF One
  <2> QED  BY <2>1, <2>2
<1>2. d \in Nat /\ m \in Nat /\ q \in Nat
  BY SamplesFacts DEF StreamInfo
<1>3. Sampled(t) = [t EXCEPT !.rem = rem, !.dbc = d, !.seq = q, !.current = 0, !.tv = FALSE, !.made = m]
  BY DEF Sampled
<1> HIDE DEF rem, d, q, m
<1>4. /\ Sampled(t).current = 0 /\ Sampled(t).tv = FALSE
      /\ Sampled(t).made = m /\ Sampled(t).dbc = d /\ Sampled(t).rem = rem
  BY <1>3 DEF StreamInfo
<1>5. Sampled(t) \in StreamInfo
  <2>1. [t EXCEPT !.rem = rem, !.dbc = d, !.seq = q] \in StreamInfo
    BY <1>1, <1>2, Zenon DEF StreamInfo
  <2>2. ASSUME NEW u \in StreamInfo
        PROVE  [u EXCEPT !.current = 0, !.tv = FALSE, !.made = m] \in StreamInfo
    BY <1>2, Zenon DEF StreamInfo
  <2> QED  BY <1>3, <2>1, <2>2, Zenon
<1> QED  BY <1>4, <1>5 DEF rem, d, m

\* Any other sample extends the packet, and takes the timestamp if it is due.
LEMMA SampledOther ==
  ASSUME NEW t \in StreamInfo, rate \in KnownRates, ~Completes(t)
  PROVE  /\ Sampled(t) \in StreamInfo
         /\ Sampled(t).current = t.current + 1
         /\ Sampled(t).tv = (t.tv \/ Stamps(t))
         /\ Sampled(t).ts = IF Stamps(t) THEN Number(t) ELSE t.ts
         /\ Sampled(t).made = t.made /\ Sampled(t).dbc = t.dbc /\ Sampled(t).rem = t.rem
<1> DEFINE v == (t.tv \/ Stamps(t))
           ts == IF Stamps(t) THEN Number(t) ELSE t.ts
           c == t.current + 1
<1>1. ts \in Nat /\ c \in Nat
  BY SamplesFacts DEF StreamInfo
<1>2. v \in BOOLEAN
  BY Zenon
<1>3. Sampled(t) = [t EXCEPT !.tv = v, !.ts = ts, !.current = c]
  BY DEF Sampled
<1> HIDE DEF v, ts, c
<1>4. /\ Sampled(t).current = c /\ Sampled(t).tv = v /\ Sampled(t).ts = ts
      /\ Sampled(t).made = t.made /\ Sampled(t).dbc = t.dbc /\ Sampled(t).rem = t.rem
  BY <1>3 DEF StreamInfo
<1>5. Sampled(t) \in StreamInfo
  BY <1>1, <1>2, <1>3, Zenon DEF StreamInfo
<1> QED  BY <1>4, <1>5 DEF v, ts, c

\* A frame writes one word of the packet and keeps the others.
LEMMA WrittenWord ==
  ASSUME NEW t \in StreamInfo, NEW b, b.word \in Words, rate \in KnownRates
  PROVE  LET w == Written(t, b)
         IN /\ w = [header |-> w.header, word |-> w.word] /\ w.word \in Words
            /\ DOMAIN w.word = DOMAIN b.word \cup {t.current}
            /\ w.word[t.current] = Number(t)
            /\ \A k \in DOMAIN b.word : k # t.current => w.word[k] = b.word[k]
<1> DEFINE word == [k \in DOMAIN b.word \cup {t.current} |->
                      IF k = t.current THEN Number(t) ELSE b.word[k]]
<1>1. Written(t, b).word = word /\ Written(t, b) = [header |-> Written(t, b).header, word |-> word]
  BY Zenon DEF Written
<1>2. PICK D \in SUBSET Nat : b.word \in [D -> Nat]
  BY DEF Words
<1>3. word \in [D \cup {t.current} -> Nat] /\ D \cup {t.current} \in SUBSET Nat
  BY <1>2, SamplesFacts, Zenon DEF StreamInfo
<1>4. word \in Words
  BY <1>3, Zenon DEF Words
<1> QED  BY <1>1, <1>4, Zenon

------------------------------------------------------------------------------
(* Types.                                                                   *)

\* A stream that was just configured has no sample and owes none.
LEMMA FreshInfo == /\ Fresh \in StreamInfo /\ [Fresh EXCEPT !.active = 0] \in StreamInfo
                   /\ Fresh.current = 0 /\ [Fresh EXCEPT !.active = 0].current = 0
                   /\ Fresh.tv = FALSE /\ [Fresh EXCEPT !.active = 0].tv = FALSE
                   /\ Fresh.made = 0 /\ [Fresh EXCEPT !.active = 0].made = 0
                   /\ Fresh.dbc = 0 /\ [Fresh EXCEPT !.active = 0].dbc = 0
                   /\ Fresh.rem = 0 /\ [Fresh EXCEPT !.active = 0].rem = 0
BY Zenon DEF Fresh, StreamInfo

\* The talker starts with no stream configured.
LEMMA TalkerInit == StreamInit => TalkerType
<1> SUFFICES ASSUME StreamInit PROVE TalkerType
  OBVIOUS
<1>1. stream \in [Streams -> StreamInfo]
  BY FreshInfo DEF StreamInit
<1>2. ASSUME NEW i \in Streams
      PROVE  /\ txBuf[i] = [header |-> txBuf[i].header, word |-> txBuf[i].word]
             /\ txBuf[i].word \in Words
  <2>1. txBuf[i] = [header |-> BlankHeader, word |-> [k \in {} |-> 0]]
    BY DEF StreamInit
  <2>2. [k \in {} |-> 0] \in [{} -> Nat] /\ {} \in SUBSET Nat
    OBVIOUS
  <2>3. [k \in {} |-> 0] \in Words
    BY <2>2, Zenon DEF Words
  <2> QED  BY <2>1, <2>3
<1>3. held \in [Streams -> BOOLEAN]
  BY Zenon DEF StreamInit
<1> QED  BY <1>1, <1>2, <1>3, Zenon DEF TalkerType, StreamInit

\* A command of the AVB manager changes the state of a stream only.
LEMMA CommandType ==
  ASSUME TalkerType, NEW i \in Streams, ConfigureTalker(i) \/ Go(i) \/ Stop(i)
  PROVE  TalkerType'
<1>1. CASE ConfigureTalker(i)
  <2>1. stream' \in [Streams -> StreamInfo]
    BY <1>1, FreshInfo DEF ConfigureTalker, TalkerType
  <2>2. DOMAIN txBuf' = Streams
    BY <1>1 DEF ConfigureTalker, TalkerType
  <2>3. ASSUME NEW j \in Streams
        PROVE  /\ txBuf'[j] = [header |-> txBuf'[j].header, word |-> txBuf'[j].word]
               /\ txBuf'[j].word \in Words
    BY <1>1 DEF ConfigureTalker, TalkerType
  <2> QED  BY <1>1, <2>1, <2>2, <2>3, Zenon DEF ConfigureTalker, TalkerType
<1>2. CASE Go(i)
  <2>1. [stream[i] EXCEPT !.active = 2, !.seq = 0] \in StreamInfo
    BY ZenonT(40) DEF TalkerType, StreamInfo
  <2>2. stream' = [stream EXCEPT ![i] = [stream[i] EXCEPT !.active = 2, !.seq = 0]]
    BY <1>2, Zenon DEF Go, TalkerType
  <2>3. stream' \in [Streams -> StreamInfo]
    BY <2>1, <2>2 DEF TalkerType
  <2> QED  BY <1>2, <2>3, Zenon DEF Go, TalkerType
<1>3. CASE Stop(i)
  <2>1. [stream[i] EXCEPT !.active = 1] \in StreamInfo
    BY DEF TalkerType, StreamInfo
  <2>2. stream' \in [Streams -> StreamInfo]
    BY <1>3, <2>1 DEF Stop, TalkerType
  <2> QED  BY <1>3, <2>2 DEF Stop, TalkerType
<1> QED  BY <1>1, <1>2, <1>3

\* A frame keeps the types.
LEMMA SendType ==
  ASSUME TalkerType, SendPackets
  PROVE  TalkerType'
<1>0. rate \in KnownRates
  BY StreamAssumption DEF TalkerType, KnownRates
<1>1. ASSUME NEW i \in Streams
      PROVE  stream[i] \in StreamInfo /\ Sampled(stream[i]) \in StreamInfo
             /\ SamplesInPacket(stream[i]) \in Nat
  BY <1>0, SampledLast, SampledOther, SamplesFacts, Zenon DEF TalkerType
<1>2. stream' \in [Streams -> StreamInfo]
  BY <1>1, Zenon DEF SendPackets
<1>3. ASSUME NEW i \in Streams
      PROVE  /\ txBuf'[i] = [header |-> txBuf'[i].header, word |-> txBuf'[i].word]
             /\ txBuf'[i].word \in Words
  <2>1. CASE i \in Streaming
    <3>1. txBuf'[i] = Written(stream[i], txBuf[i])
      BY <2>1, Zenon DEF SendPackets
    <3>2. txBuf[i].word \in Words
      BY DEF TalkerType
    <3> QED  BY <3>1, <3>2, <1>0, <1>1, WrittenWord
  <2>2. CASE i \notin Streaming
    <3>1. txBuf'[i] = txBuf[i]
      BY <2>2, Zenon DEF SendPackets
    <3> QED  BY <3>1 DEF TalkerType
  <2> QED  BY <2>1, <2>2
<1>4. fillSize' \in [Streams -> Nat]
  <2>1. fillSize' = [i \in Streams |-> IF i \in Sent THEN 0 ELSE IF i \in Waiting THEN fillSize[i]
                                      ELSE IF i \in NowWaiting THEN SamplesInPacket(stream[i]) ELSE 0]
    BY Zenon DEF SendPackets
  <2>2. \A i \in Streams : fillSize[i] \in Nat /\ SamplesInPacket(stream[i]) \in Nat
    BY <1>1 DEF TalkerType
  <2> QED  BY <2>1, <2>2
<1>5. held' \in [Streams -> BOOLEAN]
  <2>1. held' = [i \in Streams |-> i \in NowWaiting \ Sent]
    BY Zenon DEF SendPackets
  <2>2. \A i \in Streams : (i \in NowWaiting \ Sent) \in BOOLEAN
    OBVIOUS
  <2> QED  BY <2>1, <2>2, Zenon
<1> QED  BY <1>2, <1>3, <1>4, <1>5, Zenon DEF SendPackets, TalkerType

\* Every step keeps the types.
LEMMA TalkerStep == TalkerType /\ [StreamNext]_streamVars => TalkerType'
<1> SUFFICES ASSUME TalkerType, [StreamNext]_streamVars PROVE TalkerType'
  OBVIOUS
<1>1. CASE \E i \in Streams : ConfigureTalker(i) \/ Go(i) \/ Stop(i)
  BY <1>1, CommandType
<1>2. CASE SendPackets
  BY <1>2, SendType
<1>3. CASE LosePacket \/ Learn \/ Process \/ UNCHANGED streamVars
  <2>1. UNCHANGED <<rate, stream, txBuf, fillSize, held>>
    BY <1>3, Zenon DEF LosePacket, Learn, Process, streamVars, talker
  <2> QED  BY <2>1, Zenon DEF TalkerType
<1> QED  BY <1>1, <1>2, <1>3 DEF StreamNext

\* What the talker keeps of its streams stays of its type.
THEOREM TalkerAlways == StreamSpec => []TalkerType
BY TalkerInit, TalkerStep, PTL DEF StreamSpec

------------------------------------------------------------------------------
(* The sample rate.                                                         *)

\* A stream that has made nothing owes nothing, and what is owed is an integer.
LEMMA AccountFresh ==
  ASSUME NEW t, t.rem = 0, t.made = 0, t.dbc = 0, rate \in KnownRates
  PROVE  Accounted(t)
<1>1. Frac(rate) \in Nat /\ Frac(rate) < One /\ SamplesPerPacket(rate) \in Nat
  BY RateFacts
<1>2. Owed(t) = 0
  BY <1>1 DEF Owed, One
<1>3. Behind(t) >= 0 /\ t.made * (2 * Frac(rate) - One) = 0
  BY <1>1 DEF Behind, One
<1>4. Behind(t) \in Int
  BY <1>1 DEF Behind, One
<1> QED  BY <1>1, <1>2, <1>3, <1>4 DEF Accounted, One

\* Only these three fields count.
LEMMA AccountSame ==
  ASSUME NEW t, NEW u, u.rem = t.rem, u.made = t.made, u.dbc = t.dbc, Accounted(t)
  PROVE  Accounted(u)
BY DEF Accounted, Owed, Behind

\* A packet's samples and the accumulator after it make up the nominal size.
LEMMA AccountSample ==
  ASSUME NEW t \in StreamInfo, rate \in KnownRates, Accounted(t)
  PROVE  Accounted(Sampled(t))
<1> DEFINE S == SamplesPerPacket(rate)
           F == Frac(rate)
           B == Base(rate)
           u == Sampled(t)
           n == SamplesInPacket(t)
           E == 2 * F - One
<1>1. S \in Nat /\ F \in Nat /\ B \in Nat /\ F < One /\ S = B * One + F
  BY RateFacts
<1>2. t.rem \in Nat /\ t.made \in Nat /\ t.dbc \in Nat
  BY DEF StreamInfo
<1>3. CASE ~Completes(t)
  BY <1>3, SampledOther, AccountSame, Zenon
<1>4. CASE Completes(t)
  <2>1. /\ u.made = t.made + 1 /\ u.dbc = t.dbc + n
        /\ u.rem = IF n > B THEN (t.rem + F) % One ELSE t.rem + F
    BY <1>4, SampledLast, Zenon
  <2>2. n = B + IF t.rem >= One THEN 1 ELSE 0
    BY DEF SamplesInPacket
  <2>3. Owed(t) = t.made * S - t.dbc * One /\ Owed(u) = u.made * S - u.dbc * One
    BY DEF Owed
  <2>4. IF 2 * F <= One
        THEN t.rem < One + F /\ Owed(t) = t.rem
        ELSE /\ t.rem < 2 * One /\ Owed(t) >= t.rem
             /\ Owed(t) + t.rem <= t.made * E + Behind(t)
    BY DEF Accounted
  <2>5. SUFFICES IF 2 * F <= One
                 THEN u.rem < One + F /\ Owed(u) = u.rem
                 ELSE /\ u.rem < 2 * One /\ Owed(u) >= u.rem
                      /\ Owed(u) + u.rem <= u.made * E + Behind(u)
    BY DEF Accounted
  <2>6. /\ Behind(t) = IF t.rem < One - F THEN 0 ELSE IF t.rem < One THEN One ELSE 2 * One
        /\ Behind(u) = IF u.rem < One - F THEN 0 ELSE IF u.rem < One THEN One ELSE 2 * One
    BY DEF Behind
  <2> HIDE DEF S, F, B, u, n
  <2>7. (t.made + 1) * S = t.made * S + S /\ t.made * S \in Int
    BY <1>1, <1>2
  <2>8. E \in Int
    BY <1>1 DEF One
  <2> HIDE DEF E
  <2>9. (t.made + 1) * E = t.made * E + E /\ t.made * E \in Int
    BY <2>8, <1>2
  <2> USE DEF One
  <2>10. CASE t.rem < One
    <3>1. n = B /\ u.rem = t.rem + F
      BY <2>1, <2>2, <2>10, <1>1, <1>2
    <3>2. Owed(u) = Owed(t) + F
      BY <3>1, <2>1, <2>3, <2>7, <1>1, <1>2
    <3>3. CASE 2 * F <= One
      BY <3>1, <3>2, <3>3, <2>4, <2>10, <1>1, <1>2
    <3>4. CASE 2 * F > One
      <4>1. Owed(t) \in Int
        BY <2>3, <2>7, <1>2
      <4>2. Behind(u) >= Behind(t) + One
        BY <2>6, <3>1, <3>4, <2>10, <1>1, <1>2
      <4>3. Behind(t) \in Int /\ Behind(u) \in Int
        BY <2>6
      <4>4. u.made * E = t.made * E + 2 * F - One
        BY <2>1, <2>9, <1>1 DEF E
      <4> QED  BY <4>1, <4>2, <4>3, <4>4, <3>1, <3>2, <3>4, <2>4, <2>9, <2>10, <1>1, <1>2
    <3> QED  BY <3>3, <3>4, <1>1
  <2>11. CASE t.rem >= One
    <3>1. n = B + 1 /\ u.rem = (t.rem + F) % One
      BY <2>1, <2>2, <2>11, <1>1, <1>2
    <3>2. Owed(u) = Owed(t) + F - One
      <4>1. Owed(u) = (t.made * S + S) - (t.dbc + (B + 1)) * One
        BY <3>1, <2>1, <2>3, <2>7
      <4>2. t.made * S \in Int
        BY <2>7
      <4> QED  BY <4>1, <4>2, <2>3, <1>1, <1>2
    <3>3. CASE 2 * F <= One
      <4>1. u.rem = t.rem + F - One
        BY <3>1, <3>3, <2>4, <2>11, <1>1, <1>2
      <4> QED  BY <4>1, <3>2, <3>3, <2>4, <2>11, <1>1, <1>2
    <3>4. CASE 2 * F > One
      <4>1. Owed(t) \in Int
        BY <2>3, <2>7, <1>2
      <4>2. u.made * E = t.made * E + 2 * F - One
        BY <2>1, <2>9, <1>1 DEF E
      <4>3. Behind(t) = 2 * One /\ Behind(u) \in Int
        BY <2>6, <2>11, <1>1, <1>2
      <4>4. CASE t.rem + F < 2 * One
        <5>1. u.rem = t.rem + F - One
          BY <3>1, <4>4, <2>11, <1>1, <1>2
        <5>2. Behind(u) >= One
          BY <5>1, <2>6, <2>11, <3>4, <1>1, <1>2
        <5> QED  BY <4>1, <4>2, <4>3, <5>1, <5>2, <3>2, <3>4, <2>4, <2>9, <2>11, <1>1, <1>2
      <4>5. CASE t.rem + F >= 2 * One
        <5>1. u.rem = t.rem + F - 2 * One
          BY <3>1, <4>5, <2>4, <3>4, <1>1, <1>2
        <5>2. Behind(u) >= 0
          BY <2>6
        <5> QED  BY <4>1, <4>2, <4>3, <5>1, <5>2, <3>2, <3>4, <2>4, <2>9, <2>11, <1>1, <1>2
      <4> QED  BY <4>4, <4>5, <1>1, <1>2
    <3> QED  BY <3>3, <3>4, <1>1
  <2> QED  BY <2>10, <2>11, <1>2
<1> QED  BY <1>3, <1>4

\* Nothing is made and nothing is owed at the start.
LEMMA AccountInit == StreamInit => AccountInv
<1> SUFFICES ASSUME StreamInit, NEW i \in Streams PROVE Accounted(stream[i])
  BY DEF AccountInv
<1>1. rate \in KnownRates
  BY StreamAssumption DEF StreamInit, KnownRates
<1>2. stream[i].rem = 0 /\ stream[i].made = 0 /\ stream[i].dbc = 0
  BY FreshInfo, Zenon DEF StreamInit
<1> QED  BY <1>1, <1>2, AccountFresh, Zenon

\* Every step keeps the account.
LEMMA AccountStep == TalkerType /\ AccountInv /\ [StreamNext]_streamVars => AccountInv'
<1> SUFFICES ASSUME TalkerType, AccountInv, [StreamNext]_streamVars, rate' = rate,
                    NEW i \in Streams
             PROVE  Accounted(stream'[i])
  <2>1. ASSUME [StreamNext]_streamVars PROVE rate' = rate
    BY <2>1, Zenon DEF StreamNext, ConfigureTalker, Go, Stop, SendPackets, LosePacket, Learn, Process, streamVars
  <2> QED  BY <2>1 DEF AccountInv, Accounted, Owed, Behind, SamplesPerPacket, Frac
<1>0. rate \in KnownRates
  BY StreamAssumption DEF TalkerType, KnownRates
<1>a. stream[i] \in StreamInfo /\ Accounted(stream[i])
  BY Zenon DEF TalkerType, AccountInv
<1>1. CASE \E j \in Streams : ConfigureTalker(j) \/ Go(j) \/ Stop(j)
  <2>1. PICK j \in Streams : ConfigureTalker(j) \/ Go(j) \/ Stop(j)
    BY <1>1
  <2>2. CASE ConfigureTalker(j) /\ i = j
    <3>1. stream'[i] = Fresh
      BY <2>2 DEF ConfigureTalker, TalkerType
    <3> QED  BY <3>1, <1>0, FreshInfo, AccountFresh, Zenon
  <2>3. CASE ~(ConfigureTalker(j) /\ i = j)
    <3>1. stream'[i].rem = stream[i].rem /\ stream'[i].made = stream[i].made /\ stream'[i].dbc = stream[i].dbc
      BY <2>1, <2>3 DEF ConfigureTalker, Go, Stop, TalkerType, StreamInfo
    <3> QED  BY <3>1, <1>a, AccountSame, Zenon
  <2> QED  BY <2>2, <2>3, Zenon
<1>2. CASE SendPackets
  <2>1. stream'[i] = IF i \in Streaming THEN Sampled(stream[i]) ELSE stream[i]
    BY <1>2, Zenon DEF SendPackets
  <2> QED  BY <2>1, <1>0, <1>a, AccountSample, Zenon
<1>3. CASE LosePacket \/ Learn \/ Process \/ UNCHANGED streamVars
  <2>1. stream' = stream
    BY <1>3, Zenon DEF LosePacket, Learn, Process, streamVars, talker
  <2> QED  BY <2>1, <1>a, Zenon
<1> QED  BY <1>1, <1>2, <1>3, Zenon DEF StreamNext

\* However long a stream runs, its packets keep to the sample rate, at 44.1 kHz
\* up to the carries the mask drops: AccumulatorExact.
THEOREM AccumulatorTheorem == StreamSpec => []AccumulatorExact
<1>1. TalkerType /\ AccountInv => AccumulatorExact
  <2> SUFFICES ASSUME TalkerType, AccountInv, NEW i \in Streams
               PROVE  LET due == Owed(stream[i])
                          excess == IF 2 * Frac(rate) > One THEN 2 * Frac(rate) - One ELSE 0
                      IN 0 <= due /\ due < 2 * One + stream[i].made * excess
    BY DEF AccumulatorExact, Owed
  <2>1. Accounted(stream[i])
    BY DEF AccountInv
  <2>2. stream[i].rem \in Nat /\ stream[i].made \in Nat /\ stream[i].dbc \in Nat
    BY DEF TalkerType, StreamInfo
  <2>3. Frac(rate) \in Nat /\ Frac(rate) < One /\ SamplesPerPacket(rate) \in Nat
    BY StreamAssumption, RateFacts DEF TalkerType, KnownRates
  <2>4. Owed(stream[i]) \in Int
    BY <2>2, <2>3 DEF Owed, One
  <2>5. CASE 2 * Frac(rate) <= One
    BY <2>1, <2>2, <2>3, <2>4, <2>5 DEF One, Accounted
  <2>6. CASE 2 * Frac(rate) > One
    <3> DEFINE ahead == stream[i].made * (2 * Frac(rate) - One)
    <3>1. ahead \in Int
      BY <2>2, <2>3 DEF One
    <3>2. /\ Owed(stream[i]) >= stream[i].rem
          /\ Owed(stream[i]) + stream[i].rem <= ahead + Behind(stream[i])
      BY <2>1, <2>3, <2>6 DEF Accounted, One
    <3> HIDE DEF ahead
    <3>3. Behind(stream[i]) \in Int /\ Behind(stream[i]) - stream[i].rem < 2 * One
      BY <2>2, <2>3 DEF Behind, One
    <3>4. 0 <= Owed(stream[i]) /\ Owed(stream[i]) < 2 * One + ahead
      BY <3>1, <3>2, <3>3, <2>2, <2>4 DEF One
    <3> QED  BY <3>4, <2>6 DEF ahead
  <2> QED  BY <2>5, <2>6, <2>3 DEF One
<1> QED  BY <1>1, AccountInit, AccountStep, TalkerAlways, PTL DEF StreamSpec

------------------------------------------------------------------------------
(* Packets.                                                                 *)

\* A frame takes a packet that is being filled to one that is being filled.
LEMMA FilledSampled ==
  ASSUME NEW t \in StreamInfo, NEW b, b.word \in Words, rate \in KnownRates,
         SamplesInPacket(t) <= TsInterval(rate), Filled(t, b)
  PROVE  Filled(Sampled(t), Written(t, b))
<1> DEFINE u == Sampled(t)
           w == Written(t, b)
           n == TsInterval(rate)
<1>t. /\ t.current \in Nat /\ t.dbc \in Nat /\ t.ts \in Nat
      /\ SamplesInPacket(t) \in Nat /\ SamplesInPacket(t) >= 1
      /\ n \in {1, 2, 8, 16, 32}
  BY SamplesFacts DEF StreamInfo
<1>1. CASE Completes(t)
  <2>1. u \in StreamInfo /\ u.current = 0 /\ u.tv = FALSE
    BY <1>1, SampledLast, Zenon
  <2>2. SamplesInPacket(u) \in Nat /\ SamplesInPacket(u) >= 1
    BY <2>1, SamplesFacts
  <2> HIDE DEF u, w, n
  <2>3. Filled(u, w)
    BY <2>1, <2>2 DEF Filled
  <2> QED  BY <2>3 DEF u, w
<1>2. CASE ~Completes(t)
  <2>1. /\ u.current = t.current + 1 /\ u.dbc = t.dbc /\ u.rem = t.rem
        /\ u.tv = (t.tv \/ Stamps(t))
        /\ u.ts = IF Stamps(t) THEN t.dbc + t.current ELSE t.ts
    BY <1>2, SampledOther DEF Number
  <2>2. /\ DOMAIN w.word = DOMAIN b.word \cup {t.current}
        /\ w.word[t.current] = t.dbc + t.current
        /\ \A k \in DOMAIN b.word : k # t.current => w.word[k] = b.word[k]
    BY WrittenWord DEF Number
  <2>3. /\ t.current < SamplesInPacket(t)
        /\ \A k \in 0..(t.current - 1) : k \in DOMAIN b.word /\ b.word[k] = t.dbc + k
        /\ t.tv <=> \E k \in 0..(t.current - 1) : (t.dbc + k) % n = 0
        /\ \A k \in 0..(t.current - 1) : (t.dbc + k) % n = 0 => t.ts = t.dbc + k
    BY DEF Filled
  <2>4. Stamps(t) <=> (t.dbc + t.current) % n = 0
    BY DEF Stamps, Number
  <2>5. u.current < SamplesInPacket(u)
    <3>1. SamplesInPacket(u) = SamplesInPacket(t)
      BY <2>1 DEF SamplesInPacket
    <3>2. t.current + 1 # SamplesInPacket(t)
      BY <1>2 DEF Completes
    <3>3. t.current < SamplesInPacket(t) /\ u.current = t.current + 1
      BY <2>1, <2>3, Zenon
    <3>4. t.current \in Nat /\ SamplesInPacket(t) \in Nat
      BY <1>t
    <3> HIDE DEF u
    <3> QED  BY <3>1, <3>2, <3>3, <3>4
  <2>6. \A k \in 0..t.current : k \in 0..(t.current - 1) \/ k = t.current
    BY <1>t
  <2> HIDE DEF u, w, n
  <2>7. \A k \in 0..t.current : k \in DOMAIN w.word /\ w.word[k] = u.dbc + k
    <3> TAKE k \in 0..t.current
    <3>1. CASE k = t.current
      BY <3>1, <2>1, <2>2, Zenon
    <3>2. CASE k \in 0..(t.current - 1)
      <4>1. k # t.current
        BY <3>2, <1>t
      <4> QED  BY <3>2, <4>1, <2>1, <2>2, <2>3
    <3> QED  BY <3>1, <3>2, <2>6
  <2>8. u.tv <=> \E k \in 0..t.current : (u.dbc + k) % n = 0
    <3>1. t.current \in 0..t.current /\ \A k \in 0..(t.current - 1) : k \in 0..t.current
      BY <1>t
    <3>2. u.tv <=> (t.tv \/ Stamps(t))
      BY <2>1, Zenon
    <3>3. ASSUME t.tv PROVE \E k \in 0..t.current : (t.dbc + k) % n = 0
      BY <3>1, <3>3, <2>3, Zenon
    <3>4. ASSUME Stamps(t) PROVE \E k \in 0..t.current : (t.dbc + k) % n = 0
      BY <3>1, <3>4, <2>4, Zenon
    <3>5. ASSUME NEW k \in 0..t.current, (t.dbc + k) % n = 0 PROVE t.tv \/ Stamps(t)
      BY <3>5, <2>3, <2>4, <2>6, Zenon
    <3> QED  BY <3>2, <3>3, <3>4, <3>5, <2>1, Zenon
  <2>9. \A k \in 0..t.current : (u.dbc + k) % n = 0 => u.ts = u.dbc + k
    <3> SUFFICES ASSUME NEW k \in 0..t.current, (t.dbc + k) % n = 0
                 PROVE  u.ts = t.dbc + k
      BY <2>1, Zenon
    <3>1. CASE Stamps(t)
      <4>1. k \in 0..(n - 1) /\ t.current \in 0..(n - 1)
        BY <2>3, <1>t DEF n
      <4>2. k = t.current
        BY <4>1, <3>1, <2>4, <1>t, OneDue, Zenon
      <4> QED  BY <3>1, <4>2, <2>1, Zenon
    <3>2. CASE ~Stamps(t)
      <4>1. k \in 0..(t.current - 1)
        BY <3>2, <2>4, <2>6
      <4> QED  BY <3>2, <4>1, <2>1, <2>3, Zenon
    <3> QED  BY <3>1, <3>2, Zenon
  <2>10. 0..(u.current - 1) = 0..t.current
    BY <2>1, <1>t
  <2>11. Filled(u, w)
    BY <2>5, <2>7, <2>8, <2>9, <2>10, Zenon DEF Filled, n
  <2> QED  BY <2>11 DEF u, w
<1> QED  BY <1>1, <1>2

\* A packet of m words is as long as that and holds them in order.
LEMMA PacketWords ==
  ASSUME NEW m \in Nat, NEW d \in Nat, NEW w,
         \A j \in 0..(m - 1) : w[j] = d + j
  PROVE  LET word == [k \in 1..m |-> w[k - 1]]
         IN Len(word) = m /\ \A k \in 1..m : word[k] = d + (k - 1)
<1> DEFINE word == [k \in 1..m |-> w[k - 1]]
<1>1. \A k \in 1..m : k - 1 \in 0..(m - 1) /\ d + (k - 1) \in Nat
  OBVIOUS
<1>2. \A k \in 1..m : w[k - 1] = d + (k - 1)
  BY <1>1
<1>3. \A k \in 1..m : word[k] = d + (k - 1)
  BY <1>2
<1>4. word \in [1..m -> Nat]
  BY <1>1, <1>2
<1>5. word \in Seq(Nat) /\ DOMAIN word = 1..m
  BY <1>4, SeqDef
<1> HIDE DEF word
<1>6. Len(word) = m
  BY <1>5
<1> QED  BY <1>3, <1>6 DEF word

\* The words hold the samples from number d to number d + c.
Consecutive(word, d, c) == \A k \in 1..(c + 1) : word[k] = d + (k - 1)

\* The interval n picks the last of them or one before it, and not both.
OneStamped(word, n, d, c) ==
  /\ ((d + c) % n = 0 \/ \E j \in 0..(c - 1) : (d + j) % n = 0)
       => \E k \in 1..(c + 1) : word[k] % n = 0
  /\ \A k \in 1..(c + 1) : word[k] % n = 0 =>
       \/ (d + c) % n = 0 /\ word[k] = d + c
       \/ (d + c) % n # 0 /\ \E j \in 0..(c - 1) : (d + j) % n = 0 /\ word[k] = d + j

\* That is so when there are at most n of them.
LEMMA StampedWord ==
  ASSUME NEW n \in {1, 2, 8, 16, 32}, NEW d \in Nat, NEW c \in Nat, c + 1 <= n,
         NEW word, Consecutive(word, d, c)
  PROVE  OneStamped(word, n, d, c)
<1>0. \A k \in 1..(c + 1) : word[k] = d + (k - 1)
  BY DEF Consecutive
<1>1. ASSUME NEW k \in 1..(c + 1), word[k] % n = 0
      PROVE  \/ (d + c) % n = 0 /\ word[k] = d + c
             \/ (d + c) % n # 0 /\ \E j \in 0..(c - 1) : (d + j) % n = 0 /\ word[k] = d + j
  <2>1. PICK j \in 0..c : j = k - 1
    OBVIOUS
  <2>2. word[k] = d + j /\ (d + j) % n = 0
    BY <2>1, <1>0, <1>1
  <2>3. CASE j = c
    BY <2>2, <2>3
  <2>4. CASE j # c
    <3>1. j \in 0..(c - 1)
      BY <2>4
    <3>2. (d + c) % n # 0
      <4>1. j \in 0..(n - 1) /\ c \in 0..(n - 1)
        BY <3>1
      <4> QED  BY <4>1, <2>2, <2>4, OneDue, Zenon
    <3> QED  BY <3>1, <3>2, <2>2
  <2> QED  BY <2>3, <2>4
<1>2. ASSUME NEW j \in 0..c, (d + j) % n = 0
      PROVE  \E k \in 1..(c + 1) : word[k] % n = 0
  <2>1. PICK k \in 1..(c + 1) : k - 1 = j
    <3>1. j + 1 \in 1..(c + 1) /\ (j + 1) - 1 = j
      OBVIOUS
    <3> QED  BY <3>1
  <2>2. word[k] = d + j
    BY <2>1, <1>0
  <2> QED  BY <1>2, <2>2
<1>3. c \in 0..c /\ \A j \in 0..(c - 1) : j \in 0..c
  OBVIOUS
<1> QED  BY <1>1, <1>2, <1>3, Zenon DEF OneStamped

\* The packet a stream completes is whole.
LEMMA WholePacket ==
  ASSUME NEW t \in StreamInfo, NEW b, b.word \in Words, rate \in KnownRates,
         SamplesInPacket(t) <= TsInterval(rate), Filled(t, b), Completes(t),
         NEW i, NEW h
  PROVE  Whole([stream |-> i, header |-> Written(t, b).header, held |-> h,
                word |-> [k \in 1..SamplesInPacket(t) |-> Written(t, b).word[k - 1]]])
<1>m. PICK m \in Nat : m = SamplesInPacket(t)
  BY SamplesFacts
<1>n. PICK n \in {1, 2, 8, 16, 32} : n = TsInterval(rate)
  BY SamplesFacts
<1>w. PICK w : w = Written(t, b).word
  OBVIOUS
<1>word. PICK word : word = [k \in 1..m |-> w[k - 1]]
  BY Zenon
<1>t. t.current \in Nat /\ t.dbc \in Nat /\ m <= n /\ t.current + 1 = m
  BY <1>m, <1>n DEF StreamInfo, Completes
<1>1. \A j \in 0..(m - 1) : w[j] = t.dbc + j
  <2>1. /\ DOMAIN w = DOMAIN b.word \cup {t.current}
        /\ w[t.current] = t.dbc + t.current
        /\ \A k \in DOMAIN b.word : k # t.current => w[k] = b.word[k]
    BY <1>w, WrittenWord DEF Number
  <2>2. \A k \in 0..(t.current - 1) : k \in DOMAIN b.word /\ b.word[k] = t.dbc + k
    BY Zenon DEF Filled
  <2>3. \A j \in 0..(m - 1) : j = t.current \/ (j \in 0..(t.current - 1) /\ j # t.current)
    BY <1>t
  <2> QED  BY <2>1, <2>2, <2>3, Zenon
<1>2. Len(word) = m /\ \A k \in 1..m : word[k] = t.dbc + (k - 1)
  BY <1>1, <1>t, <1>word, PacketWords
<1>3. /\ t.tv <=> \E j \in 0..(t.current - 1) : (t.dbc + j) % n = 0
      /\ \A j \in 0..(t.current - 1) : (t.dbc + j) % n = 0 => t.ts = t.dbc + j
  BY <1>n, Zenon DEF Filled
<1>4. Stamps(t) <=> (t.dbc + t.current) % n = 0
  BY <1>n DEF Stamps, Number
<1>5. /\ (t.tv \/ Stamps(t)) <=> \E k \in 1..m : word[k] % n = 0
      /\ \A k \in 1..m : word[k] % n = 0 =>
           word[k] = IF Stamps(t) THEN t.dbc + t.current ELSE IF t.tv THEN t.ts ELSE 0
  <2>1. t.current + 1 <= n /\ Consecutive(word, t.dbc, t.current)
    BY <1>t, <1>2, Zenon DEF Consecutive
  <2>2. OneStamped(word, n, t.dbc, t.current)
    BY <2>1, <1>t, <1>n, StampedWord
  <2>3. (t.tv \/ Stamps(t)) => \E k \in 1..m : word[k] % n = 0
    BY <2>2, <1>3, <1>4, <1>t, Zenon DEF OneStamped
  <2>4. ASSUME NEW k \in 1..m, word[k] % n = 0
        PROVE  \/ Stamps(t) /\ word[k] = t.dbc + t.current
               \/ ~Stamps(t) /\ t.tv /\ word[k] = t.ts
    BY <2>2, <2>4, <1>3, <1>4, <1>t DEF OneStamped
  <2> QED  BY <2>3, <2>4, Zenon
<1>6. PICK header : header = Written(t, b).header
  OBVIOUS
<1>7. /\ header.dbc = t.dbc % DbcMod /\ header.samples = m
      /\ header.tv = (t.tv \/ Stamps(t))
      /\ header.ts = IF Stamps(t) THEN t.dbc + t.current ELSE IF t.tv THEN t.ts ELSE 0
  BY <1>6, <1>m, Zenon DEF Written, Number
<1>8. word[1] = t.dbc /\ \A k \in 1..m : word[k] = word[1] + k - 1
  BY <1>2, <1>t
<1>9. header.tv <=> {k \in 1..m : word[k] % n = 0} # {}
  <2>1. header.tv <=> (t.tv \/ Stamps(t))
    BY <1>7, Zenon
  <2> QED  BY <2>1, <1>5
<1>10. \A k \in {k \in 1..m : word[k] % n = 0} : header.ts = word[k]
  BY <1>5, <1>7, Zenon
<1>11. PICK p : p = [stream |-> i, header |-> header, held |-> h, word |-> word]
  BY Zenon
<1>12. p.header = header /\ p.word = word
  BY <1>11, Zenon
<1>13. Whole(p)
  BY <1>12, <1>2, <1>7, <1>8, <1>9, <1>10, <1>n DEF Whole
<1> QED  BY <1>13, <1>11, <1>6, <1>word, <1>w, <1>m, Zenon

\* A packet is never longer than the timestamp interval, so it has at most one
\* sample to stamp.
LEMMA SamplesFit ==
  ASSUME TalkerType, AccountInv, NEW i \in Streams
  PROVE  SamplesInPacket(stream[i]) <= TsInterval(rate)
<1>1. rate \in KnownRates /\ stream[i].rem \in Nat
  BY StreamAssumption DEF TalkerType, StreamInfo, KnownRates
<1>2. /\ Base(rate) \in Nat /\ Frac(rate) \in Nat /\ TsInterval(rate) \in Nat
      /\ Base(rate) <= TsInterval(rate) /\ (Frac(rate) > 0 => Base(rate) + 1 <= TsInterval(rate))
  BY <1>1, RateFacts
<1>3. CASE Frac(rate) > 0
  BY <1>2, <1>3 DEF SamplesInPacket
<1>4. CASE Frac(rate) = 0
  <2>1. stream[i].rem < One
    <3>1. Accounted(stream[i])
      BY DEF AccountInv
    <3> QED  BY <3>1, <1>4 DEF Accounted, One
  <2> QED  BY <1>1, <1>2, <2>1 DEF SamplesInPacket, One
<1> QED  BY <1>2, <1>3, <1>4

\* A stream that has no sample in its packet yet fills it in order.
LEMMA FilledEmpty ==
  ASSUME NEW t \in StreamInfo, NEW b, rate \in KnownRates, t.current = 0, t.tv = FALSE
  PROVE  Filled(t, b)
BY SamplesFacts DEF Filled

\* No stream has a sample at the start.
LEMMA PacketInit == StreamInit => PacketInv
<1> SUFFICES ASSUME StreamInit PROVE PacketInv
  OBVIOUS
<1>1. rate \in KnownRates
  BY StreamAssumption DEF StreamInit, KnownRates
<1>2. ASSUME NEW i \in Streams PROVE Filled(stream[i], txBuf[i])
  <2>1. stream[i] = [Fresh EXCEPT !.active = 0]
    BY DEF StreamInit
  <2> QED  BY <2>1, <1>1, FreshInfo, FilledEmpty, Zenon
<1>3. link = {} /\ \A i \in Streams : fillSize[i] = 0
  BY DEF StreamInit
<1> QED  BY <1>2, <1>3 DEF PacketInv, PromptPacketsWhole

\* A command restarts a stream or leaves what it has filled alone.
LEMMA PacketCommand ==
  ASSUME TalkerType, PacketInv, NEW j \in Streams, ConfigureTalker(j) \/ Go(j) \/ Stop(j)
  PROVE  PacketInv'
<1>0. rate \in KnownRates
  BY StreamAssumption DEF TalkerType, KnownRates
<1>1. rate' = rate /\ link' = {} /\ fillSize' = fillSize /\ held' = held
  BY Zenon DEF ConfigureTalker, Go, Stop
<1>2. ASSUME NEW i \in Streams PROVE Filled(stream[i], txBuf[i])'
  <2>1. CASE ConfigureTalker(j) /\ i = j
    <3>1. stream'[i] = Fresh
      BY <2>1 DEF ConfigureTalker, TalkerType
    <3>2. Filled(stream'[i], txBuf'[i])
      BY <3>1, <1>0, FreshInfo, FilledEmpty, Zenon
    <3> QED  BY <3>2, <1>1, Zenon DEF Filled, SamplesInPacket
  <2>2. CASE ~(ConfigureTalker(j) /\ i = j)
    <3>1. /\ stream'[i].current = stream[i].current /\ stream'[i].dbc = stream[i].dbc
          /\ stream'[i].rem = stream[i].rem /\ stream'[i].tv = stream[i].tv
          /\ stream'[i].ts = stream[i].ts
      BY <2>2 DEF ConfigureTalker, Go, Stop, TalkerType, StreamInfo
    <3>2. txBuf'[i].word = txBuf[i].word
      BY <2>2, Zenon DEF ConfigureTalker, Go, Stop, TalkerType
    <3>3. Filled(stream[i], txBuf[i])
      BY DEF PacketInv
    <3> QED  BY <3>1, <3>2, <3>3, <1>1 DEF Filled, SamplesInPacket
  <2> QED  BY <2>1, <2>2
<1>3. \A i \in Streams : (fillSize[i] > 0 => held[i])'
  BY <1>1, Zenon DEF PacketInv
<1> QED  BY <1>1, <1>2, <1>3, Zenon DEF PacketInv, PromptPacketsWhole

\* A frame fills every packet further; the packet it sends, unless it waited,
\* is the one this frame completed.
LEMMA PacketSend ==
  ASSUME TalkerType, AccountInv, PacketInv, SendPackets
  PROVE  PacketInv'
<1>0. rate \in KnownRates /\ rate' = rate
  BY StreamAssumption DEF TalkerType, KnownRates, SendPackets
<1>a. ASSUME NEW i \in Streams
      PROVE  /\ stream[i] \in StreamInfo /\ txBuf[i].word \in Words
             /\ Filled(stream[i], txBuf[i]) /\ SamplesInPacket(stream[i]) <= TsInterval(rate)
  BY SamplesFit, Zenon DEF TalkerType, PacketInv
<1>1. ASSUME NEW i \in Streams PROVE Filled(stream[i], txBuf[i])'
  <2>1. CASE i \in Streaming
    <3>1. stream'[i] = Sampled(stream[i]) /\ txBuf'[i] = Written(stream[i], txBuf[i])
      BY <2>1, Zenon DEF SendPackets
    <3>2. Filled(Sampled(stream[i]), Written(stream[i], txBuf[i]))
      BY <1>0, <1>a, FilledSampled, Zenon
    <3>3. Filled(stream'[i], txBuf'[i])
      BY <3>1, <3>2, Zenon
    <3> QED  BY <3>3, <1>0, Zenon DEF Filled, SamplesInPacket
  <2>2. CASE i \notin Streaming
    <3>1. stream'[i] = stream[i] /\ txBuf'[i] = txBuf[i]
      BY <2>2, Zenon DEF SendPackets
    <3>2. Filled(stream'[i], txBuf'[i])
      BY <3>1, <1>a, Zenon
    <3> QED  BY <3>2, <1>0, Zenon DEF Filled, SamplesInPacket
  <2> QED  BY <2>1, <2>2, Zenon
<1>2. ASSUME NEW i \in Streams, fillSize'[i] > 0 PROVE held'[i]
  <2>1. fillSize'[i] = IF i \in Sent THEN 0 ELSE IF i \in Waiting THEN fillSize[i]
                       ELSE IF i \in NowWaiting THEN SamplesInPacket(stream[i]) ELSE 0
    BY Zenon DEF SendPackets
  <2>2. i \in NowWaiting \ Sent
    BY <2>1, <1>2 DEF NowWaiting
  <2>3. held'[i] = (i \in NowWaiting \ Sent)
    BY Zenon DEF SendPackets
  <2> QED  BY <2>2, <2>3, Zenon
<1>3. ASSUME NEW p \in link', ~p.held PROVE Whole(p)'
  <2>1. PICK i \in Sent :
          p = [stream |-> i, header |-> txBuf'[i].header, held |-> held[i],
               word |-> [k \in 1..IF i \in Waiting THEN fillSize[i] ELSE SamplesInPacket(stream[i])
                           |-> txBuf'[i].word[k - 1]]]
    BY Zenon DEF SendPackets
  <2>2. NowWaiting \in SUBSET Nat /\ NowWaiting \subseteq Streams
    <3>1. NowWaiting \subseteq Streams
      BY Zenon DEF NowWaiting, Waiting, Streaming
    <3> QED  BY <3>1, StreamAssumption
  <2>3. i \in NowWaiting
    BY <2>1, <2>2, MinIn, Zenon DEF Sent
  <2>4. ~held[i]
    BY <2>1, <1>3, Zenon
  <2>5. i \notin Waiting
    BY <2>2, <2>3, <2>4, Zenon DEF Waiting, PacketInv
  <2>6. i \in Streams /\ i \in Streaming /\ Completes(stream[i])
    BY <2>2, <2>3, <2>5, Zenon DEF NowWaiting
  <2>7. txBuf'[i] = Written(stream[i], txBuf[i])
    BY <2>6, Zenon DEF SendPackets
  <2>8. p = [stream |-> i, header |-> Written(stream[i], txBuf[i]).header, held |-> held[i],
             word |-> [k \in 1..SamplesInPacket(stream[i])
                         |-> Written(stream[i], txBuf[i]).word[k - 1]]]
    BY <2>1, <2>5, <2>7, Zenon
  <2>9. Whole(p)
    BY <2>6, <2>8, <1>0, <1>a, WholePacket, Zenon
  <2> QED  BY <2>9, <1>0, Zenon DEF Whole
<1> QED  BY <1>1, <1>2, <1>3, Zenon DEF PacketInv, PromptPacketsWhole

\* Every step keeps the packets in order.
LEMMA PacketStep == TalkerType /\ AccountInv /\ PacketInv /\ [StreamNext]_streamVars => PacketInv'
<1> SUFFICES ASSUME TalkerType, AccountInv, PacketInv, [StreamNext]_streamVars PROVE PacketInv'
  OBVIOUS
<1>1. CASE \E i \in Streams : ConfigureTalker(i) \/ Go(i) \/ Stop(i)
  BY <1>1, PacketCommand
<1>2. CASE SendPackets
  BY <1>2, PacketSend
<1>3. CASE LosePacket \/ Learn \/ Process
  <2>1. UNCHANGED <<rate, stream, txBuf, fillSize, held>> /\ link' = {}
    BY <1>3, Zenon DEF LosePacket, Learn, Process, talker
  <2> QED  BY <2>1 DEF PacketInv, PromptPacketsWhole, Filled, SamplesInPacket
<1>4. CASE UNCHANGED streamVars
  BY <1>4 DEF streamVars, PacketInv, PromptPacketsWhole, Whole, Filled, SamplesInPacket
<1> QED  BY <1>1, <1>2, <1>3, <1>4 DEF StreamNext

\* A packet that leaves avb_1722_talker_send_packets without having waited holds
\* consecutive samples, their block count and the timestamp of the sample that
\* is due one, for any number of streams at every rate: PromptPacketsWhole.
THEOREM PromptTheorem == StreamSpec => []PromptPacketsWhole
<1>1. PacketInv => PromptPacketsWhole
  BY DEF PacketInv
<1> QED
  BY <1>1, AccountInit, AccountStep, TalkerAlways, PacketInit, PacketStep, PTL DEF StreamSpec

-----------------------------------------------------------------------------
(***************************************************************************)
(* Proofs about MrpLink for every number of ticks in the timers, every     *)
(* number of lost PDUs and every choice of declarers.  The invariant rests *)
(* on two facts about one state machine step (RegistrarKeepsTimer and      *)
(* RegistrarKeepsPending), which the registrar of avb_mrp.c has because    *)
(* each transition into or out of LV handles the timer, and because the    *)
(* only transition into MT pends a leave indication.                       *)
(***************************************************************************)
USE DEF Off

\* A timer runs exactly in LV: LeaveTimerRunsWhileLeaving for one attribute.
TimerOK(st) == (st.timer # Off) <=> (st.reg = "LV")

\* The registrar returns an attribute and leaves the applicant's fields alone.
LEMMA RegistrarType ==
  ASSUME NEW st \in Attributes, NEW e \in Events, NEW four \in FourPacked
  PROVE  /\ Registrar(e, st, four) \in Attributes
         /\ Registrar(e, st, four).app = st.app
<1> USE DEF Attributes, RegistrarStates, Indications, FourPacked
<1>1. /\ Registered(st) \in Attributes
      /\ Registered(st).app = st.app
  BY Zenon DEF Registered, TimerStates
<1>2. ReceiveNew(st, four) \in Attributes /\ ReceiveNew(st, four).app = st.app
  <2> HIDE DEF Registered
  <2> QED BY <1>1, Zenon DEF ReceiveNew
<1>3. ReceiveJoin(st, four) \in Attributes /\ ReceiveJoin(st, four).app = st.app
  BY <1>1, Zenon DEF ReceiveJoin
<1>4. StartLeaving(st) \in Attributes /\ StartLeaving(st).app = st.app
  <2>1. LeaveTime \in TimerStates
    BY LeaveTimeAssumption DEF TimerStates
  <2> QED BY <2>1, Zenon DEF StartLeaving
<1>5. LeaveTimerExpired(st) \in Attributes /\ LeaveTimerExpired(st).app = st.app
  BY Zenon DEF LeaveTimerExpired, TimerStates
<1>6. LET m == [st EXCEPT !.reg = "MT"]
      IN  m \in Attributes /\ m.app = st.app
  OBVIOUS
<1> HIDE DEF Attributes
<1> QED
  BY <1>2, <1>3, <1>4, <1>5, <1>6 DEF Registrar

\* Each applicant table maps applicant states to applicant states.
LEMMA ApplicantType ==
  ASSUME NEW st \in Attributes, NEW e \in Events
  PROVE  Applicant(e, st) \in ApplicantStates
<1> DEFINE s == st.app
<1>0. s \in ApplicantStates
  BY DEF Attributes
<1>1. ASSUME NEW x \in ApplicantStates
      PROVE  /\ Step(OnJoin, x) \in ApplicantStates
             /\ Step(OnLeave, x) \in ApplicantStates
  BY DEF Step, OnJoin, OnLeave, ApplicantStates, Idle, Observers, Declaring
<1>2. ASSUME NEW x \in ApplicantStates
      PROVE  /\ Step(OnReceiveJoinIn, x) \in ApplicantStates
             /\ Step(OnReceiveIn, x) \in ApplicantStates
             /\ Step(OnReceiveEmpty, x) \in ApplicantStates
  BY DEF Step, OnReceiveJoinIn, OnReceiveIn, OnReceiveEmpty, ApplicantStates,
         Idle, Observers, Declaring
<1>3. ASSUME NEW x \in ApplicantStates
      PROVE  /\ Step(OnReceiveLeave, x) \in ApplicantStates
             /\ Step(OnPeriodic, x) \in ApplicantStates
  BY DEF Step, OnReceiveLeave, OnPeriodic, ApplicantStates, Idle, Observers, Declaring
<1>4. ASSUME NEW x \in ApplicantStates
      PROVE  Step(OnTx(st.reg), x) \in ApplicantStates
  BY DEF Step, OnTx, ApplicantStates, Idle, Observers, Declaring
<1>5. ASSUME NEW x \in ApplicantStates
      PROVE  Step(OnTxLeaveAll, x) \in ApplicantStates
  BY DEF Step, OnTxLeaveAll, ApplicantStates, Idle, Observers, Declaring
<1>6. {"VO", "VN"} \subseteq ApplicantStates
  BY DEF ApplicantStates, Observers, Declaring
<1> QED
  BY <1>0, <1>1, <1>2, <1>3, <1>4, <1>5, <1>6 DEF Applicant

\* mrp_update_state returns an attribute.
LEMMA UpdateStateType ==
  ASSUME NEW st \in Attributes, NEW e \in Events, NEW four \in FourPacked
  PROVE  UpdateState(e, st, four) \in Attributes
<1> DEFINE r == Registrar(e, st, four)
           t == IF Transmits(e, r) THEN DoTx(r) ELSE r
<1>1. r \in Attributes
  BY RegistrarType
<1>2. DoTx(r) \in Attributes
  BY <1>1, Zenon DEF DoTx, Attributes, ApplicantStates, Idle
<1>3. t \in Attributes
  BY <1>1, <1>2
<1>4. Applicant(e, t) \in ApplicantStates
  BY <1>3, ApplicantType
<1> HIDE DEF r, t
<1>5. [t EXCEPT !.app = Applicant(e, t)] \in Attributes
  BY <1>3, <1>4 DEF Attributes
<1> QED
  BY <1>5 DEF UpdateState, r, t

\* The fields of the registrar pass through the rest of mrp_update_state.
LEMMA UpdateStateFields ==
  ASSUME NEW st \in Attributes, NEW e \in Events, NEW four \in FourPacked
  PROVE  /\ UpdateState(e, st, four).reg = Registrar(e, st, four).reg
         /\ UpdateState(e, st, four).timer = Registrar(e, st, four).timer
         /\ UpdateState(e, st, four).pending = Registrar(e, st, four).pending
<1> DEFINE r == Registrar(e, st, four)
           t == IF Transmits(e, r) THEN DoTx(r) ELSE r
<1>1. r \in Attributes
  BY RegistrarType
<1> HIDE DEF r
<1>2. /\ t \in Attributes
      /\ t.reg = r.reg /\ t.timer = r.timer /\ t.pending = r.pending
  BY <1>1, Zenon DEF DoTx, Attributes, ApplicantStates, Idle
<1> HIDE DEF t
<1>3. LET u == [t EXCEPT !.app = Applicant(e, t)]
      IN  u.reg = t.reg /\ u.timer = t.timer /\ u.pending = t.pending
  BY <1>2 DEF Attributes
<1> QED
  BY <1>2, <1>3, Zenon DEF UpdateState, r, t

\* One step keeps the leave timer running exactly in LV.
LEMMA RegistrarKeepsTimer ==
  ASSUME NEW st \in Attributes, NEW e \in Events \ {"BEGIN"}, NEW four \in FourPacked,
         TimerOK(st)
  PROVE  TimerOK(UpdateState(e, st, four))
<1>1. TimerOK(Registrar(e, st, four))
  BY LeaveTimeAssumption
  DEF TimerOK, Registrar, Attributes, Registered, ReceiveNew, ReceiveJoin,
      StartLeaving, LeaveTimerExpired, RegistrarStates
<1> QED
  BY <1>1, UpdateStateFields DEF TimerOK

\* One step never forgets a pending indication, and the registrar only becomes
\* empty by pending a leave indication.
LEMMA RegistrarKeepsPending ==
  ASSUME NEW st \in Attributes, NEW e \in Events \ {"BEGIN"},
         NEW four \in FourPacked, e = "LEAVETIMER" => st.reg = "LV"
  PROVE  LET u == UpdateState(e, st, four)
         IN  /\ st.pending \subseteq u.pending
             /\ u.reg = "MT" =>
                  "LEAVE" \in u.pending \/ (st.reg = "MT" /\ u.pending = st.pending)
<1>1. LET u == Registrar(e, st, four)
      IN  /\ st.pending \subseteq u.pending
          /\ u.reg = "MT" =>
               "LEAVE" \in u.pending \/ (st.reg = "MT" /\ u.pending = st.pending)
  BY DEF Registrar, Attributes, Registered, ReceiveNew, ReceiveJoin,
         StartLeaving, LeaveTimerExpired
<1> QED
  BY <1>1, UpdateStateFields

-----------------------------------------------------------------------------
\* A participant whose registrar is empty has told its application so, or is
\* about to: the strengthening that makes NoStaleJoin inductive.
LeaveOwed(st, told) ==
  st.reg = "MT" => "LEAVE" \in st.pending \/ (st.pending = {} /\ told = "left")

IndInv ==
  /\ TypeOK
  /\ \A n \in Node : TimerOK(attr[n]) /\ LeaveOwed(attr[n], indicated[n])

\* What each operation on one attribute preserves.
Sound(st, told) == st \in Attributes /\ TimerOK(st) /\ LeaveOwed(st, told)

\* Any event but the leave timer keeps an attribute sound.
LEMMA UpdateStateSound ==
  ASSUME NEW st, NEW told, NEW e \in Events \ {"BEGIN"}, NEW four \in FourPacked,
         Sound(st, told), e = "LEAVETIMER" => st.reg = "LV"
  PROVE  Sound(UpdateState(e, st, four), told)
<1>1. UpdateState(e, st, four) \in Attributes
  BY UpdateStateType DEF Sound
<1>2. TimerOK(UpdateState(e, st, four))
  BY RegistrarKeepsTimer DEF Sound
<1>3. LeaveOwed(UpdateState(e, st, four), told)
  <2> DEFINE u == UpdateState(e, st, four)
  <2>1. /\ st.pending \subseteq u.pending
        /\ u.reg = "MT" =>
             "LEAVE" \in u.pending \/ (st.reg = "MT" /\ u.pending = st.pending)
    BY RegistrarKeepsPending, Zenon DEF Sound
  <2> HIDE DEF u
  <2>2. LeaveOwed(u, told)
    BY <2>1 DEF LeaveOwed, Sound
  <2> QED BY <2>2 DEF u
<1> QED BY <1>1, <1>2, <1>3 DEF Sound

\* An event keeps an attribute sound.
LEMMA EventSound ==
  ASSUME NEW st, NEW told, NEW e \in Events \ {"BEGIN", "LEAVETIMER"}, Sound(st, told)
  PROVE  Sound(Event(e, st), told)
BY UpdateStateSound DEF Event, FourPacked

\* Delivering the pending indications keeps an attribute sound.
LEMMA IndicateSound ==
  ASSUME NEW st, NEW told \in {"left", "joined"}, Sound(st, told)
  PROVE  /\ Sound([st EXCEPT !.pending = {}], AfterIndications(st.pending, told))
         /\ AfterIndications(st.pending, told) \in {"left", "joined"}
<1> DEFINE s == [st EXCEPT !.pending = {}]
<1>1. s \in Attributes /\ s.reg = st.reg /\ s.timer = st.timer /\ s.pending = {}
  BY DEF Sound, Attributes
<1>2. AfterIndications(st.pending, told) \in {"left", "joined"}
  BY DEF AfterIndications
<1>3. LeaveOwed(s, AfterIndications(st.pending, told))
  BY <1>1 DEF LeaveOwed, Sound, AfterIndications
<1>4. TimerOK(s)
  BY <1>1 DEF TimerOK, Sound
<1> QED BY <1>1, <1>2, <1>3, <1>4 DEF Sound

\* What a transmit opportunity hands to the wire.
LEMMA TransmittedType ==
  ASSUME NEW st \in Attributes, NEW e \in {"TX", "TX_LEAVE_ALL"}
  PROVE  Transmitted(e, st) \in SUBSET WireEvents
<1>1. ASSUME NEW r, NEW b PROVE MakeTxEvent(r, b) \in WireEvents
  BY DEF MakeTxEvent, WireEvents
<1> QED BY <1>1 DEF Transmitted

\* The link has two ends.
LEMMA PeerType ==
  ASSUME NEW n \in Node
  PROVE  Peer(n) \in Node
BY LinkAssumption DEF Peer

\* The invariant holds at the start.
LEMMA InitInv == Init => IndInv
<1> SUFFICES ASSUME Init PROVE IndInv
  OBVIOUS
<1>1. Slot \in Attributes
  BY DEF Slot, Attributes, ApplicantStates, Idle, RegistrarStates, TimerStates, FourPacked
<1> DEFINE a == [AttributeInit(Slot, TRUE) EXCEPT !.timer = Off]
<1>2. a \in Attributes /\ a.pending = {} /\ a.timer = Off
  BY <1>1, Zenon DEF AttributeInit, Attributes, Slot
<1> HIDE DEF a
<1>3. "BEGIN" \in Events /\ "IGNORE" \in FourPacked /\ Begun = UpdateState("BEGIN", a, "IGNORE")
  BY DEF Events, FourPacked, Begun, MadBegin, a
<1>4. Begun \in Attributes /\ Begun.reg = "MT" /\ Begun.timer = Off /\ Begun.pending = {}
  <2>1. LET r == Registrar("BEGIN", a, "IGNORE")
        IN  r.reg = "MT" /\ r.timer = Off /\ r.pending = {}
    BY <1>2 DEF Registrar, Attributes
  <2> QED BY <1>2, <1>3, <2>1, UpdateStateFields, UpdateStateType
<1> HIDE DEF Begun
<1>5. TypeOK
  <2>1. SettleTime \in Nat
    BY LinkAssumption DEF SettleTime
  <2> QED BY <1>4, <2>1, LinkAssumption DEF Init, TypeOK
<1>6. \A n \in Node : TimerOK(attr[n]) /\ LeaveOwed(attr[n], indicated[n])
  BY <1>4 DEF Init, TimerOK, LeaveOwed
<1> QED BY <1>5, <1>6 DEF IndInv

\* One pass of mrp_periodic over a sound attribute, ending with the leave timer.
LEMMA MrpPeriodicInv ==
  ASSUME IndInv, NEW n \in Node, MrpPeriodic(n)
  PROVE  IndInv'
<1> DEFINE s0 == attr[n]
           s1 == IF periodicTimer[n] = 0 /\ Periodic THEN Event("PERIODIC", s0) ELSE s0
           leaveAll == leaveAllTimer[n] = 0
           s2 == IF leaveAll THEN Event("RECEIVE_LEAVE_ALL", s1) ELSE s1
           active == leaveAll \/ leaveAllActive[n]
           join == joinTimer[n] = 0
           tx == IF active THEN "TX_LEAVE_ALL" ELSE "TX"
           s3 == IF join THEN Event(tx, s2) ELSE s2
           pdu == [leaveAll |-> active, events |-> Transmitted(tx, s2)]
           s4 == [s3 EXCEPT !.pending = {}]
           s5 == IF s4.timer = 0 THEN UpdateState("LEAVETIMER", s4, "IGNORE") ELSE s4
           told == AfterIndications(s3.pending, indicated[n])
<1>0. {"PERIODIC", "RECEIVE_LEAVE_ALL", "TX", "TX_LEAVE_ALL", "LEAVETIMER"}
        \subseteq Events \ {"BEGIN"} /\ "IGNORE" \in FourPacked
  BY DEF Events, ReceiveEvents, FourPacked
<1>1. Sound(s0, indicated[n]) /\ indicated[n] \in {"left", "joined"}
  BY DEF IndInv, TypeOK, Sound
<1>2. Sound(s1, indicated[n])
  BY <1>0, <1>1, EventSound
<1>3. Sound(s2, indicated[n])
  <2> HIDE DEF s1
  <2> QED BY <1>0, <1>2, EventSound
<1>4. Sound(s3, indicated[n])
  <2> HIDE DEF s2
  <2> QED BY <1>0, <1>3, EventSound
<1>5. Sound(s4, told) /\ told \in {"left", "joined"}
  <2> HIDE DEF s3
  <2> QED BY <1>1, <1>4, IndicateSound
<1>6. Sound(s5, told)
  <2> HIDE DEF s4, told
  <2>1. s4.timer = 0 => s4.reg = "LV"
    BY <1>5 DEF Sound, TimerOK
  <2> QED BY <1>0, <1>5, <2>1, UpdateStateSound, Zenon
<1>7. pdu \in Pdu
  <2>1. s2 \in Attributes
    BY <1>3 DEF Sound
  <2> HIDE DEF s2
  <2>2. Transmitted(tx, s2) \in SUBSET WireEvents
    BY <2>1, TransmittedType
  <2>3. active \in BOOLEAN
    BY DEF IndInv, TypeOK
  <2> HIDE DEF active, tx
  <2> QED BY <2>2, <2>3 DEF Pdu
<1>8. /\ attr' = [attr EXCEPT ![n] = s5]
      /\ joinTimer' = [joinTimer EXCEPT ![n] = IF join THEN JoinTime ELSE @]
      /\ leaveAllTimer' = [leaveAllTimer EXCEPT ![n] = IF leaveAll THEN LeaveAllTime ELSE @]
      /\ periodicTimer' = [periodicTimer EXCEPT ![n] = IF @ = 0 THEN PeriodicTime ELSE @]
      /\ leaveAllActive' = [leaveAllActive EXCEPT ![n] = active /\ ~join]
      /\ wire' = IF join /\ (pdu.leaveAll \/ pdu.events # {})
                 THEN [wire EXCEPT ![n] = Append(@, pdu)] ELSE wire
      /\ indicated' = [indicated EXCEPT ![n] = told]
      /\ UNCHANGED <<lost, declaredFor>>
  BY Zenon DEF MrpPeriodic
<1> HIDE DEF s5, told, pdu
<1>9. TypeOK'
  <2>1. attr' \in [Node -> Attributes] /\ indicated' \in [Node -> {"left", "joined"}]
    BY <1>5, <1>6, <1>8, Zenon DEF IndInv, TypeOK, Sound
  <2>2. wire' \in [Node -> Seq(Pdu)]
    <3>1. wire[n] \in Seq(Pdu) /\ wire \in [Node -> Seq(Pdu)]
      BY DEF IndInv, TypeOK
    <3>2. Append(wire[n], pdu) \in Seq(Pdu)
      BY <1>7, <3>1
    <3> QED BY <1>8, <3>1, <3>2, Zenon
  <2>3. /\ joinTimer' \in [Node -> 0..JoinTime]
        /\ leaveAllTimer' \in [Node -> 0..LeaveAllTime]
        /\ periodicTimer' \in [Node -> 0..PeriodicTime]
    BY <1>8, LinkAssumption DEF IndInv, TypeOK
  <2>4. leaveAllActive' \in [Node -> BOOLEAN]
    BY <1>8, Zenon DEF IndInv, TypeOK
  <2> QED BY <1>8, <2>1, <2>2, <2>3, <2>4, Zenon DEF IndInv, TypeOK
<1>10. ASSUME NEW m \in Node
       PROVE  (TimerOK(attr[m]) /\ LeaveOwed(attr[m], indicated[m]))'
  BY <1>6, <1>8, Zenon DEF IndInv, TypeOK, Sound, TimerOK, LeaveOwed
<1> QED BY <1>9, <1>10 DEF IndInv

\* A received PDU: the LeaveAll first, then the event of the vector.
LEMMA ProcessPacketInv ==
  ASSUME IndInv, NEW n \in Node, ProcessPacket(n)
  PROVE  IndInv'
<1> DEFINE p   == Peer(n)
           pdu == Head(wire[p])
           s1  == IF pdu.leaveAll THEN Event("RECEIVE_LEAVE_ALL", attr[n]) ELSE attr[n]
           e   == CHOOSE x \in pdu.events : TRUE
           s2  == IF pdu.events = {} THEN s1 ELSE MrpIn(e, "READY", s1)
<1>0. "RECEIVE_LEAVE_ALL" \in Events \ {"BEGIN", "LEAVETIMER"} /\ "READY" \in FourPacked
  BY DEF Events, FourPacked
<1>1. p \in Node /\ wire[p] \in Seq(Pdu) /\ wire[p] # <<>>
  BY PeerType, Zenon DEF ProcessPacket, IndInv, TypeOK
<1>2. pdu \in Pdu /\ Tail(wire[p]) \in Seq(Pdu)
  <2> HIDE DEF p
  <2> QED BY <1>1
<1> HIDE DEF p
<1>3. Sound(attr[n], indicated[n])
  BY DEF IndInv, TypeOK, Sound
<1>4. Sound(s1, indicated[n])
  BY <1>0, <1>3, EventSound
<1>5. Sound(s2, indicated[n])
  <2>1. CASE pdu.events = {}
    BY <1>4, <2>1, Zenon
  <2>2. CASE pdu.events # {}
    <3>1. e \in WireEvents
      BY <1>2, <2>2, Zenon DEF Pdu
    <3> HIDE DEF s1, e
    <3>2. ReceiveEvent(e) \in Events \ {"BEGIN", "LEAVETIMER"}
      BY <3>1 DEF ReceiveEvent, WireEvents, Events, ReceiveEvents
    <3> QED BY <1>0, <1>4, <2>2, <3>2, UpdateStateSound, Zenon DEF MrpIn
  <2> QED BY <2>1, <2>2, Zenon
<1>6. /\ attr' = [attr EXCEPT ![n] = s2]
      /\ wire' = [wire EXCEPT ![p] = Tail(@)]
      /\ leaveAllTimer' = [leaveAllTimer EXCEPT ![n] =
                             IF pdu.leaveAll THEN LeaveAllTime ELSE @]
      /\ leaveAllActive' = [leaveAllActive EXCEPT ![n] = @ /\ ~pdu.leaveAll]
      /\ UNCHANGED <<joinTimer, periodicTimer, indicated, lost, declaredFor>>
  BY Zenon DEF ProcessPacket, p
<1> HIDE DEF s2, pdu
<1>7. TypeOK'
  <2>1. attr' \in [Node -> Attributes]
    BY <1>5, <1>6, Zenon DEF IndInv, TypeOK, Sound
  <2>2. wire' \in [Node -> Seq(Pdu)]
    BY <1>1, <1>2, <1>6, Zenon DEF IndInv, TypeOK
  <2>3. leaveAllTimer' \in [Node -> 0..LeaveAllTime]
    BY <1>6, LinkAssumption DEF IndInv, TypeOK
  <2>4. leaveAllActive' \in [Node -> BOOLEAN]
    BY <1>6, Zenon DEF IndInv, TypeOK
  <2> QED BY <1>6, <2>1, <2>2, <2>3, <2>4, Zenon DEF IndInv, TypeOK
<1>8. ASSUME NEW m \in Node
      PROVE  (TimerOK(attr[m]) /\ LeaveOwed(attr[m], indicated[m]))'
  BY <1>5, <1>6, Zenon DEF IndInv, TypeOK, Sound, TimerOK, LeaveOwed
<1> QED BY <1>7, <1>8 DEF IndInv

\* mrp_mad_join and mrp_mad_leave only raise one event.
LEMMA JoinLeaveInv ==
  ASSUME IndInv, NEW n \in Node, NEW new \in BOOLEAN, Join(n, new) \/ Leave(n)
  PROVE  IndInv'
<1>0. {"JOIN", "JOIN_NEW", "LEAVE"} \subseteq Events \ {"BEGIN", "LEAVETIMER"}
      /\ "IGNORE" \in FourPacked /\ SettleTime \in Nat
  BY LinkAssumption DEF Events, ReceiveEvents, FourPacked, SettleTime
<1>1. Sound(attr[n], indicated[n])
  BY Zenon DEF IndInv, TypeOK, Sound
<1>2. Sound([attr[n] EXCEPT !.remove = FALSE], indicated[n])
  BY <1>1, Zenon DEF Sound, Attributes, TimerOK, LeaveOwed
<1>3. PICK s : /\ Sound(s, indicated[n])
               /\ attr' = [attr EXCEPT ![n] = s]
               /\ declaredFor' \in {declaredFor, [declaredFor EXCEPT ![n] = 0]}
               /\ UNCHANGED <<timers, leaveAllActive, wire, indicated, lost>>
  <2>1. CASE Join(n, new)
    <3>1. Sound(MadJoin(attr[n], new), indicated[n])
      BY <1>0, <1>2, UpdateStateSound DEF MadJoin
    <3> QED BY <2>1, <3>1, Zenon DEF Join
  <2>2. CASE Leave(n)
    <3>1. Sound(MadLeave(attr[n]), indicated[n])
      BY <1>0, <1>1, UpdateStateSound DEF MadLeave
    <3> QED BY <2>2, <3>1, Zenon DEF Leave
  <2> QED BY <2>1, <2>2, Zenon
<1>4. declaredFor' \in [Node -> 0..SettleTime]
  <2>1. declaredFor \in [Node -> 0..SettleTime] /\ 0 \in 0..SettleTime
    BY <1>0 DEF IndInv, TypeOK
  <2>2. [declaredFor EXCEPT ![n] = 0] \in [Node -> 0..SettleTime]
    BY <2>1
  <2> QED BY <1>3, <2>1, <2>2, Zenon
<1>5. TypeOK'
  BY <1>3, <1>4, Zenon DEF IndInv, TypeOK, Sound, timers
<1>6. ASSUME NEW m \in Node
      PROVE  (TimerOK(attr[m]) /\ LeaveOwed(attr[m], indicated[m]))'
  BY <1>3, Zenon DEF IndInv, TypeOK, Sound, TimerOK, LeaveOwed
<1> QED BY <1>5, <1>6, Zenon DEF IndInv

\* The network and the clock leave registrar and indications alone; a timer
\* that runs down is still running.
LEMMA LoseInv ==
  ASSUME IndInv, NEW n \in Node, Lose(n)
  PROVE  IndInv'
<1>1. wire' \in [Node -> Seq(Pdu)]
  <2>1. wire[n] \in Seq(Pdu) /\ wire[n] # <<>>
    BY Zenon DEF Lose, IndInv, TypeOK
  <2>2. Tail(wire[n]) \in Seq(Pdu)
    BY <2>1
  <2> QED BY <2>2, Zenon DEF Lose, IndInv, TypeOK
<1>2. lost' \in 0..MaxLost
  BY LinkAssumption DEF Lose, IndInv, TypeOK
<1> QED BY <1>1, <1>2, Zenon DEF Lose, IndInv, TypeOK, timers, TimerOK, LeaveOwed

\* The passing of time keeps the invariant.
LEMMA TickInv ==
  ASSUME IndInv, Tick
  PROVE  IndInv'
<1> DEFINE s(n) == [attr[n] EXCEPT !.timer = IF @ > 0 THEN @ - 1 ELSE @]
<1>1. ASSUME NEW n \in Node
      PROVE  /\ s(n) \in Attributes
             /\ s(n).reg = attr[n].reg /\ s(n).pending = attr[n].pending
             /\ (s(n).timer = Off) <=> (attr[n].timer = Off)
  <2>1. attr[n] \in Attributes /\ attr[n].timer \in TimerStates /\ attr[n].timer # 0
    BY Zenon DEF Tick, IndInv, TypeOK, Attributes
  <2>2. LET t == IF attr[n].timer > 0 THEN attr[n].timer - 1 ELSE attr[n].timer
        IN  t \in TimerStates /\ (t = Off <=> attr[n].timer = Off)
    BY <2>1, LeaveTimeAssumption DEF TimerStates
  <2> QED BY <2>1, <2>2, Zenon DEF Attributes
<1>2. attr' = [n \in Node |-> s(n)]
  BY DEF Tick
<1> HIDE DEF s
<1>3. TypeOK'
  <2>1. attr' \in [Node -> Attributes]
    BY <1>1, <1>2
  <2>2. /\ joinTimer' \in [Node -> 0..JoinTime]
        /\ leaveAllTimer' \in [Node -> 0..LeaveAllTime]
        /\ periodicTimer' \in [Node -> 0..PeriodicTime]
    <3>1. /\ joinTimer \in [Node -> 0..JoinTime]
          /\ leaveAllTimer \in [Node -> 0..LeaveAllTime]
          /\ periodicTimer \in [Node -> 0..PeriodicTime]
      BY DEF IndInv, TypeOK
    <3>2. \A n \in Node : joinTimer[n] > 0 /\ leaveAllTimer[n] > 0 /\ periodicTimer[n] > 0
      BY Zenon DEF Tick
    <3>3. [n \in Node |-> joinTimer[n] - 1] \in [Node -> 0..JoinTime]
      BY <3>1, <3>2, LinkAssumption
    <3>4. [n \in Node |-> leaveAllTimer[n] - 1] \in [Node -> 0..LeaveAllTime]
      BY <3>1, <3>2, LinkAssumption
    <3>5. [n \in Node |-> periodicTimer[n] - 1] \in [Node -> 0..PeriodicTime]
      BY <3>1, <3>2, LinkAssumption
    <3> QED BY <3>3, <3>4, <3>5, Zenon DEF Tick
  <2>3. declaredFor' \in [Node -> 0..SettleTime]
    <3>1. SettleTime \in Nat
      BY LinkAssumption DEF SettleTime
    <3> QED BY <3>1 DEF Tick, IndInv, TypeOK
  <2> QED BY <2>1, <2>2, <2>3, Zenon DEF Tick, IndInv, TypeOK
<1>4. ASSUME NEW m \in Node
      PROVE  (TimerOK(attr[m]) /\ LeaveOwed(attr[m], indicated[m]))'
  <2>1. indicated' = indicated
    BY DEF Tick
  <2> QED BY <1>1, <1>2, <2>1 DEF IndInv, TimerOK, LeaveOwed
<1> QED BY <1>3, <1>4 DEF IndInv

\* Every step keeps the invariant.
LEMMA NextInv == IndInv /\ [Next]_vars => IndInv'
<1> SUFFICES ASSUME IndInv, [Next]_vars PROVE IndInv'
  OBVIOUS
<1>1. CASE Tick
  BY <1>1, TickInv
<1>2. CASE \E n \in Declarer, new \in JoinNew : Join(n, new)
  BY <1>2, JoinLeaveInv, LinkAssumption
<1>3. CASE \E n \in Declarer : Leave(n)
  BY <1>3, JoinLeaveInv, LinkAssumption
<1>4. CASE \E n \in Node : MrpPeriodic(n) \/ ProcessPacket(n) \/ Lose(n)
  BY <1>4, MrpPeriodicInv, ProcessPacketInv, LoseInv
<1>5. CASE UNCHANGED vars
  BY <1>5, Zenon DEF vars, IndInv, TypeOK, TimerOK, LeaveOwed
<1> QED BY <1>1, <1>2, <1>3, <1>4, <1>5 DEF Next

-----------------------------------------------------------------------------
\* The state of two participants keeps its type, for every timer setting.
THEOREM TypeCorrect == Spec => []TypeOK
<1>1. IndInv => TypeOK
  BY DEF IndInv
<1> QED BY <1>1, InitInv, NextInv, PTL DEF Spec

\* The leave timer of mrp_update_state runs exactly while the registrar is in
\* LV, so its expiry never empties a registrar that is IN.
THEOREM LeaveTimerCorrect == Spec => []LeaveTimerRunsWhileLeaving
<1>1. IndInv => LeaveTimerRunsWhileLeaving
  BY DEF IndInv, LeaveTimerRunsWhileLeaving, TimerOK
<1> QED BY <1>1, InitInv, NextInv, PTL DEF Spec

\* No application is left believing in a registration that has timed out, for
\* every timer setting and whatever PDUs are lost.
THEOREM NoStaleJoinCorrect == Spec => []NoStaleJoin
<1>1. IndInv => NoStaleJoin
  BY Zenon DEF IndInv, NoStaleJoin, LeaveOwed
<1> QED BY <1>1, InitInv, NextInv, PTL DEF Spec

=============================================================================
