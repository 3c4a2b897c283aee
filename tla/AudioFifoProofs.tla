--------------------------- MODULE AudioFifoProofs ---------------------------
(***************************************************************************)
(* Proofs about the audio output FIFO (AudioFifo), for any size of it and  *)
(* of the packets, and any thresholds of the clock recovery: what is heard *)
(* and when; that the FIFO implements a bounded first-in first-out queue   *)
(* of samples (SampleQueue); and that the timestamps the clock recovery    *)
(* is given belong to the sample that was marked.                          *)
(***************************************************************************)
EXTENDS AudioFifo, TLAPS, SequenceTheorems

Managers == {"idle", "newStream", "gotInfo", "info"}

(* What the types of the variables have to be for TypeOK to be inductive.   *)
TypeInv ==
  /\ TypeOK
  /\ packet \in Seq(Word) /\ pushing \in Seq(Word)
  /\ manager.at \in Managers

(* The FIFO is muted unless it is locked or has never been used; only an    *)
(* active stream fills it; and a notification that outlives its stream is   *)
(* one that was under way when the stream was disabled.                     *)
MuteInv ==
  /\ packet # <<>> => active
  /\ active => s.state # "DISABLED"
  /\ s.zeroFlag \/ s.state = "LOCKED" \/ (s.state = "DISABLED" /\ s.dptr = s.wrptr)
  /\ ~active /\ ~raced => ~notified
  /\ NotifiedIsPending
  /\ DisabledIsSilent

------------------------------------------------------------------------------
(* The pointers.                                                            *)

\* One correction brings a pointer that is less than Size off back into range.
LEMMA WrapInSlots ==
  ASSUME NEW p \in (-Size) .. (2 * Size - 1)
  PROVE  Wrap(p) \in Slots
BY FifoAssumption DEF Wrap, Slots

\* ADJUST_FILL keeps the write pointer in range by a remainder.
LEMMA ModInSlots ==
  ASSUME NEW p \in Int
  PROVE  p % Size \in Slots
BY FifoAssumption DEF Slots

\* Half of the FIFO is less than the whole.
LEMMA HalfInSlots == Half \in 0 .. Size
BY FifoAssumption DEF Half

\* What the operators that stand for the FIFO's functions make of it is a FIFO.
LEMMA EnabledType == Enabled \in Ofifo
BY FifoAssumption DEF Ofifo, Enabled, Slots, Word, None

\* disable_audio_output_fifo keeps the types.
LEMMA DisabledType ==
  ASSUME NEW f \in Ofifo
  PROVE  Disabled(f) \in Ofifo
BY Zenon DEF Ofifo, Disabled

\* audio_output_fifo_set_ptp_timestamp keeps the types.
LEMMA SetPtpTimestampType ==
  ASSUME NEW f \in Ofifo, NEW i \in {None} \cup 0 .. (MaxPacket - 1)
  PROVE  SetPtpTimestamp(f, i) \in Ofifo
<1>1. CASE Marks(f, i)
  <2>1. f.wrptr + i \in (-Size) .. (2 * Size - 1)
    BY <1>1, FifoAssumption DEF Ofifo, Slots, None, Marks
  <2>2. Wrap(f.wrptr + i) \in Slots
    BY <2>1, WrapInSlots
  <2> QED  BY <1>1, <2>2, Zenon DEF SetPtpTimestamp, Ofifo, Word, Marked
<1> QED  BY <1>1 DEF SetPtpTimestamp

\* Forgetting the marked sample keeps the types.
LEMMA UnmarkedType ==
  ASSUME NEW f \in Ofifo
  PROVE  Unmarked(f) \in Ofifo
BY Zenon DEF Unmarked, Ofifo, Word

\* Starting the FIFO over keeps the types.
LEMMA RestartedType ==
  ASSUME NEW f \in Ofifo
  PROVE  Restarted(f) \in Ofifo
<1>1. f.dptr + Half \in (-Size) .. (2 * Size - 1)
  BY FifoAssumption, HalfInSlots DEF Ofifo, Slots
<1>2. Wrap(f.dptr + Half) \in Slots
  BY <1>1, WrapInSlots
<1> DEFINE g == Unmarked(f)
<1>3. g \in Ofifo
  BY UnmarkedType
<1>4. 0 \in Slots
  BY FifoAssumption DEF Slots
<1> HIDE DEF g
<1>5. \A w \in Slots, z \in Slots : [g EXCEPT !.wrptr = w, !.state = "LOCKING", !.zeroFlag = TRUE, !.zeroMarker = z] \in Ofifo
  BY <1>3, Zenon DEF Ofifo
<1> QED  BY <1>2, <1>4, <1>5, Zenon DEF Restarted, g

\* audio_output_fifo_maintain keeps the types.
LEMMA MaintainedType ==
  ASSUME NEW f \in Ofifo, NEW n
  PROVE  Maintained(f, n) \in Ofifo
<1> DEFINE g == IF NotifiesNewStream(f, n) THEN [f EXCEPT !.pendingInit = FALSE] ELSE f
<1>0. [f EXCEPT !.pendingInit = FALSE] \in Ofifo
  BY Zenon DEF Ofifo
<1>1. g \in Ofifo
  BY <1>0
<1> HIDE DEF g
<1>2. [g EXCEPT !.since = 0] \in Ofifo
  BY <1>1, FifoAssumption DEF Ofifo
<1>3. Restarted(g) \in Ofifo
  BY <1>1, RestartedType
<1> QED  BY <1>1, <1>2, <1>3 DEF Maintained, g

\* Moving the write pointer keeps it in the buffer.
LEMMA AdjustFillType ==
  ASSUME NEW f \in Ofifo, NEW diff \in Diffs
  PROVE  AdjustFill(f, diff) \in Ofifo
<1>1. (f.wrptr - diff) % Size \in Slots
  <2>1. f.wrptr - diff \in Int
    BY FifoAssumption DEF Ofifo, Slots
  <2> QED  BY <2>1, ModInSlots
<1> QED  BY <1>1, UnmarkedType, Zenon DEF AdjustFill, Ofifo

\* The buffer manager's reset keeps the types.
LEMMA ResetFifoType ==
  ASSUME NEW f \in Ofifo
  PROVE  ResetFifo(f) \in Ofifo /\ Wrap(f.wrptr - 1) \in Slots
<1>1. f.wrptr - 1 \in (-Size) .. (2 * Size - 1)
  BY FifoAssumption DEF Ofifo, Slots
<1>2. Wrap(f.wrptr - 1) \in Slots
  BY <1>1, WrapInSlots
<1> QED  BY <1>2, Zenon DEF ResetFifo, Ofifo

------------------------------------------------------------------------------
(* Types.                                                                   *)

\* The types hold at the start.
LEMMA TypeInit == Init => TypeInv
<1> SUFFICES ASSUME Init PROVE TypeInv
  OBVIOUS
<1>1. s \in Ofifo
  <2>1. 0 \in Slots /\ 0 \in Word /\ Period + 1 \in 0 .. (Period + 1)
    BY FifoAssumption DEF Slots, Word
  <2>2. s \in [state: {"DISABLED"}, dptr: {0}, wrptr: {0}, marker: {None},
               ptp: {0}, local: {0}, zeroFlag: BOOLEAN, zeroMarker: {0},
               pendingInit: {FALSE}, since: {Period + 1}]
    BY Zenon DEF Init
  <2> QED  BY <2>1, <2>2, Zenon DEF Ofifo
<1>2. /\ fifo \in [Slots -> Word] /\ wr \in Slots /\ played \in Word
      /\ packet \in Seq(Word) /\ pushing \in Seq(Word)
      /\ manager.at \in Managers
  BY FifoAssumption DEF Init, Slots, Word, Idle, Managers
<1>3. {active, notified, crowded, raced} \subseteq BOOLEAN
  BY Zenon DEF Init
<1> QED  BY <1>1, <1>2, <1>3 DEF TypeInv, TypeOK

\* The flags are Booleans after every step.
LEMMA FlagsStep ==
  ASSUME TypeInv, [Next]_vars
  PROVE  {active, notified, crowded, raced}' \subseteq BOOLEAN
<1> USE DEF TypeInv, TypeOK
<1>1. CASE Enable   BY <1>1, Zenon DEF Enable
<1>2. CASE Disable  BY <1>2, Zenon DEF Disable
<1>3. CASE Packet   BY <1>3, Zenon DEF Packet
<1>4. CASE Push     BY <1>4, Zenon DEF Push, PushSample, PushDone
<1>5. CASE Underflow \/ Pull  BY <1>5, Zenon DEF Underflow, Pull, listener
<1>6. CASE BufCtl
  BY <1>6, Zenon DEF BufCtl, NewStreamInfo, AckUnclocked, RequestInfo, Adjust, Reset, Ack, listener
<1>7. CASE UNCHANGED vars  BY <1>7, Zenon DEF vars
<1> QED  BY <1>1, <1>2, <1>3, <1>4, <1>5, <1>6, <1>7 DEF Next

(* A packet of k samples, the one at offset i stamped.                       *)
Arrives(k, i) ==
  LET f   == SetPtpTimestamp(s, i)
      g   == Maintained(f, notified)
      out == [j \in 1 .. k |-> IF g.state = "ZEROING" THEN 0
                              ELSE IF Marks(s, i) /\ j - 1 = i THEN Marked ELSE Plain]
  IN /\ s' = g
     /\ packet' = out /\ pushing' = out
     /\ wr' = g.wrptr
     /\ manager' = IF NotifiesNewStream(f, notified) THEN Inbox("newStream")
                   ELSE IF NotifiesInfo(f, notified) THEN Inbox("gotInfo") ELSE manager

\* The arrival of a packet keeps the types.
LEMMA PacketType ==
  ASSUME TypeInv, Packet
  PROVE  /\ s' \in Ofifo /\ wr' \in Slots
         /\ packet' \in Seq(Word) /\ pushing' \in Seq(Word)
         /\ manager'.at \in Managers
<1>0. PICK k \in 1 .. MaxPacket : \E i \in {None} \cup 0 .. (k - 1) :
        Arrives(k, i)
  BY DEF Packet, Arrives
<1>1. PICK i \in {None} \cup 0 .. (k - 1) : Arrives(k, i)
  BY <1>0
<1>2. i \in {None} \cup 0 .. (MaxPacket - 1)
  BY FifoAssumption DEF None
<1>3. SetPtpTimestamp(s, i) \in Ofifo
  BY <1>2, SetPtpTimestampType DEF TypeInv, TypeOK
<1>4. Maintained(SetPtpTimestamp(s, i), notified) \in Ofifo
  BY <1>3, MaintainedType
<1>5. s' \in Ofifo /\ wr' \in Slots
  BY <1>1, <1>4 DEF Ofifo, Arrives
<1>6. packet' \in Seq(Word) /\ pushing' \in Seq(Word)
  BY <1>1, FifoAssumption DEF Word, Arrives
<1>7. manager'.at \in Managers
  BY <1>1 DEF TypeInv, Inbox, Idle, Managers, Arrives
<1> QED  BY <1>5, <1>6, <1>7

\* Every step keeps the types.
LEMMA TypeStep == TypeInv /\ [Next]_vars => TypeInv'
<1> SUFFICES ASSUME TypeInv, [Next]_vars PROVE TypeInv'
  OBVIOUS
<1>0. {active, notified, crowded, raced}' \subseteq BOOLEAN
  BY FlagsStep
<1> SUFFICES /\ s' \in Ofifo /\ fifo' \in [Slots -> Word] /\ wr' \in Slots
             /\ played' \in Word /\ packet' \in Seq(Word) /\ pushing' \in Seq(Word)
             /\ manager'.at \in Managers
  BY <1>0 DEF TypeInv, TypeOK
<1>t. /\ s \in Ofifo /\ fifo \in [Slots -> Word] /\ wr \in Slots
      /\ played \in Word /\ packet \in Seq(Word) /\ pushing \in Seq(Word)
      /\ manager.at \in Managers
  BY DEF TypeInv, TypeOK
<1>i. Idle.at \in Managers
  BY DEF Idle, Managers
<1>1. CASE Enable
  BY <1>1, <1>t, EnabledType, FifoAssumption, Zenon DEF Enable, server, ZeroMark, Word
<1>2. CASE Disable
  BY <1>2, <1>t, DisabledType DEF Disable, server
<1>3. CASE Packet
  BY <1>3, <1>t, PacketType, Zenon DEF Packet
<1>4. CASE PushSample
  <2>1. wr + 1 \in (-Size) .. (2 * Size - 1)
    BY <1>t, FifoAssumption DEF Slots
  <2>2. Wrap(wr + 1) \in Slots
    BY <2>1, WrapInSlots
  <2>3. Head(pushing) \in Word /\ Tail(pushing) \in Seq(Word)
    BY <1>4, <1>t DEF PushSample
  <2> QED  BY <1>4, <1>t, <2>2, <2>3 DEF PushSample, server
<1>5. CASE PushDone
  <2>1. s' \in Ofifo
    <3>1. Len(packet) \in Nat
      BY <1>t
    <3> DEFINE n == IF s.since + Len(packet) > Period THEN Period + 1 ELSE s.since + Len(packet)
    <3>2. n \in 0 .. (Period + 1)
      BY <3>1, <1>t, FifoAssumption DEF Ofifo
    <3>3. s' = [s EXCEPT !.wrptr = wr, !.since = n]
      BY <1>5, <1>t DEF PushDone, Ofifo
    <3> HIDE DEF n
    <3> QED  BY <3>2, <3>3, <1>t, Zenon DEF Ofifo
  <2>2. 0 \in Slots /\ <<>> \in Seq(Word)
    BY FifoAssumption DEF Slots
  <2> QED  BY <1>5, <1>t, <2>1, <2>2 DEF PushDone, server
<1>6. CASE Underflow
  BY <1>6, <1>t DEF Underflow, listener, server, Word
<1>7. CASE Pull
  <2>1. s.dptr + 1 \in (-Size) .. (2 * Size - 1)
    BY <1>t, FifoAssumption DEF Ofifo, Slots
  <2>2. Wrap(s.dptr + 1) \in Slots
    BY <2>1, WrapInSlots
  <2>3. played' \in Word
    BY <1>7, <1>t DEF Pull, Ofifo, Word
  <2>4. s' \in Ofifo
    <3> DEFINE l == IF s.dptr = s.marker /\ s.local = 0 THEN Stamp(fifo[s.dptr]) ELSE s.local
    <3>1. l \in Word
      BY <1>t DEF Stamp, Word, Ofifo, Plain, Marked
    <3>2. s' = [s EXCEPT !.dptr = Wrap(s.dptr + 1), !.local = l]
      BY <1>7, <1>t DEF Pull, Ofifo
    <3> HIDE DEF l
    <3> QED  BY <2>2, <3>1, <3>2, <1>t, Zenon DEF Ofifo
  <2> QED  BY <1>7, <1>t, <2>3, <2>4 DEF Pull, listener, server
<1>8. CASE NewStreamInfo
  BY <1>8, <1>t, <1>i DEF NewStreamInfo, listener
<1>9. CASE AckUnclocked
  BY <1>9, <1>t, <1>i DEF AckUnclocked, listener
<1>10. CASE RequestInfo
  <2>1. s' \in Ofifo
    BY <1>10, <1>t, UnmarkedType DEF RequestInfo
  <2>2. manager'.at = "info"
    BY <1>10 DEF RequestInfo
  <2> QED  BY <1>10, <1>t, <2>1, <2>2 DEF RequestInfo, listener, Managers
<1>11. CASE Adjust
  <2>1. s' \in Ofifo
    BY <1>11, <1>t, AdjustFillType DEF Adjust
  <2> QED  BY <1>11, <1>t, <1>i, <2>1 DEF Adjust, listener
<1>12. CASE Reset
  BY <1>12, <1>t, <1>i, ResetFifoType DEF Reset, listener, ZeroMark, Word
<1>13. CASE Ack
  BY <1>13, <1>t, <1>i DEF Ack, listener
<1>14. CASE UNCHANGED vars
  BY <1>14, <1>t DEF vars
<1> QED
  BY <1>1, <1>2, <1>3, <1>4, <1>5, <1>6, <1>7, <1>8, <1>9, <1>10, <1>11, <1>12, <1>13, <1>14
  DEF Next, Push, BufCtl

\* Every variable stays in its range (TypeOK), and what a packet leaves to write
\* is a sequence of samples.
THEOREM TypeAlways == Spec => []TypeInv
BY TypeInit, TypeStep, PTL DEF Spec

\* The pointers of the FIFO stay inside its words, for any size: TypeOK.
THEOREM TypeTheorem == Spec => []TypeOK
<1>1. TypeInv => TypeOK
  BY DEF TypeInv
<1> QED  BY <1>1, TypeAlways, PTL

------------------------------------------------------------------------------
(* What is heard, and when.                                                 *)

\* Marking a sample moves no pointer and does not touch the mute.
LEMMA SetPtpTimestampKeeps ==
  ASSUME NEW f \in Ofifo, NEW i
  PROVE  LET g == SetPtpTimestamp(f, i)
         IN /\ g.state = f.state /\ g.dptr = f.dptr /\ g.wrptr = f.wrptr
            /\ g.zeroFlag = f.zeroFlag
BY DEF SetPtpTimestamp, Ofifo

\* audio_output_fifo_maintain either leaves state, pointers and mute alone, or
\* takes the FIFO from ZEROING to LOCKING, muted.
LEMMA MaintainedKeeps ==
  ASSUME NEW f \in Ofifo, NEW n
  PROVE  LET g == Maintained(f, n)
         IN /\ g.dptr = f.dptr
            /\ \/ g.state = f.state /\ g.wrptr = f.wrptr /\ g.zeroFlag = f.zeroFlag
               \/ f.state = "ZEROING" /\ g.state = "LOCKING" /\ g.zeroFlag = TRUE
<1> DEFINE h == IF NotifiesNewStream(f, n) THEN [f EXCEPT !.pendingInit = FALSE] ELSE f
<1>0. [f EXCEPT !.pendingInit = FALSE] \in Ofifo
  BY Zenon DEF Ofifo
<1>1. h \in Ofifo /\ h.state = f.state /\ h.dptr = f.dptr /\ h.wrptr = f.wrptr
      /\ h.zeroFlag = f.zeroFlag
  BY <1>0 DEF Ofifo
<1> HIDE DEF h
<1>2. LET g == [h EXCEPT !.since = 0]
      IN g.state = f.state /\ g.dptr = f.dptr /\ g.wrptr = f.wrptr /\ g.zeroFlag = f.zeroFlag
  BY <1>1 DEF Ofifo
<1>3. LET g == Restarted(h)
      IN g.dptr = f.dptr /\ g.state = "LOCKING" /\ g.zeroFlag = TRUE
  <2> DEFINE u == Unmarked(h)
  <2>1. u \in Ofifo /\ u.dptr = h.dptr
    BY <1>1, UnmarkedType, Zenon DEF Unmarked, Ofifo
  <2> HIDE DEF u
  <2>2. \A w, z : LET g == [u EXCEPT !.wrptr = w, !.state = "LOCKING", !.zeroFlag = TRUE, !.zeroMarker = z]
                 IN g.dptr = u.dptr /\ g.state = "LOCKING" /\ g.zeroFlag = TRUE
    BY <2>1 DEF Ofifo
  <2> QED  BY <1>1, <2>1, <2>2 DEF Restarted, u
<1>4. Zeroed(h) => f.state = "ZEROING"
  BY <1>1 DEF Zeroed
<1> QED  BY <1>1, <1>2, <1>3, <1>4 DEF Maintained, h

\* No FIFO is enabled or locked at the start.
LEMMA MuteInit == Init => MuteInv
<1> SUFFICES ASSUME Init PROVE MuteInv
  OBVIOUS
<1>1. s.state = "DISABLED" /\ s.dptr = 0 /\ s.wrptr = 0 /\ packet = <<>> /\ manager.at = "idle"
  BY DEF Init, Idle
<1>2. active = FALSE /\ notified = FALSE /\ raced = FALSE
  BY DEF Init
<1> QED  BY <1>1, <1>2 DEF MuteInv, NotifiedIsPending, DisabledIsSilent

\* The arrival of a packet, which may start and notify, keeps the mute invariant.
LEMMA MutePacket ==
  ASSUME TypeInv, MuteInv, Packet
  PROVE  MuteInv'
<1>0. PICK k \in 1 .. MaxPacket : \E i \in {None} \cup 0 .. (k - 1) :
        /\ Arrives(k, i)
        /\ LET f == SetPtpTimestamp(s, i)
           IN notified' = (notified \/ NotifiesNewStream(f, notified) \/ NotifiesInfo(f, notified))
  BY DEF Packet, Arrives
<1>1. PICK i \in {None} \cup 0 .. (k - 1) :
        /\ Arrives(k, i)
        /\ LET f == SetPtpTimestamp(s, i)
           IN notified' = (notified \/ NotifiesNewStream(f, notified) \/ NotifiesInfo(f, notified))
  BY <1>0
<1> DEFINE f == SetPtpTimestamp(s, i)
<1>2. f \in Ofifo /\ f.state = s.state /\ f.dptr = s.dptr /\ f.wrptr = s.wrptr /\ f.zeroFlag = s.zeroFlag
  <2>1. i \in {None} \cup 0 .. (MaxPacket - 1)
    BY FifoAssumption DEF None
  <2> QED  BY <2>1, SetPtpTimestampType, SetPtpTimestampKeeps DEF TypeInv, TypeOK
<1> HIDE DEF f
<1>3. /\ s'.dptr = s.dptr
      /\ \/ s'.state = s.state /\ s'.wrptr = s.wrptr /\ s'.zeroFlag = s.zeroFlag
         \/ s.state = "ZEROING" /\ s'.state = "LOCKING" /\ s'.zeroFlag = TRUE
  BY <1>1, <1>2, MaintainedKeeps, Zenon DEF Arrives, f
<1>4. active /\ active' = active /\ raced' = raced
  BY DEF Packet
<1>5. s.state # "DISABLED" /\ s'.state # "DISABLED"
  BY <1>3, <1>4 DEF MuteInv
<1>6. s'.zeroFlag \/ s'.state = "LOCKED"
  <2>1. s.zeroFlag \/ s.state = "LOCKED"
    BY <1>5 DEF MuteInv
  <2> QED  BY <1>3, <2>1
<1>7. NotifiedIsPending'
  <2>1. notified <=> manager.at # "idle"
    BY DEF MuteInv, NotifiedIsPending
  <2>2. Inbox("newStream").at # "idle" /\ Inbox("gotInfo").at # "idle"
    BY DEF Inbox, Idle
  <2>3. /\ manager' = IF NotifiesNewStream(f, notified) THEN Inbox("newStream")
                      ELSE IF NotifiesInfo(f, notified) THEN Inbox("gotInfo") ELSE manager
        /\ notified' = (notified \/ NotifiesNewStream(f, notified) \/ NotifiesInfo(f, notified))
    BY <1>1 DEF Arrives, f
  <2>4. CASE NotifiesNewStream(f, notified)  BY <2>2, <2>3, <2>4, Zenon DEF NotifiedIsPending
  <2>5. CASE ~NotifiesNewStream(f, notified) /\ NotifiesInfo(f, notified)
    BY <2>2, <2>3, <2>5, Zenon DEF NotifiedIsPending
  <2>6. CASE ~NotifiesNewStream(f, notified) /\ ~NotifiesInfo(f, notified)
    BY <2>1, <2>3, <2>6, Zenon DEF NotifiedIsPending
  <2> QED  BY <2>4, <2>5, <2>6
<1> QED  BY <1>4, <1>5, <1>6, <1>7 DEF MuteInv, DisabledIsSilent

\* Every step keeps the mute invariant.
LEMMA MuteStep == TypeInv /\ MuteInv /\ [Next]_vars => MuteInv'
<1> SUFFICES ASSUME TypeInv, MuteInv, [Next]_vars PROVE MuteInv'
  OBVIOUS
<1> USE DEF MuteInv, NotifiedIsPending, DisabledIsSilent
<1>t. s \in Ofifo
  BY DEF TypeInv, TypeOK
<1>i. Idle.at = "idle"
  BY DEF Idle
<1>1. CASE Enable
  <2>1. s'.state = "ZEROING" /\ s'.zeroFlag = TRUE
    BY <1>1 DEF Enable, Enabled
  <2> QED  BY <1>1, <2>1 DEF Enable, server
<1>2. CASE Disable
  <2>1. s'.state = "DISABLED" /\ s'.zeroFlag = TRUE
    BY <1>2, <1>t DEF Disable, Disabled, Ofifo
  <2>2. raced' = (raced \/ notified) /\ notified' = notified /\ manager' = manager /\ packet' = <<>> /\ active' = FALSE
    BY <1>2 DEF Disable, server, ListenerIdle
  <2> QED  BY <2>1, <2>2, Zenon
<1>3. CASE Packet
  BY <1>3, MutePacket
<1>4. CASE PushSample
  BY <1>4 DEF PushSample, server
<1>5. CASE PushDone
  <2>1. s'.state = s.state /\ s'.zeroFlag = s.zeroFlag
    BY <1>5, <1>t DEF PushDone, Ofifo
  <2>2. /\ packet # <<>> /\ packet' = <<>> /\ active' = active /\ notified' = notified
        /\ manager' = manager /\ raced' = raced
    BY <1>5 DEF PushDone, server
  <2> QED  BY <2>1, <2>2
<1>6. CASE Underflow
  BY <1>6 DEF Underflow, listener, server
<1>7. CASE Pull
  <2>1. s'.state = s.state /\ s'.zeroFlag = s.zeroFlag /\ s.dptr # s.wrptr
    BY <1>7, <1>t DEF Pull, Ofifo
  <2>2. /\ packet' = packet /\ active' = active /\ notified' = notified
        /\ manager' = manager /\ raced' = raced
    BY <1>7 DEF Pull, server, listener
  <2> QED  BY <2>1, <2>2
<1>8. CASE NewStreamInfo \/ AckUnclocked \/ Ack
  <2>1. /\ s' = s /\ packet' = packet /\ active' = active /\ notified' = FALSE
        /\ manager' = Idle /\ raced' = raced
    BY <1>8 DEF NewStreamInfo, AckUnclocked, Ack, listener
  <2> QED  BY <2>1, <1>i
<1>10. CASE RequestInfo
  <2>1. s'.state = s.state /\ s'.zeroFlag = s.zeroFlag /\ s'.dptr = s.dptr /\ s'.wrptr = s.wrptr
    BY <1>10, <1>t DEF RequestInfo, Unmarked, Ofifo
  <2>2. /\ packet' = packet /\ active' = active /\ notified' = notified /\ raced' = raced
        /\ manager.at = "gotInfo" /\ manager'.at = "info"
    BY <1>10 DEF RequestInfo, listener
  <2> QED  BY <2>1, <2>2
<1>11. CASE Adjust
  <2>0. PICK diff \in Diffs : s' = AdjustFill(s, diff)
    BY <1>11 DEF Adjust
  <2>1. s'.state = "LOCKED"
    BY <2>0, <1>t DEF AdjustFill, Unmarked, Ofifo
  <2>2. /\ packet' = packet /\ active' = active /\ notified' = FALSE /\ raced' = raced
        /\ manager.at = "info" /\ manager' = Idle
    BY <1>11 DEF Adjust, listener
  <2> QED  BY <2>1, <2>2, <1>i
<1>12. CASE Reset
  <2>1. s'.state = "ZEROING" /\ s'.zeroFlag = TRUE
    BY <1>12, <1>t DEF Reset, ResetFifo, Ofifo
  <2>2. /\ packet' = packet /\ active' = active /\ notified' = FALSE /\ raced' = raced
        /\ manager' = Idle
    BY <1>12 DEF Reset, listener
  <2> QED  BY <2>1, <2>2, <1>i
<1>14. CASE UNCHANGED vars
  BY <1>14 DEF vars
<1> QED
  BY <1>1, <1>2, <1>3, <1>4, <1>5, <1>6, <1>7, <1>8, <1>10, <1>11, <1>12, <1>14
  DEF Next, Push, BufCtl

\* A FIFO that is not locked stays mute, whatever notification is under way.
THEOREM MuteAlways == Spec => []MuteInv
BY MuteInit, MuteStep, TypeAlways, PTL DEF Spec

\* The notification flag and the manager's inbox agree, whatever the timing of
\* packets, pulls and commands: NotifiedIsPending.
THEOREM NotifiedTheorem == Spec => []NotifiedIsPending
<1>1. MuteInv => NotifiedIsPending
  BY DEF MuteInv
<1> QED  BY <1>1, MuteAlways, PTL

\* A disabled stream is silent unless it was disabled under a notification:
\* DisabledIsSilent.
THEOREM SilentTheorem == Spec => []DisabledIsSilent
<1>1. MuteInv => DisabledIsSilent
  BY DEF MuteInv
<1> QED  BY <1>1, MuteAlways, PTL

\* Nothing but silence is played before the clock recovery locks: HeardOnlyLocked.
THEOREM HeardTheorem == Spec => HeardOnlyLocked
<1>1. TypeInv /\ MuteInv /\ [Next]_vars => [played' # 0 /\ played' # played => s.state = "LOCKED"]_vars
  <2> SUFFICES ASSUME TypeInv, MuteInv, Next, played' # 0, played' # played
               PROVE  s.state = "LOCKED"
    OBVIOUS
  <2>1. Pull
    BY Zenon DEF Next, Enable, Disable, Packet, Push, PushSample, PushDone, Underflow, BufCtl,
           NewStreamInfo, AckUnclocked, RequestInfo, Adjust, Reset, Ack
  <2>2. s.dptr # s.wrptr /\ ~s.zeroFlag
    BY <2>1 DEF Pull
  <2> QED  BY <2>2 DEF MuteInv
<1> QED  BY <1>1, MuteAlways, TypeAlways, PTL DEF Spec, HeardOnlyLocked

------------------------------------------------------------------------------
(* The queue of samples: the words from the read pointer up to the write    *)
(* pointer.  A push in progress has written beyond the write pointer and    *)
(* becomes visible when the write pointer moves.                            *)

\* The n words written so far behind the write pointer are samples of the
\* packet, in order: kept says which.
Kept(n, kept) ==
  /\ n \in 0..(Len(packet) - Len(pushing))
  /\ kept \in [1..n -> 1..(Len(packet) - Len(pushing))]
  /\ \A i, j \in 1..n : i < j => kept[i] < kept[j]
  /\ wr = Wrap(s.wrptr + n)
  /\ Fill(s.dptr, s.wrptr) + n < Size
  /\ \A k \in 1..n : fifo[Wrap(s.wrptr + (k - 1))] = packet[kept[k]]

(* What a push has left to write is the end of the packet, and what it has  *)
(* written fits between the write pointer and the read pointer.             *)
PushInv ==
  /\ Len(packet) <= MaxPacket
  /\ Len(pushing) <= Len(packet)
  /\ \A j \in 1..Len(pushing) : pushing[j] = packet[Len(packet) - Len(pushing) + j]
  /\ packet # <<>> => \E n \in 0..Len(packet) : \E kept \in [1..n -> Nat] : Kept(n, kept)

------------------------------------------------------------------------------
(* The pointers.                                                            *)

\* The FIFO never holds Size words: one slot stays free.
LEMMA FillRange ==
  ASSUME NEW r \in Slots, NEW w \in Slots
  PROVE  Fill(r, w) \in 0..(Size - 1) /\ (Fill(r, w) = 0 <=> r = w)
BY FifoAssumption DEF Fill, Slots

\* A pull makes the FIFO one word shorter.
LEMMA FillAfterPull ==
  ASSUME NEW r \in Slots, NEW w \in Slots, r # w
  PROVE  Fill(Wrap(r + 1), w) = Fill(r, w) - 1
BY FifoAssumption DEF Fill, Slots, Wrap

\* Two places less than Size apart are different words.
LEMMA WrapApart ==
  ASSUME NEW w \in Slots, NEW a \in 0..(Size - 1), NEW c \in 0..(Size - 1), a # c
  PROVE  Wrap(w + a) # Wrap(w + c)
BY FifoAssumption DEF Slots, Wrap

\* Moving on twice is moving on once by the sum.
LEMMA WrapAdd ==
  ASSUME NEW w \in Slots, NEW a \in Nat, NEW c \in Nat, a + c < Size
  PROVE  Wrap(Wrap(w + a) + c) = Wrap(w + (a + c))
BY FifoAssumption DEF Slots, Wrap

\* Fill words on from the read pointer is the write pointer.
LEMMA WrapFill ==
  ASSUME NEW r \in Slots, NEW w \in Slots, NEW k \in Nat, Fill(r, w) + k < Size
  PROVE  Wrap(r + (Fill(r, w) + k)) = Wrap(w + k)
BY FifoAssumption DEF Slots, Wrap, Fill

\* Publishing n words makes the FIFO n words longer.
LEMMA FillAfterPush ==
  ASSUME NEW r \in Slots, NEW w \in Slots, NEW n \in Nat, Fill(r, w) + n < Size
  PROVE  Wrap(w + n) \in Slots /\ Fill(r, Wrap(w + n)) = Fill(r, w) + n
BY FifoAssumption DEF Slots, Wrap, Fill

\* A push that does not run into the read pointer has room for one more word.
LEMMA RoomForOne ==
  ASSUME NEW r \in Slots, NEW w \in Slots, NEW n \in Nat, Fill(r, w) + n < Size,
         Wrap(Wrap(w + n) + 1) # r
  PROVE  Fill(r, w) + (n + 1) < Size
BY FifoAssumption DEF Slots, Wrap, Fill

------------------------------------------------------------------------------
(* A push in progress.                                                      *)

\* No packet is being pushed at the start.
LEMMA PushInit == Init => PushInv
BY FifoAssumption DEF Init, PushInv

\* While there is no packet the commands of the manager disturb no push.
LEMMA PushIdle ==
  ASSUME TypeInv, PushInv, ListenerIdle, UNCHANGED <<packet, pushing>>
  PROVE  PushInv'
BY DEF PushInv, ListenerIdle

\* Nor does a pull: it makes room.
LEMMA PushKept ==
  ASSUME TypeInv, PushInv, UNCHANGED <<packet, pushing, wr, fifo>>,
         s'.wrptr = s.wrptr,
         Fill(s'.dptr, s'.wrptr) \in 0..Fill(s.dptr, s.wrptr)
  PROVE  PushInv'
<1>1. ASSUME NEW n \in 0..Len(packet), NEW kept \in [1..n -> Nat], Kept(n, kept)
      PROVE  Kept(n, kept)'
  <2>1. Fill(s.dptr, s.wrptr) \in 0..(Size - 1)
    BY FillRange DEF TypeInv, TypeOK, Ofifo
  <2>2. Len(packet) \in Nat
    BY DEF TypeInv
  <2>3. Fill(s'.dptr, s'.wrptr) + n < Size
    BY <1>1, <2>1, <2>2, FifoAssumption DEF Kept
  <2> QED  BY <1>1, <2>3, Zenon DEF Kept
<1> QED  BY <1>1 DEF PushInv

\* The arrival of a packet starts a push that has kept nothing yet.
LEMMA PushPacket ==
  ASSUME TypeInv, PushInv, Packet
  PROVE  PushInv'
<1>0. PICK k \in 1 .. MaxPacket : \E i \in {None} \cup 0 .. (k - 1) : Arrives(k, i)
  BY DEF Packet, Arrives
<1>1. PICK i \in {None} \cup 0 .. (k - 1) : Arrives(k, i)
  BY <1>0
<1>2. packet' = pushing' /\ DOMAIN packet' = 1..k /\ packet' \in Seq(Word) /\ wr' = s'.wrptr
      /\ s' \in Ofifo
  BY <1>1, PacketType DEF Arrives
<1>3. Len(packet') = k /\ k \in Nat
  BY <1>2, FifoAssumption
<1>4. Kept(0, <<>>)'
  <2>0. 0 \in 0..(Len(packet') - Len(pushing'))
    BY <1>2, <1>3
  <2>1. Fill(s'.dptr, s'.wrptr) \in 0..(Size - 1)
    BY <1>2, FillRange DEF Ofifo
  <2>2. wr' = Wrap(s'.wrptr + 0)
    BY <1>2, FifoAssumption DEF Ofifo, Slots, Wrap
  <2> QED  BY <2>0, <2>1, <2>2, FifoAssumption DEF Kept
<1>5. \E n \in 0..Len(packet') : \E kept \in [1..n -> Nat] : Kept(n, kept)'
  <2>1. 0 \in 0..Len(packet') /\ <<>> \in [1..0 -> Nat]
    BY <1>3
  <2> QED  BY <1>4, <2>1, Zenon
<1> QED  BY <1>2, <1>3, <1>5 DEF PushInv

\* The sample a push is about to write is the one its position in the packet says.
LEMMA PushTail ==
  ASSUME TypeInv, PushInv, pushing # <<>>
  PROVE  /\ packet # <<>>
         /\ Len(Tail(pushing)) = Len(pushing) - 1 /\ Len(pushing) \in 1..Len(packet)
         /\ Len(packet) \in 1..MaxPacket
         /\ Head(pushing) = packet[Len(packet) - Len(pushing) + 1]
         /\ \A j \in 1..Len(Tail(pushing)) :
               Tail(pushing)[j] = packet[Len(packet) - Len(Tail(pushing)) + j]
<1>1. packet \in Seq(Word) /\ pushing \in Seq(Word)
  BY DEF TypeInv
<1>2. Len(pushing) \in Nat /\ Len(packet) \in Nat /\ Len(pushing) # 0
  BY <1>1
<1>3. Len(Tail(pushing)) = Len(pushing) - 1 /\ Len(pushing) \in 1..Len(packet)
  BY <1>1, <1>2 DEF PushInv
<1>4. packet # <<>> /\ Len(packet) \in 1..MaxPacket
  BY <1>1, <1>2, <1>3, FifoAssumption DEF PushInv
<1>5. Head(pushing) = packet[Len(packet) - Len(pushing) + 1]
  BY <1>1, <1>3 DEF PushInv
<1>6. ASSUME NEW j \in 1..Len(Tail(pushing))
      PROVE  Tail(pushing)[j] = packet[Len(packet) - Len(Tail(pushing)) + j]
  <2>1. Tail(pushing)[j] = pushing[j + 1]
    BY <1>1, <1>3
  <2>2. j + 1 \in 1..Len(pushing)
    BY <1>2, <1>3
  <2>3. pushing[j + 1] = packet[Len(packet) - Len(pushing) + (j + 1)]
    BY <2>2 DEF PushInv
  <2>4. Len(packet) - Len(pushing) + (j + 1) = Len(packet) - Len(Tail(pushing)) + j
    BY <1>2, <1>3
  <2> QED  BY <2>1, <2>3, <2>4
<1> QED  BY <1>3, <1>4, <1>5, <1>6

\* A sample that finds no room is left out; the ones kept stay kept.
LEMMA PushDropped ==
  ASSUME TypeInv, PushInv, pushing # <<>>, pushing' = Tail(pushing),
         UNCHANGED <<s, packet, wr, fifo>>
  PROVE  PushInv'
<1>1. PICK n \in 0..Len(packet) : \E kept \in [1..n -> Nat] : Kept(n, kept)
  BY PushTail DEF PushInv
<1>2. PICK kept \in [1..n -> Nat] : Kept(n, kept)
  BY <1>1
<1>3. Kept(n, kept)'
  <2>1. /\ kept \in [1..n -> 1..(Len(packet') - Len(pushing'))]
        /\ n \in 0..(Len(packet') - Len(pushing'))
    BY <1>2, PushTail DEF Kept
  <2> QED  BY <1>2, <2>1 DEF Kept
<1>4. \E m \in 0..Len(packet') : \E k \in [1..m -> Nat] : Kept(m, k)'
  <2>1. n \in 0..Len(packet') /\ kept \in [1..n -> Nat]
    OBVIOUS
  <2> QED  BY <1>3, <2>1
<1>5. /\ Len(packet') <= MaxPacket /\ Len(pushing') <= Len(packet')
      /\ \A j \in 1..Len(pushing') : pushing'[j] = packet'[Len(packet') - Len(pushing') + j]
  BY PushTail, FifoAssumption
<1> QED  BY <1>4, <1>5, Zenon DEF PushInv

\* A sample that finds room is written behind those written before it.
LEMMA PushWritten ==
  ASSUME TypeInv, PushInv, pushing # <<>>, pushing' = Tail(pushing),
         UNCHANGED <<s, packet>>, Wrap(wr + 1) # s.dptr,
         fifo' = [fifo EXCEPT ![wr] = Head(pushing)], wr' = Wrap(wr + 1)
  PROVE  PushInv'
<1>t. /\ s.dptr \in Slots /\ s.wrptr \in Slots /\ wr \in Slots /\ fifo \in [Slots -> Word]
      /\ packet \in Seq(Word) /\ pushing \in Seq(Word) /\ Len(packet) \in Nat
      /\ Len(pushing) \in 1..Len(packet) /\ Len(pushing') = Len(pushing) - 1
  BY PushTail DEF TypeInv, TypeOK, Ofifo
<1>1. PICK n \in 0..Len(packet) : \E kept \in [1..n -> Nat] : Kept(n, kept)
  BY PushTail, Zenon DEF PushInv
<1>2. PICK kept \in [1..n -> Nat] : Kept(n, kept)
  BY <1>1
<1>l. PICK last : last = Len(packet) - Len(pushing) + 1
  OBVIOUS
<1>m. PICK more : more = [k \in 1..(n + 1) |-> IF k <= n THEN kept[k] ELSE last]
  BY Zenon
<1>0. n <= Len(packet) - Len(pushing)
  BY <1>2, <1>t DEF Kept
<1>3. n \in Nat /\ last \in Nat /\ last = Len(packet') - Len(pushing')
  BY <1>t, <1>l
<1>4. \A k \in 1..n : kept[k] \in 1..(last - 1)
  BY <1>2, <1>t, <1>l DEF Kept
<1>5. more \in [1..(n + 1) -> 1..last]
  BY <1>3, <1>4, <1>m, <1>l, <1>t
<1>6. \A i, j \in 1..(n + 1) : i < j => more[i] < more[j]
  BY <1>2, <1>3, <1>4, <1>m DEF Kept
<1>7. Fill(s.dptr, s.wrptr) \in 0..(Size - 1)
  BY <1>t, FillRange
<1>8. Fill(s.dptr, s.wrptr) + (n + 1) < Size
  BY <1>2, <1>3, <1>t, RoomForOne DEF Kept
<1>9. wr = Wrap(s.wrptr + n) /\ wr' = Wrap(s.wrptr + (n + 1))
  BY <1>2, <1>3, <1>7, <1>8, <1>t, WrapAdd, FifoAssumption DEF Kept
<1>10. ASSUME NEW k \in 1..(n + 1)
       PROVE  fifo'[Wrap(s.wrptr + (k - 1))] = packet[more[k]]
  <2>1. CASE k = n + 1
    <3>1. Wrap(s.wrptr + (k - 1)) = wr
      BY <2>1, <1>3, <1>9
    <3>2. fifo'[wr] = Head(pushing)
      BY <1>t
    <3>3. more[k] = last
      BY <2>1, <1>3, <1>m
    <3> QED  BY <3>1, <3>2, <3>3, <1>l, PushTail
  <2>2. CASE k \in 1..n
    <3>1. k - 1 \in 0..(Size - 1) /\ n \in 0..(Size - 1) /\ k - 1 # n
      BY <2>2, <1>3, <1>7, <1>8, FifoAssumption
    <3>2. Wrap(s.wrptr + (k - 1)) # wr
      BY <3>1, <1>9, <1>t, WrapApart
    <3>3. s.wrptr + (k - 1) \in (-Size) .. (2 * Size - 1)
      BY <3>1, <1>t, FifoAssumption DEF Slots
    <3>4. Wrap(s.wrptr + (k - 1)) \in Slots
      BY <3>3, WrapInSlots
    <3>5. fifo'[Wrap(s.wrptr + (k - 1))] = fifo[Wrap(s.wrptr + (k - 1))]
      BY <3>2, <3>4, <1>t
    <3>6. more[k] = kept[k]
      BY <2>2, <1>3, <1>m
    <3> QED  BY <2>2, <3>5, <3>6, <1>2 DEF Kept
  <2> QED  BY <2>1, <2>2, <1>3
<1>a. n + 1 \in 0..(Len(packet') - Len(pushing'))
  BY <1>0, <1>t
<1>11. Kept(n + 1, more)'
  BY <1>a, <1>3, <1>5, <1>6, <1>8, <1>9, <1>10 DEF Kept
<1>12. n + 1 \in 0..Len(packet') /\ more \in [1..(n + 1) -> Nat]
  BY <1>0, <1>3, <1>5, <1>l, <1>t
<1>13. \E m \in 0..Len(packet') : \E k \in [1..m -> Nat] : Kept(m, k)'
  BY <1>11, <1>12
<1>14. /\ Len(packet') <= MaxPacket /\ Len(pushing') <= Len(packet')
       /\ \A j \in 1..Len(pushing') : pushing'[j] = packet'[Len(packet') - Len(pushing') + j]
  BY PushTail, FifoAssumption
<1> QED  BY <1>13, <1>14, Zenon DEF PushInv

\* Every step leaves the samples of a push in order and within the free words.
LEMMA PushStep == TypeInv /\ PushInv /\ [Next]_vars => PushInv'
<1> SUFFICES ASSUME TypeInv, PushInv, [Next]_vars PROVE PushInv'
  OBVIOUS
<1>t. /\ s \in Ofifo /\ s.dptr \in Slots /\ s.wrptr \in Slots
      /\ Fill(s.dptr, s.wrptr) \in 0..(Size - 1)
  BY FillRange DEF TypeInv, TypeOK, Ofifo
<1>1. CASE Enable \/ Disable
  BY <1>1, PushIdle DEF Enable, Disable
<1>2. CASE BufCtl
  BY <1>2, PushIdle DEF BufCtl, NewStreamInfo, AckUnclocked, RequestInfo, Adjust, Reset, Ack, listener
<1>3. CASE Packet
  BY <1>3, PushPacket
<1>4. CASE PushSample
  <2>1. CASE Wrap(wr + 1) # s.dptr
    BY <1>4, <2>1, PushWritten DEF PushSample
  <2>2. CASE Wrap(wr + 1) = s.dptr
    BY <1>4, <2>2, PushDropped DEF PushSample
  <2> QED  BY <2>1, <2>2
<1>5. CASE PushDone
  <2>1. packet' = <<>> /\ pushing' = <<>>
    BY <1>5 DEF PushDone
  <2> QED  BY <2>1, FifoAssumption DEF PushInv
<1>6. CASE Underflow \/ UNCHANGED vars
  <2>1. UNCHANGED <<packet, pushing, wr, fifo, s>>
    BY <1>6 DEF Underflow, listener, vars
  <2>2. Fill(s'.dptr, s'.wrptr) \in 0..Fill(s.dptr, s.wrptr)
    BY <2>1, <1>t, FifoAssumption
  <2> QED  BY <2>1, <2>2, PushKept
<1>7. CASE Pull
  <2>1. /\ UNCHANGED <<packet, pushing, wr, fifo>> /\ s.dptr # s.wrptr
        /\ s'.wrptr = s.wrptr /\ s'.dptr = Wrap(s.dptr + 1)
    BY <1>7, <1>t DEF Pull, listener, Ofifo
  <2>2. Fill(s'.dptr, s'.wrptr) = Fill(s.dptr, s.wrptr) - 1 /\ Fill(s.dptr, s.wrptr) # 0
    BY <2>1, <1>t, FillAfterPull, FillRange
  <2>3. Fill(s'.dptr, s'.wrptr) \in 0..Fill(s.dptr, s.wrptr)
    BY <2>2, <1>t, FifoAssumption
  <2> QED  BY <2>1, <2>3, PushKept
<1> QED  BY <1>1, <1>2, <1>3, <1>4, <1>5, <1>6, <1>7 DEF Next, Push

\* While a push is under way, what it has written is in order and fits.
THEOREM PushAlways == Spec => []PushInv
BY PushInit, PushStep, TypeAlways, PTL DEF Spec

------------------------------------------------------------------------------
(* The queue.                                                               *)

\* The words between the pointers are at most Size - 1 samples.
LEMMA UnreadType ==
  ASSUME NEW f \in Ofifo, NEW x \in [Slots -> Word]
  PROVE  [i \in 1..Fill(f.dptr, f.wrptr) |-> x[Wrap(f.dptr + i - 1)]]
           \in Queue!UpTo(Size - 1)
<1> DEFINE n == Fill(f.dptr, f.wrptr)
<1>1. f.dptr \in Slots /\ n \in 0..(Size - 1)
  BY FillRange DEF Ofifo
<1> HIDE DEF n
<1>2. \A i \in 1..n : Wrap(f.dptr + i - 1) \in Slots
  BY <1>1, FifoAssumption DEF Slots, Wrap
<1>3. [i \in 1..n |-> x[Wrap(f.dptr + i - 1)]] \in [1..n -> Word]
  BY <1>2
<1> QED  BY <1>1, <1>3 DEF n, Queue!UpTo

\* So is a packet, which is no longer than MaxPacket.
LEMMA BoundedPacket ==
  ASSUME NEW q \in Seq(Word), NEW c \in Nat, Len(q) <= c
  PROVE  q \in Queue!UpTo(c)
<1>1. Len(q) \in 0..c /\ q \in [1..Len(q) -> Word]
  OBVIOUS
<1> QED  BY <1>1 DEF Queue!UpTo

\* A step that announces itself in sync may change the queue at will.
LEMMA Resynced ==
  ASSUME TypeInv', PushInv',
         <<s.state, active, manager.at>>' # <<s.state, active, manager.at>>
  PROVE  Queue!Resync
<1>1. Unread' \in Queue!UpTo(Size - 1)
  BY UnreadType DEF TypeInv, TypeOK, Unread
<1>2. packet' \in Queue!UpTo(MaxPacket)
  BY BoundedPacket, FifoAssumption DEF TypeInv, PushInv
<1>3. played' \in Word
  BY DEF TypeInv, TypeOK
<1> QED  BY <1>1, <1>2, <1>3 DEF Queue!Resync

\* An empty FIFO is an empty queue, and only an empty one is.
LEMMA UnreadEmpty ==
  ASSUME TypeInv
  PROVE  /\ Unread \in Seq(Word) /\ Len(Unread) = Fill(s.dptr, s.wrptr)
         /\ Unread = <<>> <=> s.dptr = s.wrptr
<1>1. /\ s.dptr \in Slots /\ s.wrptr \in Slots
      /\ Fill(s.dptr, s.wrptr) \in 0..(Size - 1)
      /\ Fill(s.dptr, s.wrptr) = 0 <=> s.dptr = s.wrptr
  BY FillRange DEF TypeInv, TypeOK, Ofifo
<1>2. \A i \in 1..Fill(s.dptr, s.wrptr) : Wrap(s.dptr + i - 1) \in Slots
  BY <1>1, FifoAssumption DEF Slots, Wrap
<1>3. Unread \in [1..Fill(s.dptr, s.wrptr) -> Word]
  BY <1>2 DEF Unread, TypeInv, TypeOK
<1>4. Unread \in Seq(Word) /\ Len(Unread) = Fill(s.dptr, s.wrptr)
  BY <1>1, <1>3, FifoAssumption
<1> QED  BY <1>1, <1>4

\* A sequence is the function from its positions to its elements.
LEMMA SequenceIsFunction ==
  ASSUME NEW q \in Seq(Word), NEW m \in Nat, Len(q) = m
  PROVE  q = [i \in 1..m |-> q[i]]
OBVIOUS

\* The FIFO starts as an empty queue.
LEMMA RefineInit == Init => Queue!QInit
<1> SUFFICES ASSUME Init PROVE Queue!QInit
  OBVIOUS
<1>1. s.dptr = s.wrptr
  BY DEF Init
<1> QED  BY <1>1, TypeInit, UnreadEmpty DEF Init, Queue!QInit

\* A pull takes the oldest sample and plays it or, muted, silence.
LEMMA RefinePull ==
  ASSUME TypeInv, Pull
  PROVE  Queue!Take
<1>t. /\ s \in Ofifo /\ s.dptr \in Slots /\ s.wrptr \in Slots /\ fifo \in [Slots -> Word]
      /\ Fill(s.dptr, s.wrptr) \in 0..(Size - 1)
  BY FillRange DEF TypeInv, TypeOK, Ofifo
<1>1. /\ s.dptr # s.wrptr /\ s'.wrptr = s.wrptr /\ s'.dptr = Wrap(s.dptr + 1)
      /\ s'.state = s.state /\ fifo' = fifo
  BY <1>t DEF Pull, Ofifo
<1> DEFINE n == Fill(s.dptr, s.wrptr)
<1>2. Fill(s'.dptr, s'.wrptr) = n - 1 /\ n \in 1..(Size - 1)
  BY <1>1, <1>t, FillAfterPull, FillRange, FifoAssumption
<1>3. Unread \in Seq(Word) /\ Len(Unread) = n /\ Unread # <<>>
  BY <1>1, UnreadEmpty
<1>4. \A i \in 1..n : Unread[i] = fifo[Wrap(s.dptr + i - 1)]
  BY DEF Unread
<1>5. Head(Unread) = fifo[s.dptr]
  <2>1. Wrap(s.dptr + 1 - 1) = s.dptr
    BY <1>t, FifoAssumption DEF Slots, Wrap
  <2>2. Unread[1] = fifo[Wrap(s.dptr + 1 - 1)]
    BY <1>2, <1>4
  <2> QED  BY <1>3, <2>1, <2>2
<1>6. Unread' = [i \in 1..(n - 1) |-> fifo[Wrap(s'.dptr + i - 1)]]
  BY <1>1, <1>2 DEF Unread
<1> HIDE DEF n
<1>7. Unread' = Tail(Unread)
  <2>0. n - 1 \in Nat
    BY <1>2, FifoAssumption
  <2>1. Tail(Unread) \in Seq(Word) /\ Len(Tail(Unread)) = n - 1
    BY <1>3
  <2>3. \A i \in 1..(n - 1) : Tail(Unread)[i] = Unread[i + 1]
    BY <1>3, <2>0
  <2>4. Tail(Unread) = [i \in 1..(n - 1) |-> Tail(Unread)[i]]
    BY <2>0, <2>1, SequenceIsFunction, Zenon
  <2>2. ASSUME NEW i \in 1..(n - 1)
        PROVE  Unread[i + 1] = fifo[Wrap(s'.dptr + i - 1)]
    <3>1. i + 1 \in 1..n
      BY <1>2
    <3>2. Unread[i + 1] = fifo[Wrap(s.dptr + (i + 1) - 1)]
      BY <1>4, <3>1
    <3>3. Wrap(s.dptr + (i + 1) - 1) = Wrap(Wrap(s.dptr + 1) + i - 1)
      BY <1>2, <1>t, FifoAssumption DEF Slots, Wrap
    <3> QED  BY <1>1, <3>2, <3>3
  <2> QED  BY <1>6, <2>2, <2>3, <2>4, Zenon
<1>8. played' \in {0, Head(Unread)}
  BY <1>5 DEF Pull
<1> QED  BY <1>1, <1>3, <1>7, <1>8 DEF Queue!Take, Pull, listener, server

\* The end of a push publishes the samples it kept.
LEMMA RefinePushDone ==
  ASSUME TypeInv, PushInv, PushDone
  PROVE  Queue!Publish
<1>t. /\ s \in Ofifo /\ s.dptr \in Slots /\ s.wrptr \in Slots /\ fifo \in [Slots -> Word]
      /\ Fill(s.dptr, s.wrptr) \in 0..(Size - 1)
  BY FillRange DEF TypeInv, TypeOK, Ofifo
<1>p. packet \in Seq(Word) /\ Len(packet) \in Nat
  BY DEF TypeInv
<1>1. /\ s'.wrptr = wr /\ s'.dptr = s.dptr /\ s'.state = s.state /\ fifo' = fifo
      /\ packet # <<>> /\ pushing = <<>> /\ packet' = <<>>
  BY <1>t DEF PushDone, Ofifo
<1>2. PICK n \in 0..Len(packet) : \E kept \in [1..n -> Nat] : Kept(n, kept)
  BY <1>1 DEF PushInv
<1>3. PICK kept \in [1..n -> Nat] : Kept(n, kept)
  BY <1>2
<1> DEFINE l == Fill(s.dptr, s.wrptr)
           new == [k \in 1..n |-> packet[kept[k]]]
<1>4. /\ kept \in [1..n -> DOMAIN packet] /\ wr = Wrap(s.wrptr + n) /\ l + n < Size /\ n \in Nat
      /\ \A k \in 1..n : fifo[Wrap(s.wrptr + (k - 1))] = packet[kept[k]]
      /\ \A i, j \in 1..n : i < j => kept[i] < kept[j]
  BY <1>1, <1>3, <1>t, <1>p DEF Kept
<1>5. Fill(s'.dptr, s'.wrptr) = l + n
  BY <1>1, <1>4, <1>t, FillAfterPush
<1>6. Unread' = [i \in 1..(l + n) |-> fifo[Wrap(s.dptr + i - 1)]]
  BY <1>1, <1>5 DEF Unread
<1>7. Unread \in Seq(Word) /\ Len(Unread) = l
  BY UnreadEmpty
<1>8. new \in Seq(Word) /\ Len(new) = n
  BY <1>4, <1>p
<1>9. \A i \in 1..l : Unread[i] = fifo[Wrap(s.dptr + i - 1)]
  BY DEF Unread
<1>10. ASSUME NEW i \in (l + 1)..(l + n)
       PROVE  fifo[Wrap(s.dptr + i - 1)] = new[i - l]
  <2>1. i - l \in 1..n /\ i - l - 1 \in Nat /\ l + (i - l - 1) < Size
    BY <1>4, <1>t, FifoAssumption
  <2>2. Wrap(s.dptr + (l + (i - l - 1))) = Wrap(s.wrptr + (i - l - 1))
    BY <2>1, <1>t, WrapFill
  <2>3. s.dptr + (l + (i - l - 1)) = s.dptr + i - 1
    BY <1>t, FifoAssumption DEF Slots
  <2> QED  BY <2>1, <2>2, <2>3, <1>4
<1> HIDE DEF l, new
<1>11. Unread' = Unread \o new
  <2>2. l \in Nat /\ n \in Nat /\ l + n \in Nat
    BY <1>4, <1>t, FifoAssumption DEF l
  <2>0. Unread \o new \in Seq(Word) /\ Len(Unread \o new) = l + n
    BY <1>7, <1>8, ConcatProperties, Zenon
  <2>1. \A i \in 1..(l + n) : (Unread \o new)[i] = IF i <= l THEN Unread[i] ELSE new[i - l]
    BY <1>7, <1>8, <2>2, ConcatProperties
  <2>4. Unread \o new = [i \in 1..(l + n) |-> (Unread \o new)[i]]
    BY <2>0, <2>2, SequenceIsFunction, Zenon
  <2>3. ASSUME NEW i \in 1..(l + n)
        PROVE  fifo[Wrap(s.dptr + i - 1)] = IF i <= l THEN Unread[i] ELSE new[i - l]
    <3>1. CASE i <= l   BY <3>1, <2>2, <1>9
    <3>2. CASE ~(i <= l)
      <4>1. i \in (l + 1)..(l + n)
        BY <3>2, <2>2
      <4> QED  BY <3>2, <4>1, <1>10
    <3> QED  BY <3>1, <3>2
  <2> QED  BY <1>6, <2>1, <2>3, <2>4, Zenon
<1>12. Len(Unread) + n <= Size - 1
  BY <1>4, <1>7, <1>t, FifoAssumption DEF l
<1>13. played' = played /\ <<s.state, active, manager.at>>' = <<s.state, active, manager.at>>
  BY <1>1 DEF PushDone, server
<1> QED  BY <1>1, <1>4, <1>11, <1>12, <1>13, Zenon DEF Queue!Publish, new

\* A push in progress writes words the reader cannot see.
LEMMA RefinePushSample ==
  ASSUME TypeInv, PushInv, PushSample
  PROVE  UNCHANGED Queue!qvars
<1>t. /\ s.dptr \in Slots /\ s.wrptr \in Slots /\ fifo \in [Slots -> Word] /\ wr \in Slots
      /\ Fill(s.dptr, s.wrptr) \in 0..(Size - 1)
  BY FillRange DEF TypeInv, TypeOK, Ofifo
<1>1. /\ s' = s /\ packet' = packet /\ played' = played /\ active' = active /\ manager' = manager
      /\ pushing # <<>>
  BY DEF PushSample, server
<1>2. PICK n \in 0..Len(packet) : \E kept \in [1..n -> Nat] : Kept(n, kept)
  BY <1>1, PushTail DEF PushInv
<1>3. wr = Wrap(s.wrptr + n) /\ Fill(s.dptr, s.wrptr) + n < Size /\ n \in Nat
  BY <1>2 DEF Kept
<1>4. wr = Wrap(s.dptr + (Fill(s.dptr, s.wrptr) + n))
  BY <1>3, <1>t, WrapFill
<1>5. ASSUME NEW i \in 1..Fill(s.dptr, s.wrptr)
      PROVE  fifo'[Wrap(s.dptr + i - 1)] = fifo[Wrap(s.dptr + i - 1)]
  <2>1. /\ i - 1 \in 0..(Size - 1) /\ Fill(s.dptr, s.wrptr) + n \in 0..(Size - 1)
        /\ i - 1 # Fill(s.dptr, s.wrptr) + n
        /\ s.dptr + i - 1 = s.dptr + (i - 1)
        /\ s.dptr + i - 1 \in (-Size) .. (2 * Size - 1)
    BY <1>3, <1>t, FifoAssumption DEF Slots
  <2>2. Wrap(s.dptr + (i - 1)) # wr
    BY <2>1, <1>4, <1>t, WrapApart
  <2>3. Wrap(s.dptr + i - 1) \in Slots
    BY <2>1, WrapInSlots
  <2> QED  BY <2>1, <2>2, <2>3, <1>t DEF PushSample
<1>6. Unread' = Unread
  BY <1>1, <1>5 DEF Unread
<1> QED  BY <1>1, <1>6 DEF Queue!qvars

\* A packet either resynchronises the FIFO, and says so, or leaves its queue alone.
LEMMA RefinePacket ==
  ASSUME TypeInv, TypeInv', PushInv', Packet
  PROVE  Queue!Unpack \/ Queue!Resync
<1>1. CASE <<s.state, active, manager.at>>' # <<s.state, active, manager.at>>
  BY <1>1, Resynced
<1>2. CASE <<s.state, active, manager.at>>' = <<s.state, active, manager.at>>
  <2>0. PICK k \in 1 .. MaxPacket : \E i \in {None} \cup 0 .. (k - 1) : Arrives(k, i)
    BY DEF Packet, Arrives
  <2>1. PICK i \in {None} \cup 0 .. (k - 1) : Arrives(k, i)
    BY <2>0
  <2>2. i \in {None} \cup 0 .. (MaxPacket - 1)
    BY FifoAssumption DEF None
  <2> DEFINE f == SetPtpTimestamp(s, i)
  <2>3. f \in Ofifo /\ f.dptr = s.dptr /\ f.wrptr = s.wrptr /\ f.state = s.state
    BY <2>2, SetPtpTimestampType, SetPtpTimestampKeeps DEF TypeInv, TypeOK
  <2> HIDE DEF f
  <2>a. s' = Maintained(f, notified)
    BY <2>1 DEF Arrives, f
  <2>b. s'.dptr = s.dptr /\ (s'.wrptr = s.wrptr \/ (s.state = "ZEROING" /\ s'.state = "LOCKING"))
    BY <2>a, <2>3, MaintainedKeeps, Zenon
  <2>4. s'.dptr = s.dptr /\ s'.wrptr = s.wrptr
    BY <1>2, <2>b
  <2>5. packet = <<>> /\ played' = played /\ fifo' = fifo
    BY DEF Packet, ListenerIdle
  <2>6. Unread' = Unread
    BY <2>4, <2>5 DEF Unread
  <2>7. packet' \in Queue!UpTo(MaxPacket)
    BY BoundedPacket, FifoAssumption DEF TypeInv, PushInv
  <2> QED  BY <1>2, <2>5, <2>6, <2>7 DEF Queue!Unpack
<1> QED  BY <1>1, <1>2

\* Every step of the FIFO is a step of the queue or leaves it unchanged.
LEMMA RefineStep ==
  TypeInv /\ TypeInv' /\ PushInv /\ PushInv' /\ [Next]_vars => [Queue!QNext]_(Queue!qvars)
<1> SUFFICES ASSUME TypeInv, TypeInv', PushInv, PushInv', [Next]_vars
             PROVE  Queue!QNext \/ UNCHANGED Queue!qvars
  OBVIOUS
<1>1. CASE Enable \/ Disable
  <2>1. active' # active
    BY <1>1 DEF Enable, Disable
  <2> QED  BY <2>1, Resynced DEF Queue!QNext
<1>2. CASE BufCtl
  <2>1. manager.at # manager'.at
    BY <1>2 DEF BufCtl, NewStreamInfo, AckUnclocked, RequestInfo, Adjust, Reset, Ack, Idle
  <2> QED  BY <2>1, Resynced DEF Queue!QNext
<1>3. CASE Packet
  BY <1>3, RefinePacket DEF Queue!QNext
<1>4. CASE PushSample
  BY <1>4, RefinePushSample
<1>5. CASE PushDone
  BY <1>5, RefinePushDone DEF Queue!QNext
<1>6. CASE Underflow
  <2>1. Unread = <<>> /\ UNCHANGED <<s, fifo, packet, active, manager>> /\ played' = 0
    BY <1>6, UnreadEmpty DEF Underflow, listener, server
  <2>2. Unread' = Unread
    BY <2>1 DEF Unread
  <2> QED  BY <2>1, <2>2 DEF Queue!Starve, Queue!QNext
<1>7. CASE Pull
  BY <1>7, RefinePull DEF Queue!QNext
<1>8. CASE UNCHANGED vars
  BY <1>8 DEF vars, Queue!qvars, Unread
<1> QED  BY <1>1, <1>2, <1>3, <1>4, <1>5, <1>6, <1>7, <1>8 DEF Next, Push

\* The FIFO implements the bounded first-in first-out queue, for any size, any
\* interleaving of pushes and pulls and any resynchronisation: IsSampleQueue.
THEOREM QueueTheorem == Spec => IsSampleQueue
<1>1. Init => Queue!QInit
  BY RefineInit
<1>2. TypeInv /\ TypeInv' /\ PushInv /\ PushInv' /\ [Next]_vars => [Queue!QNext]_(Queue!qvars)
  BY RefineStep
<1> QED  BY <1>1, <1>2, TypeAlways, PushAlways, PTL DEF Spec, IsSampleQueue, Queue!QSpec

------------------------------------------------------------------------------
(* The marked sample and its timestamps.                                     *)

(* The marked sample is in the FIFO and has not been pulled.                *)
MarkedUnread ==
  /\ Fill(s.dptr, s.marker) < Fill(s.dptr, s.wrptr)
  /\ fifo[s.marker] = Marked

(* The marked sample is in the packet being pushed, and its word is the one *)
(* the marker points at; the push has written it or will.                   *)
MarkedComing ==
  \E i \in 0..(Len(packet) - 1) :
    /\ s.marker = Wrap(s.wrptr + i)
    /\ packet[i + 1] = Marked
    /\ i < Len(packet) - Len(pushing) => fifo[s.marker] = Marked

(* A packet that has room is pushed as a whole.                             *)
WholePush ==
  /\ Fill(s.dptr, s.wrptr) + Len(packet) < Size
  /\ wr = Wrap(s.wrptr + (Len(packet) - Len(pushing)))

(* The marked sample has been played, at the time taken, or is still ahead. *)
MarkFound == s.local = Marked \/ (s.local = 0 /\ (MarkedUnread \/ MarkedComing))

Running == s.state \in {"LOCKING", "LOCKED"}

(* The marker and the timestamps are set and cleared together; until it is  *)
(* played the marked sample is where the marker says; and what the manager  *)
(* has been notified of is still there when it asks.                        *)
MarkInv ==
  /\ s.marker = None => s.ptp = 0 /\ s.local = 0
  /\ s.marker # None => s.ptp = Marked
  /\ s.marker # None /\ ~crowded /\ packet # <<>> => WholePush
  /\ Running /\ s.marker # None /\ ~crowded => MarkFound
  /\ manager.at = "gotInfo" /\ ~raced => Running /\ s.ptp # 0 /\ s.local # 0
  /\ manager.at = "info" /\ ~raced => manager.stamped

\* The FIFO starts without a marked sample.
LEMMA MarkInit == Init => MarkInv
<1> SUFFICES ASSUME Init PROVE MarkInv
  OBVIOUS
<1>1. s.marker = None /\ s.ptp = 0 /\ s.local = 0 /\ manager.at = "idle"
  BY DEF Init, Idle
<1> QED  BY <1>1, Zenon DEF MarkInv, None

\* A place some words after the write pointer is not among the unread words.
LEMMA FillBeyond ==
  ASSUME NEW r \in Slots, NEW w \in Slots, NEW n \in Nat, Fill(r, w) + n < Size,
         NEW m \in Slots, Fill(r, m) < Fill(r, w)
  PROVE  Wrap(w + n) # m
BY FifoAssumption DEF Slots, Wrap, Fill

\* A step that clears the marker, or leaves the FIFO not running, owes only that
\* the manager was told the truth.
LEMMA MarkCleared ==
  ASSUME s'.marker = None, s'.ptp = 0, s'.local = 0,
         manager'.at = "gotInfo" => raced',
         manager'.at = "info" /\ ~raced' => manager'.stamped
  PROVE  MarkInv'
BY Zenon DEF MarkInv

\* A step of the manager that leaves the FIFO alone, or stops it.
LEMMA MarkIdle ==
  ASSUME MarkInv, ListenerIdle, packet' = packet,
         s'.marker = s.marker, s'.ptp = s.ptp, s'.local = s.local,
         s'.state \notin {"LOCKING", "LOCKED"},
         manager'.at = "gotInfo" => raced',
         manager'.at = "info" /\ ~raced' => manager'.stamped
  PROVE  MarkInv'
BY Zenon DEF MarkInv, ListenerIdle, Running

\* A sample is pulled: if it is the marked one, the time it was played at is
\* taken, and otherwise the marked sample is still ahead.
LEMMA MarkPull ==
  ASSUME TypeInv, PushInv, MarkInv, Pull
  PROVE  MarkInv'
<1>t. /\ s \in Ofifo /\ s.dptr \in Slots /\ s.wrptr \in Slots /\ fifo \in [Slots -> Word]
      /\ s.local \in Word /\ s.marker \in Slots \cup {None}
  BY DEF TypeInv, TypeOK, Ofifo
<1>f. Fill(s.dptr, s.wrptr) \in 0..(Size - 1) /\ Len(packet) \in Nat
  BY <1>t, FillRange DEF TypeInv
<1>1. /\ s.dptr # s.wrptr /\ s'.wrptr = s.wrptr /\ s'.dptr = Wrap(s.dptr + 1)
      /\ s'.state = s.state /\ s'.marker = s.marker /\ s'.ptp = s.ptp
      /\ s'.local = IF s.dptr = s.marker /\ s.local = 0 THEN Stamp(fifo[s.dptr]) ELSE s.local
  BY <1>t DEF Pull, Ofifo
<1>2. /\ UNCHANGED <<packet, pushing, wr, fifo, crowded, raced, manager>>
  BY DEF Pull, listener, server
<1>3. Fill(s'.dptr, s'.wrptr) = Fill(s.dptr, s.wrptr) - 1
  BY <1>1, <1>t, FillAfterPull
<1>4. s.marker = None => s'.local = 0
  BY <1>1, <1>t, FifoAssumption DEF MarkInv, Slots, None
<1>5. s.marker # None /\ ~crowded /\ packet # <<>> => WholePush'
  BY <1>1, <1>2, <1>3, <1>t, <1>f, FifoAssumption DEF MarkInv, WholePush
<1>6. s.local # 0 => s'.local # 0
  BY <1>1
<1>7. ASSUME Running, s.marker # None, ~crowded
      PROVE  MarkFound'
  <2>0. s.marker \in Slots
    BY <1>7, <1>t
  <2>1. CASE s.local = Marked
    BY <2>1, <1>1 DEF Marked, MarkFound
  <2>2. CASE s.local = 0 /\ MarkedUnread
    <3>1. CASE s.dptr = s.marker
      BY <3>1, <2>2, <1>1 DEF MarkedUnread, Stamp, MarkFound
    <3>2. CASE s.dptr # s.marker
      <4>1. Fill(s'.dptr, s'.marker) = Fill(s.dptr, s.marker) - 1
        BY <3>2, <2>0, <1>1, <1>t, FillAfterPull
      <4>2. Fill(s.dptr, s.marker) \in 0..(Size - 1)
        BY <2>0, <1>t, FillRange
      <4>3. MarkedUnread'
        BY <4>1, <4>2, <1>1, <1>2, <1>3, <1>t, <1>f, <2>2, FifoAssumption DEF MarkedUnread
      <4> QED  BY <4>3, <3>2, <2>2, <1>1 DEF MarkFound
    <3> QED  BY <3>1, <3>2
  <2>3. CASE s.local = 0 /\ MarkedComing
    <3>1. PICK i \in 0..(Len(packet) - 1) :
             /\ s.marker = Wrap(s.wrptr + i)
             /\ packet[i + 1] = Marked
             /\ i < Len(packet) - Len(pushing) => fifo[s.marker] = Marked
      BY <2>3 DEF MarkedComing
    <3>2. packet # <<>>
      BY <3>1, <1>f
    <3>3. Fill(s.dptr, s.wrptr) + Len(packet) < Size
      BY <3>2, <1>7 DEF MarkInv, WholePush
    <3>i. i \in Nat /\ Fill(s.dptr, s.wrptr) + i < Size
      BY <3>1, <3>3, <1>f, FifoAssumption
    <3>4. Fill(s.dptr, s.marker) = Fill(s.dptr, s.wrptr) + i
      BY <3>1, <3>i, <1>t, FillAfterPush
    <3>5. s.dptr # s.marker
      BY <3>4, <3>1, <1>1, <1>t, <1>f, <2>0, FillRange, FifoAssumption
    <3>6. MarkedComing'
      BY <3>1, <1>1, <1>2, Zenon DEF MarkedComing
    <3> QED  BY <3>5, <3>6, <2>3, <1>1 DEF MarkFound
  <2> QED  BY <2>1, <2>2, <2>3, <1>7, Zenon DEF MarkInv, MarkFound
<1>8. /\ manager.at = "gotInfo" /\ ~raced => Running /\ s.ptp # 0 /\ s.local # 0
      /\ manager.at = "info" /\ ~raced => manager.stamped
      /\ s.marker = None => s.ptp = 0 /\ s.local = 0
      /\ s.marker # None => s.ptp = Marked
  BY DEF MarkInv
<1>9. Running' <=> Running
  BY <1>1 DEF Running
<1>10. (s.marker = None => s.ptp = 0 /\ s.local = 0)' /\ (s.marker # None => s.ptp = Marked)'
  BY <1>4, <1>8, <1>1
<1>11. (s.marker # None /\ ~crowded /\ packet # <<>> => WholePush)'
  BY <1>5, <1>2, <1>1
<1>12. (Running /\ s.marker # None /\ ~crowded => MarkFound)'
  <2> SUFFICES ASSUME Running', s'.marker # None, ~crowded'
               PROVE  MarkFound'
    OBVIOUS
  <2>1. Running /\ s.marker # None /\ ~crowded
    BY <1>1, <1>2, <1>9
  <2> QED  BY <2>1, <1>7, Zenon
<1>13. (/\ manager.at = "gotInfo" /\ ~raced => Running /\ s.ptp # 0 /\ s.local # 0
        /\ manager.at = "info" /\ ~raced => manager.stamped)'
  BY <1>8, <1>9, <1>6, <1>2, <1>1
<1> QED  BY <1>10, <1>11, <1>12, <1>13, Zenon DEF MarkInv

\* One sample is pushed: it is written behind the unread words, and a packet
\* that has room loses none of its samples.
LEMMA MarkPushSample ==
  ASSUME TypeInv, PushInv, MarkInv, PushSample
  PROVE  MarkInv'
<1>t. /\ s \in Ofifo /\ s.dptr \in Slots /\ s.wrptr \in Slots /\ fifo \in [Slots -> Word]
      /\ s.marker \in Slots \cup {None} /\ pushing # <<>> /\ wr \in Slots
  BY DEF TypeInv, TypeOK, Ofifo, PushSample
<1>f. /\ Fill(s.dptr, s.wrptr) \in 0..(Size - 1)
  BY <1>t, FillRange
<1>p. /\ packet # <<>> /\ Len(packet) \in Nat /\ Len(pushing) \in 1..Len(packet)
      /\ Len(Tail(pushing)) = Len(pushing) - 1
      /\ Head(pushing) = packet[Len(packet) - Len(pushing) + 1]
  BY <1>t, PushTail
<1>1. /\ UNCHANGED <<s, packet, crowded, raced, manager>>
      /\ pushing' = Tail(pushing)
  BY DEF PushSample, server
<1> DEFINE n == Len(packet) - Len(pushing)
<1>2. ASSUME s.marker # None, ~crowded
      PROVE  /\ n \in 0..(Len(packet) - 1) /\ Len(packet') - Len(pushing') = n + 1
             /\ Fill(s.dptr, s.wrptr) + Len(packet) < Size
             /\ wr = Wrap(s.wrptr + n) /\ wr' = Wrap(s.wrptr + (n + 1))
             /\ fifo' = [fifo EXCEPT ![wr] = Head(pushing)]
  <2>1. WholePush
    BY <1>2, <1>p, Zenon DEF MarkInv
  <2>2. /\ n \in 0..(Len(packet) - 1) /\ Len(packet') - Len(pushing') = n + 1
        /\ Fill(s.dptr, s.wrptr) + Len(packet) < Size
        /\ wr = Wrap(s.wrptr + n)
    <3>1. Len(packet') = Len(packet) /\ Len(pushing') = Len(pushing) - 1
      BY <1>p, <1>1
    <3>2. n \in 0..(Len(packet) - 1) /\ Len(packet') - Len(pushing') = n + 1
      BY <3>1, <1>p
    <3> QED  BY <2>1, <3>2 DEF WholePush
  <2>3. Wrap(wr + 1) = Wrap(s.wrptr + (n + 1))
    BY <2>2, <1>t, <1>f, <1>p, WrapAdd, FifoAssumption
  <2>4. Wrap(wr + 1) # s.dptr
    <3>1. Fill(s.dptr, Wrap(s.wrptr + (n + 1))) = Fill(s.dptr, s.wrptr) + (n + 1)
      BY <2>2, <1>t, <1>f, <1>p, FillAfterPush, FifoAssumption
    <3>2. Fill(s.dptr, s.dptr) = 0
      BY <1>t, FillRange
    <3> QED  BY <3>1, <3>2, <2>2, <2>3, <1>f
  <2>5. wr' = Wrap(wr + 1) /\ fifo' = [fifo EXCEPT ![wr] = Head(pushing)]
    BY <2>4 DEF PushSample
  <2> QED  BY <2>2, <2>3, <2>5
<1>3. (s.marker # None /\ ~crowded /\ packet # <<>> => WholePush)'
  <2> SUFFICES ASSUME s.marker # None, ~crowded PROVE WholePush'
    BY <1>1
  <2> QED  BY <1>1, <1>2 DEF WholePush
<1>4. ASSUME Running, s.marker # None, ~crowded, s.local # Marked
      PROVE  s.local = 0 /\ (MarkedUnread' \/ MarkedComing')
  <2>0. s.marker \in Slots
    BY <1>4, <1>t
  <2>1. s.local = 0 /\ (MarkedUnread \/ MarkedComing)
    BY <1>4, Zenon DEF MarkInv, MarkFound
  <2>2. CASE MarkedUnread
    <3>1. wr # s.marker
      BY <1>2, <1>4, <2>0, <2>2, <1>t, <1>f, <1>p, FillBeyond, FifoAssumption DEF MarkedUnread
    <3>2. fifo'[s.marker] = fifo[s.marker]
      BY <3>1, <1>2, <1>4, <1>t, <2>0
    <3>3. MarkedUnread'
      BY <3>2, <2>2, <1>1 DEF MarkedUnread
    <3> QED  BY <2>1, <3>3
  <2>3. CASE MarkedComing
    <3>1. PICK i \in 0..(Len(packet) - 1) :
             /\ s.marker = Wrap(s.wrptr + i)
             /\ packet[i + 1] = Marked
             /\ i < Len(packet) - Len(pushing) => fifo[s.marker] = Marked
      BY <2>3 DEF MarkedComing
    <3>2. i < n + 1 => fifo'[s.marker] = Marked
      <4>1. CASE i = n
        BY <4>1, <3>1, <1>2, <1>4, <1>p, <1>t
      <4>2. CASE i < n
        <5>1. wr # s.marker
          BY <4>2, <3>1, <1>2, <1>4, <1>p, <1>t, <1>f, WrapApart, FifoAssumption
        <5> QED  BY <5>1, <4>2, <3>1, <1>2, <1>4, <1>t, <2>0
      <4> QED  BY <4>1, <4>2, <3>1, <1>2, <1>4, <1>p
    <3>3. i < Len(packet') - Len(pushing') => fifo'[s.marker] = Marked
      BY <3>2, <1>2, <1>4
    <3>4. MarkedComing'
      BY <3>1, <3>3, <1>1, Zenon DEF MarkedComing
    <3> QED  BY <2>1, <3>4
  <2> QED  BY <2>1, <2>2, <2>3
<1>5. (Running /\ s.marker # None /\ ~crowded => MarkFound)'
  <2> SUFFICES ASSUME Running', s'.marker # None, ~crowded'
               PROVE  MarkFound'
    OBVIOUS
  <2>1. Running /\ s.marker # None /\ ~crowded /\ s'.local = s.local
    BY <1>1 DEF Running
  <2>2. CASE s.local = Marked
    BY <2>1, <2>2 DEF MarkFound
  <2>3. CASE s.local # Marked
    BY <2>1, <2>3, <1>4 DEF MarkFound
  <2> QED  BY <2>2, <2>3
<1>6. (/\ s.marker = None => s.ptp = 0 /\ s.local = 0
       /\ s.marker # None => s.ptp = Marked
       /\ manager.at = "gotInfo" /\ ~raced => Running /\ s.ptp # 0 /\ s.local # 0
       /\ manager.at = "info" /\ ~raced => manager.stamped)'
  BY <1>1, Zenon DEF MarkInv, Running
<1> QED  BY <1>3, <1>5, <1>6, Zenon DEF MarkInv

\* The push is published: the marked sample of a packet that had room is now
\* among the unread ones.
LEMMA MarkPushDone ==
  ASSUME TypeInv, PushInv, MarkInv, PushDone
  PROVE  MarkInv'
<1>t. /\ s \in Ofifo /\ s.dptr \in Slots /\ s.wrptr \in Slots
      /\ s.marker \in Slots \cup {None}
  BY DEF TypeInv, TypeOK, Ofifo
<1>f. /\ Fill(s.dptr, s.wrptr) \in 0..(Size - 1) /\ Len(packet) \in Nat
  BY <1>t, FillRange DEF TypeInv
<1>1. /\ s'.wrptr = wr /\ s'.dptr = s.dptr /\ s'.state = s.state /\ s'.marker = s.marker
      /\ s'.ptp = s.ptp /\ s'.local = s.local
  BY <1>t DEF PushDone, Ofifo
<1>2. /\ UNCHANGED <<fifo, crowded, raced, manager>>
      /\ packet # <<>> /\ pushing = <<>> /\ packet' = <<>>
  BY DEF PushDone, server
<1>3. ASSUME Running, s.marker # None, ~crowded, s.local # Marked
      PROVE  s.local = 0 /\ MarkedUnread'
  <2>0. s.marker \in Slots /\ Len(pushing) = 0
    BY <1>3, <1>2, <1>t
  <2>1. s.local = 0 /\ (MarkedUnread \/ MarkedComing) /\ WholePush
    BY <1>3, <1>2, Zenon DEF MarkInv, MarkFound
  <2>2. Fill(s'.dptr, s'.wrptr) = Fill(s.dptr, s.wrptr) + Len(packet)
    BY <2>0, <2>1, <1>1, <1>t, <1>f, FillAfterPush DEF WholePush
  <2>3. CASE MarkedUnread
    <3>1. Fill(s.dptr, s.marker) \in Int
      BY <2>0, <1>t, FillRange
    <3>2. MarkedUnread'
      BY <3>1, <2>2, <2>3, <1>1, <1>2, <1>f DEF MarkedUnread
    <3> QED  BY <2>1, <3>2
  <2>4. CASE MarkedComing
    <3>1. PICK i \in 0..(Len(packet) - 1) :
             /\ s.marker = Wrap(s.wrptr + i)
             /\ packet[i + 1] = Marked
             /\ i < Len(packet) - Len(pushing) => fifo[s.marker] = Marked
      BY <2>4 DEF MarkedComing
    <3>2. Fill(s.dptr, s.marker) = Fill(s.dptr, s.wrptr) + i
      BY <3>1, <2>1, <1>t, <1>f, FillAfterPush, FifoAssumption DEF WholePush
    <3>3. fifo[s.marker] = Marked
      BY <3>1, <2>0, <1>f
    <3>4. MarkedUnread'
      BY <3>1, <3>2, <3>3, <2>2, <1>1, <1>2, <1>f DEF MarkedUnread
    <3> QED  BY <2>1, <3>4
  <2> QED  BY <2>1, <2>3, <2>4
<1>4. (Running /\ s.marker # None /\ ~crowded => MarkFound)'
  <2> SUFFICES ASSUME Running', s'.marker # None, ~crowded'
               PROVE  MarkFound'
    OBVIOUS
  <2>1. Running /\ s.marker # None /\ ~crowded /\ s'.local = s.local
    BY <1>1, <1>2 DEF Running
  <2>2. CASE s.local = Marked
    BY <2>1, <2>2 DEF MarkFound
  <2>3. CASE s.local # Marked
    BY <2>1, <2>3, <1>3 DEF MarkFound
  <2> QED  BY <2>2, <2>3
<1>5. (/\ s.marker = None => s.ptp = 0 /\ s.local = 0
       /\ s.marker # None => s.ptp = Marked
       /\ manager.at = "gotInfo" /\ ~raced => Running /\ s.ptp # 0 /\ s.local # 0
       /\ manager.at = "info" /\ ~raced => manager.stamped)'
  BY <1>1, <1>2, Zenon DEF MarkInv, Running
<1> QED  BY <1>2, <1>4, <1>5, Zenon DEF MarkInv

\* A packet arrives.  If it marks a sample, the mark is in the packet; otherwise
\* the marked sample, if there is one, is where it was.
LEMMA MarkPacket ==
  ASSUME TypeInv, MuteInv, MarkInv, Packet
  PROVE  MarkInv'
<1>0. PICK k \in 1 .. MaxPacket : \E i \in {None} \cup 0 .. (k - 1) :
        /\ Arrives(k, i)
        /\ crowded' = /\ s'.marker # None
                      /\ (crowded /\ s'.marker = s.marker) \/ Fill(s'.dptr, s'.wrptr) + k >= Size
  BY DEF Packet, Arrives
<1>1. PICK i \in {None} \cup 0 .. (k - 1) :
        /\ Arrives(k, i)
        /\ crowded' = /\ s'.marker # None
                      /\ (crowded /\ s'.marker = s.marker) \/ Fill(s'.dptr, s'.wrptr) + k >= Size
  BY <1>0
<1> DEFINE f == SetPtpTimestamp(s, i)
<1>t. /\ s \in Ofifo /\ s.dptr \in Slots /\ s.wrptr \in Slots
      /\ s.marker \in Slots \cup {None} /\ s.local \in Word
  BY DEF TypeInv, TypeOK, Ofifo
<1>i. i \in {None} \cup 0 .. (MaxPacket - 1)
  BY FifoAssumption DEF None
<1>2. f \in Ofifo /\ s' = Maintained(f, notified)
  BY <1>1, <1>t, <1>i, SetPtpTimestampType DEF Arrives
<1>3. /\ UNCHANGED <<fifo, raced>> /\ packet = <<>>
      /\ packet' = pushing' /\ DOMAIN packet' = 1..k /\ packet' \in Seq(Word)
      /\ wr' = s'.wrptr
      /\ s'.state # "ZEROING" /\ Marks(s, i) => packet'[i + 1] = Marked
  <2>1. packet' \in Seq(Word)
    BY PacketType
  <2>2. UNCHANGED <<fifo, raced>> /\ packet = <<>>
    BY DEF Packet, ListenerIdle
  <2>3. packet' = pushing' /\ DOMAIN packet' = 1..k /\ wr' = s'.wrptr
    BY <1>1 DEF Arrives
  <2>4. ASSUME s'.state # "ZEROING", Marks(s, i) PROVE packet'[i + 1] = Marked
    <3>1. i + 1 \in 1..k /\ (i + 1) - 1 = i
      BY <2>4, FifoAssumption DEF Marks, None
    <3> QED  BY <3>1, <2>4, <1>1 DEF Arrives
  <2> QED  BY <2>1, <2>2, <2>3, <2>4
<1>4. Len(packet') = k /\ Len(pushing') = k /\ k \in Nat /\ packet' # <<>>
  BY <1>3, FifoAssumption
<1>5. /\ f.state = s.state /\ f.dptr = s.dptr /\ f.wrptr = s.wrptr
  BY <1>t, SetPtpTimestampKeeps
<1>6. /\ Marks(s, i) => f.marker = Wrap(s.wrptr + i) /\ f.ptp = Marked /\ f.local = 0
      /\ ~Marks(s, i) => f = s
  BY <1>t DEF SetPtpTimestamp, Ofifo
<1>7. \/ s'.state = "LOCKING" /\ s.state = "ZEROING" /\ s'.marker = None /\ s'.ptp = 0 /\ s'.local = 0
      \/ /\ s'.state = f.state /\ s'.dptr = f.dptr /\ s'.wrptr = f.wrptr
         /\ s'.marker = f.marker /\ s'.ptp = f.ptp /\ s'.local = f.local
  <2> DEFINE h == IF NotifiesNewStream(f, notified) THEN [f EXCEPT !.pendingInit = FALSE] ELSE f
  <2>1. [f EXCEPT !.pendingInit = FALSE] \in Ofifo
    BY <1>2, Zenon DEF Ofifo
  <2>2. /\ h \in Ofifo /\ h.state = f.state /\ h.dptr = f.dptr /\ h.wrptr = f.wrptr
        /\ h.marker = f.marker /\ h.ptp = f.ptp /\ h.local = f.local
    BY <2>1, <1>2 DEF Ofifo
  <2>3. s' = IF Zeroed(h) THEN Restarted(h)
             ELSE IF NotifiesInfo(f, notified) THEN [h EXCEPT !.since = 0] ELSE h
    BY <1>2 DEF Maintained
  <2> HIDE DEF h, f
  <2>4. CASE Zeroed(h)
    <3>1. s.state = "ZEROING"
      BY <2>4, <2>2, <1>5 DEF Zeroed
    <3>2. s'.state = "LOCKING" /\ s'.marker = None /\ s'.ptp = 0 /\ s'.local = 0
      BY <2>4, <2>3, <2>2 DEF Restarted, Unmarked, Ofifo
    <3> QED  BY <3>1, <3>2
  <2>5. CASE ~Zeroed(h)
    <3>1. s' = [h EXCEPT !.since = 0] \/ s' = h
      BY <2>5, <2>3
    <3> QED  BY <3>1, <2>2 DEF Ofifo
  <2> QED  BY <2>4, <2>5
<1>8. /\ manager' = manager \/ manager'.at = "newStream"
         \/ (manager'.at = "gotInfo" /\ InfoDue(f))
      /\ manager.at = "gotInfo" => manager' = manager
  <2>1. manager' = IF NotifiesNewStream(f, notified) THEN Inbox("newStream")
                   ELSE IF NotifiesInfo(f, notified) THEN Inbox("gotInfo") ELSE manager
    BY <1>1 DEF Arrives
  <2>2. Inbox("newStream").at = "newStream" /\ Inbox("gotInfo").at = "gotInfo"
    BY DEF Inbox, Idle
  <2>3. manager.at = "gotInfo" => notified
    BY DEF MuteInv, NotifiedIsPending
  <2> HIDE DEF f
  <2> QED  BY <2>1, <2>2, <2>3 DEF NotifiesNewStream, NotifiesInfo
<1> HIDE DEF f
<1>9. (s.marker = None => s.ptp = 0 /\ s.local = 0)' /\ (s.marker # None => s.ptp = Marked)'
  <2>1. /\ f.marker = None => f.ptp = 0 /\ f.local = 0
        /\ f.marker # None => f.ptp = Marked
    <3>1. CASE Marks(s, i)
      <4>1. f.marker \in Slots
        BY <3>1, <1>6, <1>i, <1>t, FifoAssumption DEF Marks, Wrap, Slots, None
      <4> QED  BY <4>1, <3>1, <1>6, FifoAssumption DEF Slots, None
    <3>2. CASE ~Marks(s, i)
      BY <3>2, <1>6 DEF MarkInv
    <3> QED  BY <3>1, <3>2
  <2> QED  BY <2>1, <1>7
<1>10. s'.marker # None => f.marker = s'.marker /\ f.local = s'.local /\ s'.dptr = s.dptr
                           /\ s'.wrptr = s.wrptr /\ s'.state = s.state
  BY <1>7, <1>5
<1>11. (s.marker # None /\ ~crowded /\ packet # <<>> => WholePush)'
  <2> SUFFICES ASSUME s'.marker # None, ~crowded' PROVE WholePush'
    OBVIOUS
  <2>1. Fill(s'.dptr, s'.wrptr) + k < Size
    <3>1. Fill(s'.dptr, s'.wrptr) \in 0..(Size - 1)
      BY <1>10, <1>t, FillRange
    <3>2. ~(Fill(s'.dptr, s'.wrptr) + k >= Size)
      BY <1>1
    <3> QED  BY <3>1, <3>2, <1>4, FifoAssumption
  <2>2. wr' = Wrap(s'.wrptr + (Len(packet') - Len(pushing')))
    BY <1>3, <1>4, <1>10, <1>t, FifoAssumption DEF Wrap, Slots
  <2> QED  BY <2>1, <2>2, <1>4 DEF WholePush
<1>12. (Running /\ s.marker # None /\ ~crowded => MarkFound)'
  <2> SUFFICES ASSUME Running', s'.marker # None, ~crowded'
               PROVE  MarkFound'
    OBVIOUS
  <2>1. CASE Marks(s, i)
    <3>1. s'.local = 0 /\ s'.marker = Wrap(s'.wrptr + i)
      BY <2>1, <1>6, <1>10
    <3>2. packet'[i + 1] = Marked
      BY <2>1, <1>3 DEF Running
    <3>3. i \in 0..(Len(packet') - 1)
      BY <2>1, <1>4 DEF Marks
    <3>4. ~(i < Len(packet') - Len(pushing'))
      BY <3>3, <1>4
    <3>5. MarkedComing'
      BY <3>1, <3>2, <3>3, <3>4, Zenon DEF MarkedComing
    <3> QED  BY <3>1, <3>5 DEF MarkFound
  <2>2. CASE ~Marks(s, i)
    <3>1. f = s /\ s'.marker = s.marker /\ s'.local = s.local
      BY <2>2, <1>6, <1>10
    <3>2. ~crowded /\ Running /\ s.marker # None
      BY <3>1, <1>1, <1>10 DEF Running, TypeInv, TypeOK
    <3>3. MarkFound
      BY <3>2, Zenon DEF MarkInv
    <3>4. ~MarkedComing
      BY <1>3 DEF MarkedComing
    <3>5. MarkedUnread => MarkedUnread'
      BY <3>1, <1>3, <1>10, Zenon DEF MarkedUnread
    <3> QED  BY <3>1, <3>3, <3>4, <3>5, Zenon DEF MarkFound
  <2> QED  BY <2>1, <2>2
<1>13. (manager.at = "gotInfo" /\ ~raced => Running /\ s.ptp # 0 /\ s.local # 0)'
  <2> SUFFICES ASSUME manager'.at = "gotInfo", ~raced'
               PROVE  Running' /\ s'.ptp # 0 /\ s'.local # 0
    OBVIOUS
  <2>1. f.state \in {"LOCKING", "LOCKED"} /\ f.ptp # 0 /\ f.local # 0
    <3>1. CASE InfoDue(f)
      BY <3>1 DEF InfoDue
    <3>2. CASE ~InfoDue(f)
      <4>1. manager.at = "gotInfo" /\ ~raced
        BY <3>2, <1>8, <1>3
      <4>2. Running /\ s.ptp # 0 /\ s.local # 0
        BY <4>1, Zenon DEF MarkInv
      <4>3. ~Marks(s, i)
        BY <4>2 DEF Marks, MarkInv
      <4> QED  BY <4>2, <4>3, <1>6 DEF Running
    <3> QED  BY <3>1, <3>2
  <2> QED  BY <2>1, <1>7, <1>5 DEF Running
<1>14. (manager.at = "info" /\ ~raced => manager.stamped)'
  <2> SUFFICES ASSUME manager'.at = "info", ~raced' PROVE manager'.stamped
    OBVIOUS
  <2>1. manager' = manager /\ ~raced
    BY <1>8, <1>3
  <2> QED  BY <2>1, Zenon DEF MarkInv
<1> QED  BY <1>9, <1>11, <1>12, <1>13, <1>14, Zenon DEF MarkInv

\* The steps of the tasks keep the marked sample where its marker says.
LEMMA MarkStep == TypeInv /\ MuteInv /\ PushInv /\ MarkInv /\ [Next]_vars => MarkInv'
<1> SUFFICES ASSUME TypeInv, MuteInv, PushInv, MarkInv, [Next]_vars PROVE MarkInv'
  OBVIOUS
<1>t. s \in Ofifo
  BY DEF TypeInv, TypeOK
<1>n. manager.at # "idle" => notified
  BY DEF MuteInv, NotifiedIsPending
<1>s. manager.at = "info" /\ ~raced => manager.stamped
  BY Zenon DEF MarkInv
<1>i. Idle.at = "idle"
  BY DEF Idle
<1>1. CASE Enable
  <2>1. s'.marker = None /\ s'.ptp = 0 /\ s'.local = 0
    BY <1>1 DEF Enable, Enabled
  <2>2. manager' = manager /\ raced' = notified
    BY <1>1 DEF Enable, server
  <2> QED  BY <2>1, <2>2, <1>n, <1>s, MarkCleared, Zenon
<1>2. CASE Disable
  <2>1. s'.state = "DISABLED" /\ s'.marker = s.marker /\ s'.ptp = s.ptp /\ s'.local = s.local
    BY <1>2, <1>t DEF Disable, Disabled, Ofifo
  <2>2. manager' = manager /\ raced' = (raced \/ notified) /\ ListenerIdle /\ packet' = packet
    BY <1>2 DEF Disable, server
  <2> QED  BY <2>1, <2>2, <1>n, <1>s, MarkIdle, Zenon
<1>3. CASE Packet
  BY <1>3, MarkPacket
<1>4. CASE PushSample
  BY <1>4, MarkPushSample
<1>5. CASE PushDone
  BY <1>5, MarkPushDone
<1>6. CASE Underflow \/ UNCHANGED vars
  <2>1. UNCHANGED <<s, fifo, packet, pushing, wr, crowded, raced, manager>>
    BY <1>6 DEF Underflow, vars, listener, server
  <2> QED  BY <2>1, Zenon DEF MarkInv, Running, MarkFound, MarkedUnread, MarkedComing, WholePush
<1>7. CASE Pull
  BY <1>7, MarkPull
<1>8. CASE NewStreamInfo \/ AckUnclocked \/ Ack
  <2>1. UNCHANGED <<s, fifo, packet, pushing, wr, crowded, raced>> /\ manager' = Idle
    BY <1>8 DEF NewStreamInfo, AckUnclocked, Ack, listener
  <2>2. manager'.at # "gotInfo" /\ manager'.at # "info"
    BY <2>1, <1>i
  <2> QED  BY <2>1, <2>2, Zenon DEF MarkInv, Running, MarkFound, MarkedUnread, MarkedComing, WholePush
<1>9. CASE RequestInfo
  <2>1. s'.marker = None /\ s'.ptp = 0 /\ s'.local = 0
    BY <1>9, <1>t DEF RequestInfo, Unmarked, Ofifo
  <2>2. manager'.at = "info" /\ manager'.stamped = (s.ptp # 0 /\ s.local # 0) /\ raced' = raced
        /\ manager.at = "gotInfo"
    BY <1>9 DEF RequestInfo
  <2>3. ~raced => s.ptp # 0 /\ s.local # 0
    BY <2>2, Zenon DEF MarkInv
  <2> QED  BY <2>1, <2>2, <2>3, MarkCleared, Zenon
<1>10. CASE Adjust
  <2>0. PICK diff \in Diffs : s' = AdjustFill(s, diff)
    BY <1>10 DEF Adjust
  <2>1. s'.marker = None /\ s'.ptp = 0 /\ s'.local = 0
    BY <2>0, <1>t DEF AdjustFill, Unmarked, Ofifo
  <2>2. manager'.at = "idle"
    BY <1>10, <1>i DEF Adjust
  <2> QED  BY <2>1, <2>2, MarkCleared
<1>11. CASE Reset
  <2>1. s'.state = "ZEROING" /\ s'.marker = s.marker /\ s'.ptp = s.ptp /\ s'.local = s.local
    BY <1>11, <1>t DEF Reset, ResetFifo, Ofifo
  <2>2. manager'.at = "idle" /\ ListenerIdle /\ packet' = packet
    BY <1>11, <1>i DEF Reset, listener
  <2> QED  BY <2>1, <2>2, MarkIdle
<1> QED
  BY <1>1, <1>2, <1>3, <1>4, <1>5, <1>6, <1>7, <1>8, <1>9, <1>10, <1>11
  DEF Next, Push, BufCtl

\* Where the marked sample is, throughout every behaviour.
THEOREM MarkAlways == Spec => []MarkInv
BY MarkInit, MarkStep, TypeAlways, MuteAlways, PushAlways, PTL DEF Spec

\* The two timestamps the clock recovery is given belong to one sample, for any
\* size of the FIFO, of the packets and of the notification period, unless a packet
\* found no room since the sample was marked or the FIFO was enabled, or has since
\* been disabled, under a notification.
THEOREM StampsTheorem == Spec => []StampsMatch
<1>1. MarkInv => StampsMatch
  BY Zenon DEF MarkInv, StampsMatch, Running, MarkFound, Marked
<1> QED  BY <1>1, MarkAlways, PTL

=============================================================================
