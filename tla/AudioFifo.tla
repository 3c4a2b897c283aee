------------------------------ MODULE AudioFifo ------------------------------
(***************************************************************************)
(* One audio output FIFO (audio_output_fifo.c/.h) and the three tasks that *)
(* share it: the 1722 listener, which pushes the samples of its packets,   *)
(* marks the one that carries the presentation time and obeys the buffer   *)
(* control commands; the audio task, which pulls one sample per word       *)
(* clock; and the buffer manager of the media clock server, which is       *)
(* notified of the timing of a marked sample and answers with a command    *)
(* (media_clock_server.xc).                                                *)
(*                                                                         *)
(* The FIFO does not look at the samples, so the model tells apart only    *)
(* what matters: silence, the samples the FIFO has marked and the others.  *)
(* A timestamp is the kind of sample it belongs to.                        *)
(***************************************************************************)
EXTENDS Integers, Sequences

CONSTANTS
  Size,             \* AUDIO_OUTPUT_FIFO_WORD_SIZE
  MaxPacket,        \* the most samples of one channel a packet carries
  Period,           \* NOTIFICATION_PERIOD, in samples
  Diffs,            \* sample_diff: how late the marked sample was played
  StableThreshold,  \* STABLE_THRESHOLD
  Acceptable,       \* ACCEPTABLE_FILL_ADJUST
  LockThreshold,    \* LOCK_COUNT_THRESHOLD
  LostThreshold,    \* LOST_LOCK_THRESHOLD
  MinFill           \* MIN_FILL_LEVEL

ASSUME FifoAssumption ==
  /\ Size \in Nat /\ MaxPacket \in Nat \ {0} /\ Size > MaxPacket
  /\ Period \in Nat /\ Diffs \subseteq Int
  /\ StableThreshold \in Nat /\ Acceptable \in Nat /\ LockThreshold \in Nat
  /\ LostThreshold \in Nat /\ MinFill \in Nat

VARIABLES
  s,                \* the FIFO: ofifo_t without its words
  fifo,             \* its words
  wr,               \* the listener's copy of the write pointer in a push
  pushing,          \* what a push has left to write
  packet,           \* the samples of the packet being unpacked
  active,           \* the listener has the stream enabled
  played,           \* what the last pull returned
  notified,         \* notified_buf_ctl: the manager has been notified
  manager,          \* what the buffer manager is doing
  b,                \* its buf_info_t
  crowded,          \* no room for a whole packet since the marker was set (history)
  raced             \* enabled, or since then disabled, while notified (history)

listener == <<wr, pushing, packet, active>>
server   == <<manager, b>>
vars == <<s, fifo, wr, pushing, packet, active, played, notified,
          manager, b, crowded, raced>>

Plain    == 1
Marked   == 2
Word     == {0, Plain, Marked}      \* 0 is silence
ZeroMark == Plain                   \* what *zero_marker is set to
Slots    == 0..(Size - 1)
None     == -1
Idle     == [at |-> "idle", locked |-> FALSE, fill |-> 0, stamped |-> FALSE]
Inbox(m) == [Idle EXCEPT !.at = m]

Wrap(p)    == IF p >= Size THEN p - Size ELSE IF p < 0 THEN p + Size ELSE p
Fill(r, w) == IF w >= r THEN w - r ELSE w - r + Size
Half       == Size \div 2
MaxAdjust  == Size - MaxPacket
Abs(n)     == IF n < 0 THEN -n ELSE n

\* The time a word was played at, as a timestamp; 0 means no timestamp.
Stamp(w) == IF w = Marked THEN Marked ELSE Plain

\* ofifo_t.
Ofifo ==
  [state: {"DISABLED", "ZEROING", "LOCKING", "LOCKED"}, dptr: Slots, wrptr: Slots,
   marker: Slots \cup {None}, ptp: {0, Marked}, local: Word, zeroFlag: BOOLEAN,
   zeroMarker: Slots, pendingInit: BOOLEAN, since: 0..(Period + 1)]

\* audio_output_fifo_init; zero_flag and the words are what the memory held.
Init ==
  /\ s \in [state: {"DISABLED"}, dptr: {0}, wrptr: {0}, marker: {None},
            ptp: {0}, local: {0}, zeroFlag: BOOLEAN, zeroMarker: {0},
            pendingInit: {FALSE}, since: {Period + 1}]
  /\ fifo = [i \in Slots |-> 0]
  /\ wr = 0 /\ pushing = <<>> /\ packet = <<>>
  /\ active = FALSE
  /\ played = 0
  /\ notified = FALSE
  /\ manager = Idle
  /\ b = [mediaClock |-> TRUE, lock |-> 0, prev |-> 0, stable |-> 0]
  /\ crowded = FALSE /\ raced = FALSE

------------------------------------------------------------------------------
(* The listener, between two packets. *)

ListenerIdle == packet = <<>>

\* enable_audio_output_fifo, as avb_1722_listener_configure_stream calls it.
\* sample_count restarts and last_notification_time stays: their difference is
\* negative, so as an unsigned number above the period.  (It would come past
\* zero if no notification were sent for as long as before; not modelled.)
Enabled ==
  [state |-> "ZEROING", dptr |-> 0, wrptr |-> 0, marker |-> None,
   ptp |-> 0, local |-> 0, zeroFlag |-> TRUE, zeroMarker |-> Size - 1,
   pendingInit |-> TRUE, since |-> Period + 1]

Enable ==
  /\ ListenerIdle /\ ~active
  /\ s' = Enabled
  /\ fifo' = [fifo EXCEPT ![Size - 1] = ZeroMark]
  /\ active' = TRUE
  /\ raced' = notified
  /\ UNCHANGED <<wr, pushing, packet, played, notified, server, crowded>>

\* disable_audio_output_fifo, as disable_stream calls it.
Disabled(f) == [f EXCEPT !.state = "DISABLED", !.zeroFlag = TRUE]

Disable ==
  /\ ListenerIdle /\ active
  /\ s' = Disabled(s)
  /\ active' = FALSE
  /\ raced' = (raced \/ notified)
  /\ UNCHANGED <<fifo, wr, pushing, packet, played, notified, server, crowded>>

\* audio_output_fifo_set_ptp_timestamp: mark the sample at offset i, unless a
\* marked one is still in the FIFO (or there is no timestamp, i = None).
Marks(f, i) == i # None /\ f.marker = None

SetPtpTimestamp(f, i) ==
  IF Marks(f, i) THEN [f EXCEPT !.ptp = Marked, !.local = 0, !.marker = Wrap(f.wrptr + i)] ELSE f

Unmarked(f) == [f EXCEPT !.ptp = 0, !.local = 0, !.marker = None]

\* The FIFO has been filled with zeros: start again half full.  (zero_marker
\* is not read again before it is next set; the model forgets it.)
Zeroed(f) == f.state = "ZEROING" /\ fifo[f.zeroMarker] = 0

\* Mutant: the output is unmuted as soon as the zeros are through.
RestartedLoud(f) ==
  [Unmarked(f) EXCEPT !.wrptr = Wrap(f.dptr + Half), !.state = "LOCKING",
                      !.zeroFlag = FALSE, !.zeroMarker = 0]

Restarted(f) ==
  [Unmarked(f) EXCEPT !.wrptr = Wrap(f.dptr + Half), !.state = "LOCKING",
                      !.zeroFlag = TRUE, !.zeroMarker = 0]

\* A marked sample has been played and the manager is owed the news.
InfoDue(f) ==
  /\ f.state \in {"LOCKING", "LOCKED"}
  /\ f.ptp # 0 /\ f.local # 0
  /\ f.since > Period

\* What audio_output_fifo_maintain makes of the FIFO and of the notification.
\* A new stream's notification and the news of a marked sample share one flag.
NotifiesNewStream(f, n) == f.pendingInit /\ ~n
NotifiesInfo(f, n)      == InfoDue(f) /\ ~(n \/ NotifiesNewStream(f, n))

Maintained(f, n) ==
  LET g == IF NotifiesNewStream(f, n) THEN [f EXCEPT !.pendingInit = FALSE] ELSE f
  IN IF Zeroed(g) THEN Restarted(g)
     ELSE IF NotifiesInfo(f, n) THEN [g EXCEPT !.since = 0] ELSE g

\* A packet of an active stream the listener has locked to: k samples, the one
\* at offset i stamped (i = None: no timestamp).  While the FIFO is zeroing the
\* samples are multiplied by a volume of zero.
Packet ==
  /\ ListenerIdle /\ active
  /\ \E k \in 1..MaxPacket : \E i \in {None} \cup 0..(k - 1) :
       LET f   == SetPtpTimestamp(s, i)
           g   == Maintained(f, notified)
           out == [j \in 1..k |-> IF g.state = "ZEROING" THEN 0
                                 ELSE IF Marks(s, i) /\ j - 1 = i THEN Marked ELSE Plain]
       IN /\ s' = g
          /\ packet' = out /\ pushing' = out
          /\ wr' = g.wrptr
          /\ notified' = (notified \/ NotifiesNewStream(f, notified) \/ NotifiesInfo(f, notified))
          /\ manager' = IF NotifiesNewStream(f, notified) THEN Inbox("newStream")
                        ELSE IF NotifiesInfo(f, notified) THEN Inbox("gotInfo") ELSE manager
          /\ crowded' = /\ g.marker # None
                        /\ (crowded /\ g.marker = s.marker) \/ Fill(g.dptr, g.wrptr) + k >= Size
  /\ UNCHANGED <<fifo, active, played, b, raced>>

\* Mutant: a sample is written even if there is no room.
PushSampleOver ==
  /\ pushing # <<>>
  /\ pushing' = Tail(pushing)
  /\ fifo' = [fifo EXCEPT ![wr] = Head(pushing)]
  /\ wr' = Wrap(wr + 1)
  /\ UNCHANGED <<s, packet, active, played, notified, server, crowded, raced>>

\* One turn of the loop of audio_output_fifo_strided_push.  The read pointer
\* is read afresh; a sample for which there is no room is dropped.
PushSample ==
  /\ pushing # <<>>
  /\ pushing' = Tail(pushing)
  /\ \/ /\ Wrap(wr + 1) # s.dptr
        /\ fifo' = [fifo EXCEPT ![wr] = Head(pushing)]
        /\ wr' = Wrap(wr + 1)
     \/ /\ Wrap(wr + 1) = s.dptr
        /\ UNCHANGED <<fifo, wr>>
  /\ UNCHANGED <<s, packet, active, played, notified, server, crowded, raced>>

\* Its last two statements.
PushDone ==
  /\ packet # <<>> /\ pushing = <<>>
  /\ s' = [s EXCEPT !.wrptr = wr,
                    !.since = IF @ + Len(packet) > Period THEN Period + 1 ELSE @ + Len(packet)]
  /\ packet' = <<>> /\ wr' = 0
  /\ UNCHANGED <<fifo, pushing, active, played, notified, server, crowded, raced>>

------------------------------------------------------------------------------
(* The audio task: audio_output_fifo_pull_sample. *)

Underflow ==
  /\ s.dptr = s.wrptr
  /\ played' = 0
  /\ UNCHANGED <<s, fifo, listener, notified, server, crowded, raced>>

Pull ==
  /\ s.dptr # s.wrptr
  /\ s' = [s EXCEPT !.dptr = Wrap(s.dptr + 1),
                    !.local = IF s.dptr = s.marker /\ @ = 0 THEN Stamp(fifo[s.dptr]) ELSE @]
  /\ played' = IF s.zeroFlag THEN 0 ELSE fifo[s.dptr]
  /\ UNCHANGED <<fifo, listener, notified, server, crowded, raced>>

------------------------------------------------------------------------------
(* The buffer manager and audio_output_fifo_handle_buf_ctl.  A command is a  *)
(* rendezvous on the buffer control channel, which the listener takes        *)
(* between two packets; the notification itself waits in the channel.        *)

\* BUF_CTL_NEW_STREAM, answered by BUF_CTL_REQUEST_NEW_STREAM_INFO: the media
\* clock of the sink, which may be none (-1).
NewStreamInfo ==
  /\ ListenerIdle /\ manager.at = "newStream"
  /\ \E clocked \in BOOLEAN : b' = [b EXCEPT !.mediaClock = clocked]
  /\ manager' = Idle /\ notified' = FALSE
  /\ UNCHANGED <<s, fifo, listener, played, crowded, raced>>

\* Mutant: a FIFO that has not locked is not answered.
AckUnclockedLocked ==
  /\ ListenerIdle /\ manager.at = "gotInfo" /\ ~b.mediaClock /\ s.state = "LOCKED"
  /\ manager' = Idle /\ notified' = FALSE
  /\ UNCHANGED <<s, fifo, listener, played, b, crowded, raced>>

\* BUF_CTL_GOT_INFO for a FIFO that has no media clock: only BUF_CTL_ACK.
AckUnclocked ==
  /\ ListenerIdle /\ manager.at = "gotInfo" /\ ~b.mediaClock
  /\ manager' = Idle /\ notified' = FALSE
  /\ UNCHANGED <<s, fifo, listener, played, b, crowded, raced>>

\* Otherwise BUF_CTL_REQUEST_INFO.
RequestInfo ==
  /\ ListenerIdle /\ manager.at = "gotInfo" /\ b.mediaClock
  /\ manager' = [at |-> "info", locked |-> s.state = "LOCKED",
                 fill |-> Fill(s.dptr, s.wrptr), stamped |-> s.ptp # 0 /\ s.local # 0]
  /\ s' = Unmarked(s)
  /\ UNCHANGED <<fifo, listener, played, notified, b, crowded, raced>>

\* manage_buffer's decision, from how late the sample was played.  (The count
\* of stable answers is only compared with its threshold, and stops above it.)
Judged(diff) ==
  [b EXCEPT !.lock   = IF manager.locked /\ @ < LockThreshold THEN @ + 1 ELSE @,
            !.stable = IF Abs(diff) >= Acceptable \/ Abs(diff - b.prev) > 1 THEN 0
                       ELSE IF @ > StableThreshold THEN @ ELSE @ + 1,
            !.prev   = diff]

Locks(diff)    == ~manager.locked /\ Judged(diff).stable > StableThreshold
TooLarge(diff) == Abs(manager.fill - diff) > MaxAdjust
Loses(diff)    == /\ manager.locked /\ Judged(diff).lock = LockThreshold
                  /\ Abs(diff) > LostThreshold \/ manager.fill < MinFill

\* Mutant: the marker stays where the write pointer has been taken back.
AdjustFillMarked(f, diff) ==
  [f EXCEPT !.wrptr = (f.wrptr - diff) % Size, !.state = "LOCKED", !.zeroFlag = FALSE]

\* BUF_CTL_ADJUST_FILL: play from here on, diff samples sooner.
AdjustFill(f, diff) ==
  [Unmarked(f) EXCEPT !.wrptr = (f.wrptr - diff) % Size, !.state = "LOCKED", !.zeroFlag = FALSE]

Adjust ==
  /\ ListenerIdle /\ manager.at = "info"
  /\ \E diff \in Diffs :
       /\ Locks(diff) /\ ~TooLarge(diff)
       /\ s' = AdjustFill(s, diff)
       /\ b' = [Judged(diff) EXCEPT !.lock = 0]
  /\ manager' = Idle /\ notified' = FALSE
  /\ UNCHANGED <<fifo, listener, played, crowded, raced>>

\* BUF_CTL_RESET: start again from silence.
ResetFifo(f) ==
  [f EXCEPT !.state = "ZEROING", !.zeroMarker = Wrap(f.wrptr - 1), !.zeroFlag = TRUE]

Reset ==
  /\ ListenerIdle /\ manager.at = "info"
  /\ \E diff \in Diffs :
       /\ (Locks(diff) /\ TooLarge(diff)) \/ Loses(diff)
       /\ b' = Judged(diff)
  /\ s' = ResetFifo(s)
  /\ fifo' = [fifo EXCEPT ![Wrap(s.wrptr - 1)] = ZeroMark]
  /\ manager' = Idle /\ notified' = FALSE
  /\ UNCHANGED <<listener, played, crowded, raced>>

\* BUF_CTL_ACK: nothing to do, or (the first case) the media clock has no rate yet.
Ack ==
  /\ ListenerIdle /\ manager.at = "info"
  /\ \/ UNCHANGED b
     \/ \E diff \in Diffs : ~Locks(diff) /\ ~Loses(diff) /\ b' = Judged(diff)
  /\ manager' = Idle /\ notified' = FALSE
  /\ UNCHANGED <<s, fifo, listener, played, crowded, raced>>

BufCtl == NewStreamInfo \/ AckUnclocked \/ RequestInfo \/ Adjust \/ Reset \/ Ack
Push   == PushSample \/ PushDone

Next ==
  \/ Enable \/ Disable \/ Packet \/ Push
  \/ Underflow \/ Pull
  \/ BufCtl

Spec == Init /\ [][Next]_vars

\* The listener runs its loop to the end and its select prefers the buffer
\* control channel (#pragma ordered); the manager answers what it receives.
FairSpec == Spec /\ WF_vars(Push) /\ SF_vars(BufCtl)

------------------------------------------------------------------------------
(* Correctness. *)

\* Every variable stays in its range: the pointers inside the words.
TypeOK ==
  /\ s \in Ofifo
  /\ fifo \in [Slots -> Word]
  /\ wr \in Slots
  /\ played \in Word
  /\ {active, notified, crowded, raced} \subseteq BOOLEAN

\* The pair of timestamps the clock recovery is given belongs to one sample:
\* the time the marked sample was played at goes with that sample's
\* presentation time (local_ts and ptp_ts), unless a packet found no room since
\* the sample was marked, or the FIFO was enabled, or has since been disabled,
\* under a notification.
StampsMatch ==
  /\ s.state \in {"LOCKING", "LOCKED"} /\ s.ptp # 0 /\ s.local # 0 /\ ~crowded /\ ~raced
     => s.local = s.ptp
  /\ manager.at = "info" /\ ~raced => manager.stamped

\* The flag that stops the listener from notifying twice is set exactly while
\* the manager has a notification to answer, so that neither waits for ever.
NotifiedIsPending == notified <=> manager.at # "idle"

\* While a stream is disabled its FIFO plays silence, unless the FIFO was
\* disabled while a notification was being answered: a late BUF_CTL_ADJUST_FILL
\* then locks it and takes off the mute.
DisabledIsSilent == ~active /\ ~raced => s.zeroFlag \/ s.dptr = s.wrptr

\* The samples of a stream are heard only once the clock recovery has locked.
HeardOnlyLocked == [][played' # 0 /\ played' # played => s.state = "LOCKED"]_vars

\* Every notification is answered, so the next one can be sent.
NotificationAnswered == notified ~> ~notified

(* The queue the audio task sees: the words from dptr up to wrptr. *)
Unread == [i \in 1..Fill(s.dptr, s.wrptr) |-> fifo[Wrap(s.dptr + i - 1)]]

Queue == INSTANCE SampleQueue WITH
  Capacity <- Size - 1, queue <- Unread, sync <- <<s.state, active, manager.at>>

\* The FIFO is a bounded first-in first-out queue of samples.
IsSampleQueue == Queue!QSpec

=============================================================================
