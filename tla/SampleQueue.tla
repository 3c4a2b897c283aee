----------------------------- MODULE SampleQueue -----------------------------
(***************************************************************************)
(* What an audio output FIFO promises the task that plays it: a bounded    *)
(* first-in first-out queue of samples.  A packet's samples appear at once *)
(* and in order, possibly with some left out when there is no room; a pull *)
(* takes the oldest one and plays it or silence; nothing else changes the  *)
(* queue, except a resynchronisation, which is announced in sync.          *)
(***************************************************************************)
EXTENDS Integers, Sequences

CONSTANTS
  Capacity,         \* how many samples the queue holds
  MaxPacket,        \* how many samples one packet carries
  Word              \* samples; 0 is silence

VARIABLES
  queue,            \* the samples that wait to be played, oldest first
  packet,           \* the samples of the packet that is being unpacked
  played,           \* what the last pull returned
  sync              \* changed by every resynchronisation

qvars == <<queue, packet, played, sync>>

\* Up to n samples.
UpTo(n) == UNION {[1..m -> Word] : m \in 0..n}

QInit == queue = <<>> /\ packet = <<>> /\ played = 0

\* A packet is taken from the network.
Unpack ==
  /\ packet = <<>>
  /\ packet' \in UpTo(MaxPacket)
  /\ UNCHANGED <<queue, played, sync>>

\* Its samples, or those of them there was room for, become visible: kept says
\* which sample of the packet each new one of the queue is.
Publish ==
  /\ \E n \in 0..Len(packet) : \E kept \in [1..n -> DOMAIN packet] :
       /\ \A i, j \in 1..n : i < j => kept[i] < kept[j]
       /\ Len(queue) + n <= Capacity
       /\ queue' = queue \o [k \in 1..n |-> packet[kept[k]]]
  /\ packet' = <<>>
  /\ UNCHANGED <<played, sync>>

Take ==
  /\ queue # <<>>
  /\ queue' = Tail(queue)
  /\ played' \in {0, Head(queue)}
  /\ UNCHANGED <<packet, sync>>

Starve ==
  /\ queue = <<>>
  /\ played' = 0
  /\ UNCHANGED <<queue, packet, sync>>

Resync ==
  /\ sync' # sync
  /\ queue' \in UpTo(Capacity)
  /\ packet' \in UpTo(MaxPacket)
  /\ played' \in Word

QNext == Unpack \/ Publish \/ Take \/ Starve \/ Resync

QSpec == QInit /\ [][QNext]_qvars

=============================================================================
