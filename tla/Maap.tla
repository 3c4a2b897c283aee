-------------------------------- MODULE Maap --------------------------------
(***************************************************************************)
(* The MAAP address allocation of avb_1722_maap.xc: nodes on one Ethernet  *)
(* reserve disjoint ranges of multicast addresses by probing, defending    *)
(* and announcing.  An address is its offset in the allocation pool.  Time *)
(* advances in ticks: a packet arrives or is lost within the tick it was   *)
(* sent in, and avb_1722_maap_periodic() is polled many times per tick.    *)
(* A node whose link is down sends and receives nothing; the link coming   *)
(* up makes it request addresses (avb_process_1722_control_packet).        *)
(***************************************************************************)
EXTENDS Integers, Sequences, FiniteSets

CONSTANTS
  Node,
  Mac,              \* Mac[n]: mac_addr_to_num_reverse of n's address
  NumSources,       \* AVB_NUM_SOURCES of each node
  PoolSize,         \* MAAP_ALLOCATION_POOL_SIZE
  Retransmits,      \* MAAP_PROBE_RETRANSMITS
  ProbeTime,        \* MAAP_PROBE_INTERVAL_BASE, in ticks
  AnnounceTimes,    \* the announce intervals the random generator may give
  MaxDown,          \* how often a link may go down
  MaxRestarts,      \* how often the application may give up or ask again
  MaxLost           \* how many packets the network may lose

ASSUME MaapAssumption ==
  /\ Mac \in [Node -> Nat] /\ \A m, n \in Node : Mac[m] = Mac[n] => m = n
  /\ NumSources \in [Node -> Nat \ {0}]
  /\ PoolSize \in Nat \ {0} /\ \A n \in Node : NumSources[n] < PoolSize
  /\ Retransmits \in Nat
  /\ ProbeTime \in Nat \ {0}
  /\ AnnounceTimes \subseteq Nat \ {0} /\ AnnounceTimes # {}
  /\ MaxDown \in Nat /\ MaxRestarts \in Nat /\ MaxLost \in Nat

VARIABLES
  addr,             \* maap_addr, maap_timer and timeout_val of each node
  reported,         \* the address last passed to the application hook
  up,               \* whether the node's link is up
  inbox,            \* packets on their way to a node, in order
  budget            \* losses, link failures and restarts that may still happen

maapVars == <<addr, reported, up, inbox, budget>>

Off  == -1
None == -1

States == {"DISABLED", "PROBING", "RESERVED"}

\* The last address any node may hold: a first request ignores the size of the
\* range it is about to take.
TopAddress == PoolSize - 1

-----------------------------------------------------------------------------
(***************************************************************************)
(* Address ranges                                                          *)
(***************************************************************************)
\* The addresses a range stands for: the reference for maap_conflict.
Range(lo, count) == lo .. (lo + count - 1)

\* maap_conflict: whether my range and a remote one conflict, in the three cases
\* of the code, and the part of my range that a Defend names.
StartsInside(lo, rlo, rcount) == lo >= rlo /\ lo < rlo + rcount
\* Mutant: a remote range that starts inside mine is not seen.
ConflictOneSided(lo, count, rlo, rcount) == StartsInside(lo, rlo, rcount)

Conflict(lo, count, rlo, rcount) ==
  \/ StartsInside(lo, rlo, rcount)
  \/ rlo > lo /\ rlo < lo + count
  \/ lo = rlo /\ lo + count = rlo + rcount

\* Mutant: the overlap is taken to start where my own range does.
ConflictStartOwn(lo, count, rlo, rcount) == lo

ConflictStart(lo, count, rlo, rcount) ==
  IF StartsInside(lo, rlo, rcount) THEN lo ELSE rlo

ConflictCount(lo, count, rlo, rcount) ==
  LET hi == lo + count
      rhi == rlo + rcount
  IN IF StartsInside(lo, rlo, rcount)
     THEN IF hi < rhi THEN hi - lo ELSE rhi - lo
     ELSE IF rhi <= hi THEN rcount ELSE hi - rlo

-----------------------------------------------------------------------------
(***************************************************************************)
(* Packets                                                                 *)
(***************************************************************************)
\* start/count are the request fields, cstart/ccount the conflict fields.
Message == [type : {"PROBE", "DEFEND", "ANNOUNCE"}, from : Node,
            start : Nat, count : Nat, cstart : Nat, ccount : Nat]

\* A Probe or Announce of n's range, to the MAAP multicast address.
Claim(type, n) ==
  [type |-> type, from |-> n, start |-> addr[n].base, count |-> addr[n].range,
   cstart |-> 0, ccount |-> 0]

Multicast(boxes, n, msg) ==
  [m \in Node |-> IF m # n /\ up[n] /\ up[m] THEN Append(boxes[m], msg) ELSE boxes[m]]

Unicast(boxes, n, m, msg) ==
  IF up[n] /\ up[m] THEN [boxes EXCEPT ![m] = Append(@, msg)] ELSE boxes

-----------------------------------------------------------------------------
(***************************************************************************)
(* Requests                                                                *)
(***************************************************************************)
\* The base addresses the random generator may give to a node that holds st:
\* the modulus uses the range it had before.
RandomBases(st) == 0 .. (PoolSize - st.range - 1)

ProbeInterval(base) == ProbeTime + (base % 8)

\* avb_1722_maap_request_addresses with the base it has settled on.
RequestAddresses(base, range) ==
  [state |-> "PROBING", base |-> base, range |-> range, count |-> Retransmits,
   now |-> TRUE, interval |-> ProbeInterval(base), timer |-> ProbeInterval(base)]

\* avb_1722_maap_request_addresses(-1, null).
RequestNew(n) ==
  \E b \in RandomBases(addr[n]) :
    addr' = [addr EXCEPT ![n] = RequestAddresses(b, addr[n].range)]

MaapInit ==
  /\ addr = [n \in Node |-> [state |-> "DISABLED", base |-> 0, range |-> 0, count |-> 0,
                             now |-> FALSE, interval |-> 0, timer |-> Off]]
  /\ reported = [n \in Node |-> None]
  /\ up = [n \in Node |-> FALSE]
  /\ inbox = [n \in Node |-> <<>>]
  /\ budget = [lost |-> MaxLost, down |-> MaxDown, restart |-> MaxRestarts]

\* The link comes up: a node that holds addresses asks for the same ones again.
LinkUp(n) ==
  /\ ~up[n]
  /\ up' = [up EXCEPT ![n] = TRUE]
  /\ IF addr[n].state = "DISABLED"
     THEN \E b \in RandomBases(addr[n]) :
            addr' = [addr EXCEPT ![n] = RequestAddresses(b, NumSources[n])]
     ELSE addr' = [addr EXCEPT ![n] = RequestAddresses(@.base, NumSources[n])]
  /\ UNCHANGED <<reported, inbox, budget>>

LinkDown(n) ==
  /\ up[n]
  /\ budget.down > 0
  /\ up' = [up EXCEPT ![n] = FALSE]
  /\ budget' = [budget EXCEPT !.down = @ - 1]
  /\ UNCHANGED <<addr, reported, inbox>>

Rerequest(n) ==
  /\ budget.restart > 0
  /\ addr[n].state # "DISABLED"
  /\ RequestNew(n)
  /\ budget' = [budget EXCEPT !.restart = @ - 1]
  /\ UNCHANGED <<reported, up, inbox>>

Relinquish(n) ==
  /\ budget.restart > 0
  /\ addr[n].state # "DISABLED"
  /\ addr' = [addr EXCEPT ![n].state = "DISABLED"]
  /\ budget' = [budget EXCEPT !.restart = @ - 1]
  /\ UNCHANGED <<reported, up, inbox>>

-----------------------------------------------------------------------------
(***************************************************************************)
(* avb_1722_maap_periodic                                                  *)
(***************************************************************************)
Due(st) == st.now \/ st.timer = 0

\* The probe is sent in either case: the last one is sent with the reservation
\* already made.
Probe(n) ==
  /\ addr[n].state = "PROBING" /\ Due(addr[n])
  /\ inbox' = Multicast(inbox, n, Claim("PROBE", n))
  /\ IF addr[n].count = 0
     THEN /\ \E t \in AnnounceTimes :
               addr' = [addr EXCEPT ![n].state = "RESERVED", ![n].now = TRUE,
                                    ![n].interval = t, ![n].timer = t, ![n].count = @ - 1]
          /\ reported' = [reported EXCEPT ![n] = addr[n].base]
     ELSE /\ addr' = [addr EXCEPT ![n].now = FALSE, ![n].timer = addr[n].interval,
                                  ![n].count = @ - 1]
          /\ UNCHANGED reported
  /\ UNCHANGED <<up, budget>>

\* Mutant: the timer is not restarted after an announcement.
AnnounceOnce(n) ==
  /\ addr[n].state = "RESERVED" /\ Due(addr[n])
  /\ inbox' = Multicast(inbox, n, Claim("ANNOUNCE", n))
  /\ addr' = [addr EXCEPT ![n] = IF @.now THEN [@ EXCEPT !.now = FALSE]
                                 ELSE [@ EXCEPT !.timer = Off]]
  /\ UNCHANGED <<reported, up, budget>>

Announce(n) ==
  /\ addr[n].state = "RESERVED" /\ Due(addr[n])
  /\ inbox' = Multicast(inbox, n, Claim("ANNOUNCE", n))
  /\ IF addr[n].now
     THEN addr' = [addr EXCEPT ![n].now = FALSE]
     ELSE \E t \in AnnounceTimes :
            addr' = [addr EXCEPT ![n].interval = t, ![n].timer = t]
  /\ UNCHANGED <<reported, up, budget>>

-----------------------------------------------------------------------------
(***************************************************************************)
(* avb_1722_maap_process_packet                                            *)
(***************************************************************************)
\* Mutant: both nodes keep their addresses.
CompareMacBothKeep(n, from) == Mac[n] # Mac[from]

\* maap_compare_mac: whether I keep my addresses against this sender.
CompareMac(n, from) == Mac[n] < Mac[from]

Conflicts(n, start, count) == Conflict(addr[n].base, addr[n].range, start, count)

Defend(n, msg) ==
  [type |-> "DEFEND", from |-> n, start |-> msg.start, count |-> msg.count,
   cstart |-> ConflictStart(addr[n].base, addr[n].range, msg.start, msg.count),
   ccount |-> ConflictCount(addr[n].base, addr[n].range, msg.start, msg.count)]

Take(n) == [inbox EXCEPT ![n] = Tail(@)]

\* Mutant: a node that has reserved its addresses gives way to a probe.
ProcessProbeYields(n) ==
  LET msg == Head(inbox[n])
      hit == Conflicts(n, msg.start, msg.count)
  IN /\ inbox[n] # <<>> /\ msg.type = "PROBE"
     /\ inbox' = Take(n)
     /\ IF addr[n].state # "DISABLED" /\ hit /\ ~CompareMac(n, msg.from)
        THEN RequestNew(n) ELSE UNCHANGED addr
     /\ UNCHANGED <<reported, up, budget>>

ProcessProbe(n) ==
  LET msg == Head(inbox[n])
      hit == Conflicts(n, msg.start, msg.count)
  IN /\ inbox[n] # <<>> /\ msg.type = "PROBE"
     /\ \/ /\ addr[n].state = "PROBING" /\ hit /\ ~CompareMac(n, msg.from)
           /\ RequestNew(n)
           /\ inbox' = Take(n)
        \/ /\ addr[n].state = "RESERVED" /\ hit
           /\ inbox' = Unicast(Take(n), n, msg.from, Defend(n, msg))
           /\ UNCHANGED addr
        \/ /\ \/ addr[n].state = "DISABLED" \/ ~hit
              \/ addr[n].state = "PROBING" /\ CompareMac(n, msg.from)
           /\ inbox' = Take(n)
           /\ UNCHANGED addr
     /\ UNCHANGED <<reported, up, budget>>

ProcessClaim(n) ==
  LET msg == Head(inbox[n])
      hit == IF msg.type = "DEFEND" THEN Conflicts(n, msg.cstart, msg.ccount)
             ELSE Conflicts(n, msg.start, msg.count)
      keep == addr[n].state = "RESERVED" /\ CompareMac(n, msg.from)
  IN /\ inbox[n] # <<>> /\ msg.type \in {"DEFEND", "ANNOUNCE"}
     /\ inbox' = Take(n)
     /\ IF addr[n].state # "DISABLED" /\ hit /\ ~keep
        THEN RequestNew(n) ELSE UNCHANGED addr
     /\ UNCHANGED <<reported, up, budget>>

\* The network loses the oldest packet on its way to n.
Lose(n) ==
  /\ budget.lost > 0
  /\ inbox[n] # <<>>
  /\ inbox' = Take(n)
  /\ budget' = [budget EXCEPT !.lost = @ - 1]
  /\ UNCHANGED <<addr, reported, up>>

\* Time passes once everything due in this tick has been done.
Tick ==
  /\ \A n \in Node : inbox[n] = <<>> /\ (addr[n].state # "DISABLED" => ~Due(addr[n]))
  /\ \E n \in Node : addr[n].state # "DISABLED"
  /\ addr' = [n \in Node |-> [addr[n] EXCEPT !.timer = IF @ > 0 THEN @ - 1 ELSE @]]
  /\ UNCHANGED <<reported, up, inbox, budget>>

MaapNext ==
  \/ Tick
  \/ \E n \in Node :
       \/ LinkUp(n) \/ LinkDown(n) \/ Rerequest(n) \/ Relinquish(n)
       \/ Probe(n) \/ Announce(n)
       \/ ProcessProbe(n) \/ ProcessClaim(n) \/ Lose(n)

MaapSpec == MaapInit /\ [][MaapNext]_maapVars

\* The poll loop and the receive path of each node keep running, and time passes.
Fairness ==
  /\ WF_maapVars(Tick)
  /\ \A n \in Node :
       /\ WF_maapVars(Probe(n)) /\ WF_maapVars(Announce(n))
       /\ WF_maapVars(ProcessProbe(n)) /\ WF_maapVars(ProcessClaim(n))

MaapFairSpec == MaapSpec /\ Fairness

-----------------------------------------------------------------------------
Addresses ==
  [state : States, base : 0..TopAddress, range : Nat, count : -1..Retransmits,
   now : BOOLEAN, interval : Nat, timer : Nat \cup {Off}]

\* Type invariant.
MaapTypeOK ==
  /\ addr \in [Node -> Addresses]
  /\ reported \in [Node -> 0..TopAddress \cup {None}]
  /\ up \in [Node -> BOOLEAN]
  /\ inbox \in [Node -> Seq(Message)]
  /\ budget \in [lost : 0..MaxLost, down : 0..MaxDown, restart : 0..MaxRestarts]

Overlap(m, n) ==
  Range(addr[m].base, addr[m].range) \cap Range(addr[n].base, addr[n].range) # {}

\* No two connected nodes hold overlapping reservations.  The last probe and the
\* reservation are one step, and a node with the lower address keeps silent
\* about the probes it overrules, so this rests on the order of probes, answers
\* and timers; with three retransmissions it survives one lost packet (two can
\* break it until the next announcement).
NoOverlap ==
  \A m, n \in Node :
    (m # n /\ up[m] /\ up[n] /\ addr[m].state = "RESERVED" /\ addr[n].state = "RESERVED")
      => ~Overlap(m, n)

\* While links stay up and no application asks again, the addresses handed to
\* the talkers of two nodes stay disjoint for good, whatever is probed later.
TalkersDisjoint ==
  (budget.down = MaxDown /\ budget.restart = MaxRestarts) =>
  \A m, n \in Node :
    (m # n /\ reported[m] # None /\ reported[n] # None)
      => Range(reported[m], NumSources[m]) \cap Range(reported[n], NumSources[n]) = {}

\* A node that is not disabled is always going to act: it has something to send
\* at once or its timer runs.  Each path that restarts the protocol has to
\* leave one of the two behind.
NeverStuck ==
  \A n \in Node : addr[n].state # "DISABLED" => addr[n].now \/ addr[n].timer # Off

\* A Defend that goes out names exactly the addresses that the probe asked for
\* and its sender holds, and there is at least one: neither end of the overlap is
\* off, whichever of the two ranges starts first and ends first.
NamesShared(msg) ==
  LET named == Range(msg.cstart, msg.ccount)
  IN /\ named # {}
     /\ named = Range(msg.start, msg.count)
                  \cap Range(addr[msg.from].base, addr[msg.from].range)

DefendNamesOverlap ==
  [][\A d \in Node :
       LET msg == inbox'[d][Len(inbox'[d])]
       IN Len(inbox'[d]) > Len(inbox[d]) /\ msg.type = "DEFEND" => NamesShared(msg)]_maapVars

\* MAAP_ALLOCATION_POOL_SIZE is 0xFE00, "upper address is FD:FF"
\* (avb_1722_maap_protocol.h): no address of a range lies beyond the pool.
RangeInPool ==
  \A n \in Node : addr[n].state # "DISABLED" =>
    Range(addr[n].base, addr[n].range) \subseteq 0..TopAddress

\* Overlapping reservations, which lost packets can cause, are given up again:
\* the announcements tell the two nodes apart by their addresses.
OverlapResolved == <>[]NoOverlap

=============================================================================
