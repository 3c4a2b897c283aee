---------------------------- MODULE ControlProofs ----------------------------
(***************************************************************************)
(* Proofs about two control protocols: first AECP, then MAAP.  They share  *)
(* no state and no lemma.                                                  *)
(***************************************************************************)
EXTENDS Aecp, Maap, TLAPS

(***************************************************************************)
(* Proofs about the AECP server (Aecp), for any controllers, any page size *)
(* and any lengths of writes.  The acquisition, the upgrade and the        *)
(* descriptors share no state, so each has an inductive invariant of its   *)
(* own.                                                                    *)
(***************************************************************************)
AcquireType ==
  /\ status \in Statuses
  /\ owner \in Controllers \cup {NoController}
  /\ pending \in [guid : Controllers \cup {NoController}, persistent : BOOLEAN]
  /\ available \in 0 .. IDLE
  /\ timer \in BOOLEAN /\ released \in BOOLEAN
  /\ told \in [Controllers -> Answers]

(* Beyond PendingIsTimed: an acquired entity has an owner, a running timer  *)
(* belongs to a request, and that request is still pending unless it was    *)
(* settled (IDLE) or the holder released the entity under it.               *)
AcquireInv ==
  /\ PendingIsTimed
  /\ status # "NOT_ACQUIRED" => owner # NoController
  /\ timer => pending.guid # NoController
  /\ timer /\ available # IDLE /\ ~released => status = "PENDING"

-----------------------------------------------------------------------------
AccessType == [active : BOOLEAN, length : Nat, index : Nat, left : Int]

UpgradeType ==
  /\ copied \in 0 .. Page
  /\ flashAddr \in Nat /\ next \in Nat /\ offset \in Nat \cup {-1}
  /\ clean \in BOOLEAN /\ misaligned \in BOOLEAN
  /\ access \in AccessType

(* The loop has put the end of the packet into the page buffer.             *)
Kept == access.left = 0 /\ access.index = 0 /\ copied > 0

(* The address up to which the bytes of the image have been dealt with, and *)
(* the one up to which they have been received.                             *)
Reached == IF ~access.active THEN next
           ELSE IF Kept THEN next + access.length ELSE next + access.index
End == IF access.active THEN next + access.length ELSE next

(* What the entity has written or buffered ends where it has got to.        *)
Aligned == flashAddr + copied = Reached

(* What belongs at the address a: the byte of the image, or behind the end  *)
(* of the packet whatever lies there.                                       *)
Content(a) == IF a < End THEN a ELSE Junk

LoopInv ==
  /\ ~access.active => access = Idle
  /\ access.active /\ ~Kept => /\ access.left = access.length - access.index + copied
                               /\ copied > 0 => access.left > 0

AlignInv ==
  /\ Reached <= flashAddr + copied
  /\ access.active /\ ~misaligned => Aligned
  /\ clean /\ ~misaligned /\ copied > 0 => Aligned

BufferInv == Aligned => \A i \in 0 .. (copied - 1) : buf[i] = Content(flashAddr + i)

FlashInv ==
  /\ clean => flashAddr = offset
  /\ offset >= 0 => DOMAIN flash = 0 .. (offset - 1)
  /\ ImageInOrder
  /\ clean /\ ~misaligned => \A a \in DOMAIN flash : a < End => flash[a] = a

UpgradeInv == LoopInv /\ AlignInv /\ BufferInv /\ FlashInv

-----------------------------------------------------------------------------
(* The acquisition.                                                         *)

(* Every handler of the acquisition keeps its types.                        *)
LEMMA AcquireTypeStep ==
  ASSUME AcquireType, NEW c \in Controllers, NEW persistent \in BOOLEAN,
         Acquire(c, persistent) \/ Release(c) \/ Available(c, persistent) \/ Periodic
  PROVE  AcquireType'
<1>1. told' \in [Controllers -> Answers]
  <2> SUFFICES ASSUME told' # told
               PROVE  told' \in [Controllers -> Answers]
    BY DEF AcquireType
  <2>1. \E d \in Controllers \cup {NoController}, answer \in Answers : Tell(d, answer)
    <3> USE DEF Answers
    <3>1. pending.guid \in Controllers \cup {NoController}
      BY DEF AcquireType
    <3>2. CASE Acquire(c, persistent)
      BY <3>2, Zenon DEF Acquire, AcquireFree, AcquireWhilePending, AcquireOwn, Contend,
                  AcquirePersistent
    <3>3. CASE Release(c)
      BY <3>3 DEF Release
    <3>4. CASE Available(c, persistent)
      BY <3>1, <3>4 DEF Available
    <3>5. CASE Periodic
      BY <3>1, <3>5 DEF Periodic, Takeover
    <3> QED  BY <3>2, <3>3, <3>4, <3>5
  <2> QED  BY <2>1 DEF Tell, AcquireType
<1>2. /\ status' \in Statuses
      /\ owner' \in Controllers \cup {NoController}
      /\ pending' \in [guid : Controllers \cup {NoController}, persistent : BOOLEAN]
      /\ available' \in 0 .. IDLE
      /\ timer' \in BOOLEAN /\ released' \in BOOLEAN
  <2>0. \A p : Acquired(p) \in Statuses
    BY DEF Acquired, Statuses
  <2> USE <2>0 DEF AcquireType, IN_A, IN_F, IDLE
  <2>1. CASE Acquire(c, persistent)
    <3>1. CASE AcquireFree(c, persistent)
      BY <3>1 DEF AcquireFree
    <3>2. CASE AcquireWhilePending(c) \/ AcquireOwn(c) \/ AcquirePersistent(c)
      BY <3>2 DEF AcquireWhilePending, AcquireOwn, AcquirePersistent
    <3>3. CASE Contend(c, persistent)
      BY <3>3 DEF Contend, Statuses
    <3> QED  BY <2>1, <3>1, <3>2, <3>3 DEF Acquire
  <2>2. CASE Release(c)
    BY <2>2, Zenon DEF Release, Statuses
  <2>3. CASE Available(c, persistent)
    <3>1. status' \in Statuses
      BY <2>3 DEF Available, Statuses
    <3>2. UNCHANGED <<owner, pending, released>>
      BY <2>3 DEF Available
    <3>3. available' \in 0 .. IDLE
      BY <2>3 DEF Available
    <3>4. timer' \in BOOLEAN
      BY <2>3, Zenon DEF Available
    <3> QED  BY <3>1, <3>2, <3>3, <3>4
  <2>4. CASE Periodic
    <3>1. status' \in Statuses /\ owner' \in Controllers \cup {NoController}
      BY <2>4, Zenon DEF Periodic, Takeover
    <3>2. UNCHANGED <<pending, released>>
      BY <2>4, Zenon DEF Periodic, Takeover
    <3>3. available' \in 0 .. IDLE
      BY <2>4 DEF Periodic, Takeover
    <3>4. timer' \in BOOLEAN
      BY <2>4, Zenon DEF Periodic, Takeover
    <3> QED  BY <3>1, <3>2, <3>3, <3>4
  <2> QED  BY <2>1, <2>2, <2>3, <2>4
<1> QED  BY <1>1, <1>2 DEF AcquireType

(* Every handler of the acquisition keeps its invariant: what makes a       *)
(* request pending starts the timer, and what stops the timer settles it.   *)
LEMMA AcquireInvStep ==
  ASSUME AcquireType, AcquireInv, NEW c \in Controllers, NEW persistent \in BOOLEAN,
         Acquire(c, persistent) \/ Release(c) \/ Available(c, persistent) \/ Periodic
  PROVE  AcquireInv'
<1> USE ControllerAssumption
    DEF AcquireType, AcquireInv, PendingIsTimed, Statuses, IN_A, IN_F, IDLE, Acquired
<1>1. CASE Acquire(c, persistent)
  <2>1. CASE AcquireFree(c, persistent)
    BY <2>1 DEF AcquireFree
  <2>2. CASE AcquireWhilePending(c) \/ AcquireOwn(c) \/ AcquirePersistent(c)
    BY <2>2 DEF AcquireWhilePending, AcquireOwn, AcquirePersistent
  <2>3. CASE Contend(c, persistent)
    BY <2>3 DEF Contend
  <2> QED  BY <1>1, <2>1, <2>2, <2>3, Zenon DEF Acquire
<1>2. CASE Release(c)
  BY <1>2 DEF Release
<1>3. CASE Available(c, persistent)
  BY <1>3, Zenon DEF Available
<1>4. CASE Periodic
  BY <1>4 DEF Periodic, Takeover
<1> QED  BY <1>1, <1>2, <1>3, <1>4, Zenon

(* The acquisition of the server moves by its handlers, a reboot, or not.   *)
LEMMA AcquireMoves ==
  ASSUME [Next]_vars
  PROVE  \/ \E c \in Controllers, persistent \in BOOLEAN :
              Acquire(c, persistent) \/ Release(c) \/ Available(c, persistent)
         \/ Periodic
         \/ Reboot
         \/ UNCHANGED acquireVars
<1>1. CASE AcquireCommand
  BY <1>1, Zenon DEF AcquireCommand
<1>2. CASE AvailableResponse
  BY <1>2 DEF AvailableResponse
<1>3. CASE AemPeriodic
  BY <1>3 DEF AemPeriodic
<1>4. CASE \/ ReadDescriptorCommand \/ OtherPacket \/ OperationCommand
           \/ AddressAccessCommand \/ AccessStep \/ UNCHANGED vars
  BY <1>4 DEF ReadDescriptorCommand, OtherPacket, OperationCommand,
              AddressAccessCommand, AccessStep, vars
<1> QED  BY <1>1, <1>2, <1>3, <1>4 DEF Next

(* The invariant of the acquisition is inductive.                           *)
THEOREM AcquireAlways == Spec => [](AcquireType /\ AcquireInv)
<1>0. /\ NobodyTold \in [Controllers -> Answers]
      /\ NoPending \in [guid : Controllers \cup {NoController}, persistent : BOOLEAN]
      /\ "NOT_ACQUIRED" \in Statuses
      /\ "NOT_ACQUIRED" # "PENDING"
      /\ IDLE \in 0 .. IDLE
  BY DEF NobodyTold, NoPending, Answers, Statuses, IDLE
<1>1. Init => AcquireType /\ AcquireInv
  BY <1>0, Zenon DEF Init, AcquireInit, AcquireType, AcquireInv, PendingIsTimed
<1>2. AcquireType /\ AcquireInv /\ [Next]_vars => (AcquireType /\ AcquireInv)'
  <2> SUFFICES ASSUME AcquireType, AcquireInv, [Next]_vars
               PROVE  AcquireType' /\ AcquireInv'
    OBVIOUS
  <2>1. CASE \E c \in Controllers, persistent \in BOOLEAN :
               Acquire(c, persistent) \/ Release(c) \/ Available(c, persistent)
    BY <2>1, AcquireTypeStep, AcquireInvStep
  <2>2. CASE Periodic
    <3>1. CASE Controllers = {}
      BY <2>2, <3>1 DEF AcquireType, AcquireInv, PendingIsTimed, Periodic, IDLE
    <3>2. CASE Controllers # {}
      BY <2>2, <3>2, AcquireTypeStep, AcquireInvStep, Zenon
    <3> QED  BY <3>1, <3>2
  <2>3. CASE Reboot
    BY <1>0, <2>3, Zenon DEF Reboot, AcquireType, AcquireInv, PendingIsTimed
  <2>4. CASE UNCHANGED acquireVars
    BY <2>4 DEF acquireVars, AcquireType, AcquireInv, PendingIsTimed
  <2> QED  BY <2>1, <2>2, <2>3, <2>4, AcquireMoves
<1> QED  BY <1>1, <1>2, PTL DEF Spec

(* No order of commands, answers, timeouts and reboots leaves a request     *)
(* pending without the timer that ends it, whoever and however many the     *)
(* controllers are.                                                         *)
THEOREM PendingTheorem == Spec => []PendingIsTimed
<1>1. AcquireInv => PendingIsTimed
  BY DEF AcquireInv
<1> QED  BY <1>1, AcquireAlways, PTL

(* A controller that is told SUCCESS owns the entity, but for the two       *)
(* answers given while a request is pending.                                *)
THEOREM GrantTheorem == Spec => GrantMeansOwner
<1> DEFINE Granted ==
      \A c \in Controllers :
        told[c] # "SUCCESS" /\ told'[c] = "SUCCESS" =>
          owner' = c \/ (status = "PENDING" /\ owner' = owner /\ timer')
<1>1. AcquireType /\ AcquireInv /\ [Next]_vars => [Granted]_vars
  <2> SUFFICES ASSUME AcquireType, AcquireInv, [Next]_vars, NEW d \in Controllers,
                      told[d] # "SUCCESS", told'[d] = "SUCCESS"
               PROVE  owner' = d \/ (status = "PENDING" /\ owner' = owner /\ timer')
    OBVIOUS
  <2> USE DEF AcquireType, AcquireInv, PendingIsTimed, Tell
  <2>1. ASSUME NEW c \in Controllers, NEW persistent \in BOOLEAN,
               Acquire(c, persistent) \/ Release(c) \/ Available(c, persistent)
        PROVE  owner' = d \/ (status = "PENDING" /\ owner' = owner /\ timer')
    <3>1. CASE Acquire(c, persistent)
      BY <3>1 DEF Acquire, AcquireFree, AcquireWhilePending, AcquireOwn, Contend,
                  AcquirePersistent
    <3>2. CASE Release(c)
      BY <3>2 DEF Release
    <3>3. CASE Available(c, persistent)
      BY <3>3 DEF Available
    <3> QED  BY <2>1, <3>1, <3>2, <3>3
  <2>2. CASE Periodic
    BY <2>2, Zenon DEF Periodic, Takeover
  <2>3. CASE Reboot
    BY <2>3 DEF Reboot, NobodyTold
  <2>4. CASE UNCHANGED acquireVars
    BY <2>4 DEF acquireVars
  <2> QED  BY <2>1, <2>2, <2>3, <2>4, AcquireMoves
<1> QED  BY <1>1, AcquireAlways, PTL DEF Spec, GrantMeansOwner

(* A persistent holder keeps the entity until it releases it itself or the  *)
(* entity reboots, unless the timer of a request it does not know of still  *)
(* runs.                                                                    *)
THEOREM PersistentTheorem == Spec => PersistentKept
<1> DEFINE Ended ==
      status' = "NOT_ACQUIRED" /\ told' \in {NobodyTold, [told EXCEPT ![owner] = "NONE"]}
           Stays ==
      status = "PERSISTENT" /\ ~(timer /\ available # IDLE) =>
        (status' = "PERSISTENT" /\ owner' = owner) \/ Ended
<1>1. AcquireType /\ AcquireInv /\ [Next]_vars => [Stays]_vars
  <2> SUFFICES ASSUME AcquireType, AcquireInv, [Next]_vars, status = "PERSISTENT",
                      ~(timer /\ available # IDLE)
               PROVE  (status' = "PERSISTENT" /\ owner' = owner) \/ Ended
    OBVIOUS
  <2>1. ASSUME NEW c \in Controllers, NEW persistent \in BOOLEAN,
               Acquire(c, persistent) \/ Release(c) \/ Available(c, persistent)
        PROVE  (status' = "PERSISTENT" /\ owner' = owner) \/ Ended
    BY <2>1, Zenon DEF Acquire, AcquireFree, AcquireWhilePending, AcquireOwn, Contend,
                AcquirePersistent, Release, Available, Tell
  <2>2. CASE Periodic
    BY <2>2 DEF Periodic, AcquireType, IN_A, IN_F, IDLE
  <2>3. CASE Reboot
    BY <2>3 DEF Reboot
  <2>4. CASE UNCHANGED acquireVars
    BY <2>4 DEF acquireVars
  <2> QED  BY <2>1, <2>2, <2>3, <2>4, AcquireMoves
<1> QED  BY <1>1, AcquireAlways, PTL DEF Spec, PersistentKept

-----------------------------------------------------------------------------
(* The upgrade: one lemma per step that changes its state.                  *)

(* The three ways in which the loop moves on.                               *)
LEMMA AccessMoves ==
  ASSUME access \in AccessType, NEW i \in Nat, NEW l \in Int,
         \/ access' = [access EXCEPT !.index = i, !.left = l]
         \/ access' = [access EXCEPT !.index = i] /\ l = access.left
         \/ access' = [access EXCEPT !.left = l] /\ i = access.index
  PROVE  /\ access' \in AccessType
         /\ access'.active = access.active /\ access'.length = access.length
         /\ access'.index = i /\ access'.left = l
<1>1. access' \in AccessType
  BY Zenon DEF AccessType
<1>2. access'.active = access.active
  BY Zenon DEF AccessType
<1>3. access'.length = access.length /\ access'.index = i /\ access'.left = l
  BY Zenon DEF AccessType
<1> QED  BY <1>1, <1>2, <1>3

\* START_OPERATION of an upload leaves an image that is in order.
LEMMA UploadStep ==
  ASSUME UpgradeType, UpgradeInv, Upload
  PROVE  UpgradeType' /\ UpgradeInv'
<1> USE DEF UpgradeType, AccessType, UpgradeInv, Upload, counters
<1>0. clean' \in BOOLEAN
  BY Zenon
<1>1. UpgradeType'
  BY <1>0, Zenon
<1>2. LoopInv' /\ BufferInv'
  BY DEF LoopInv, BufferInv, Kept, Aligned, Reached, Content, End
<1>3. AlignInv'
  BY DEF AlignInv, Aligned, Reached, Kept
<1>4. FlashInv'
  BY DEF FlashInv, ImageInOrder, NoBytes
<1> QED  BY <1>1, <1>2, <1>3, <1>4

\* Giving an upload up keeps what was written in order.
LEMMA AbortStep ==
  ASSUME UpgradeType, UpgradeInv, Abort
  PROVE  UpgradeType' /\ UpgradeInv'
<1> USE UpgradeAssumption DEF UpgradeType, AccessType, UpgradeInv, Abort
<1>0. clean' \in BOOLEAN
  BY Zenon
<1>1. UpgradeType'
  BY <1>0
<1>2. LoopInv' /\ BufferInv'
  BY DEF LoopInv, BufferInv, Kept, Aligned, Reached, Content, End
<1>3. AlignInv'
  BY DEF AlignInv, Aligned, Reached, Kept
<1>4. FlashInv'
  BY DEF FlashInv, ImageInOrder
<1> QED  BY <1>1, <1>2, <1>3, <1>4

\* The chunk that is accepted is the one after those already held.
LEMMA AcceptStep ==
  ASSUME UpgradeType, UpgradeInv, NEW address, NEW length \in Lengths,
         AcceptWrite(address, length)
  PROVE  UpgradeType' /\ UpgradeInv'
<1> USE UpgradeAssumption DEF UpgradeType, UpgradeInv, counters, AccessType
<1>1. /\ access'.active /\ access'.length = length /\ access'.index = 0
      /\ access'.left = length + copied
      /\ access' \in AccessType
      /\ UNCHANGED <<copied, buf, flashAddr, next, offset, flash, clean>>
      /\ misaligned' = (misaligned \/ next # flashAddr + copied)
      /\ ~access.active /\ length \in Nat
  BY DEF AcceptWrite
<1>2. UpgradeType'
  BY <1>1
<1>3. LoopInv'
  BY <1>1 DEF LoopInv, Kept
<1>4. AlignInv'
  BY <1>1 DEF AlignInv, Aligned, Reached, Kept
<1>5. BufferInv'
  BY <1>1 DEF BufferInv, Aligned, Reached, Kept, Content, End
<1>6. FlashInv'
  BY <1>1 DEF FlashInv, ImageInOrder, AlignInv, Aligned, Reached, End
<1> QED  BY <1>2, <1>3, <1>4, <1>5, <1>6

(* A page that is written carries the bytes that belong there.              *)
LEMMA FlashStep ==
  ASSUME UpgradeType, FlashInv, NEW data, WritePage(data),
         UNCHANGED <<next, misaligned>>,
         access'.active = access.active, access'.length = access.length,
         ~misaligned => \A i \in 0 .. (Page - 1) : data[i] = Content(flashAddr + i)
  PROVE  /\ FlashInv'
         /\ flashAddr' \in Nat /\ offset' \in Nat \cup {-1} /\ clean' \in BOOLEAN
<1> USE UpgradeAssumption DEF UpgradeType, AccessType, FlashInv, ImageInOrder
<1>1. flashAddr' = flashAddr + Page /\ flashAddr' \in Nat
  BY DEF WritePage
<1>2. End' = End
  BY DEF End
<1>3. CASE PageRefused
  BY <1>1, <1>2, <1>3, Zenon DEF PageRefused
<1>4. CASE PageWritten(data)
  <2>1. /\ offset = flashAddr /\ offset \in Nat /\ offset' = offset + Page
        /\ DOMAIN flash = 0 .. (offset - 1)
        /\ DOMAIN flash' = 0 .. (offset' - 1)
        /\ clean' = clean
    BY <1>4 DEF PageWritten
  <2>2. \A a \in DOMAIN flash' : flash'[a] = IF a < offset THEN flash[a] ELSE data[a - offset]
    BY <1>4, <2>1 DEF PageWritten
  <2>3. ASSUME NEW a \in DOMAIN flash', a >= offset, ~misaligned
        PROVE  flash'[a] = Content(a)
    <3>1. a - offset \in 0 .. (Page - 1) /\ flashAddr + (a - offset) = a
      BY <2>1, <2>3
    <3> QED  BY <2>2, <2>3, <3>1
  <2>4. ImageInOrder'
    <3> SUFFICES ASSUME ~misaligned, NEW a \in DOMAIN flash'
                 PROVE  flash'[a] \in {a, Junk}
      OBVIOUS
    <3>1. CASE a < offset
      BY <2>1, <2>2, <3>1
    <3>2. CASE a >= offset
      BY <2>3, <3>2 DEF Content
    <3> QED  BY <2>1, <3>1, <3>2
  <2>5. ASSUME clean, ~misaligned, NEW a \in DOMAIN flash', a < End
        PROVE  flash'[a] = a
    <3>1. CASE a < offset
      BY <2>1, <2>2, <2>5, <3>1
    <3>2. CASE a >= offset
      BY <2>3, <2>5, <3>2 DEF Content
    <3> QED  BY <2>1, <3>1, <3>2
  <2> QED  BY <1>1, <1>2, <2>1, <2>4, <2>5
<1> QED  BY <1>3, <1>4 DEF WritePage

\* Writing a page straight from the chunk extends the image in order.
LEMMA PageFromPacketStep ==
  ASSUME UpgradeType, UpgradeInv, PageFromPacket
  PROVE  UpgradeType' /\ UpgradeInv'
<1> USE UpgradeAssumption DEF UpgradeType, UpgradeInv
<1>0. /\ access' \in AccessType
      /\ access'.active = access.active /\ access'.length = access.length
      /\ access'.index = access.index + Page /\ access'.left = access.left - Page
  <2>1. access' = [access EXCEPT !.index = @ + Page, !.left = @ - Page]
    BY DEF PageFromPacket
  <2>2. access \in AccessType /\ access.index + Page \in Nat /\ access.left - Page \in Int
    BY DEF AccessType
  <2> QED  BY <2>1, <2>2, AccessMoves, Zenon
<1> USE DEF AccessType
<1>1. /\ UNCHANGED <<buf, next, misaligned>>
      /\ access.active /\ copied = 0 /\ copied' = 0
      /\ ~Kept
  BY <1>0 DEF PageFromPacket, Looping, Kept
<1>2. /\ FlashInv'
      /\ flashAddr' \in Nat /\ offset' \in Nat \cup {-1} /\ clean' \in BOOLEAN
  <2> DEFINE data == [i \in 0 .. (Page - 1) |-> Byte(access.index + i)]
  <2>1. WritePage(data)
    BY DEF PageFromPacket
  <2>2. ~misaligned => \A i \in 0 .. (Page - 1) : data[i] = Content(flashAddr + i)
    BY <1>0, <1>1 DEF AlignInv, Aligned, Reached, Content, End, Byte
  <2> HIDE DEF data
  <2> QED  BY <1>0, <1>1, <2>1, <2>2, FlashStep
<1>3. flashAddr' = flashAddr + Page
  BY DEF PageFromPacket, WritePage
<1>4. UpgradeType'
  BY <1>0, <1>1, <1>2
<1>5. LoopInv'
  BY <1>0, <1>1 DEF LoopInv, Kept
<1>6. AlignInv' /\ BufferInv'
  BY <1>0, <1>1, <1>3 DEF AlignInv, BufferInv, Aligned, Reached, Kept
<1> QED  BY <1>2, <1>4, <1>5, <1>6

\* Writing the buffered page extends the image in order.
LEMMA PageFromBufferStep ==
  ASSUME UpgradeType, UpgradeInv, PageFromBuffer
  PROVE  UpgradeType' /\ UpgradeInv'
<1> USE UpgradeAssumption DEF UpgradeType, UpgradeInv
<1>0. /\ access' \in AccessType
      /\ access'.active = access.active /\ access'.length = access.length
      /\ access'.index = access.index /\ access'.left = access.left - Page
  <2>1. access' = [access EXCEPT !.left = @ - Page]
    BY DEF PageFromBuffer
  <2>2. access \in AccessType /\ access.index \in Nat /\ access.left - Page \in Int
    BY DEF AccessType
  <2> QED  BY <2>1, <2>2, AccessMoves, Zenon
<1> USE DEF AccessType
<1>1. /\ UNCHANGED <<next, misaligned>>
      /\ access.active /\ copied = Page /\ copied' = 0
      /\ ~Kept
  BY <1>0 DEF PageFromBuffer, Looping, Kept
<1>2. /\ FlashInv'
      /\ flashAddr' \in Nat /\ offset' \in Nat \cup {-1} /\ clean' \in BOOLEAN
  <2>1. WritePage(buf)
    BY DEF PageFromBuffer
  <2>2. ~misaligned => \A i \in 0 .. (Page - 1) : buf[i] = Content(flashAddr + i)
    BY <1>0, <1>1 DEF AlignInv, BufferInv
  <2> QED  BY <1>0, <1>1, <2>1, <2>2, FlashStep
<1>3. flashAddr' = flashAddr + Page
  BY DEF PageFromBuffer, WritePage
<1>4. UpgradeType'
  BY <1>0, <1>1, <1>2
<1>5. LoopInv'
  BY <1>0, <1>1 DEF LoopInv, Kept
<1>6. AlignInv' /\ BufferInv'
  BY <1>0, <1>1, <1>3 DEF AlignInv, BufferInv, Aligned, Reached, Kept
<1> QED  BY <1>2, <1>4, <1>5, <1>6

\* Completing the page in the buffer keeps the order.
LEMMA FillBufferStep ==
  ASSUME UpgradeType, UpgradeInv, FillBuffer
  PROVE  UpgradeType' /\ UpgradeInv'
<1> USE UpgradeAssumption DEF UpgradeType, UpgradeInv
<1>0. /\ access' \in AccessType
      /\ access'.active = access.active /\ access'.length = access.length
      /\ access'.index = access.index + (Page - copied) /\ access'.left = access.left
  <2>1. access' = [access EXCEPT !.index = @ + (Page - copied)]
    BY DEF FillBuffer
  <2>2. access \in AccessType /\ access.index + (Page - copied) \in Nat /\ access.left \in Int
    BY DEF AccessType
  <2> QED  BY <2>1, <2>2, AccessMoves, Zenon
<1> USE DEF AccessType
<1>1. /\ UNCHANGED <<flashAddr, next, offset, flash, clean, misaligned>>
      /\ access.active /\ copied > 0 /\ copied < Page /\ copied' = Page
      /\ ~Kept /\ access.left > 0
  BY <1>0 DEF FillBuffer, Looping, Kept
<1>2. UpgradeType'
  BY <1>0, <1>1
<1>3. LoopInv'
  BY <1>0, <1>1 DEF LoopInv, Kept
<1>4. Reached' = Reached + (Page - copied) /\ End' = End
  BY <1>0, <1>1 DEF Reached, Kept, End
<1>5. AlignInv'
  BY <1>0, <1>1, <1>4 DEF AlignInv, Aligned, Reached
<1>6. BufferInv'
  <2> SUFFICES ASSUME Aligned', NEW i \in 0 .. (Page - 1)
               PROVE  buf'[i] = Content(flashAddr + i)
    BY <1>1, <1>4 DEF BufferInv, Content
  <2>1. Aligned /\ flashAddr + copied = next + access.index
    BY <1>1, <1>4 DEF Aligned, Reached
  <2>2. buf'[i] = IF i < copied THEN buf[i] ELSE Byte(access.index + i - copied)
    BY DEF FillBuffer
  <2>3. CASE i < copied
    BY <2>1, <2>2, <2>3 DEF BufferInv
  <2>4. CASE i >= copied
    BY <1>1, <2>1, <2>2, <2>4 DEF Byte, Content, End
  <2> QED  BY <2>3, <2>4
<1>7. FlashInv'
  BY <1>1, <1>4 DEF FlashInv, ImageInOrder
<1> QED  BY <1>2, <1>3, <1>5, <1>6, <1>7

\* Keeping what is left of a chunk in the buffer keeps the order.
LEMMA KeepRestStep ==
  ASSUME UpgradeType, UpgradeInv, KeepRest
  PROVE  UpgradeType' /\ UpgradeInv'
<1> USE UpgradeAssumption DEF UpgradeType, UpgradeInv
<1>0. /\ access' \in AccessType
      /\ access'.active = access.active /\ access'.length = access.length
      /\ access'.index = 0 /\ access'.left = 0
  <2>1. access' = [access EXCEPT !.index = 0, !.left = 0]
    BY DEF KeepRest
  <2>2. access \in AccessType /\ 0 \in Nat /\ 0 \in Int
    BY DEF AccessType
  <2> QED  BY <2>1, <2>2, AccessMoves, Zenon
<1> USE DEF AccessType
<1>1. /\ UNCHANGED <<flashAddr, next, offset, flash, clean, misaligned>>
      /\ access.active /\ copied = 0 /\ copied' = access.left
      /\ ~Kept /\ access.left > 0 /\ access.index + Page > access.length
  BY <1>0 DEF KeepRest, Looping, Kept
<1>2. access.left = access.length - access.index
  BY <1>1 DEF LoopInv
<1>3. UpgradeType'
  BY <1>0, <1>1, <1>2
<1>4. LoopInv'
  BY <1>0, <1>1 DEF LoopInv, Kept
<1>5. Reached' = Reached + access.left /\ End' = End
  BY <1>0, <1>1, <1>2 DEF Reached, Kept, End
<1>6. AlignInv'
  BY <1>0, <1>1, <1>5 DEF AlignInv, Aligned, Reached
<1>7. BufferInv'
  <2> SUFFICES ASSUME Aligned', NEW i \in 0 .. (access.left - 1)
               PROVE  buf'[i] = Content(flashAddr + i)
    BY <1>1, <1>5 DEF BufferInv, Content
  <2>1. flashAddr = next + access.index
    BY <1>1, <1>5 DEF Aligned, Reached
  <2>2. buf'[i] = Byte(access.index + i)
    BY DEF KeepRest
  <2> QED  BY <1>1, <2>1, <2>2 DEF Byte, Content, End
<1>8. FlashInv'
  BY <1>1, <1>5 DEF FlashInv, ImageInOrder
<1> QED  BY <1>3, <1>4, <1>6, <1>7, <1>8

(* The packet has been dealt with to its end, or a page was filled beyond   *)
(* it; then nothing is left in the buffer.                                  *)
LEMMA AccessDoneStep ==
  ASSUME UpgradeType, UpgradeInv, AccessDone
  PROVE  UpgradeType' /\ UpgradeInv'
<1> USE UpgradeAssumption DEF UpgradeType, AccessType, UpgradeInv
<1>1. /\ UNCHANGED <<copied, buf, flashAddr, offset, flash, clean, misaligned>>
      /\ next' = next + access.length /\ access' = Idle /\ access.active
      /\ access'.active = FALSE
  BY DEF AccessDone, Idle
<1>2. Kept \/ (copied = 0 /\ access.index >= access.length)
  BY DEF AccessDone, Looping, LoopInv, Kept
<1>3. UpgradeType'
  BY <1>1 DEF Idle
<1>4. LoopInv'
  BY <1>1 DEF LoopInv
<1>5. Reached' = next + access.length /\ End' = End
  BY <1>1 DEF Reached, End
<1>6. AlignInv' /\ BufferInv'
  <2>1. CASE Kept
    BY <1>1, <1>5, <2>1, Zenon DEF AlignInv, BufferInv, Aligned, Reached, Content
  <2>2. CASE copied = 0 /\ access.index >= access.length
    BY <1>1, <1>5, <2>2 DEF AlignInv, BufferInv, Aligned, Reached, Kept
  <2> QED  BY <1>2, <2>1, <2>2
<1>7. FlashInv'
  BY <1>1, <1>5 DEF FlashInv, ImageInOrder
<1> QED  BY <1>3, <1>4, <1>6, <1>7

(* The upgrade moves by its own steps, a reboot, or not.                    *)
LEMMA UpgradeMoves ==
  ASSUME [Next]_vars
  PROVE  \/ Upload \/ Abort \/ AddressAccess \/ Reboot
         \/ \E address \in 0 .. MaxImage, length \in Lengths : AcceptWrite(address, length)
         \/ UNCHANGED upgradeVars
<1>1. CASE OperationCommand
  BY <1>1 DEF OperationCommand, UploadFails, Store
<1>2. CASE AddressAccessCommand
  BY <1>2 DEF AddressAccessCommand, RefuseTlv, RefuseAddress
<1>3. CASE AccessStep
  BY <1>3 DEF AccessStep
<1>4. CASE \/ AcquireCommand \/ AvailableResponse \/ ReadDescriptorCommand \/ OtherPacket
           \/ AemPeriodic \/ UNCHANGED vars
  BY <1>4 DEF AcquireCommand, AvailableResponse, ReadDescriptorCommand, OtherPacket,
              AemPeriodic, vars
<1> QED  BY <1>1, <1>2, <1>3, <1>4 DEF Next

(* The invariant of the upgrade is inductive.                               *)
THEOREM UpgradeAlways == Spec => [](UpgradeType /\ UpgradeInv)
<1> USE UpgradeAssumption
<1>1. Init => UpgradeType /\ UpgradeInv
  <2> SUFFICES ASSUME Init
               PROVE  UpgradeType /\ UpgradeInv
    OBVIOUS
  <2>1. clean \in BOOLEAN /\ misaligned \in BOOLEAN
    BY Zenon DEF Init, UpgradeInit
  <2>2. access = Idle /\ ~access.active /\ Idle \in AccessType
    BY DEF Init, UpgradeInit, Idle, AccessType
  <2>3. UpgradeType
    BY <2>1, <2>2 DEF Init, UpgradeInit, UpgradeType
  <2>4. UpgradeInv
    BY <2>2 DEF Init, UpgradeInit, UpgradeInv, LoopInv, AlignInv, BufferInv, FlashInv,
                ImageInOrder, Kept, Reached, Aligned, NoBytes
  <2> QED  BY <2>3, <2>4
<1>2. UpgradeType /\ UpgradeInv /\ [Next]_vars => (UpgradeType /\ UpgradeInv)'
  <2> SUFFICES ASSUME UpgradeType, UpgradeInv, [Next]_vars
               PROVE  UpgradeType' /\ UpgradeInv'
    OBVIOUS
  <2>1. CASE Upload \/ Abort
    BY <2>1, UploadStep, AbortStep
  <2>2. CASE \E address \in 0 .. MaxImage, length \in Lengths : AcceptWrite(address, length)
    BY <2>2, AcceptStep
  <2>3. CASE AddressAccess
    BY <2>3, PageFromPacketStep, KeepRestStep, PageFromBufferStep, FillBufferStep,
       AccessDoneStep DEF AddressAccess
  <2>4. CASE Reboot
    <3>1. /\ copied' = 0 /\ flashAddr' = 0 /\ next' = 0 /\ offset' = -1 /\ clean' = FALSE
          /\ UNCHANGED <<flash, access, misaligned>>
          /\ ~access.active
      BY <2>4 DEF Reboot, Packet
    <3>2. UpgradeType'
      <4>1. clean' \in BOOLEAN
        BY <3>1, Zenon
      <4> QED  BY <3>1, <4>1 DEF UpgradeType
    <3>3. UpgradeInv'
      BY <3>1 DEF UpgradeType, AccessType, UpgradeInv, LoopInv, AlignInv, BufferInv, FlashInv,
                  ImageInOrder, Kept, Reached, Aligned
    <3> QED  BY <3>2, <3>3
  <2>5. CASE UNCHANGED upgradeVars
    BY <2>5 DEF upgradeVars, counters, UpgradeType, UpgradeInv, LoopInv, AlignInv, BufferInv,
                FlashInv, ImageInOrder, Kept, Reached, Aligned, Content, End
  <2> QED  BY <2>1, <2>2, <2>3, <2>4, <2>5, UpgradeMoves
<1> QED  BY <1>1, <1>2, PTL DEF Spec

(* Whatever the page size and the lengths of the writes, whatever fails, is *)
(* refused, repeated or aborted: no byte lies in flash at the address of    *)
(* another, unless a write followed one that left its page half full.       *)
THEOREM ImageTheorem == Spec => []ImageInOrder
<1>1. UpgradeInv => ImageInOrder
  BY DEF UpgradeInv, FlashInv
<1> QED  BY <1>1, UpgradeAlways, PTL

(* After a fresh upload without failures every acknowledged byte is in      *)
(* flash or in the page buffer, at its place, unless a write followed one   *)
(* that left its page half full.                                            *)
THEOREM HeldTheorem == Spec => []AcceptedIsHeld
<1>1. UpgradeType /\ UpgradeInv => AcceptedIsHeld
  <2> SUFFICES ASSUME UpgradeType, UpgradeInv, clean, ~misaligned, ~access.active,
                      NEW a \in 0 .. (next - 1)
               PROVE  \/ a \in DOMAIN flash /\ flash[a] = a
                      \/ (a - offset) \in 0 .. (copied - 1) /\ buf[a - offset] = a
    BY DEF AcceptedIsHeld
  <2> USE UpgradeAssumption DEF UpgradeType, UpgradeInv
  <2>1. /\ flashAddr = offset /\ DOMAIN flash = 0 .. (offset - 1)
        /\ next <= flashAddr + copied /\ End = next
    BY DEF FlashInv, AlignInv, Reached, End
  <2>2. CASE a < offset
    BY <2>1, <2>2 DEF FlashInv
  <2>3. CASE a >= offset
    <3>1. (a - offset) \in 0 .. (copied - 1) /\ flashAddr + (a - offset) = a
      BY <2>1, <2>3
    <3>2. Aligned
      BY <3>1 DEF AlignInv
    <3> QED  BY <2>1, <3>1, <3>2 DEF BufferInv, Content
  <2> QED  BY <2>1, <2>2, <2>3
<1> QED  BY <1>1, UpgradeAlways, PTL

(* The state of the server keeps its types.                                 *)
THEOREM TypeTheorem == Spec => []TypeOK
<1> DEFINE Counted == commands \in 0 .. MaxCommands
<1>1. Init => Counted
  BY CommandAssumption DEF Init
<1>2. Counted /\ [Next]_vars => Counted'
  BY CommandAssumption
     DEF Next, vars, Packet, AcquireCommand, AvailableResponse, ReadDescriptorCommand,
         OtherPacket, OperationCommand, AddressAccessCommand, Reboot, AccessStep, AemPeriodic
<1>3. AcquireType /\ UpgradeType /\ Counted => TypeOK
  BY DEF AcquireType, UpgradeType, TypeOK
<1> QED  BY <1>1, <1>2, <1>3, AcquireAlways, UpgradeAlways, PTL DEF Spec

-----------------------------------------------------------------------------
(* Every template that is in the list holds the number of a descriptor the  *)
(* entity announces, and without sources the sinks' templates are never     *)
(* written.                                                                 *)
IndexInv ==
  /\ device \in Devices
  /\ index \in [Templates -> Nat]
  /\ \A type \in InputTypes : index[type] < Sinks /\ (Sources = 0 => index[type] = 0)
  /\ \A type \in OutputTypes : index[type] = 0 \/ index[type] < Sources

\* The configuration of the device, by its numbers.
LEMMA DeviceType ==
  ASSUME device \in Devices
  PROVE  Sinks \in Nat \ {0} /\ Sources \in Nat /\ Outputs \in Nat /\ Inputs \in Nat
BY DescriptorAssumption DEF Sinks, Sources, Outputs, Inputs

\* The types that have a template are five, the map is none of them.
LEMMA TemplateTypes ==
  /\ InputTypes = {5, 14} /\ OutputTypes = {6, 15} /\ Templates = {5, 6, 14, 15, 20}
  /\ AUDIO_CLUSTER = 20 /\ AUDIO_MAP = 23 /\ CLOCK_SOURCE = 10 /\ CONTROL = 26
BY DEF InputTypes, OutputTypes, Templates, STREAM_INPUT, STREAM_OUTPUT, STREAM_PORT_INPUT,
       STREAM_PORT_OUTPUT, AUDIO_CLUSTER, AUDIO_MAP, CLOCK_SOURCE, CONTROL

\* The number written into a template is always that of an announced descriptor.
LEMMA IndexAlways == Spec => []IndexInv
<1>0. FirstIds \in [Templates -> Nat] /\ \A type \in Templates : FirstIds[type] = 0
  BY DEF FirstIds
<1>1. InputTypes \subseteq Templates /\ OutputTypes \subseteq Templates
  BY DEF Templates
<1>2. ASSUME device \in Devices, index = FirstIds PROVE IndexInv
  BY <1>0, <1>1, <1>2, DeviceType DEF IndexInv
<1>3. Init => IndexInv
  BY <1>2 DEF Init, DescriptorInit
<1>4. IndexInv /\ [Next]_vars => IndexInv'
  <2> SUFFICES ASSUME IndexInv, [Next]_vars PROVE IndexInv'
    OBVIOUS
  <2>0. UNCHANGED device => /\ Sinks' = Sinks /\ Sources' = Sources
                            /\ Outputs' = Outputs /\ Inputs' = Inputs
    BY DEF Sinks, Sources, Outputs, Inputs
  <2>1. CASE ReadDescriptorCommand
    <3>1. PICK type \in Types, id \in Ids : ReadDescriptor(type, id)
      BY <2>1 DEF ReadDescriptorCommand
    <3>2. id \in Nat /\ id % 256 \in Nat /\ id % 256 <= id
      BY DescriptorAssumption
    <3>3. UNCHANGED device
      BY <3>1 DEF ReadDescriptor
    <3>4. CASE FromTemplate(type, id)
      <4>1. index' = [index EXCEPT ![type] = id % 256]
        BY <3>1, <3>4 DEF ReadDescriptor
      <4>2. type \in Templates
        BY <3>4 DEF FromTemplate, Templates
      <4>3. index' \in [Templates -> Nat]
        BY <3>2, <4>1 DEF IndexInv
      <4>4. /\ type \in InputTypes => Sources > 0 /\ id < Sinks
            /\ type \in OutputTypes => Sources > 0 /\ id < Sources
        BY <3>4, TemplateTypes DEF FromTemplate
      <4>5. \A t \in Templates : index'[t] = IF t = type THEN id % 256 ELSE index[t]
        BY <4>1, <4>2 DEF IndexInv
      <4>6. \A t \in InputTypes : index'[t] < Sinks /\ (Sources = 0 => index'[t] = 0)
        BY <1>1, <3>2, <4>4, <4>5, DeviceType DEF IndexInv
      <4>7. \A t \in OutputTypes : index'[t] = 0 \/ index'[t] < Sources
        BY <1>1, <3>2, <4>4, <4>5, DeviceType DEF IndexInv
      <4> QED BY <2>0, <3>3, <4>3, <4>6, <4>7 DEF IndexInv
    <3>5. CASE ~FromTemplate(type, id)
      BY <2>0, <3>1, <3>3, <3>5 DEF ReadDescriptor, IndexInv
    <3> QED BY <3>4, <3>5
  <2>2. CASE index' = FirstIds /\ UNCHANGED device
    BY <1>0, <1>1, <2>0, <2>2, DeviceType DEF IndexInv
  <2>3. CASE UNCHANGED descriptorVars
    BY <2>0, <2>3 DEF IndexInv, descriptorVars
  <2>4. \/ UNCHANGED descriptorVars \/ ReadDescriptorCommand
        \/ index' = FirstIds /\ UNCHANGED device
    BY Zenon DEF Next, vars, AcquireCommand, AvailableResponse, OtherPacket, OperationCommand,
           AddressAccessCommand, Reboot, AccessStep, AemPeriodic
  <2> QED BY <2>1, <2>2, <2>3, <2>4
<1> QED BY <1>3, <1>4, PTL DEF Spec

\* The list is sorted, so the search reaches every entry.
LEMMA ListSorted ==
  /\ DOMAIN List = 1 .. 18
  /\ \A i \in 1 .. 18 : List[i] \in Nat
  /\ \A i \in 1 .. 18 : \A j \in 1 .. i : List[j] <= List[i]
<1>1. List = <<0, 1, 2, 5, 6, 7, 8, 9, 10, 11, 12, 13, 14, 15, 16, 17, 26, 36>>
  BY DEF List, STREAM_INPUT, STREAM_OUTPUT, CLOCK_SOURCE, STREAM_PORT_INPUT,
         STREAM_PORT_OUTPUT, CONTROL
<1>2. DOMAIN List = 1 .. 18
  BY <1>1
<1>3. \A i \in 1 .. 18 :
        List[i] = IF i <= 3 THEN i - 1 ELSE IF i <= 16 THEN i + 1
                  ELSE IF i = 17 THEN 26 ELSE 36
  BY <1>1
<1> QED BY <1>2, <1>3

\* What the search finds.
LEMMA SearchedLemma ==
  ASSUME NEW type \in AnnouncedTypes, NEW id
  PROVE  Searched(type, id) <=> Listed(type) /\ id \in IdsOf(type)
<1>1. PICK i \in 1 .. 18 : List[i] = type
  BY ListSorted DEF AnnouncedTypes, Types
<1>2. type # AUDIO_MAP
  BY DEF AnnouncedTypes
<1>3. \A j \in 1 .. i : List[j] <= type
  BY <1>1, ListSorted
<1> QED BY <1>1, <1>2, <1>3, ListSorted DEF Searched

\* A descriptor is found exactly when it is announced.
LEMMA FoundLemma == IndexInv => FoundIffAnnounced
<1> SUFFICES ASSUME IndexInv, NEW type \in AnnouncedTypes, NEW id \in Ids,
                    type \in InputTypes /\ Sources = 0 => Sinks = 1
             PROVE  Found(type, id) <=> id < Announced(type)
  BY DEF FoundIffAnnounced
<1>1. id \in Nat
  BY DescriptorAssumption
<1>2. Sinks \in Nat \ {0} /\ Sources \in Nat
  BY DeviceType DEF IndexInv
<1>3. type # AUDIO_CLUSTER /\ type # AUDIO_MAP
  BY DEF AnnouncedTypes
<1>4. Searched(type, id) <=> Listed(type) /\ id \in IdsOf(type)
  BY SearchedLemma
<1>5. CASE type \in InputTypes
  <2>1. type \notin OutputTypes /\ type \in Templates /\ index[type] \in Nat
    BY <1>5, TemplateTypes DEF IndexInv
  <2>2. Found(type, id) <=> (Sources > 0 /\ id < Sinks) \/ id = index[type]
    BY <1>3, <1>4, <1>5, <2>1 DEF Found, FromTemplate, GeneratedMap, Listed, IdsOf
  <2>3. index[type] < Sinks /\ (Sources = 0 => index[type] = 0)
    BY <1>5 DEF IndexInv
  <2>4. Announced(type) = Sinks
    BY <1>5 DEF Announced
  <2> QED BY <1>1, <1>2, <1>5, <2>1, <2>2, <2>3, <2>4
<1>6. CASE type \in OutputTypes
  <2>1. type \notin InputTypes /\ type \in Templates /\ index[type] \in Nat
    BY <1>6, TemplateTypes DEF IndexInv
  <2>2. Found(type, id) <=> Sources > 0 /\ (id < Sources \/ id = index[type])
    BY <1>3, <1>4, <1>6, <2>1 DEF Found, FromTemplate, GeneratedMap, Listed, IdsOf
  <2>3. index[type] = 0 \/ index[type] < Sources
    BY <1>6 DEF IndexInv
  <2>4. Announced(type) = Sources
    BY <1>6, <2>1 DEF Announced
  <2> QED BY <1>1, <1>2, <2>1, <2>2, <2>3, <2>4
<1>7. CASE type \notin InputTypes /\ type \notin OutputTypes
  <2>1. type \notin Templates
    BY <1>3, <1>7 DEF Templates
  <2>2. Found(type, id) <=> id \in IdsOf(type)
    BY <1>3, <1>4, <1>7 DEF Found, FromTemplate, GeneratedMap, Listed
  <2> QED BY <1>1, <1>7, <2>1, <2>2 DEF IdsOf, Announced
<1> QED BY <1>5, <1>6, <1>7

-----------------------------------------------------------------------------
(* Arithmetic: m channels for k ports, m \div k for each, the ports'         *)
(* channels starting at (i * m) \div k.                                      *)

\* The channels of a port end before those of the next begin.
LEMMA ShareApart ==
  ASSUME NEW m \in Nat, NEW k \in Nat \ {0}, NEW i \in Nat, NEW j \in Nat, i < j
  PROVE  (i * m) \div k + m \div k <= (j * m) \div k
<1>1. \A a \in Nat : /\ a \div k \in Nat
                     /\ k * (a \div k) <= a /\ a < k * (a \div k) + k
  OBVIOUS
<1>2. PICK d \in Nat : j = i + 1 + d
  <2>1. j - i - 1 \in Nat /\ j = i + 1 + (j - i - 1)
    OBVIOUS
  <2> QED BY <2>1
<1>3. i * m \in Nat /\ j * m \in Nat /\ d * m \in Nat /\ j * m = i * m + m + d * m
  BY <1>2
<1>4. PICK x \in Nat, y \in Nat, z \in Nat :
        x = (i * m) \div k /\ y = m \div k /\ z = (j * m) \div k
  BY <1>1, <1>3
<1>5. k * x <= i * m /\ k * y <= m /\ j * m < k * z + k
  BY <1>1, <1>3, <1>4
<1>6. k * (x + y) = k * x + k * y /\ k * x \in Nat /\ k * y \in Nat /\ k * z \in Nat
  OBVIOUS
<1>7. k * (x + y) < k * z + k
  BY <1>3, <1>5, <1>6
<1>8. x + y <= z
  <2> SUFFICES ASSUME x + y > z PROVE FALSE
    OBVIOUS
  <2>1. PICK e \in Nat : x + y = z + 1 + e
    <3>1. x + y - z - 1 \in Nat /\ x + y = z + 1 + (x + y - z - 1)
      OBVIOUS
    <3> QED BY <3>1
  <2>2. k * (x + y) = k * z + k + k * e /\ k * e \in Nat
    BY <2>1
  <2> QED BY <1>6, <1>7, <2>2
<1> QED BY <1>4, <1>8

\* Every port's channels are among the m there are.
LEMMA ShareWithin ==
  ASSUME NEW m \in Nat, NEW k \in Nat \ {0}, NEW i \in 0 .. (k - 1)
  PROVE  /\ (i * m) \div k \in Nat /\ m \div k \in Nat
         /\ (i * m) \div k + m \div k <= m
<1>1. i \in Nat /\ i < k /\ i * m \in Nat
  OBVIOUS
<1>2. (k * m) \div k = m
  OBVIOUS
<1>3. (i * m) \div k + m \div k <= (k * m) \div k
  BY <1>1, ShareApart
<1> QED BY <1>1, <1>2, <1>3

\* Evenly shared, the channels of port i start at i times the share.
LEMMA ShareEven ==
  ASSUME NEW m \in Nat, NEW k \in Nat \ {0}, NEW i \in Nat, m % k = 0
  PROVE  (i * m) \div k = i * (m \div k) /\ (m \div k) * k = m
<1>1. PICK n \in Nat : n = m \div k
  OBVIOUS
<1>2. m = n * k
  BY <1>1
<1>3. \A q \in Nat : (q * k) \div k = q
  OBVIOUS
<1>4. i * n \in Nat /\ i * (n * k) = (i * n) * k
  OBVIOUS
<1> QED BY <1>1, <1>2, <1>3, <1>4

\* A map's number modulo the number of streams is its stream's, for both directions.
LEMMA MapMod ==
  ASSUME NEW k \in Nat \ {0}, NEW i \in 0 .. (k - 1)
  PROVE  i % k = i /\ (k + i) % k = i
OBVIOUS

Block(c, n, i) == (c + i * n) .. (c + i * n + n - 1)

\* The blocks make up the whole range.
LEMMA BlocksCover ==
  ASSUME NEW c \in Nat, NEW n \in Nat, NEW k \in Nat \ {0}
  PROVE  UNION {Block(c, n, i) : i \in 0 .. (k - 1)} = c .. (c + n * k - 1)
<1>1. ASSUME NEW i \in 0 .. (k - 1), NEW y \in Block(c, n, i) PROVE y \in c .. (c + n * k - 1)
  <2>1. PICK d \in Nat : k = i + 1 + d
    <3>1. k - i - 1 \in Nat /\ k = i + 1 + (k - i - 1)
      OBVIOUS
    <3> QED BY <3>1
  <2>2. n * k = i * n + n + d * n /\ d * n \in Nat /\ i * n \in Nat
    BY <2>1
  <2> QED BY <2>2 DEF Block
<1>2. ASSUME NEW y \in c .. (c + n * k - 1)
      PROVE  \E i \in 0 .. (k - 1) : y \in Block(c, n, i)
  <2>0. n * k \in Nat
    OBVIOUS
  <2>1. PICK z \in Nat : z = y - c /\ z < n * k
    BY <1>2, <2>0
  <2>2. n \in Nat \ {0}
    <3>1. n = 0 => n * k = 0
      OBVIOUS
    <3> QED BY <2>1, <3>1
  <2>3. PICK i \in Nat : n * i <= z /\ z < n * i + n
    <3>1. z \div n \in Nat /\ n * (z \div n) <= z /\ z < n * (z \div n) + n
      BY <2>2
    <3> QED BY <3>1
  <2>4. i < k
    <3>1. SUFFICES ASSUME i >= k PROVE FALSE
      OBVIOUS
    <3>2. PICK d \in Nat : i = k + d
      <4>1. i - k \in Nat /\ i = k + (i - k)
        BY <3>1
      <4> QED BY <4>1
    <3>3. n * i = n * k + n * d /\ n * d \in Nat
      BY <3>2
    <3> QED BY <2>0, <2>1, <2>3, <3>3
  <2>5. i \in 0 .. (k - 1) /\ i * n = n * i /\ i * n \in Nat
    BY <2>4
  <2>6. y \in Block(c, n, i)
    BY <1>2, <2>1, <2>3, <2>5 DEF Block
  <2> QED BY <2>5, <2>6
<1>3. c .. (c + n * k - 1) \subseteq UNION {Block(c, n, i) : i \in 0 .. (k - 1)}
  BY <1>2
<1>4. UNION {Block(c, n, i) : i \in 0 .. (k - 1)} \subseteq c .. (c + n * k - 1)
  BY <1>1
<1> QED BY <1>3, <1>4

\* What an input port says of itself.
LEMMA InputPortLemma ==
  ASSUME device \in Devices, NEW i \in 0 .. (Sinks - 1)
  PROVE  /\ Clusters(InputPort(i))
              = ((i * Outputs) \div Sinks) .. ((i * Outputs) \div Sinks + Outputs \div Sinks - 1)
         /\ MapFits(InputPort(i), i)
<1>1. Sinks \in Nat \ {0} /\ Sources \in Nat /\ Outputs \in Nat
  BY DeviceType
<1>2. /\ InputPort(i).base_map = i
      /\ InputPort(i).base_cluster = (i * Outputs) \div Sinks
      /\ InputPort(i).number_of_clusters = Outputs \div Sinks
  BY DEF InputPort
<1>3. i % Sinks = i /\ i < Sinks /\ i < Sinks + Sources
  BY <1>1, MapMod
<1>4. /\ AudioMap(i).stream_index = i
      /\ AudioMap(i).number_of_mappings = Outputs \div Sinks
  BY <1>3 DEF AudioMap
<1>5. Found(AUDIO_MAP, i)
  BY <1>3 DEF Found, GeneratedMap
<1> QED BY <1>2, <1>4, <1>5, Zenon DEF Clusters, MapFits

\* What an output port says of itself.
LEMMA OutputPortLemma ==
  ASSUME device \in Devices, NEW j \in 0 .. (Sources - 1)
  PROVE  /\ Clusters(OutputPort(j))
              = (Outputs + (j * Inputs) \div Sources)
                  .. (Outputs + (j * Inputs) \div Sources + Inputs \div Sources - 1)
         /\ Sources = Sinks => MapFits(OutputPort(j), j)
<1>1. /\ OutputPort(j).base_map = Sources + j
      /\ OutputPort(j).base_cluster = Outputs + (j * Inputs) \div Sources
      /\ OutputPort(j).number_of_clusters = Inputs \div Sources
  BY DEF OutputPort
<1>2. ASSUME Sources = Sinks PROVE MapFits(OutputPort(j), j)
  <2>1. Sinks \in Nat \ {0} /\ j \in 0 .. (Sinks - 1)
    BY <1>2, DeviceType
  <2>2. (Sinks + j) % Sinks = j /\ ~(Sinks + j < Sinks) /\ Sinks + j < Sinks + Sinks
    BY <2>1, MapMod
  <2>3. /\ AudioMap(Sinks + j).stream_index = j
        /\ AudioMap(Sinks + j).number_of_mappings = Inputs \div Sources
    BY <2>2 DEF AudioMap
  <2>4. Found(AUDIO_MAP, Sinks + j)
    BY <1>2, <2>2 DEF Found, GeneratedMap
  <2> QED BY <1>1, <1>2, <2>3, <2>4, Zenon DEF MapFits
<1> QED BY <1>1, <1>2, Zenon DEF Clusters

\* The ports, maps and clusters fit together.
LEMMA PortsLemma == device \in Devices => PortsAgree
<1> SUFFICES ASSUME device \in Devices PROVE PortsAgree
  OBVIOUS
<1> DEFINE ins == 0 .. (Sinks - 1)
           outs == 0 .. (Sources - 1)
           q == Outputs \div Sinks
           p == Inputs \div Sources
           inBase(i) == (i * Outputs) \div Sinks
           outBase(j) == (j * Inputs) \div Sources
<1>1. Sinks \in Nat \ {0} /\ Sources \in Nat /\ Outputs \in Nat /\ Inputs \in Nat
  BY DeviceType
<1>2. \A i \in ins : Clusters(InputPort(i)) = inBase(i) .. (inBase(i) + q - 1)
  BY InputPortLemma
<1>3. \A j \in outs : Clusters(OutputPort(j))
                        = (Outputs + outBase(j)) .. (Outputs + outBase(j) + p - 1)
  BY OutputPortLemma
<1>4. \A i \in ins : inBase(i) \in Nat /\ q \in Nat /\ inBase(i) + q <= Outputs
  BY <1>1, ShareWithin
<1>5. \A j \in outs : outBase(j) \in Nat /\ p \in Nat /\ outBase(j) + p <= Inputs
  <2> SUFFICES ASSUME NEW j \in outs
               PROVE  outBase(j) \in Nat /\ p \in Nat /\ outBase(j) + p <= Inputs
    OBVIOUS
  <2>1. Sources \in Nat \ {0}
    BY <1>1
  <2> QED BY <1>1, <2>1, ShareWithin
<1>6. \A i, j \in ins : i < j => inBase(i) + q <= inBase(j)
  BY <1>1, ShareApart
<1>7. \A i, j \in outs : i < j => outBase(i) + p <= outBase(j)
  <2> SUFFICES ASSUME NEW i \in outs, NEW j \in outs, i < j
               PROVE  outBase(i) + p <= outBase(j)
    OBVIOUS
  <2>1. Sources \in Nat \ {0}
    BY <1>1
  <2> QED BY <1>1, <2>1, ShareApart
<1>8. Outputs % Sinks = 0 => UNION {Clusters(InputPort(i)) : i \in ins} = 0 .. (Outputs - 1)
  <2> SUFFICES ASSUME Outputs % Sinks = 0
               PROVE  UNION {Clusters(InputPort(i)) : i \in ins} = 0 .. (Outputs - 1)
    OBVIOUS
  <2>1. q * Sinks = Outputs /\ q \in Nat
    BY <1>1, ShareEven
  <2>2. ASSUME NEW i \in ins PROVE Clusters(InputPort(i)) = Block(0, q, i)
    <3>0. i \in Nat
      BY <1>1
    <3>1. inBase(i) = i * q
      BY <1>1, <3>0, ShareEven, Zenon
    <3> HIDE DEF q, inBase
    <3>2. 0 + i * q = i * q
      BY <1>1, <2>1
    <3> QED BY <1>2, <3>1, <3>2 DEF Block
  <2>3. {Clusters(InputPort(i)) : i \in ins} = {Block(0, q, i) : i \in ins}
    BY <2>2
  <2>4. UNION {Block(0, q, i) : i \in ins} = 0 .. (0 + q * Sinks - 1)
    <3>1. \A n \in Nat : UNION {Block(0, n, i) : i \in 0 .. (Sinks - 1)} = 0 .. (0 + n * Sinks - 1)
      BY <1>1, BlocksCover
    <3> QED BY <2>1, <3>1
  <2>5. 0 + q * Sinks - 1 = Outputs - 1
    BY <1>1, <2>1
  <2> QED BY <2>3, <2>4, <2>5, Zenon
<1>9. Sources > 0 /\ Inputs % Sources = 0 =>
        UNION {Clusters(OutputPort(j)) : j \in outs} = Outputs .. (Outputs + Inputs - 1)
  <2> SUFFICES ASSUME Sources > 0, Inputs % Sources = 0
               PROVE  UNION {Clusters(OutputPort(j)) : j \in outs}
                        = Outputs .. (Outputs + Inputs - 1)
    OBVIOUS
  <2>0. Sources \in Nat \ {0}
    BY <1>1
  <2>1. p * Sources = Inputs /\ p \in Nat
    BY <1>1, <2>0, ShareEven
  <2>2. ASSUME NEW j \in outs PROVE Clusters(OutputPort(j)) = Block(Outputs, p, j)
    <3>1. outBase(j) = j * p
      BY <1>1, <2>0, ShareEven
    <3> HIDE DEF p, outBase
    <3> QED BY <1>3, <3>1 DEF Block
  <2>3. {Clusters(OutputPort(j)) : j \in outs} = {Block(Outputs, p, j) : j \in outs}
    BY <2>2
  <2>4. UNION {Block(Outputs, p, j) : j \in outs} = Outputs .. (Outputs + p * Sources - 1)
    <3>1. \A n \in Nat : UNION {Block(Outputs, n, j) : j \in 0 .. (Sources - 1)}
                           = Outputs .. (Outputs + n * Sources - 1)
      BY <1>1, <2>0, BlocksCover
    <3> QED BY <2>1, <3>1
  <2> QED BY <2>1, <2>3, <2>4, Zenon
<1> HIDE DEF q, p, inBase, outBase
<1>10. /\ \A i \in ins : \A c \in Clusters(InputPort(i)) : c \in 0 .. (Outputs - 1)
       /\ \A j \in outs : \A c \in Clusters(OutputPort(j)) : c \in Outputs .. (Outputs + Inputs - 1)
  <2>1. ASSUME NEW i \in ins, NEW c \in Clusters(InputPort(i)) PROVE c \in 0 .. (Outputs - 1)
    BY <1>1, <1>2, <1>4, <2>1
  <2>2. ASSUME NEW j \in outs, NEW c \in Clusters(OutputPort(j))
        PROVE  c \in Outputs .. (Outputs + Inputs - 1)
    BY <1>1, <1>3, <1>5, <2>2
  <2> QED BY <2>1, <2>2
<1>11. \A c \in 0 .. (Outputs + Inputs - 1) : Found(AUDIO_CLUSTER, c)
  BY <1>1 DEF Found, FromTemplate
<1>12. Apart(InputPort, Sinks)
  <2>1. \A i \in ins : \A c \in Clusters(InputPort(i)) : Found(AUDIO_CLUSTER, c)
    BY <1>1, <1>10, <1>11
  <2>2. ASSUME NEW i \in ins, NEW j \in ins, i # j
        PROVE  Clusters(InputPort(i)) \cap Clusters(InputPort(j)) = {}
    <3>1. inBase(i) + q <= inBase(j) \/ inBase(j) + q <= inBase(i)
      BY <1>1, <1>6, <2>2
    <3> QED BY <1>2, <1>4, <3>1
  <2> QED BY <2>1, <2>2, Zenon DEF Apart
<1>13. Apart(OutputPort, Sources)
  <2>1. \A j \in outs : \A c \in Clusters(OutputPort(j)) : Found(AUDIO_CLUSTER, c)
    BY <1>1, <1>10, <1>11
  <2>2. ASSUME NEW i \in outs, NEW j \in outs, i # j
        PROVE  Clusters(OutputPort(i)) \cap Clusters(OutputPort(j)) = {}
    <3>1. outBase(i) + p <= outBase(j) \/ outBase(j) + p <= outBase(i)
      BY <1>1, <1>7, <2>2
    <3> QED BY <1>1, <1>3, <1>5, <3>1
  <2> QED BY <2>1, <2>2, Zenon DEF Apart
<1>14. \A i \in ins, j \in outs : Clusters(InputPort(i)) \cap Clusters(OutputPort(j)) = {}
  BY <1>1, <1>10
<1>15. /\ \A i \in ins : MapFits(InputPort(i), i)
       /\ Sources = Sinks => \A j \in outs : MapFits(OutputPort(j), j)
  BY InputPortLemma, OutputPortLemma
<1> QED BY <1>8, <1>9, <1>12, <1>13, <1>14, <1>15, Zenon DEF PortsAgree

(* READ_DESCRIPTOR finds a descriptor exactly when the entity announces it, *)
(* whatever was read before, and its answers fit together: the clusters of  *)
(* the ports exist, no two ports share one, and every port's map is its own *)
(* stream's.  For every device, with the exceptions of the property: the    *)
(* sinks after the first of a device without sources, and the maps of       *)
(* output ports where there are not as many sources as sinks.               *)
THEOREM DescriptorsTheorem == Spec => []DescriptorsAgree
<1>1. IndexInv => DescriptorsAgree
  BY FoundLemma, PortsLemma DEF DescriptorsAgree, IndexInv
<1> QED BY <1>1, IndexAlways, PTL

-----------------------------------------------------------------------------
(***************************************************************************)
(* Proofs about Maap for every set of nodes, every pool and every timing:  *)
(* maap_conflict decides exactly whether two ranges share an address, every *)
(* Defend in flight names addresses of the probed range, and no node that  *)
(* takes part is ever left without something to do.                        *)
(***************************************************************************)
USE DEF Off, None

-----------------------------------------------------------------------------
\* The three cases of maap_conflict together are overlap, and no other range
\* test is needed: the third case is covered by the first.
THEOREM ConflictIsOverlap ==
  ASSUME NEW lo \in Nat, NEW count \in Nat \ {0}, NEW rlo \in Nat, NEW rcount \in Nat \ {0}
  PROVE  Conflict(lo, count, rlo, rcount) <=> Range(lo, count) \cap Range(rlo, rcount) # {}
<1>1. ASSUME Conflict(lo, count, rlo, rcount)
      PROVE  Range(lo, count) \cap Range(rlo, rcount) # {}
  <2>1. CASE StartsInside(lo, rlo, rcount)
    <3>1. lo \in Range(lo, count) /\ lo \in Range(rlo, rcount)
      BY <2>1 DEF StartsInside, Range
    <3> QED BY <3>1
  <2>2. CASE rlo > lo /\ rlo < lo + count
    <3>1. rlo \in Range(lo, count) /\ rlo \in Range(rlo, rcount)
      BY <2>2 DEF Range
    <3> QED BY <3>1
  <2>3. CASE lo = rlo /\ lo + count = rlo + rcount
    BY <2>1, <2>3 DEF StartsInside
  <2> QED BY <1>1, <2>1, <2>2, <2>3 DEF Conflict
<1>2. ASSUME Range(lo, count) \cap Range(rlo, rcount) # {}
      PROVE  Conflict(lo, count, rlo, rcount)
  <2>1. PICK x : x \in Range(lo, count) /\ x \in Range(rlo, rcount)
    BY <1>2
  <2>2. x \in Int /\ lo <= x /\ x <= lo + count - 1 /\ rlo <= x /\ x <= rlo + rcount - 1
    BY <2>1 DEF Range
  <2> QED BY <2>2 DEF Conflict, StartsInside
<1> QED BY <1>1, <1>2

\* The addresses a Defend names are the ones the two ranges share.
THEOREM ConflictNamesOverlap ==
  ASSUME NEW lo \in Nat, NEW count \in Nat \ {0}, NEW rlo \in Nat, NEW rcount \in Nat \ {0},
         Conflict(lo, count, rlo, rcount)
  PROVE  /\ ConflictStart(lo, count, rlo, rcount) \in Nat
         /\ ConflictCount(lo, count, rlo, rcount) \in Nat \ {0}
         /\ Range(ConflictStart(lo, count, rlo, rcount), ConflictCount(lo, count, rlo, rcount))
              = Range(lo, count) \cap Range(rlo, rcount)
<1> DEFINE s == ConflictStart(lo, count, rlo, rcount)
           c == ConflictCount(lo, count, rlo, rcount)
<1>1. /\ s \in Nat /\ c \in Nat \ {0}
      /\ s = (IF lo >= rlo THEN lo ELSE rlo)
      /\ s + c = (IF lo + count <= rlo + rcount THEN lo + count ELSE rlo + rcount)
  BY DEF ConflictStart, ConflictCount, Conflict, StartsInside
<1> HIDE DEF s, c
<1>2. \A x : x \in Range(s, c) <=> x \in Range(lo, count) /\ x \in Range(rlo, rcount)
  BY <1>1 DEF Range
<1>3. Range(s, c) = Range(lo, count) \cap Range(rlo, rcount)
  BY <1>2
<1> QED BY <1>1, <1>3 DEF s, c

\* What ConflictNamesOverlap shows of two ranges, as one fact.
NamesOverlap(lo, count, rlo, rcount) ==
  /\ ConflictStart(lo, count, rlo, rcount) \in Nat
  /\ ConflictCount(lo, count, rlo, rcount) \in Nat \ {0}
  /\ Range(ConflictStart(lo, count, rlo, rcount), ConflictCount(lo, count, rlo, rcount))
       = Range(lo, count) \cap Range(rlo, rcount)

\* The same theorem for any two ranges that conflict.
LEMMA OverlapNamed ==
  \A lo, rlo \in Nat : \A count, rcount \in Nat \ {0} :
     Conflict(lo, count, rlo, rcount) => NamesOverlap(lo, count, rlo, rcount)
<1> SUFFICES ASSUME NEW lo \in Nat, NEW rlo \in Nat,
                    NEW count \in Nat \ {0}, NEW rcount \in Nat \ {0},
                    Conflict(lo, count, rlo, rcount)
             PROVE  NamesOverlap(lo, count, rlo, rcount)
  OBVIOUS
<1> QED BY ConflictNamesOverlap DEF NamesOverlap

-----------------------------------------------------------------------------
(***************************************************************************)
(* The inductive invariant                                                 *)
(***************************************************************************)
\* One node: a node that takes part holds a range that is not empty, its timer
\* runs even while something is due at once, and a probe is left to send as long
\* as it is probing.
SoundAddr(st) ==
  /\ st \in Addresses
  /\ st.state # "DISABLED" => st.range # 0 /\ st.timer # Off
  /\ st.state = "PROBING" => st.count # -1

\* One packet: a claim is of a range that is not empty, and a Defend names some
\* of the addresses that were probed.
SoundMessage(msg) ==
  /\ msg \in Message
  /\ msg.count # 0
  /\ msg.type = "DEFEND" =>
       /\ Range(msg.cstart, msg.ccount) # {}
       /\ Range(msg.cstart, msg.ccount) \subseteq Range(msg.start, msg.count)

SoundMessages == {msg \in Message : SoundMessage(msg)}

IndInv ==
  /\ addr \in [Node -> Addresses]
  /\ \A n \in Node : SoundAddr(addr[n])
  /\ reported \in [Node -> 0..TopAddress \cup {None}]
  /\ up \in [Node -> BOOLEAN]
  /\ inbox \in [Node -> Seq(SoundMessages)]
  /\ budget \in [lost : 0..MaxLost, down : 0..MaxDown, restart : 0..MaxRestarts]

\* A request leaves a node probing, with a probe due at once.
LEMMA RequestSound ==
  ASSUME NEW st \in Addresses, NEW b \in RandomBases(st), NEW r \in Nat \ {0}
  PROVE  SoundAddr(RequestAddresses(b, r))
<1>1. b \in 0..TopAddress
  BY MaapAssumption DEF RandomBases, TopAddress, Addresses
<1>2. ProbeInterval(b) \in Nat
  BY <1>1, MaapAssumption DEF ProbeInterval, TopAddress
<1>3. RequestAddresses(b, r) \in Addresses
  BY <1>1, <1>2, MaapAssumption DEF RequestAddresses, Addresses, States
<1> QED BY <1>2, <1>3, MaapAssumption DEF SoundAddr, RequestAddresses

\* The same for the addresses a node already holds.
LEMMA RequestSameSound ==
  ASSUME NEW b \in 0..TopAddress, NEW r \in Nat \ {0}
  PROVE  SoundAddr(RequestAddresses(b, r))
<1>1. ProbeInterval(b) \in Nat
  BY MaapAssumption DEF ProbeInterval, TopAddress
<1>2. RequestAddresses(b, r) \in Addresses
  BY <1>1, MaapAssumption DEF RequestAddresses, Addresses, States
<1> QED BY <1>1, <1>2, MaapAssumption DEF SoundAddr, RequestAddresses

\* Replacing one node's state by a sound one keeps all nodes sound.
LEMMA UpdateAddr ==
  ASSUME IndInv, NEW n \in Node, NEW st, SoundAddr(st), addr' = [addr EXCEPT ![n] = st]
  PROVE  /\ addr' \in [Node -> Addresses]
         /\ \A m \in Node : SoundAddr(addr'[m])
BY DEF IndInv, SoundAddr

\* Requesting a new range keeps the addresses sound.
LEMMA RequestNewSound ==
  ASSUME IndInv, NEW n \in Node, addr[n].state # "DISABLED", RequestNew(n)
  PROVE  /\ addr' \in [Node -> Addresses]
         /\ \A m \in Node : SoundAddr(addr'[m])
<1>1. PICK b \in RandomBases(addr[n]) :
        addr' = [addr EXCEPT ![n] = RequestAddresses(b, addr[n].range)]
  BY Zenon DEF RequestNew
<1>2. addr[n] \in Addresses /\ addr[n].range \in Nat \ {0}
  BY Zenon DEF IndInv, SoundAddr, Addresses
<1>3. SoundAddr(RequestAddresses(b, addr[n].range))
  BY <1>2, RequestSound
<1> QED BY <1>1, <1>3, UpdateAddr, Zenon

\* Delivery of a packet.
LEMMA MulticastType ==
  ASSUME IndInv, NEW n \in Node, NEW boxes \in [Node -> Seq(SoundMessages)],
         NEW msg \in SoundMessages
  PROVE  Multicast(boxes, n, msg) \in [Node -> Seq(SoundMessages)]
BY DEF Multicast

\* Sending to one node keeps the inboxes sound.
LEMMA UnicastType ==
  ASSUME IndInv, NEW n \in Node, NEW m \in Node, NEW boxes \in [Node -> Seq(SoundMessages)],
         NEW msg \in SoundMessages
  PROVE  Unicast(boxes, n, m, msg) \in [Node -> Seq(SoundMessages)]
<1>1. boxes[m] \in Seq(SoundMessages)
  OBVIOUS
<1>2. Append(boxes[m], msg) \in Seq(SoundMessages)
  BY <1>1
<1> QED BY <1>2 DEF Unicast

\* Taking the first message keeps the inboxes sound.
LEMMA TakeType ==
  ASSUME IndInv, NEW n \in Node, inbox[n] # <<>>
  PROVE  /\ Take(n) \in [Node -> Seq(SoundMessages)]
         /\ Head(inbox[n]) \in SoundMessages
<1>1. inbox[n] \in Seq(SoundMessages) /\ inbox \in [Node -> Seq(SoundMessages)]
  BY DEF IndInv
<1>2. Tail(inbox[n]) \in Seq(SoundMessages) /\ Head(inbox[n]) \in SoundMessages
  BY <1>1
<1> QED BY <1>1, <1>2 DEF Take

-----------------------------------------------------------------------------
(***************************************************************************)
(* One step per action                                                     *)
(***************************************************************************)
LEMMA InitInv == MaapInit => IndInv
<1> SUFFICES ASSUME MaapInit PROVE IndInv
  OBVIOUS
<1>1. 0 \in 0..TopAddress
  BY MaapAssumption DEF TopAddress
<1>2. \A n \in Node : SoundAddr(addr[n])
  BY <1>1, MaapAssumption DEF MaapInit, SoundAddr, Addresses, States
<1>3. addr \in [Node -> Addresses]
  BY <1>2 DEF MaapInit, SoundAddr
<1>4. inbox \in [Node -> Seq(SoundMessages)]
  BY DEF MaapInit
<1>5. budget \in [lost : 0..MaxLost, down : 0..MaxDown, restart : 0..MaxRestarts]
  BY MaapAssumption DEF MaapInit
<1> QED BY <1>2, <1>3, <1>4, <1>5 DEF MaapInit, IndInv

\* What a budget that is not used up leaves behind.
LEMMA BudgetType ==
  ASSUME IndInv
  PROVE  /\ budget.lost > 0 =>
              [budget EXCEPT !.lost = @ - 1]
                \in [lost : 0..MaxLost, down : 0..MaxDown, restart : 0..MaxRestarts]
         /\ budget.down > 0 =>
              [budget EXCEPT !.down = @ - 1]
                \in [lost : 0..MaxLost, down : 0..MaxDown, restart : 0..MaxRestarts]
         /\ budget.restart > 0 =>
              [budget EXCEPT !.restart = @ - 1]
                \in [lost : 0..MaxLost, down : 0..MaxDown, restart : 0..MaxRestarts]
<1>1. budget \in [lost : 0..MaxLost, down : 0..MaxDown, restart : 0..MaxRestarts]
  BY DEF IndInv
<1>2. \A max \in Nat : \A x \in 0..max : x > 0 => x - 1 \in 0..max
  OBVIOUS
<1>3. /\ budget.lost > 0 => budget.lost - 1 \in 0..MaxLost
      /\ budget.down > 0 => budget.down - 1 \in 0..MaxDown
      /\ budget.restart > 0 => budget.restart - 1 \in 0..MaxRestarts
  BY <1>1, <1>2, MaapAssumption
<1> QED BY <1>1, <1>3

\* LinkUp keeps the invariant.
LEMMA LinkUpInv == ASSUME IndInv, NEW n \in Node, LinkUp(n) PROVE IndInv'
<1>1. NumSources[n] \in Nat \ {0} /\ addr[n] \in Addresses
  BY MaapAssumption DEF IndInv
<1>2. /\ addr' \in [Node -> Addresses]
      /\ \A m \in Node : SoundAddr(addr'[m])
  <2>1. CASE addr[n].state = "DISABLED"
    <3>1. PICK b \in RandomBases(addr[n]) :
            addr' = [addr EXCEPT ![n] = RequestAddresses(b, NumSources[n])]
      BY <2>1 DEF LinkUp
    <3>2. SoundAddr(RequestAddresses(b, NumSources[n]))
      BY <1>1, RequestSound
    <3> QED BY <3>1, <3>2, UpdateAddr, Zenon
  <2>2. CASE addr[n].state # "DISABLED"
    <3>1. addr' = [addr EXCEPT ![n] = RequestAddresses(addr[n].base, NumSources[n])]
      BY <2>2 DEF LinkUp, IndInv
    <3>2. addr[n].base \in 0..TopAddress
      BY <1>1 DEF Addresses
    <3>3. SoundAddr(RequestAddresses(addr[n].base, NumSources[n]))
      BY <1>1, <3>2, RequestSameSound
    <3> QED BY <3>1, <3>3, UpdateAddr, Zenon
  <2> QED BY <2>1, <2>2
<1>3. up' \in [Node -> BOOLEAN]
  BY DEF LinkUp, IndInv
<1> QED BY <1>2, <1>3 DEF LinkUp, IndInv

\* LinkDown keeps the invariant.
LEMMA LinkDownInv == ASSUME IndInv, NEW n \in Node, LinkDown(n) PROVE IndInv'
BY BudgetType, Zenon DEF LinkDown, IndInv

\* Rerequest keeps the invariant.
LEMMA RerequestInv == ASSUME IndInv, NEW n \in Node, Rerequest(n) PROVE IndInv'
<1>1. /\ addr' \in [Node -> Addresses]
      /\ \A m \in Node : SoundAddr(addr'[m])
  BY RequestNewSound DEF Rerequest
<1> QED BY <1>1, BudgetType, Zenon DEF Rerequest, IndInv

\* Relinquish keeps the invariant.
LEMMA RelinquishInv == ASSUME IndInv, NEW n \in Node, Relinquish(n) PROVE IndInv'
<1> DEFINE st == [addr[n] EXCEPT !.state = "DISABLED"]
<1>1. SoundAddr(st)
  BY Zenon DEF IndInv, SoundAddr, Addresses, States
<1>2. addr' = [addr EXCEPT ![n] = st]
  BY DEF Relinquish
<1> HIDE DEF st
<1>3. /\ addr' \in [Node -> Addresses]
      /\ \A m \in Node : SoundAddr(addr'[m])
  BY <1>1, <1>2, UpdateAddr, Zenon
<1> QED BY <1>3, BudgetType, Zenon DEF Relinquish, IndInv

\* A claim of a range that is not empty is a sound message.
LEMMA ClaimSound ==
  ASSUME IndInv, NEW n \in Node, NEW type \in {"PROBE", "ANNOUNCE"},
         addr[n].state # "DISABLED"
  PROVE  Claim(type, n) \in SoundMessages
<1>1. addr[n].base \in Nat /\ addr[n].range \in Nat \ {0}
  BY MaapAssumption DEF IndInv, SoundAddr, Addresses, TopAddress
<1> QED BY <1>1, Zenon DEF Claim, SoundMessages, SoundMessage, Message

\* Probe keeps the invariant.
LEMMA ProbeInv == ASSUME IndInv, NEW n \in Node, Probe(n) PROVE IndInv'
<1>1. addr[n].state = "PROBING" /\ SoundAddr(addr[n])
  BY Zenon DEF Probe, IndInv
<1>2. inbox' \in [Node -> Seq(SoundMessages)]
  BY <1>1, ClaimSound, MulticastType, Zenon DEF Probe, IndInv
<1>3. /\ addr' \in [Node -> Addresses]
      /\ \A m \in Node : SoundAddr(addr'[m])
  <2>1. addr[n].count - 1 \in -1..Retransmits
    BY <1>1, MaapAssumption DEF SoundAddr, Addresses
  <2>2. CASE addr[n].count = 0
    <3>0. PICK t \in AnnounceTimes :
            addr' = [addr EXCEPT ![n].state = "RESERVED", ![n].now = TRUE,
                       ![n].interval = t, ![n].timer = t, ![n].count = @ - 1]
      BY <2>2, Zenon DEF Probe
    <3> DEFINE st == [addr[n] EXCEPT !.state = "RESERVED", !.now = TRUE,
                        !.interval = t, !.timer = t, !.count = @ - 1]
    <3>1. addr' = [addr EXCEPT ![n] = st]
      BY <3>0, Zenon DEF IndInv
    <3>2. t \in Nat /\ t # Off
      BY MaapAssumption
    <3>3. st \in Addresses /\ st.timer = t /\ st.state = "RESERVED" /\ st.range # 0
      BY <1>1, <2>1, <3>2, Zenon DEF SoundAddr, Addresses, States
    <3> HIDE DEF st
    <3>4. SoundAddr(st)
      BY <3>2, <3>3 DEF SoundAddr
    <3> QED BY <3>1, <3>4, UpdateAddr, Zenon
  <2>3. CASE addr[n].count # 0
    <3> DEFINE st == [addr[n] EXCEPT !.now = FALSE, !.timer = addr[n].interval,
                        !.count = @ - 1]
    <3>1. addr' = [addr EXCEPT ![n] = st]
      BY <2>3, Zenon DEF Probe, IndInv
    <3>2. addr[n].interval \in Nat
      BY <1>1 DEF SoundAddr, Addresses
    <3>3. /\ st \in Addresses /\ st.timer = addr[n].interval /\ st.range # 0
          /\ st.count = addr[n].count - 1
      BY <1>1, <2>1, <3>2, Zenon DEF SoundAddr, Addresses, States
    <3>4. addr[n].count \in Int /\ addr[n].count - 1 # -1
      BY <1>1, <2>3 DEF SoundAddr, Addresses
    <3> HIDE DEF st
    <3>5. SoundAddr(st)
      BY <3>2, <3>3, <3>4 DEF SoundAddr
    <3> QED BY <3>1, <3>5, UpdateAddr, Zenon
  <2> QED BY <2>2, <2>3
<1>4. reported' \in [Node -> 0..TopAddress \cup {None}]
  BY <1>1, Zenon DEF Probe, IndInv, SoundAddr, Addresses
<1> QED BY <1>2, <1>3, <1>4, Zenon DEF Probe, IndInv

\* Announce keeps the invariant.
LEMMA AnnounceInv == ASSUME IndInv, NEW n \in Node, Announce(n) PROVE IndInv'
<1>1. addr[n].state = "RESERVED" /\ SoundAddr(addr[n])
  BY DEF Announce, IndInv
<1>2. inbox' \in [Node -> Seq(SoundMessages)]
  BY <1>1, ClaimSound, MulticastType, Zenon DEF Announce, IndInv
<1>3. /\ addr' \in [Node -> Addresses]
      /\ \A m \in Node : SoundAddr(addr'[m])
  <2>1. CASE addr[n].now
    <3>1. addr' = [addr EXCEPT ![n] = [addr[n] EXCEPT !.now = FALSE]]
      BY <2>1 DEF Announce, IndInv
    <3>2. SoundAddr([addr[n] EXCEPT !.now = FALSE])
      BY <1>1, Zenon DEF SoundAddr, Addresses
    <3> QED BY <3>1, <3>2, UpdateAddr, Zenon
  <2>2. CASE ~addr[n].now
    <3>1. PICK t \in AnnounceTimes :
            addr' = [addr EXCEPT ![n] = [addr[n] EXCEPT !.interval = t, !.timer = t]]
      BY <2>2, Zenon DEF Announce, IndInv
    <3> DEFINE st == [addr[n] EXCEPT !.interval = t, !.timer = t]
    <3>2. t \in Nat /\ t # Off
      BY MaapAssumption
    <3>3. st \in Addresses /\ st.timer = t /\ st.state = "RESERVED" /\ st.range # 0
      BY <1>1, <3>2, Zenon DEF SoundAddr, Addresses
    <3> HIDE DEF st
    <3>4. SoundAddr(st)
      BY <3>2, <3>3 DEF SoundAddr
    <3> QED BY <3>1, <3>4, UpdateAddr, Zenon DEF st
  <2> QED BY <2>1, <2>2
<1> QED BY <1>2, <1>3 DEF Announce, IndInv

\* A node that takes part holds at least one address.
LEMMA RangeHeld ==
  ASSUME IndInv, NEW n \in Node, addr[n].state # "DISABLED"
  PROVE  addr[n].base \in Nat /\ addr[n].range \in Nat \ {0}
BY MaapAssumption DEF IndInv, SoundAddr, Addresses, TopAddress

\* The answer to a probe that conflicts names what the two ranges share.
LEMMA DefendSound ==
  ASSUME IndInv, NEW n \in Node, NEW msg \in SoundMessages,
         addr[n].state # "DISABLED", Conflicts(n, msg.start, msg.count)
  PROVE  Defend(n, msg) \in SoundMessages
<1>1. addr[n].base \in Nat /\ addr[n].range \in Nat \ {0}
  BY RangeHeld, Zenon
<1>2. msg.start \in Nat /\ msg.count \in Nat \ {0}
  BY DEF SoundMessages, SoundMessage, Message
<1>3. Conflict(addr[n].base, addr[n].range, msg.start, msg.count)
  BY DEF Conflicts
<1> DEFINE s == ConflictStart(addr[n].base, addr[n].range, msg.start, msg.count)
           c == ConflictCount(addr[n].base, addr[n].range, msg.start, msg.count)
<1>4. /\ s \in Nat /\ c \in Nat \ {0}
      /\ Range(s, c) = Range(addr[n].base, addr[n].range) \cap Range(msg.start, msg.count)
  <2>1. NamesOverlap(addr[n].base, addr[n].range, msg.start, msg.count)
    BY <1>1, <1>2, <1>3, OverlapNamed, Zenon
  <2> QED BY <2>1, Zenon DEF NamesOverlap
<1>5. Defend(n, msg) = [type |-> "DEFEND", from |-> n, start |-> msg.start,
                        count |-> msg.count, cstart |-> s, ccount |-> c]
  BY DEF Defend
<1> HIDE DEF s, c
<1>6. Range(s, c) # {}
  <2>1. s \in Range(s, c)
    BY <1>4 DEF Range
  <2> QED BY <2>1
<1> QED BY <1>2, <1>4, <1>5, <1>6 DEF SoundMessages, SoundMessage, Message

\* ProcessProbe keeps the invariant.
LEMMA ProcessProbeInv == ASSUME IndInv, NEW n \in Node, ProcessProbe(n) PROVE IndInv'
<1> DEFINE msg == Head(inbox[n])
<1>1. /\ Take(n) \in [Node -> Seq(SoundMessages)] /\ msg \in SoundMessages
      /\ inbox[n] # <<>>
  BY TakeType, Zenon DEF ProcessProbe
<1>2. msg.from \in Node
  BY <1>1 DEF SoundMessages, Message
<1>3. CASE /\ addr[n].state = "PROBING" /\ RequestNew(n) /\ inbox' = Take(n)
  <2>1. /\ addr' \in [Node -> Addresses]
        /\ \A m \in Node : SoundAddr(addr'[m])
    BY <1>3, RequestNewSound
  <2> QED BY <1>1, <1>3, <2>1, Zenon DEF ProcessProbe, IndInv
<1>4. CASE /\ addr[n].state = "RESERVED" /\ Conflicts(n, msg.start, msg.count)
           /\ inbox' = Unicast(Take(n), n, msg.from, Defend(n, msg))
           /\ UNCHANGED addr
  <2>1. inbox' \in [Node -> Seq(SoundMessages)]
    BY <1>1, <1>2, <1>4, DefendSound, UnicastType, Zenon
  <2> QED BY <1>4, <2>1, Zenon DEF ProcessProbe, IndInv
<1>5. CASE inbox' = Take(n) /\ UNCHANGED addr
  BY <1>1, <1>5, Zenon DEF ProcessProbe, IndInv
<1> QED BY <1>3, <1>4, <1>5, Zenon DEF ProcessProbe

\* ProcessClaim keeps the invariant.
LEMMA ProcessClaimInv == ASSUME IndInv, NEW n \in Node, ProcessClaim(n) PROVE IndInv'
<1>1. inbox' \in [Node -> Seq(SoundMessages)]
  BY TakeType, Zenon DEF ProcessClaim
<1>2. CASE addr[n].state # "DISABLED" /\ RequestNew(n)
  <2>1. /\ addr' \in [Node -> Addresses]
        /\ \A m \in Node : SoundAddr(addr'[m])
    BY <1>2, RequestNewSound
  <2> QED BY <1>1, <2>1, Zenon DEF ProcessClaim, IndInv
<1>3. CASE UNCHANGED addr
  BY <1>1, <1>3, Zenon DEF ProcessClaim, IndInv
<1> QED BY <1>2, <1>3, Zenon DEF ProcessClaim

\* Lose keeps the invariant.
LEMMA LoseInv == ASSUME IndInv, NEW n \in Node, Lose(n) PROVE IndInv'
BY TakeType, BudgetType, Zenon DEF Lose, IndInv

\* The passing of time keeps the invariant.
LEMMA TickInv == ASSUME IndInv, Tick PROVE IndInv'
<1>1. ASSUME NEW n \in Node PROVE SoundAddr(addr'[n])
  <2>1. addr'[n] = [addr[n] EXCEPT !.timer = IF @ > 0 THEN @ - 1 ELSE @]
    BY DEF Tick
  <2>2. SoundAddr(addr[n])
    BY DEF IndInv
  <2> QED BY <2>1, <2>2 DEF SoundAddr, Addresses
<1>2. addr' \in [Node -> Addresses]
  BY <1>1 DEF Tick, SoundAddr
<1> QED BY <1>1, <1>2 DEF Tick, IndInv

\* Every step keeps the invariant.
LEMMA NextInv == IndInv /\ [MaapNext]_maapVars => IndInv'
<1> SUFFICES ASSUME IndInv, [MaapNext]_maapVars PROVE IndInv'
  OBVIOUS
<1>1. CASE UNCHANGED maapVars
  BY <1>1 DEF maapVars, IndInv
<1>2. CASE MaapNext
  BY <1>2, TickInv, LinkUpInv, LinkDownInv, RerequestInv, RelinquishInv, ProbeInv,
     AnnounceInv, ProcessProbeInv, ProcessClaimInv, LoseInv DEF MaapNext
<1> QED BY <1>1, <1>2

-----------------------------------------------------------------------------
(***************************************************************************)
(* What the invariant gives                                                *)
(***************************************************************************)
LEMMA IndInvHolds == MaapSpec => []IndInv
BY InitInv, NextInv, PTL DEF MaapSpec

\* The types of maap_addr, the timers and the packets, for every pool and timing.
THEOREM TypeCorrect == MaapSpec => []MaapTypeOK
<1>1. IndInv => MaapTypeOK
  <2> SUFFICES ASSUME IndInv PROVE MaapTypeOK
    OBVIOUS
  <2>1. \A box \in Seq(SoundMessages) : box \in Seq(Message)
    BY DEF SoundMessages
  <2>2. inbox \in [Node -> Seq(Message)]
    BY <2>1 DEF IndInv
  <2> QED BY <2>2, Zenon DEF IndInv, MaapTypeOK
<1> QED BY <1>1, IndInvHolds, PTL

\* A node that takes part always has something to send or a running timer: no
\* path of request, conflict, reservation or link failure loses both.
THEOREM NeverStuckCorrect == MaapSpec => []NeverStuck
<1>1. IndInv => NeverStuck
  BY DEF IndInv, SoundAddr, NeverStuck
<1> QED BY <1>1, IndInvHolds, PTL

\* Taking a packet brings no new one.
LEMMA TakeShort ==
  ASSUME IndInv, NEW n \in Node, NEW d \in Node, inbox[n] # <<>>
  PROVE  ~(Len(Take(n)[d]) > Len(inbox[d])) /\ Len(inbox[d]) \in Nat /\ Len(Take(n)[d]) \in Nat
<1>1. inbox \in [Node -> Seq(SoundMessages)]
  BY DEF IndInv
<1>2. inbox[n] \in Seq(SoundMessages) /\ inbox[d] \in Seq(SoundMessages)
  BY <1>1
<1>3. CASE d = n
  <2>1. Take(n)[d] = Tail(inbox[n])
    BY <1>1, <1>3, Zenon DEF Take
  <2>2. Len(Tail(inbox[n])) = Len(inbox[n]) - 1 /\ Len(inbox[n]) \in Nat \ {0}
    BY <1>2
  <2> QED BY <1>3, <2>1, <2>2
<1>4. CASE d # n
  <2>1. Take(n)[d] = inbox[d]
    BY <1>1, <1>4, Zenon DEF Take
  <2>2. Len(inbox[d]) \in Nat
    BY <1>2
  <2> QED BY <2>1, <2>2
<1> QED BY <1>3, <1>4

\* The packet that a probe or an announcement brings is a claim.
LEMMA ClaimArrives ==
  ASSUME IndInv, NEW n \in Node, NEW d \in Node, NEW type \in {"PROBE", "ANNOUNCE"},
         inbox' = Multicast(inbox, n, Claim(type, n)), Len(inbox'[d]) > Len(inbox[d])
  PROVE  inbox'[d][Len(inbox'[d])].type # "DEFEND"
<1>1. inbox[d] \in Seq(SoundMessages)
  BY DEF IndInv
<1>2. inbox'[d] = Append(inbox[d], Claim(type, n)) \/ inbox'[d] = inbox[d]
  BY Zenon DEF Multicast
<1>3. inbox'[d] # inbox[d]
  <2>1. Len(inbox[d]) \in Nat
    BY <1>1
  <2> QED BY <2>1
<1>4. inbox'[d][Len(inbox'[d])] = Claim(type, n)
  BY <1>1, <1>2, <1>3
<1> QED BY <1>4 DEF Claim

\* The Defend that answers a probe names what is shared.
LEMMA DefendArrives ==
  ASSUME IndInv, NEW n \in Node, NEW d \in Node, ProcessProbe(n),
         Len(inbox'[d]) > Len(inbox[d])
  PROVE  NamesShared(inbox'[d][Len(inbox'[d])])
<1> DEFINE msg == Head(inbox[n])
<1>1. /\ inbox[n] # <<>> /\ inbox \in [Node -> Seq(SoundMessages)]
      /\ Take(n) \in [Node -> Seq(SoundMessages)] /\ msg \in SoundMessages
  BY TakeType, Zenon DEF ProcessProbe, IndInv
<1>2. inbox' # Take(n)
  BY <1>1, TakeShort, Zenon
<1>3. /\ addr[n].state = "RESERVED" /\ Conflicts(n, msg.start, msg.count)
      /\ inbox' = Unicast(Take(n), n, msg.from, Defend(n, msg))
      /\ inbox[n] # <<>>
  BY <1>2, Zenon DEF ProcessProbe
<1>4. inbox'[d] = Append(Take(n)[d], Defend(n, msg)) \/ inbox'[d] = Take(n)[d]
  BY <1>1, <1>3, Zenon DEF Unicast
<1>5. inbox'[d] = Append(Take(n)[d], Defend(n, msg))
  BY <1>1, <1>4, TakeShort, Zenon
<1>6. Take(n)[d] \in Seq(SoundMessages)
  BY <1>1
<1>7. inbox'[d][Len(inbox'[d])] = Defend(n, msg)
  BY <1>5, <1>6
<1>8. addr[n].base \in Nat /\ addr[n].range \in Nat \ {0}
  <2>1. addr[n].state # "DISABLED"
    BY <1>3
  <2> QED BY <2>1, RangeHeld, Zenon
<1>9. msg.start \in Nat /\ msg.count \in Nat \ {0}
  BY <1>1 DEF SoundMessages, SoundMessage, Message
<1>10. NamesOverlap(addr[n].base, addr[n].range, msg.start, msg.count)
  BY <1>3, <1>8, <1>9, OverlapNamed, Zenon DEF Conflicts
<1> DEFINE s == ConflictStart(addr[n].base, addr[n].range, msg.start, msg.count)
           c == ConflictCount(addr[n].base, addr[n].range, msg.start, msg.count)
<1>11. /\ s \in Nat /\ c \in Nat \ {0}
       /\ Range(s, c) = Range(addr[n].base, addr[n].range) \cap Range(msg.start, msg.count)
  BY <1>10, Zenon DEF NamesOverlap
<1>12. Defend(n, msg) = [type |-> "DEFEND", from |-> n, start |-> msg.start,
                         count |-> msg.count, cstart |-> s, ccount |-> c]
  BY DEF Defend
<1> HIDE DEF s, c, msg
<1>13. Range(s, c) # {}
  <2>1. s \in Range(s, c)
    BY <1>11 DEF Range
  <2> QED BY <2>1
<1>14. PICK m : m = Defend(n, msg)
  BY Zenon
<1>15. m.from = n /\ m.start = msg.start /\ m.count = msg.count /\ m.cstart = s /\ m.ccount = c
  BY <1>12, <1>14
<1>16. NamesShared(m)
  BY <1>11, <1>13, <1>15 DEF NamesShared
<1> QED BY <1>7, <1>14, <1>16, Zenon

\* A Defend names exactly the addresses its sender holds and the probe asked for,
\* for any nodes, ranges and pool, and whatever has been lost or restarted.
THEOREM DefendNamesOverlapCorrect == MaapSpec => DefendNamesOverlap
<1> DEFINE Exact == \A d \in Node :
             LET msg == inbox'[d][Len(inbox'[d])]
             IN Len(inbox'[d]) > Len(inbox[d]) /\ msg.type = "DEFEND" => NamesShared(msg)
<1>1. ASSUME IndInv, MaapNext PROVE Exact
  <2> SUFFICES ASSUME NEW d \in Node, Len(inbox'[d]) > Len(inbox[d]),
                      inbox'[d][Len(inbox'[d])].type = "DEFEND"
               PROVE  NamesShared(inbox'[d][Len(inbox'[d])])
    OBVIOUS
  <2>1. inbox' # inbox
    <3>1. Len(inbox[d]) \in Nat
      BY <1>1 DEF IndInv
    <3> QED BY <3>1
  <2>2. PICK n \in Node : Probe(n) \/ Announce(n) \/ ProcessProbe(n) \/ ProcessClaim(n) \/ Lose(n)
    BY <1>1, <2>1, Zenon DEF MaapNext, Tick, LinkUp, LinkDown, Rerequest, Relinquish
  <2>3. CASE Probe(n)
    BY <1>1, <2>3, ClaimArrives, Zenon DEF Probe
  <2>4. CASE Announce(n)
    BY <1>1, <2>4, ClaimArrives, Zenon DEF Announce
  <2>5. CASE ProcessProbe(n)
    BY <1>1, <2>5, DefendArrives, Zenon
  <2>6. CASE ProcessClaim(n) \/ Lose(n)
    <3>1. inbox[n] # <<>> /\ inbox' = Take(n)
      BY <2>6, Zenon DEF ProcessClaim, Lose
    <3> QED BY <1>1, <3>1, TakeShort, Zenon
  <2> QED BY <2>2, <2>3, <2>4, <2>5, <2>6
<1>2. IndInv /\ [MaapNext]_maapVars => [Exact]_maapVars
  BY <1>1, Zenon
<1> QED BY <1>2, IndInvHolds, PTL DEF MaapSpec, DefendNamesOverlap

=============================================================================
