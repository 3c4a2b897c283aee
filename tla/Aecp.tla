-------------------------------- MODULE Aecp --------------------------------
(***************************************************************************)
(* The entity's AECP server: process_avb_1722_1_aecp_packet with the       *)
(* acquisition of the entity, the firmware upgrade, the descriptors and    *)
(* the reboot, and the periodic function.  All of it runs in one task, one *)
(* packet or one timeout at a time.                                        *)
(***************************************************************************)
EXTENDS AecpAcquire, AecpUpgrade, AecpDescriptors

CONSTANT MaxCommands   \* bound on the packets received

ASSUME CommandAssumption == MaxCommands \in Nat

VARIABLE commands

vars == <<acquireVars, upgradeVars, descriptorVars, commands>>

Init ==
  /\ AcquireInit
  /\ UpgradeInit
  /\ DescriptorInit
  /\ commands = 0

Packet ==
  /\ ~access.active
  /\ commands < MaxCommands
  /\ commands' = commands + 1

AcquireCommand ==
  /\ Packet
  /\ \E c \in Controllers :
       \/ \E persistent \in BOOLEAN : Acquire(c, persistent)
       \/ Release(c)
  /\ UNCHANGED <<upgradeVars, descriptorVars>>

AvailableResponse ==
  /\ Packet
  /\ \E c \in Controllers, persistent \in BOOLEAN : Available(c, persistent)
  /\ UNCHANGED <<upgradeVars, descriptorVars>>

ReadDescriptorCommand ==
  /\ Packet
  /\ \E type \in Types, id \in Ids : ReadDescriptor(type, id)
  /\ UNCHANGED <<acquireVars, upgradeVars>>

(* The packets whose handlers leave all of this state alone: LOCK_ENTITY,   *)
(* ENTITY_AVAILABLE, the get and set commands that only talk to the stream  *)
(* manager and the application, the unknown commands, an ACQUIRE_ENTITY of  *)
(* a descriptor other than the entity, an operation on another descriptor,  *)
(* a response nobody waits for, a packet for another entity.                *)
OtherPacket == Packet /\ UNCHANGED <<acquireVars, upgradeVars, descriptorVars>>

OperationCommand ==
  /\ Packet
  /\ UploadFails \/ Upload \/ Store \/ Abort
  /\ UNCHANGED <<acquireVars, descriptorVars>>

AddressAccessCommand ==
  /\ Packet
  /\ \/ RefuseTlv
     \/ \E address \in 0 .. MaxImage :
          \/ RefuseAddress(address)
          \/ \E length \in Lengths : AcceptWrite(address, length)
  /\ UNCHANGED <<acquireVars, descriptorVars>>

(* REBOOT, and START_OPERATION with STORE_AND_REBOOT: only the flash        *)
(* survives, and a controller has to start over.                            *)
Reboot ==
  /\ Packet
  /\ status' = "NOT_ACQUIRED" /\ owner' = NoController
  /\ pending' = NoPending
  /\ available' = IDLE /\ timer' = FALSE
  /\ told' = NobodyTold /\ released' = FALSE
  /\ copied' = 0 /\ buf' = NoBytes /\ flashAddr' = 0 /\ next' = 0
  /\ offset' = -1
  /\ clean' = FALSE
  /\ index' = FirstIds
  /\ UNCHANGED <<flash, access, misaligned, device>>

AccessStep == AddressAccess /\ UNCHANGED <<acquireVars, descriptorVars, commands>>

AemPeriodic ==
  /\ ~access.active
  /\ Periodic
  /\ UNCHANGED <<upgradeVars, descriptorVars, commands>>

Next ==
  \/ AcquireCommand \/ AvailableResponse \/ ReadDescriptorCommand
  \/ OtherPacket \/ OperationCommand \/ AddressAccessCommand \/ Reboot
  \/ AccessStep \/ AemPeriodic

Spec == Init /\ [][Next]_vars

FairSpec == Spec /\ WF_vars(AccessStep) /\ WF_vars(AemPeriodic)

-----------------------------------------------------------------------------
(* The state has the types of the C declarations.                           *)
TypeOK ==
  /\ status \in Statuses
  /\ owner \in Controllers \cup {NoController}
  /\ pending \in [guid : Controllers \cup {NoController}, persistent : BOOLEAN]
  /\ available \in 0 .. IDLE
  /\ timer \in BOOLEAN /\ released \in BOOLEAN
  /\ told \in [Controllers -> Answers]
  /\ copied \in 0 .. Page
  /\ flashAddr \in Nat /\ next \in Nat /\ offset \in Nat \cup {-1}
  /\ clean \in BOOLEAN /\ misaligned \in BOOLEAN
  /\ commands \in 0 .. MaxCommands

(* While a request is pending the timer that ends it runs, in one of its    *)
(* six states, and the request is another controller's than the holder's:   *)
(* no order of releases, answers, timeouts and reboots leaves the entity    *)
(* pending for ever (process_aem_cmd_acquire, avb_1722_1_aecp_aem_periodic).*)
PendingIsTimed ==
  status = "PENDING" => /\ timer /\ available \in IN_A .. IN_F
                        /\ owner # NoController
                        /\ pending.guid \notin {owner, NoController}

(* A controller that is told SUCCESS is the owner at that moment, but for   *)
(* the answers given while the timer of a pending request runs: the empty   *)
(* case of the switch at avb_1722_1_aecp.c:467, and the                     *)
(* CONTROLLER_AVAILABLE of the pending controller itself at :810.           *)
GrantMeansOwner ==
  [][\A c \in Controllers :
       told[c] # "SUCCESS" /\ told'[c] = "SUCCESS" =>
         owner' = c \/ (status = "PENDING" /\ owner' = owner /\ timer')]_vars

(* A persistent holder keeps the entity until it releases it itself (then   *)
(* it alone is answered) or the entity reboots.  The exception the code     *)
(* has: a holder that releases while a request is pending leaves the timer  *)
(* of that request running, which takes the entity from whoever holds it    *)
(* when it ends (avb_1722_1_aecp.c:423, :1016).                             *)
PersistentKept ==
  [][status = "PERSISTENT" /\ ~(timer /\ available # IDLE) =>
       \/ status' = "PERSISTENT" /\ owner' = owner
       \/ /\ status' = "NOT_ACQUIRED"
          /\ told' \in {NobodyTold, [told EXCEPT ![owner] = "NONE"]}]_vars

(* A controller that was told IN_PROGRESS gets a final answer, unless the   *)
(* holder released the entity meanwhile.                                    *)
ContenderAnswered ==
  \A c \in Controllers :
    (told[c] = "IN_PROGRESS" /\ ~released) ~> (told[c] # "IN_PROGRESS" \/ released)

(* The flash holds the bytes of the image at their addresses, or the bytes  *)
(* behind the end of a packet, but never a byte of another address: not     *)
(* after a failed page write, a repeated packet, an abort or an upload that *)
(* is started again.  This needs that no write follows one that left its    *)
(* page half full.                                                          *)
ImageInOrder ==
  ~misaligned => \A a \in DOMAIN flash : flash[a] \in {a, Junk}

(* After a fresh UPLOAD, while every page write succeeds, every byte that   *)
(* was acknowledged is in flash or in the page buffer, at its place.  This  *)
(* too needs that no write follows one that left its page half full.        *)
AcceptedIsHeld ==
  clean /\ ~misaligned /\ ~access.active =>
    \A a \in 0 .. (next - 1) :
      \/ a \in DOMAIN flash /\ flash[a] = a
      \/ (a - offset) \in 0 .. (copied - 1) /\ buf[a - offset] = a

=============================================================================
