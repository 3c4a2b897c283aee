---------------------------- MODULE AecpAcquire ----------------------------
(***************************************************************************)
(* The ACQUIRE_ENTITY state machine of avb_1722_1_aecp.c.  A controller    *)
(* that asks for an entity another one holds is put on hold: the entity    *)
(* asks the holder whether it is still there (CONTROLLER_AVAILABLE) and    *)
(* runs a timer through the states IN_A .. IN_F; at the end of IN_F the    *)
(* newcomer takes over, unless an answer has come back before.             *)
(*                                                                         *)
(* The module holds the state and the handlers; Aecp composes them with    *)
(* the firmware upgrade and the reboot.  Packets of controllers are inputs *)
(* that may arrive in any order, late or never.                            *)
(***************************************************************************)
EXTENDS Naturals

CONSTANTS Controllers,   \* the controllers on the network, by GUID
          NoController   \* the all-zero GUID

ASSUME ControllerAssumption == NoController \notin Controllers

VARIABLES
  status,      \* entity_acquired_status
  owner,       \* acquired_controller_guid
  pending,     \* pending_controller_guid and pending_persistent
  available,   \* aecp_aem_controller_available_state: 0 .. 5 are IN_A .. IN_F
  timer,       \* whether aecp_aem_controller_available_timer runs
  told,        \* what each controller was last told about its request
  released     \* the holder released the entity while a request was pending

acquireVars == <<status, owner, pending, available, timer, told, released>>

Statuses == {"NOT_ACQUIRED", "ACQUIRED", "PERSISTENT", "PENDING"}
Answers == {"NONE", "SUCCESS", "IN_PROGRESS", "ENTITY_ACQUIRED", "BAD_ARGUMENTS"}
IN_A == 0
IN_F == 5
IDLE == 6

Acquired(persistent) == IF persistent THEN "PERSISTENT" ELSE "ACQUIRED"

Tell(c, answer) == told' = [told EXCEPT ![c] = answer]

NoPending == [guid |-> NoController, persistent |-> FALSE]
NobodyTold == [c \in Controllers |-> "NONE"]

AcquireInit ==
  /\ status = "NOT_ACQUIRED"
  /\ owner = NoController
  /\ pending = NoPending
  /\ available = IDLE
  /\ timer = FALSE
  /\ told = NobodyTold
  /\ released = FALSE

-----------------------------------------------------------------------------
(* ACQUIRE_ENTITY without the RELEASE flag, one action per branch of the    *)
(* switch on the status.                                                    *)

AcquireFree(c, persistent) ==
  /\ status = "NOT_ACQUIRED"
  /\ status' = Acquired(persistent)
  /\ owner' = c
  /\ Tell(c, "SUCCESS")
  /\ UNCHANGED <<pending, available, timer, released>>

AcquireWhilePending(c) ==
  /\ status = "PENDING"
  /\ Tell(c, "SUCCESS")
  /\ UNCHANGED <<status, owner, pending, available, timer, released>>

AcquireOwn(c) ==
  /\ status \in {"ACQUIRED", "PERSISTENT"}
  /\ c = owner
  /\ Tell(c, "SUCCESS")
  /\ UNCHANGED <<status, owner, pending, available, timer, released>>

(* Mutant: a persistent holder is asked like any other.                     *)
ContendAnyone(c, persistent) ==
  /\ status \in {"ACQUIRED", "PERSISTENT"}
  /\ c # owner
  /\ pending' = [guid |-> c, persistent |-> persistent]
  /\ timer' = TRUE
  /\ available' = IN_A
  /\ status' = "PENDING"
  /\ Tell(c, "IN_PROGRESS")
  /\ UNCHANGED <<owner, released>>

Contend(c, persistent) ==
  /\ status = "ACQUIRED"
  /\ c # owner
  /\ pending' = [guid |-> c, persistent |-> persistent]
  /\ timer' = TRUE
  /\ available' = IN_A
  /\ status' = "PENDING"
  /\ Tell(c, "IN_PROGRESS")
  /\ UNCHANGED <<owner, released>>

AcquirePersistent(c) ==
  /\ status = "PERSISTENT"
  /\ c # owner
  /\ Tell(c, "ENTITY_ACQUIRED")
  /\ UNCHANGED <<status, owner, pending, available, timer, released>>

Acquire(c, persistent) ==
  \/ AcquireFree(c, persistent)
  \/ AcquireWhilePending(c)
  \/ AcquireOwn(c)
  \/ Contend(c, persistent)
  \/ AcquirePersistent(c)

(* ACQUIRE_ENTITY with the RELEASE flag.                                    *)
Release(c) ==
  \/ /\ status = "NOT_ACQUIRED"
     /\ Tell(c, "BAD_ARGUMENTS")
     /\ UNCHANGED <<status, owner, pending, available, timer, released>>
  \/ /\ status # "NOT_ACQUIRED"
     /\ c = owner
     /\ status' = "NOT_ACQUIRED"
     /\ owner' = NoController
     /\ Tell(c, "NONE")
     /\ released' = (released \/ status = "PENDING")
     /\ UNCHANGED <<pending, available, timer>>
  \/ /\ status # "NOT_ACQUIRED"
     /\ c # owner
     /\ Tell(c, "ENTITY_ACQUIRED")
     /\ UNCHANGED <<status, owner, pending, available, timer, released>>

(* Mutant: the contender is not told that the holder is there.              *)
AvailableSilent(c, persistent) ==
  \/ /\ status = "PENDING"
     /\ c = pending.guid
     /\ status' = "ACQUIRED"
     /\ available' = IDLE
     /\ Tell(c, "SUCCESS")
     /\ UNCHANGED <<owner, pending, timer, released>>
  \/ /\ status = "PENDING"
     /\ c # pending.guid
     /\ c = owner
     /\ status' = Acquired(persistent)
     /\ timer' = FALSE
     /\ UNCHANGED <<owner, pending, available, told, released>>

(* A CONTROLLER_AVAILABLE response whose target is c.  The flag is read     *)
(* from the packet at the place an ACQUIRE_ENTITY command has it.           *)
Available(c, persistent) ==
  \/ /\ status = "PENDING"
     /\ c = pending.guid
     /\ status' = "ACQUIRED"
     /\ available' = IDLE
     /\ Tell(c, "SUCCESS")
     /\ UNCHANGED <<owner, pending, timer, released>>
  \/ /\ status = "PENDING"
     /\ c # pending.guid
     /\ c = owner
     /\ status' = Acquired(persistent)
     /\ Tell(pending.guid, "ENTITY_ACQUIRED")
     /\ timer' = FALSE
     /\ UNCHANGED <<owner, pending, available, released>>

(* Mutant: the new controller is told, and not stored.                      *)
TakeoverForgotten ==
  /\ status' = Acquired(pending.persistent)
  /\ Tell(pending.guid, "SUCCESS")
  /\ available' = IDLE
  /\ timer' = FALSE
  /\ UNCHANGED <<owner, pending, released>>

(* avb_1722_1_aecp_aem_periodic when the timer has expired.                 *)
Takeover ==
  /\ status' = Acquired(pending.persistent)
  /\ owner' = pending.guid
  /\ Tell(pending.guid, "SUCCESS")
  /\ available' = IDLE
  /\ timer' = FALSE
  /\ UNCHANGED <<pending, released>>

Periodic ==
  /\ timer
  /\ \/ /\ available = IDLE
        /\ timer' = FALSE
        /\ UNCHANGED <<status, owner, pending, available, told, released>>
     \/ /\ available \in IN_A .. (IN_F - 1)
        /\ timer' = TRUE
        /\ available' = available + 1
        /\ Tell(pending.guid, "IN_PROGRESS")
        /\ UNCHANGED <<status, owner, pending, released>>
     \/ /\ available = IN_F
        /\ Takeover

=============================================================================
