---------------------------- MODULE AecpUpgrade ----------------------------
(***************************************************************************)
(* The firmware upgrade of avb_1722_1_aecp.c and avb_1722_1_aecp_efu.xc: a *)
(* controller starts an UPLOAD operation and sends the image in            *)
(* ADDRESS_ACCESS writes of any length, which the entity cuts into flash   *)
(* pages, keeping the rest of a packet in a page buffer.                   *)
(*                                                                         *)
(* The byte of the image at address a is the number a; Junk is what lies   *)
(* behind the data of a packet.  The loop of                               *)
(* process_avb_1722_1_aecp_address_access_cmd is one step per iteration,   *)
(* during which nothing else happens (access.active).                      *)
(***************************************************************************)
EXTENDS Integers

CONSTANTS Page,       \* FLASH_PAGE_SIZE
          Lengths,    \* the lengths of the writes a controller sends
          MaxImage    \* bound: the image is no longer than this

Junk == -1

ASSUME UpgradeAssumption ==
  /\ Page \in Nat \ {0}
  /\ Lengths \subseteq Nat
  /\ MaxImage \in Nat

VARIABLES
  copied,      \* aecp_aa_bytes_copied
  buf,         \* aecp_flash_page_buf, the first bytes of it
  flashAddr,   \* aecp_aa_flash_write_addr
  next,        \* aecp_aa_next_write_address
  offset,      \* write_offset of avb_1722_1_aecp_efu.xc, -1 before an upload
  flash,       \* the upgrade image in flash, by address
  access,      \* the ADDRESS_ACCESS command in the works
  clean,       \* every page since a fresh UPLOAD was written
  misaligned   \* a write was accepted behind one that left its page half full

counters == <<copied, buf, flashAddr, next>>
upgradeVars == <<counters, offset, flash, access, clean, misaligned>>

NoBytes == [a \in {} |-> Junk]
Idle == [active |-> FALSE, length |-> 0, index |-> 0, left |-> 0]

UpgradeInit ==
  /\ copied = 0 /\ buf = NoBytes /\ flashAddr = 0 /\ next = 0
  /\ offset = -1
  /\ flash = NoBytes
  /\ access = Idle
  /\ clean = FALSE
  /\ misaligned = FALSE

-----------------------------------------------------------------------------
(* START_OPERATION and ABORT_OPERATION on the memory object.                *)

(* UPLOAD or ERASE: no factory image or a failing fl_startImage leaves      *)
(* everything as it is.                                                     *)
UploadFails == ~access.active /\ UNCHANGED upgradeVars

Upload ==
  /\ ~access.active
  /\ offset' = 0
  /\ flash' = NoBytes
  /\ clean' = (copied = 0 /\ flashAddr = 0 /\ next = 0)
  /\ misaligned' = FALSE
  /\ UNCHANGED <<counters, access>>

(* STORE answers SUCCESS and a completed OPERATION_STATUS, nothing else.    *)
Store == ~access.active /\ UNCHANGED upgradeVars

Abort ==
  /\ ~access.active
  /\ copied' = 0 /\ buf' = NoBytes /\ flashAddr' = 0 /\ next' = 0
  /\ clean' = FALSE
  /\ UNCHANGED <<offset, flash, access, misaligned>>

-----------------------------------------------------------------------------
(* ADDRESS_ACCESS.                                                          *)

(* TLV_INVALID, and ADDRESS_INVALID for an address other than the next one. *)
RefuseTlv == ~access.active /\ UNCHANGED upgradeVars
RefuseAddress(address) ==
  ~access.active /\ address # next /\ UNCHANGED upgradeVars

AcceptWrite(address, length) ==
  /\ ~access.active
  /\ address = next
  /\ next + length <= MaxImage
  /\ access' = [active |-> TRUE, length |-> length, index |-> 0,
                left |-> length + copied]
  /\ misaligned' = (misaligned \/ next # flashAddr + copied)
  /\ UNCHANGED <<counters, offset, flash, clean>>

Byte(i) == IF i < access.length THEN next + i ELSE Junk

(* avb_write_upgrade_image_page: the page goes to flash when its address    *)
(* is the one the flash library will write next, and the write succeeds.    *)
PageWritten(data) ==
  /\ flashAddr = offset
  /\ flash' = [a \in 0 .. (offset + Page - 1) |->
                 IF a < offset THEN flash[a] ELSE data[a - offset]]
  /\ offset' = offset + Page
  /\ UNCHANGED clean

PageRefused ==
  /\ clean' = FALSE
  /\ UNCHANGED <<flash, offset>>

WritePage(data) ==
  /\ PageWritten(data) \/ PageRefused
  /\ flashAddr' = flashAddr + Page

(* do ... while (bytes_available > 0): a packet with no data goes round once *)
Looping == access.active /\ (access.left > 0 \/ (access.index = 0 /\ copied = 0))

(* The first page of a packet, or a whole page inside it.                   *)
PageFromPacket ==
  /\ Looping
  /\ copied = 0
  /\ access.index = 0 \/ access.index + Page <= access.length
  /\ WritePage([i \in 0 .. (Page - 1) |-> Byte(access.index + i)])
  /\ access' = [access EXCEPT !.index = @ + Page, !.left = @ - Page]
  /\ UNCHANGED <<copied, buf, next, misaligned>>

(* The last bytes of a packet stay in the page buffer.                      *)
KeepRest ==
  /\ Looping
  /\ copied = 0
  /\ access.index # 0 /\ access.index + Page > access.length
  /\ buf' = [i \in 0 .. (access.left - 1) |-> Byte(access.index + i)]
  /\ copied' = access.left
  /\ access' = [access EXCEPT !.index = 0, !.left = 0]
  /\ UNCHANGED <<flashAddr, next, offset, flash, clean, misaligned>>

PageFromBuffer ==
  /\ Looping
  /\ copied = Page
  /\ WritePage(buf)
  /\ copied' = 0 /\ buf' = NoBytes
  /\ access' = [access EXCEPT !.left = @ - Page]
  /\ UNCHANGED <<next, misaligned>>

(* Mutant: the head of the packet is copied from a shifted place.           *)
FillBufferShifted ==
  /\ Looping
  /\ copied \notin {0, Page}
  /\ buf' = [i \in 0 .. (Page - 1) |->
               IF i < copied THEN buf[i] ELSE Byte(access.index + i)]
  /\ copied' = Page
  /\ access' = [access EXCEPT !.index = @ + (Page - copied)]
  /\ UNCHANGED <<flashAddr, next, offset, flash, clean, misaligned>>

(* Mutant: the packet is taken to have lost a whole page.                   *)
FillBufferSkips ==
  /\ Looping
  /\ copied \notin {0, Page}
  /\ buf' = [i \in 0 .. (Page - 1) |->
               IF i < copied THEN buf[i] ELSE Byte(access.index + i - copied)]
  /\ copied' = Page
  /\ access' = [access EXCEPT !.index = @ + Page]
  /\ UNCHANGED <<flashAddr, next, offset, flash, clean, misaligned>>

(* The head of a packet completes the page in the buffer.                   *)
FillBuffer ==
  /\ Looping
  /\ copied \notin {0, Page}
  /\ buf' = [i \in 0 .. (Page - 1) |->
               IF i < copied THEN buf[i] ELSE Byte(access.index + i - copied)]
  /\ copied' = Page
  /\ access' = [access EXCEPT !.index = @ + (Page - copied)]
  /\ UNCHANGED <<flashAddr, next, offset, flash, clean, misaligned>>

(* The loop ends, the address moves on and the answer is sent.              *)
AccessDone ==
  /\ access.active
  /\ ~Looping
  /\ next' = next + access.length
  /\ access' = Idle
  /\ UNCHANGED <<copied, buf, flashAddr, offset, flash, clean, misaligned>>

AddressAccess ==
  PageFromPacket \/ KeepRest \/ PageFromBuffer \/ FillBuffer \/ AccessDone

=============================================================================
