-------------------------------- MODULE Dfu --------------------------------
(***************************************************************************)
(* The bootloader (bootloader/bootloader.cpp) with its DFU state machine   *)
(* (dfu.cpp) and its flash driver (flash.h).  A host may send any class    *)
(* request with any wLength, wValue and data, in any order; the power may  *)
(* go at any instant.  The bootloader polls USB, so a request is served in *)
(* one step.  Addresses are counted in blocks of transfer_size bytes.      *)
(***************************************************************************)
EXTENDS Integers

CONSTANTS
  Blocks,        \* blocks on the chip (0x40000 / 0x100)
  Boot,          \* blocks of the bootloader (0x4000 / 0x100)
  Border,        \* the first block of the large sectors (0x10000 / 0x100)
  SmallSector,   \* blocks in a small sector (4096 / 0x100)
  LargeSector,   \* blocks in a large sector (32768 / 0x100)
  SectorOffset,  \* 14 in sector_number()
  ValidBlocks,   \* blocks that valid_address() accepts (0x80000 / 0x100)
  Values,        \* the wValues hosts try (0 .. 0xFFFF)
  DetachTimeout, \* detach_timeout_ms
  Data           \* what a block of an image may hold

ASSUME SectorAssumption ==
  /\ SmallSector \in Nat \ {0} /\ LargeSector \in Nat \ {0}
  /\ Boot \in Nat /\ Border \in Nat /\ SectorOffset \in Int
  /\ Boot <= Border /\ Boot % SmallSector = 0
  /\ Border \div SmallSector <= SectorOffset + (Border \div LargeSector)

ASSUME SizeAssumption ==
  /\ Blocks \in Nat /\ Values \subseteq Nat /\ DetachTimeout \in Nat
  /\ ValidBlocks \in Nat

VARIABLES
  running,          \* the application or the bootloader's run_bootloader()
  bootloader_ctrl,  \* it holds DFU_MODE
  use_timeout,
  state, status,    \* of the DFU object
  virginity,        \* no request has set the state yet
  flash,            \* the content of every block
  acked,            \* the latest request was served, not stalled
  touched           \* history: a write has begun since the bootloader started

mode == <<running, bootloader_ctrl, use_timeout>>
vars == <<running, bootloader_ctrl, use_timeout, state, status, virginity, flash, acked, touched>>

Block   == 0 .. Blocks - 1
Content == Data \cup {"factory", "erased", "mixed"}

(* wLength: none, GETSTATE's, GETSTATUS's and DNLOAD's. *)
Lengths == {"0", "1", "6", "transfer_size"}

States  == {"APPDETACH", "DFUIDLE", "DFUDNLOAD_SYNC", "DFUDNLOAD_IDLE", "DFUMANIFEST_SYNC", "DFUERROR"}
Status  == {"OK", "ERRWRITE", "ERRPROG", "ERRADDRESS", "ERRUNKNOWN", "ERRSTALLEDPKT"}

Init ==
  /\ running = "app" /\ bootloader_ctrl = FALSE /\ use_timeout = FALSE
  /\ state = "DFUIDLE" /\ status = "OK" /\ virginity = TRUE
  /\ flash = [b \in Block |-> "factory"]
  /\ acked = TRUE /\ touched = FALSE

-----------------------------------------------------------------------------
(* flash.h                                                                 *)

SectorSize(b) == IF b < Border THEN SmallSector ELSE LargeSector

SectorNumber(b) ==
  IF b < Border THEN b \div SmallSector ELSE SectorOffset + (b \div LargeSector)

(* Mutant: every sector is taken for a large one. *)
AtSectorBoundaryLarge(b) == b % LargeSector = 0

AtSectorBoundary(b) == b % SectorSize(b) = 0

(* Every block of b's sector gets content c. *)
FillSector(f, b, c) ==
  [x \in Block |-> IF SectorNumber(x) = SectorNumber(b) THEN c ELSE f[x]]

(* Programming only clears bits: anything but an erased block is spoilt. *)
Program(f, b, d) == [f EXCEPT ![b] = IF @ = "erased" THEN d ELSE "mixed"]

(* Flash::write(): the sector is erased when its first block is written. *)
Written(f, b, d) ==
  Program(IF AtSectorBoundary(b) THEN FillSector(f, b, "erased") ELSE f, b, d)

(* What an interrupted Flash::write() can leave: the sector between old    *)
(* and erased, or erased with the block half programmed.                   *)
Torn(f, b) ==
  {[f EXCEPT ![b] = "mixed"]} \cup
    (IF AtSectorBoundary(b)
     THEN {FillSector(f, b, "mixed"), FillSector(f, b, "erased"),
           [FillSector(f, b, "erased") EXCEPT ![b] = "mixed"]}
     ELSE {})

-----------------------------------------------------------------------------
(* dfu.cpp                                                                 *)

(* Mutant: every block may be written. *)
write_permittedAny(b) == b >= 0

write_permitted(b) == b >= Boot

set_state(s) == state' = s /\ virginity' = FALSE

Accept(s) ==
  /\ set_state(s)
  /\ acked' = TRUE
  /\ UNCHANGED status

error(e) ==
  /\ set_state("DFUERROR")
  /\ status' = e
  /\ acked' = FALSE

(* A request whose checks fail leaves the flash alone. *)
Refuse(e) == error(e) /\ UNCHANGED <<flash, touched>>

Answer(s) == Accept(s) /\ UNCHANGED <<flash, touched>>

request_detach(len, value) ==
  \/ len = "0" /\ value <= DetachTimeout /\ Answer("APPDETACH")
  \/ ~(len = "0" /\ value <= DetachTimeout) /\ Refuse("ERRUNKNOWN")

Loadable == state \in {"DFUIDLE", "DFUDNLOAD_IDLE"}

(* The checks that a block passes before it is written: the last is the    *)
(* ROM's, which prepares no sector that the chip does not have.            *)
DnloadWrites(len, b) ==
  len = "transfer_size" /\ Loadable /\ write_permitted(b) /\ b \in Block

request_dnload(len, b, d) ==
  \/ len = "0" /\ state = "DFUDNLOAD_IDLE" /\ Answer("DFUMANIFEST_SYNC")
  \/ len = "0" /\ state # "DFUDNLOAD_IDLE" /\ Refuse("ERRSTALLEDPKT")
  \/ len = "transfer_size" /\ ~Loadable /\ Refuse("ERRSTALLEDPKT")
  \/ len = "transfer_size" /\ Loadable /\ ~write_permitted(b) /\ Refuse("ERRWRITE")
  \/ len = "transfer_size" /\ Loadable /\ write_permitted(b) /\ b \notin Block /\ Refuse("ERRPROG")
  \/ /\ DnloadWrites(len, b)
     /\ flash' = Written(flash, b, d)
     /\ touched' = TRUE
     /\ Accept("DFUDNLOAD_SYNC")
  \/ len \notin {"0", "transfer_size"} /\ Refuse("ERRUNKNOWN")

(* The state never is DFUUPLOAD_IDLE: an upload sets it to DFUIDLE. *)
request_upload(len, b) ==
  \/ len # "transfer_size" /\ Refuse("ERRUNKNOWN")
  \/ len = "transfer_size" /\ state # "DFUIDLE" /\ Refuse("ERRSTALLEDPKT")
  \/ len = "transfer_size" /\ state = "DFUIDLE" /\ b >= ValidBlocks /\ Refuse("ERRADDRESS")
  \/ len = "transfer_size" /\ state = "DFUIDLE" /\ b < ValidBlocks /\ Answer("DFUIDLE")

request_getstatus(len, value) ==
  /\ acked' = (value = 0 /\ len = "6")
  /\ \/ acked' /\ state = "DFUDNLOAD_SYNC" /\ set_state("DFUDNLOAD_IDLE")
     \/ acked' /\ state = "DFUMANIFEST_SYNC" /\ set_state("DFUIDLE")
     \/ ~(acked' /\ state \in {"DFUDNLOAD_SYNC", "DFUMANIFEST_SYNC"}) /\ UNCHANGED <<state, virginity>>
  /\ UNCHANGED <<status, flash, touched>>

request_clrstatus(len, value) ==
  \/ /\ value = 0 /\ len = "0" /\ state = "DFUERROR"
     /\ set_state("DFUIDLE") /\ status' = "OK" /\ acked' = TRUE
     /\ UNCHANGED <<flash, touched>>
  \/ ~(value = 0 /\ len = "0" /\ state = "DFUERROR") /\ Refuse("ERRUNKNOWN")

request_getstate(len, value) ==
  \/ value = 0 /\ len = "1" /\ acked' = TRUE /\ UNCHANGED <<state, status, virginity, flash, touched>>
  \/ ~(value = 0 /\ len = "1") /\ Refuse("ERRUNKNOWN")

(* Mutant: an error can be aborted. *)
request_abortError(len, value) ==
  \/ value = 0 /\ len = "0" /\ Answer("DFUIDLE")
  \/ ~(value = 0 /\ len = "0") /\ Refuse("ERRUNKNOWN")

request_abort(len, value) ==
  \/ value = 0 /\ len = "0" /\ state # "DFUERROR" /\ Answer("DFUIDLE")
  \/ ~(value = 0 /\ len = "0" /\ state # "DFUERROR") /\ Refuse("ERRUNKNOWN")

(* DFU::request_handler() *)
request_handler(len, value, d) ==
  \/ request_detach(len, value)
  \/ request_dnload(len, value, d)
  \/ request_upload(len, value)
  \/ request_getstatus(len, value)
  \/ request_clrstatus(len, value)
  \/ request_getstate(len, value)
  \/ request_abort(len, value)

-----------------------------------------------------------------------------
(* bootloader.cpp                                                          *)

in_dfu_mode == state # "APPDETACH"

Listening == running = "bootloader" /\ in_dfu_mode

(* USBHwISR() in the loop of run_bootloader() *)
Request ==
  /\ Listening
  /\ \E len \in Lengths, value \in Values, d \in Data : request_handler(len, value, d)
  /\ UNCHANGED mode

(* Mutant: the time limit is not lifted by activity. *)
TimedOutAlways == use_timeout

TimedOut == use_timeout /\ virginity

(* The loop ends: main() forgets bootloader_ctrl and starts the            *)
(* application.                                                            *)
Leave ==
  /\ running = "bootloader"
  /\ ~in_dfu_mode \/ TimedOut
  /\ running' = "app"
  /\ bootloader_ctrl' = FALSE
  /\ UNCHANGED <<use_timeout, state, status, virginity, flash, acked, touched>>

(* main() after a reset, with ctrl left in bootloader_ctrl and the entry   *)
(* pin as it is; the DFU object is constructed anew.                       *)
Start(ctrl, pin) ==
  /\ running' = IF ctrl \/ pin THEN "bootloader" ELSE "app"
  /\ bootloader_ctrl' = ctrl
  /\ use_timeout' = (pin /\ ~ctrl)
  /\ state' = "DFUIDLE" /\ status' = "OK" /\ virginity' = TRUE
  /\ touched' = FALSE
  /\ UNCHANGED acked

(* UBERTOOTH_FLASH: the application sets bootloader_ctrl and resets. *)
EnterSoft ==
  /\ running = "app"
  /\ \E pin \in BOOLEAN : Start(TRUE, pin)
  /\ UNCHANGED flash

(* The device is plugged in anew. *)
PowerCycle ==
  /\ \E pin \in BOOLEAN : Start(FALSE, pin)
  /\ UNCHANGED flash

(* The power goes while the DNLOAD of block b is being written. *)
PowerCut(b) ==
  /\ Listening
  /\ DnloadWrites("transfer_size", b)
  /\ flash' \in Torn(flash, b)
  /\ \E pin \in BOOLEAN : Start(FALSE, pin)

Next == Request \/ Leave \/ EnterSoft \/ PowerCycle \/ \E b \in Values : PowerCut(b)

Spec == Init /\ [][Next]_vars

-----------------------------------------------------------------------------
(* What the bootloader guarantees to any host.                             *)

(* Every variable has its type; until a DETACH the status byte tells of an *)
(* error exactly when the state does.                                      *)
TypeOK ==
  /\ running \in {"app", "bootloader"}
  /\ bootloader_ctrl \in BOOLEAN /\ use_timeout \in BOOLEAN
  /\ state \in States /\ status \in Status
  /\ (in_dfu_mode => (status = "OK" <=> state # "DFUERROR"))
  /\ virginity \in BOOLEAN /\ acked \in BOOLEAN /\ touched \in BOOLEAN
  /\ flash \in [Block -> Content]

(* No sequence of requests and power cuts changes a block of the           *)
(* bootloader: write_permitted() looks at the block's address alone, yet   *)
(* erasing a whole sector, of either size, never reaches below it.         *)
BootloaderIntact == \A b \in Block : b < Boot => flash[b] = "factory"

(* The time limit of pin entry never starts the application over a flash   *)
(* that this session has begun to change, not even when the requests       *)
(* failed.                                                                 *)
TimeoutSparesSession == touched => ~TimedOut

(* The inductive invariant: a write that has begun has set the state. *)
WriteIsActivity == touched => ~virginity

DfuInv == TypeOK /\ BootloaderIntact /\ WriteIsActivity
=============================================================================
