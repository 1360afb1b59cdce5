------------------------------ MODULE DfuTool ------------------------------
(***************************************************************************)
(* ubertooth-dfu (host/ubertooth-tools/src/ubertooth-dfu.c) against the    *)
(* bootloader of module Dfu: download, upload and detach, started when the *)
(* device is in any state that another DFU host, an earlier run that was   *)
(* killed, or a power cut has left it in.  A control transfer is served,   *)
(* stalled, or fails on the bus, before or after the device has served it. *)
(***************************************************************************)
EXTENDS Dfu, Sequences

CONSTANTS
  Image,      \* the DFU file: the content of its blocks
  MaxLosses   \* how many transfers fail on the bus (bounds the model)

ASSUME ImageAssumption == Image \in Seq(Data) /\ MaxLosses \in Nat /\ "mixed" \notin Data

(* The sectors begin where the first large one does (0x10000 is a multiple *)
(* of both sizes): a session that begins at Boot erases all that it writes.*)
ASSUME BorderAssumption == Border % SmallSector = 0 /\ Border % LargeSector = 0

VARIABLES
  tool,      \* where the tool is; done and failed are main()'s two endings
  goal,      \* the operation
  block,     \* the block it has come to
  attached,  \* the device handle is still good
  losses,    \* transfers failed so far
  unsure     \* history: a GETSTATUS of this download was lost

dfuVars  == <<running, bootloader_ctrl, use_timeout, state, status, virginity, flash, acked, touched>>
toolVars == <<tool, goal, block, attached, losses, unsure>>
allVars  == <<dfuVars, toolVars>>

ToolInit ==
  /\ Init
  /\ tool = "off" /\ goal = "download" /\ block = Boot
  /\ attached = FALSE /\ losses = 0 /\ unsure = FALSE

(* How a control transfer ends.  A request is served: the device answers   *)
(* or stalls; or the bus fails with the request served or not.             *)
Served == Listening /\ attached /\ UNCHANGED mode
Answered == Served /\ acked' /\ UNCHANGED losses
Stalled  == Served /\ ~acked' /\ UNCHANGED losses
LostAnswer  == Served /\ losses < MaxLosses /\ losses' = losses + 1
LostRequest ==
  /\ \/ losses < MaxLosses /\ losses' = losses + 1
     \/ ~(Listening /\ attached) /\ UNCHANGED losses
  /\ UNCHANGED dfuVars
Lost(request) == (LostAnswer /\ request) \/ LostRequest

Goto(p) == tool' = p /\ UNCHANGED <<goal, block, attached, unsure>>

-----------------------------------------------------------------------------
(* main() finds the device in DFU mode and claims its interface. *)
StartTool ==
  /\ tool = "off"
  /\ Listening
  /\ goal' \in {"download", "upload", "detach"}
  /\ tool' = "getstate" /\ block' = Boot /\ attached' = TRUE /\ unsure' = FALSE
  /\ UNCHANGED <<dfuVars, losses>>

Entered == IF goal = "detach" THEN "recheck" ELSE "transfer"

(* Mutant: no case for an error left by an earlier session. *)
NextStepNoClear ==
  CASE state = "DFUIDLE" -> Entered
    [] state \in {"DFUDNLOAD_SYNC", "DFUDNLOAD_IDLE", "DFUMANIFEST_SYNC"} -> "abort"
    [] OTHER -> "getstate"

(* The switch in enter_dfu_mode() *)
NextStep ==
  CASE state = "DFUIDLE" -> Entered
    [] state \in {"DFUDNLOAD_SYNC", "DFUDNLOAD_IDLE", "DFUMANIFEST_SYNC"} -> "abort"
    [] state = "DFUERROR" -> "clear"
    [] OTHER -> "getstate"

(* enter_dfu_mode(): an error code is no state, and the loop goes on. *)
GetState ==
  /\ tool = "getstate"
  /\ \/ request_getstate("1", 0) /\ Answered /\ Goto(NextStep)
     \/ Lost(request_getstate("1", 0)) /\ Goto("getstate")

Abort ==
  /\ tool = "abort"
  /\ \/ request_abort("0", 0) /\ Answered /\ Goto("getstate")
     \/ request_abort("0", 0) /\ Stalled /\ Goto("failed")
     \/ Lost(request_abort("0", 0)) /\ Goto("failed")

(* dfu_clear_status(), whose result nobody looks at *)
ClearStatus ==
  /\ tool = "clear"
  /\ \/ request_clrstatus("0", 0) /\ (Answered \/ Stalled)
     \/ Lost(request_clrstatus("0", 0))
  /\ Goto("getstate")

Limit == IF goal = "download" THEN Boot + Len(Image) ELSE Blocks

(* The file is read, or the flash is. *)
Finish ==
  /\ tool = "transfer" /\ block >= Limit
  /\ Goto("done")
  /\ UNCHANGED <<dfuVars, losses>>

Dnload == request_dnload("transfer_size", block, Image[block - Boot + 1])

(* Mutant: a failed transfer is tried again. *)
DownloadRetry ==
  /\ tool = "transfer" /\ goal = "download" /\ block < Limit
  /\ \/ Dnload /\ (Answered \/ Stalled) /\ Goto("status")
     \/ Lost(Dnload) /\ Goto("getstate")

(* download(): a stalled DNLOAD is reported but does not end the loop. *)
Download ==
  /\ tool = "transfer" /\ goal = "download" /\ block < Limit
  /\ \/ Dnload /\ (Answered \/ Stalled) /\ Goto("status")
     \/ Lost(Dnload) /\ Goto("failed")

(* dfu_get_status(), whose result download() ignores *)
GetStatus ==
  /\ tool = "status"
  /\ \/ request_getstatus("6", 0) /\ Answered /\ UNCHANGED unsure
     \/ Lost(request_getstatus("6", 0)) /\ unsure' = TRUE
  /\ tool' = "transfer" /\ block' = block + 1
  /\ UNCHANGED <<goal, attached>>

(* upload(): a block that was not read ends it. *)
Upload ==
  /\ tool = "transfer" /\ goal = "upload" /\ block < Limit
  /\ \/ /\ request_upload("transfer_size", block) /\ Answered
        /\ tool' = tool /\ block' = block + 1
        /\ UNCHANGED <<goal, attached, unsure>>
     \/ request_upload("transfer_size", block) /\ Stalled /\ Goto("failed")
     \/ Lost(request_upload("transfer_size", block)) /\ Goto("failed")

(* detach(): the second dfu_get_state() *)
Recheck ==
  /\ tool = "recheck"
  /\ \/ /\ request_getstate("1", 0) /\ Answered
        /\ Goto(IF state = "DFUIDLE" THEN "detach" ELSE "failed")
     \/ Lost(request_getstate("1", 0)) /\ Goto("failed")

Detach ==
  /\ tool = "detach"
  /\ \/ request_detach("0", 0) /\ Answered /\ Goto("done")
     \/ request_detach("0", 0) /\ Stalled /\ Goto("failed")
     \/ Lost(request_detach("0", 0)) /\ Goto("failed")

(* main() after an operation: with -r a detach follows a success. *)
EndMain ==
  /\ tool \in {"done", "failed"}
  /\ \/ tool' = "off" /\ attached' = FALSE /\ UNCHANGED goal
     \/ tool = "done" /\ goal # "detach" /\ tool' = "getstate" /\ goal' = "detach" /\ UNCHANGED attached
  /\ UNCHANGED <<dfuVars, block, losses, unsure>>

Tool == GetState \/ Abort \/ ClearStatus \/ Finish \/ Download \/ GetStatus
          \/ Upload \/ Recheck \/ Detach \/ EndMain

-----------------------------------------------------------------------------
(* The user kills the tool. *)
Kill ==
  /\ tool # "off"
  /\ tool' = "off" /\ attached' = FALSE
  /\ UNCHANGED <<dfuVars, goal, block, losses, unsure>>

(* Another DFU host, while the interface is free. *)
OtherHost == tool = "off" /\ Request /\ UNCHANGED toolVars

(* The device leaves the bus: the handle is of no use any more. *)
Device ==
  /\ \/ Leave \/ EnterSoft \/ PowerCycle
     \/ tool = "off" /\ \E b \in Values : PowerCut(b)
     \/ tool = "transfer" /\ goal = "download" /\ block < Limit /\ PowerCut(block)
  /\ attached' = FALSE
  /\ UNCHANGED <<tool, goal, block, losses, unsure>>

ToolNext == Tool \/ StartTool \/ Kill \/ OtherHost \/ Device

ToolSpec == ToolInit /\ [][ToolNext]_allVars

(* The tool is a process that runs. *)
FairToolSpec == ToolSpec /\ WF_allVars(Tool)

-----------------------------------------------------------------------------
(* What the tool promises its user.                                        *)

(* The chip has room for the file. *)
Fits == Boot + Len(Image) <= Blocks

InPlace == \A i \in 1 .. Len(Image) : Boot + i - 1 \in Block /\ flash[Boot + i - 1] = Image[i]

Succeeded == tool = "done" /\ goal = "download"

(* A download that reports success has put the file into the flash,        *)
(* whatever the sessions before it left there, as long as each of its      *)
(* GETSTATUS requests came through, and the file fits: download() does not *)
(* look at its length, and of a longer one what is past the chip's end is  *)
(* refused and main() succeeds.                                            *)
SuccessIsWritten == Succeeded /\ ~unsure /\ Fits => InPlace

(* The tool never programs a block twice between two erasures, lost        *)
(* answers and retries of the user included.                               *)
NoDoubleProgram ==
  [][Tool => \A b \in Block : flash'[b] = "mixed" => flash[b] = "mixed"]_allVars

(* A run comes to an end, whatever state the device was found in, unless   *)
(* the device goes away.                                                   *)
ToolEnds == []<>(tool = "off" \/ ~attached)

(* The inductive invariant of a download.  It counts blocks from Boot. *)
CountsBlocks ==
  /\ goal = "download" => block \in Boot .. Limit
  /\ goal = "download" /\ tool \in {"getstate", "abort", "clear"} => block = Boot
  /\ tool = "status" => goal = "download" /\ block < Limit
  /\ tool \in {"recheck", "detach"} => goal = "detach"

(* What the sector of the block before b holds from b on is erased. *)
ErasedFrom(b) ==
  \A x \in Block : Boot < b /\ b <= x /\ SectorNumber(x) = SectorNumber(b - 1) => flash[x] = "erased"

(* The blocks of the file below b that the chip has are in place. *)
Holds(b) == \A x \in Block : Boot <= x /\ x < b => flash[x] = Image[x - Boot + 1]

(* The bootloader takes the next block only where that block is erased or  *)
(* begins a sector.                                                        *)
TakesErased ==
  /\ tool = "transfer" /\ goal = "download" /\ attached /\ Loadable => ErasedFrom(block)
  /\ tool = "status" /\ attached =>
       \/ state = "DFUERROR"
       \/ state = "DFUDNLOAD_SYNC" /\ ErasedFrom(block + 1)

(* As long as each GETSTATUS came through it takes every block, and what   *)
(* was sent is in place.                                                   *)
TakesAll ==
  ~unsure =>
    /\ tool = "transfer" /\ goal = "download" /\ attached =>
         (block \in Block => Loadable) /\ Holds(block)
    /\ tool = "transfer" /\ goal = "download" /\ block = Limit => Holds(Limit)
    /\ tool = "status" /\ attached =>
         (block \in Block => state = "DFUDNLOAD_SYNC") /\ Holds(block + 1)
    /\ Succeeded => Holds(Limit)

ToolInv == CountsBlocks /\ TakesErased /\ TakesAll
=============================================================================
