----------------------------- MODULE DfuProofs -----------------------------
(***************************************************************************)
(* Proofs about Dfu: whatever requests a host sends and whenever the power *)
(* goes, the bootloader's blocks keep their content, for every layout of   *)
(* sectors that SectorAssumption allows.  And about DfuTool: a download    *)
(* that ends well, and whose GETSTATUS requests all came through, has put  *)
(* the file into the flash, for every such chip whose Border               *)
(* BorderAssumption allows, every file, and whatever the sessions before   *)
(* it left behind; no session of the tool spoils a block by programming it *)
(* twice; and the tool is one of Dfu's hosts.                              *)
(***************************************************************************)
EXTENDS DfuTool, ModFacts

LEMMA DivMonotone ==
  ASSUME NEW m \in Nat \ {0}, NEW a \in Nat, NEW b \in Nat, a <= b
  PROVE  a \div m <= b \div m
<1> DEFINE p == a \div m
           q == b \div m
<1>1. a = (p * m) + (a % m) /\ p \in Nat /\ a % m \in 0 .. m - 1
  BY DivMod, ModRange
<1>2. b = (q * m) + (b % m) /\ q \in Nat /\ b % m \in 0 .. m - 1
  BY DivMod, ModRange
<1> HIDE DEF p, q
<1>3. CASE p > q
  <2>1. p * m >= (q + 1) * m
    BY <1>1, <1>2, <1>3
  <2>2. (q + 1) * m = (q * m) + m
    BY <1>2
  <2>3. q * m \in Nat /\ p * m \in Nat
    BY <1>1, <1>2
  <2> QED BY <1>1, <1>2, <2>1, <2>2, <2>3
<1> QED BY <1>1, <1>2, <1>3 DEF p, q

(* A block below a sector boundary lies in an earlier sector. *)
LEMMA DivBelow ==
  ASSUME NEW m \in Nat \ {0}, NEW a \in Nat, NEW b \in Nat, b % m = 0, a < b
  PROVE  a \div m < b \div m
<1> DEFINE p == a \div m
           q == b \div m
<1>1. a = (p * m) + (a % m) /\ p \in Nat /\ a % m \in 0 .. m - 1
  BY DivMod, ModRange
<1>2. b = (q * m) /\ q \in Nat
  BY DivMod
<1> HIDE DEF p, q
<1>3. CASE p >= q
  <2>1. p * m >= q * m
    BY <1>1, <1>2, <1>3
  <2>2. q * m \in Nat /\ p * m \in Nat
    BY <1>1, <1>2
  <2> QED BY <1>1, <1>2, <2>1, <2>2
<1> QED BY <1>1, <1>2, <1>3 DEF p, q

(* The sectors of the bootloader hold no block that may be written. *)
LEMMA SectorsApart ==
  ASSUME NEW x \in Nat, NEW b \in Nat, x < Boot, b >= Boot
  PROVE  SectorNumber(x) # SectorNumber(b)
<1> USE SectorAssumption
<1>1. x < Border /\ SectorNumber(x) = x \div SmallSector
  BY DEF SectorNumber
<1>2. x \div SmallSector < Boot \div SmallSector
  BY DivBelow
<1>3. x \div SmallSector \in Nat /\ Boot \div SmallSector \in Nat /\ b \div SmallSector \in Nat
      /\ b \div LargeSector \in Nat /\ Border \div LargeSector \in Nat /\ Border \div SmallSector \in Nat
  BY DivMod
<1>4. CASE b < Border
  <2>1. Boot \div SmallSector <= b \div SmallSector
    BY DivMonotone
  <2>2. SectorNumber(b) = b \div SmallSector
    BY <1>4 DEF SectorNumber
  <2> QED BY <1>1, <1>2, <1>3, <2>1, <2>2
<1>5. CASE b >= Border
  <2>1. Boot \div SmallSector <= Border \div SmallSector
    BY DivMonotone
  <2>2. Border \div LargeSector <= b \div LargeSector
    BY <1>5, DivMonotone
  <2>3. SectorNumber(b) = SectorOffset + (b \div LargeSector)
    BY <1>5 DEF SectorNumber
  <2> QED BY <1>1, <1>2, <1>3, <2>1, <2>2, <2>3
<1> QED BY <1>4, <1>5

(* Contents that keep their type and the bootloader. *)
Sound(f) == f \in [Block -> Content] /\ \A b \in Block : b < Boot => f[b] = "factory"

LEMMA FillSound ==
  ASSUME NEW f, Sound(f), NEW b \in Block, b >= Boot, NEW c \in Content
  PROVE  Sound(FillSector(f, b, c))
<1>1. \A x \in Block : x < Boot => SectorNumber(x) # SectorNumber(b)
  BY SectorsApart, SizeAssumption DEF Block
<1> QED BY <1>1 DEF Sound, FillSector

LEMMA SetSound ==
  ASSUME NEW f, Sound(f), NEW b \in Block, b >= Boot, NEW c \in Content
  PROVE  Sound([f EXCEPT ![b] = c])
BY SectorAssumption, SizeAssumption DEF Sound, Block

LEMMA WrittenSound ==
  ASSUME NEW f, Sound(f), NEW b \in Block, b >= Boot, NEW d \in Data
  PROVE  Sound(Written(f, b, d))
<1>1. "erased" \in Content /\ "mixed" \in Content /\ d \in Content
  BY DEF Content
<1>2. \A g : Sound(g) => Sound(Program(g, b, d))
  <2> SUFFICES ASSUME NEW g, Sound(g) PROVE Sound(Program(g, b, d))
    OBVIOUS
  <2>1. Program(g, b, d) = [g EXCEPT ![b] = d] \/ Program(g, b, d) = [g EXCEPT ![b] = "mixed"]
    BY DEF Program
  <2> QED BY <1>1, <2>1, SetSound
<1>3. Sound(FillSector(f, b, "erased"))
  BY <1>1, FillSound
<1> QED BY <1>2, <1>3 DEF Written

LEMMA TornSound ==
  ASSUME NEW f, Sound(f), NEW b \in Block, b >= Boot, NEW g \in Torn(f, b)
  PROVE  Sound(g)
<1>1. "erased" \in Content /\ "mixed" \in Content
  BY DEF Content
<1>2. Sound(FillSector(f, b, "erased")) /\ Sound(FillSector(f, b, "mixed"))
  BY <1>1, FillSound
<1>3. Sound([f EXCEPT ![b] = "mixed"]) /\ Sound([FillSector(f, b, "erased") EXCEPT ![b] = "mixed"])
  BY <1>1, <1>2, SetSound
<1> QED BY <1>2, <1>3 DEF Torn
----------------------------------------------------------------------------

LEMMA DfuInit == Init => DfuInv
BY DEF Init, DfuInv, TypeOK, BootloaderIntact, WriteIsActivity, States, Status, Content, in_dfu_mode

LEMMA RefuseKeeps ==
  ASSUME DfuInv, UNCHANGED mode, NEW e \in Status \ {"OK"}, Refuse(e)
  PROVE  DfuInv'
BY DEF Refuse, error, set_state, DfuInv, TypeOK, BootloaderIntact, WriteIsActivity, mode, States, Status, in_dfu_mode

LEMMA AnswerKeeps ==
  ASSUME DfuInv, in_dfu_mode, UNCHANGED mode,
         NEW s \in States \ {"DFUERROR"}, Answer(s), state # "DFUERROR" \/ s = "APPDETACH"
  PROVE  DfuInv'
BY DEF Answer, Accept, set_state, DfuInv, TypeOK, BootloaderIntact, WriteIsActivity, mode, States, in_dfu_mode

LEMMA DnloadKeeps ==
  ASSUME DfuInv, in_dfu_mode, UNCHANGED mode,
         NEW len, NEW b, NEW d \in Data, request_dnload(len, b, d)
  PROVE  DfuInv'
<1>1. CASE \E e \in Status \ {"OK"} : Refuse(e)
  BY <1>1, RefuseKeeps
<1>2. CASE state = "DFUDNLOAD_IDLE" /\ Answer("DFUMANIFEST_SYNC")
  BY <1>2, AnswerKeeps DEF States
<1>3. CASE /\ DnloadWrites(len, b)
           /\ flash' = Written(flash, b, d)
           /\ touched' = TRUE
           /\ Accept("DFUDNLOAD_SYNC")
  <2>1. b \in Block /\ b >= Boot /\ Loadable
    BY <1>3 DEF DnloadWrites, write_permitted
  <2>2. Sound(flash)
    BY DEF DfuInv, TypeOK, BootloaderIntact, Sound
  <2>3. Sound(flash')
    BY <1>3, <2>1, <2>2, WrittenSound
  <2> QED BY <1>3, <2>1, <2>3 DEF Loadable, Accept, set_state, DfuInv, TypeOK, BootloaderIntact,
               WriteIsActivity, mode, States, in_dfu_mode, Sound
<1> QED BY <1>1, <1>2, <1>3 DEF request_dnload, Status

(* A request other than DNLOAD. *)
LEMMA OtherKeeps ==
  ASSUME DfuInv, in_dfu_mode, UNCHANGED mode, NEW len, NEW value,
         \/ request_detach(len, value) \/ request_upload(len, value)
         \/ request_getstatus(len, value) \/ request_clrstatus(len, value)
         \/ request_getstate(len, value) \/ request_abort(len, value)
  PROVE  DfuInv'
<1>1. CASE request_detach(len, value)
  BY <1>1, RefuseKeeps, AnswerKeeps DEF request_detach, States, Status
<1>2. CASE request_upload(len, value)
  BY <1>2, RefuseKeeps, AnswerKeeps DEF request_upload, States, Status
<1>3. CASE request_getstatus(len, value)
  <2>1. acked' \in BOOLEAN
    BY <1>3 DEF request_getstatus
  <2>2. \/ /\ state \in {"DFUDNLOAD_SYNC", "DFUMANIFEST_SYNC"}
           /\ state' \in {"DFUDNLOAD_IDLE", "DFUIDLE"} /\ virginity' = FALSE
        \/ UNCHANGED <<state, virginity>>
    BY <1>3 DEF request_getstatus, set_state
  <2>3. UNCHANGED <<status, flash, touched>>
    BY <1>3 DEF request_getstatus
  <2>4. WriteIsActivity' /\ BootloaderIntact'
    BY <2>2, <2>3 DEF DfuInv, BootloaderIntact, WriteIsActivity
  <2>5. state' \in States /\ virginity' \in BOOLEAN
    BY <2>2 DEF DfuInv, TypeOK, States
  <2>6. (in_dfu_mode => (status = "OK" <=> state # "DFUERROR"))'
    BY <2>2, <2>3 DEF DfuInv, TypeOK, in_dfu_mode
  <2> QED BY <2>1, <2>3, <2>4, <2>5, <2>6 DEF DfuInv, TypeOK, mode
<1>4. CASE request_clrstatus(len, value)
  <2>1. CASE \E e \in Status \ {"OK"} : Refuse(e)
    BY <2>1, RefuseKeeps
  <2>2. CASE set_state("DFUIDLE") /\ status' = "OK" /\ acked' = TRUE /\ UNCHANGED <<flash, touched>>
    BY <2>2 DEF set_state, DfuInv, TypeOK, BootloaderIntact, WriteIsActivity, mode,
         States, Status, in_dfu_mode
  <2> QED BY <1>4, <2>1, <2>2 DEF request_clrstatus, Status
<1>5. CASE request_getstate(len, value)
  <2>1. CASE \E e \in Status \ {"OK"} : Refuse(e)
    BY <2>1, RefuseKeeps
  <2>2. CASE acked' = TRUE /\ UNCHANGED <<state, status, virginity, flash, touched>>
    BY <2>2 DEF DfuInv, TypeOK, BootloaderIntact, WriteIsActivity, mode, in_dfu_mode
  <2> QED BY <1>5, <2>1, <2>2 DEF request_getstate, Status
<1>6. CASE request_abort(len, value)
  BY <1>6, RefuseKeeps, AnswerKeeps DEF request_abort, States, Status
<1> QED BY <1>1, <1>2, <1>3, <1>4, <1>5, <1>6

LEMMA RequestKeeps ==
  ASSUME DfuInv, Request
  PROVE  DfuInv'
<1>1. PICK len \in Lengths, value \in Values, d \in Data : request_handler(len, value, d)
  BY DEF Request
<1>2. in_dfu_mode /\ UNCHANGED mode
  BY DEF Request, Listening
<1> QED BY <1>1, <1>2, DnloadKeeps, OtherKeeps DEF request_handler

LEMMA StartKeeps ==
  ASSUME DfuInv, NEW ctrl \in BOOLEAN, NEW pin \in BOOLEAN, Start(ctrl, pin), Sound(flash')
  PROVE  DfuInv'
BY DEF Start, Sound, DfuInv, TypeOK, BootloaderIntact, WriteIsActivity, States, Status, in_dfu_mode

LEMMA DfuStep ==
  ASSUME DfuInv, [Next]_vars
  PROVE  DfuInv'
<1>1. Sound(flash)
  BY DEF DfuInv, TypeOK, BootloaderIntact, Sound
<1>2. CASE Request
  BY <1>2, RequestKeeps
<1>3. CASE Leave
  BY <1>3 DEF Leave, DfuInv, TypeOK, BootloaderIntact, WriteIsActivity, in_dfu_mode
<1>4. CASE EnterSoft
  BY <1>1, <1>4, StartKeeps DEF EnterSoft
<1>5. CASE PowerCycle
  BY <1>1, <1>5, StartKeeps DEF PowerCycle
<1>6. CASE \E b \in Values : PowerCut(b)
  <2>1. PICK b \in Values : PowerCut(b)
    BY <1>6
  <2>2. b \in Block /\ b >= Boot
    BY <2>1 DEF PowerCut, DnloadWrites, write_permitted
  <2>3. Sound(flash')
    BY <1>1, <2>1, <2>2, TornSound DEF PowerCut
  <2> QED BY <2>1, <2>3, StartKeeps DEF PowerCut
<1>7. CASE UNCHANGED vars
  BY <1>7 DEF vars, DfuInv, TypeOK, BootloaderIntact, WriteIsActivity, in_dfu_mode
<1> QED BY <1>2, <1>3, <1>4, <1>5, <1>6, <1>7 DEF Next

LEMMA DfuInvariant == Spec => []DfuInv
BY DfuInit, DfuStep, PTL DEF Spec

(* Every variable of the bootloader has its type, and the status byte      *)
(* tells of an error exactly when the state does.                          *)
THEOREM TypeCorrect == Spec => []TypeOK
<1>1. DfuInv => TypeOK
  BY DEF DfuInv
<1> QED BY <1>1, DfuInvariant, PTL

(* No sequence of DFU requests, resets and power cuts changes a block of   *)
(* the bootloader, whatever the sizes of the chip's sectors.               *)
THEOREM BootloaderProtected == Spec => []BootloaderIntact
<1>1. DfuInv => BootloaderIntact
  BY DEF DfuInv
<1> QED BY <1>1, DfuInvariant, PTL

(* Once a session has begun to write, the time limit of pin entry does not *)
(* end it.                                                                 *)
THEOREM SessionNotTimedOut == Spec => []TimeoutSparesSession
<1>1. DfuInv => TimeoutSparesSession
  BY DEF DfuInv, TypeOK, WriteIsActivity, TimeoutSparesSession, TimedOut
<1> QED BY <1>1, DfuInvariant, PTL

-----------------------------------------------------------------------------
(* The tool                                                                *)

(* A block that begins a sector lies in another one than those before it. *)
LEMMA SectorNew ==
  ASSUME NEW x \in Nat, NEW b \in Nat, x < b, AtSectorBoundary(b)
  PROVE  SectorNumber(x) # SectorNumber(b)
<1> USE SectorAssumption, BorderAssumption
<1>1. CASE b < Border
  <2>1. b % SmallSector = 0 /\ SectorNumber(x) = x \div SmallSector /\ SectorNumber(b) = b \div SmallSector
    BY <1>1 DEF AtSectorBoundary, SectorSize, SectorNumber
  <2>2. x \div SmallSector < b \div SmallSector
    BY <2>1, DivBelow
  <2> QED BY <2>1, <2>2, DivMod
<1>2. CASE b >= Border /\ x >= Border
  <2>1. /\ b % LargeSector = 0
        /\ SectorNumber(x) = SectorOffset + (x \div LargeSector)
        /\ SectorNumber(b) = SectorOffset + (b \div LargeSector)
    BY <1>2 DEF AtSectorBoundary, SectorSize, SectorNumber
  <2>2. x \div LargeSector < b \div LargeSector
    BY <2>1, DivBelow
  <2>3. x \div LargeSector \in Nat /\ b \div LargeSector \in Nat
    BY DivMod
  <2> QED BY <2>1, <2>2, <2>3
<1>3. CASE b >= Border /\ x < Border
  <2>1. /\ SectorNumber(x) = x \div SmallSector
        /\ SectorNumber(b) = SectorOffset + (b \div LargeSector)
    BY <1>3 DEF SectorNumber
  <2>2. x \div SmallSector < Border \div SmallSector
    BY <1>3, DivBelow
  <2>3. Border \div LargeSector <= b \div LargeSector
    BY <1>3, DivMonotone
  <2>4. /\ x \div SmallSector \in Nat /\ Border \div SmallSector \in Nat
        /\ b \div LargeSector \in Nat /\ Border \div LargeSector \in Nat
    BY DivMod
  <2> QED BY <2>1, <2>2, <2>3, <2>4
<1> QED BY <1>1, <1>2, <1>3

(* A block that begins none lies in the sector of the block before it. *)
LEMMA DivSame ==
  ASSUME NEW m \in Nat \ {0}, NEW b \in Nat, b % m # 0
  PROVE  b \div m = (b - 1) \div m
<1> DEFINE q == b \div m
           r == b % m
<1>1. b = q * m + r /\ q \in Nat /\ r \in 0 .. m - 1 /\ b - 1 \in Nat
  BY DivMod, ModRange
<1> DEFINE p == (b - 1) \div m
           s == (b - 1) % m
<1>2. b - 1 = p * m + s /\ p \in Nat /\ s \in 0 .. m - 1
  BY <1>1, DivMod, ModRange
<1>3. r # 0
  OBVIOUS
<1> HIDE DEF q, r, p, s
<1>4. CASE p >= q + 1
  <2>1. p * m >= (q + 1) * m /\ (q + 1) * m = q * m + m
    BY <1>1, <1>2, <1>4
  <2>2. q * m \in Nat /\ p * m \in Nat
    BY <1>1, <1>2
  <2> QED BY <1>1, <1>2, <2>1, <2>2
<1>5. CASE q >= p + 1
  <2>1. q * m >= (p + 1) * m /\ (p + 1) * m = p * m + m
    BY <1>1, <1>2, <1>5
  <2>2. q * m \in Nat /\ p * m \in Nat
    BY <1>1, <1>2
  <2> QED BY <1>1, <1>2, <1>3, <2>1, <2>2
<1>6. p = q
  BY <1>1, <1>2, <1>4, <1>5
<1> QED BY <1>6 DEF p, q

LEMMA SectorSame ==
  ASSUME NEW b \in Nat, b > 0, ~AtSectorBoundary(b)
  PROVE  SectorNumber(b) = SectorNumber(b - 1)
<1> USE SectorAssumption, BorderAssumption
<1>1. CASE b < Border
  <2>1. /\ b % SmallSector # 0
        /\ SectorNumber(b) = b \div SmallSector
        /\ SectorNumber(b - 1) = (b - 1) \div SmallSector
    BY <1>1 DEF AtSectorBoundary, SectorSize, SectorNumber
  <2>2. b \div SmallSector = (b - 1) \div SmallSector
    BY <2>1, DivSame
  <2> QED BY <2>1, <2>2
<1>2. CASE b > Border
  <2>1. /\ b % LargeSector # 0
        /\ SectorNumber(b) = SectorOffset + (b \div LargeSector)
        /\ SectorNumber(b - 1) = SectorOffset + ((b - 1) \div LargeSector)
    BY <1>2 DEF AtSectorBoundary, SectorSize, SectorNumber
  <2>2. b \div LargeSector = (b - 1) \div LargeSector
    BY <2>1, DivSame
  <2> QED BY <2>1, <2>2
<1>3. CASE b = Border
  BY <1>3 DEF AtSectorBoundary, SectorSize
<1> QED BY <1>1, <1>2, <1>3

LEMMA BootBoundary == AtSectorBoundary(Boot)
BY SectorAssumption, BorderAssumption DEF AtSectorBoundary, SectorSize

(* A block written where it is erased or begins a sector is what was sent; *)
(* the blocks of the session before it stay, those behind it in its sector *)
(* are erased, and none is spoilt.                                         *)
LEMMA WriteErased ==
  ASSUME NEW b \in Block, NEW d, b >= Boot, flash \in [Block -> Content], ErasedFrom(b)
  PROVE  /\ Written(flash, b, d)[b] = d
         /\ \A x \in Block : Boot <= x /\ x < b => Written(flash, b, d)[x] = flash[x]
         /\ \A x \in Block : x > b /\ SectorNumber(x) = SectorNumber(b)
                               => Written(flash, b, d)[x] = "erased"
         /\ \A x \in Block : x # b /\ Written(flash, b, d)[x] = "mixed" => flash[x] = "mixed"
<1> USE SectorAssumption, SizeAssumption
<1> DEFINE f == IF AtSectorBoundary(b) THEN FillSector(flash, b, "erased") ELSE flash
<1>1. /\ f[b] = "erased"
      /\ DOMAIN f = Block
      /\ \A x \in Block : x < b /\ Boot <= x => f[x] = flash[x]
      /\ \A x \in Block : x > b /\ SectorNumber(x) = SectorNumber(b) => f[x] = "erased"
      /\ \A x \in Block : f[x] = "mixed" => flash[x] = "mixed"
  <2>1. CASE AtSectorBoundary(b)
    <3>1. f = FillSector(flash, b, "erased")
      BY <2>1
    <3>2. \A x \in Block : x < b => SectorNumber(x) # SectorNumber(b)
      BY <2>1, SectorNew DEF Block
    <3> HIDE DEF f
    <3> QED BY <3>1, <3>2 DEF FillSector
  <2>2. CASE ~AtSectorBoundary(b)
    <3>1. f = flash /\ b # Boot
      BY <2>2, BootBoundary
    <3>2. SectorNumber(b) = SectorNumber(b - 1)
      BY <2>2, <3>1, SectorSame DEF Block
    <3>3. \A x \in Block : x >= b /\ SectorNumber(x) = SectorNumber(b) => flash[x] = "erased"
      BY <3>1, <3>2 DEF ErasedFrom, Block
    <3> HIDE DEF f
    <3> QED BY <3>1, <3>3 DEF Block
  <2> QED BY <2>1, <2>2
<1>2. Written(flash, b, d) = [f EXCEPT ![b] = d]
  <2>1. Written(flash, b, d) = Program(f, b, d)
    BY DEF Written
  <2> HIDE DEF f
  <2> QED BY <1>1, <2>1 DEF Program
<1> HIDE DEF f
<1> QED BY <1>1, <1>2 DEF Block

-----------------------------------------------------------------------------
(* The tool keeps what the bootloader guarantees to any host. *)

LEMMA ImageData ==
  ASSUME CountsBlocks, goal = "download", block < Limit
  PROVE  /\ Image[block - Boot + 1] \in Data /\ Image[block - Boot + 1] # "mixed"
         /\ block \in Nat /\ block >= Boot /\ Limit = Boot + Len(Image)
BY ImageAssumption, SectorAssumption DEF CountsBlocks, Limit

LEMMA OthersKeepDfu ==
  ASSUME DfuInv, Leave \/ EnterSoft \/ PowerCycle \/ Request \/ UNCHANGED dfuVars
  PROVE  DfuInv'
<1>1. CASE UNCHANGED dfuVars
  BY <1>1, DfuStep DEF dfuVars, vars
<1>2. CASE Leave \/ EnterSoft \/ PowerCycle \/ Request
  BY <1>2, DfuStep DEF Next
<1> QED BY <1>1, <1>2

LEMMA CutKeepsDfu ==
  ASSUME DfuInv, NEW b, PowerCut(b)
  PROVE  DfuInv'
<1>1. b \in Block /\ b >= Boot
  BY DEF PowerCut, DnloadWrites, write_permitted
<1>2. Sound(flash)
  BY DEF DfuInv, TypeOK, BootloaderIntact, Sound
<1>3. Sound(flash')
  BY <1>1, <1>2, TornSound DEF PowerCut
<1> QED BY <1>3, StartKeeps DEF PowerCut


LEMMA ToolKeepsDfu ==
  ASSUME DfuInv, CountsBlocks, [ToolNext]_allVars
  PROVE  DfuInv'
<1>1. CASE UNCHANGED dfuVars
  BY <1>1, OthersKeepDfu
<1> USE DEF Lost, LostAnswer, LostRequest, Answered, Stalled, Served, Listening
<1>2. CASE GetState \/ Recheck
  BY <1>1, <1>2, OtherKeeps DEF GetState, Recheck
<1>3. CASE Abort
  BY <1>1, <1>3, OtherKeeps DEF Abort
<1>4. CASE ClearStatus
  BY <1>1, <1>4, OtherKeeps DEF ClearStatus
<1>5. CASE Download
  BY <1>1, <1>5, DnloadKeeps, ImageData DEF Download, Dnload
<1>6. CASE GetStatus
  BY <1>1, <1>6, OtherKeeps DEF GetStatus
<1>7. CASE Upload
  BY <1>1, <1>7, OtherKeeps DEF Upload
<1>8. CASE Detach
  BY <1>1, <1>8, OtherKeeps DEF Detach
<1>9. CASE StartTool \/ Finish \/ EndMain \/ Kill \/ UNCHANGED allVars
  BY <1>1, <1>9 DEF StartTool, Finish, EndMain, Kill, allVars
<1>10. CASE OtherHost
  BY <1>10, OthersKeepDfu DEF OtherHost
<1>11. CASE Device
  BY <1>11, OthersKeepDfu, CutKeepsDfu DEF Device
<1> QED BY <1>2, <1>3, <1>4, <1>5, <1>6, <1>7, <1>8, <1>9, <1>10, <1>11 DEF ToolNext, Tool

-----------------------------------------------------------------------------
(* The invariant of a download. *)

LEMMA ToolInitInv == ToolInit => ToolInv
BY ImageAssumption, SectorAssumption
   DEF ToolInit, ToolInv, CountsBlocks, TakesErased, TakesAll, Limit, Succeeded

LEMMA CountsKept ==
  ASSUME CountsBlocks, [ToolNext]_allVars
  PROVE  CountsBlocks'
<1> USE ImageAssumption, SectorAssumption DEF Limit, Goto
<1>1. CASE StartTool
  BY <1>1 DEF StartTool, CountsBlocks
<1>2. CASE GetState
  <2>1. NextStep \in {"recheck", "transfer", "abort", "clear", "getstate"}
        /\ (NextStep = "recheck" => goal = "detach")
    BY DEF NextStep, Entered
  <2> QED BY <1>2, <2>1 DEF GetState, CountsBlocks
<1>3. CASE Abort \/ ClearStatus \/ Finish \/ Recheck \/ Detach \/ EndMain
  BY <1>3 DEF Abort, ClearStatus, Finish, Recheck, Detach, EndMain, CountsBlocks
<1>4. CASE Download
  BY <1>4 DEF Download, CountsBlocks
<1>5. CASE GetStatus
  BY <1>5 DEF GetStatus, CountsBlocks
<1>6. CASE Upload
  BY <1>6 DEF Upload, CountsBlocks
<1>7. CASE Kill \/ OtherHost \/ Device \/ UNCHANGED allVars
  BY <1>7 DEF Kill, OtherHost, Device, toolVars, allVars, CountsBlocks
<1> QED BY <1>1, <1>2, <1>3, <1>4, <1>5, <1>6, <1>7 DEF ToolNext, Tool

LEMMA FinishKept ==
  ASSUME ToolInv, Finish
  PROVE  TakesErased' /\ TakesAll'
<1>1. /\ tool = "transfer" /\ block >= Limit /\ tool' = "done"
      /\ UNCHANGED <<flash, goal, unsure, Limit>>
  BY DEF Finish, Goto, dfuVars, Limit
<1>2. goal = "download" => block = Limit
  BY <1>1, ImageAssumption, SectorAssumption DEF ToolInv, CountsBlocks, Limit
<1>3. goal = "download" /\ ~unsure => Holds(Limit)
  BY <1>1, <1>2 DEF ToolInv, TakesAll
<1> QED BY <1>1, <1>3 DEF TakesErased, TakesAll, Holds, Succeeded

(* enter_dfu_mode() has found or made the bootloader idle. *)
LEMMA EnterKept ==
  ASSUME ToolInv, CountsBlocks', GetState
  PROVE  TakesErased' /\ TakesAll'
<1>1. CASE tool' = "transfer" /\ goal' = "download"
  <2>1. /\ request_getstate("1", 0) /\ Answered /\ NextStep = "transfer"
        /\ goal = "download" /\ block' = block
    BY <1>1 DEF GetState, Goto
  <2>2. UNCHANGED <<state, flash>> /\ state = "DFUIDLE"
    BY <2>1 DEF request_getstate, NextStep, Entered, Answered, Refuse, error
  <2>3. block = Boot /\ Boot \in Nat
    BY <2>1, SectorAssumption DEF GetState, ToolInv, CountsBlocks
  <2> QED BY <1>1, <2>1, <2>2, <2>3, ImageAssumption, SizeAssumption
          DEF TakesErased, TakesAll, ErasedFrom, Holds, Loadable, Limit, Succeeded, Block
<1>2. CASE ~(tool' = "transfer" /\ goal' = "download")
  <2>1. tool' \notin {"status", "done"}
    BY DEF GetState, Goto, NextStep, Entered
  <2> QED BY <1>2, <2>1 DEF TakesErased, TakesAll, Succeeded
<1> QED BY <1>1, <1>2

(* The DNLOAD of a block. *)
LEMMA DownloadKept ==
  ASSUME ToolInv, TypeOK, CountsBlocks', Download
  PROVE  TakesErased' /\ TakesAll'
<1> DEFINE d == Image[block - Boot + 1]
<1>0. /\ block \in Nat /\ block >= Boot /\ Boot \in Nat
      /\ tool = "transfer" /\ goal = "download" /\ UNCHANGED <<goal, block, attached, unsure>>
  BY ImageData, SectorAssumption DEF Download, Goto, ToolInv
<1>1. CASE tool' # "status"
  <2>1. tool' = "failed"
    BY <1>1 DEF Download, Goto
  <2> QED BY <2>1 DEF TakesErased, TakesAll, Succeeded
<1>2. CASE tool' = "status"
  <2>1. Dnload /\ attached /\ (Answered \/ Stalled)
    BY <1>2 DEF Download, Goto, Answered, Stalled, Served
  <2>2. CASE DnloadWrites("transfer_size", block) /\ flash' = Written(flash, block, d)
             /\ Accept("DFUDNLOAD_SYNC")
    <3>1. block \in Block /\ Loadable /\ state' = "DFUDNLOAD_SYNC"
      BY <2>2 DEF DnloadWrites, Accept, set_state
    <3>2. ErasedFrom(block)
      BY <1>0, <2>1, <3>1 DEF ToolInv, TakesErased
    <3>3. /\ flash'[block] = d
          /\ \A x \in Block : Boot <= x /\ x < block => flash'[x] = flash[x]
          /\ \A x \in Block : x > block /\ SectorNumber(x) = SectorNumber(block) => flash'[x] = "erased"
      BY <1>0, <2>2, <3>1, <3>2, WriteErased DEF TypeOK
    <3>4. ErasedFrom(block + 1)'
      BY <1>0, <3>3, SizeAssumption DEF ErasedFrom, Block
    <3>5. ~unsure => Holds(block)
      BY <1>0, <2>1 DEF ToolInv, TakesAll
    <3>6. ~unsure => Holds(block + 1)'
      BY <1>0, <3>3, <3>5, SizeAssumption DEF Holds, Block
    <3> QED BY <1>0, <1>2, <3>1, <3>4, <3>6 DEF TakesErased, TakesAll, Succeeded, Loadable
  <2>3. CASE flash' = flash /\ state' = "DFUERROR" /\ (Loadable => block \notin Block)
    <3>1. ~unsure => Holds(block) /\ block \notin Block
      BY <1>0, <2>1, <2>3 DEF ToolInv, TakesAll
    <3>2. ~unsure => Holds(block + 1)'
      BY <1>0, <2>3, <3>1, SizeAssumption DEF Holds, Block
    <3> QED BY <1>0, <1>2, <2>3, <3>1, <3>2 DEF TakesErased, TakesAll, Succeeded, Loadable
  <2>4. write_permitted(block)
    BY <1>0 DEF write_permitted
  <2> QED BY <2>1, <2>2, <2>3, <2>4
          DEF Dnload, request_dnload, Refuse, error, set_state, DnloadWrites
<1> QED BY <1>1, <1>2

(* The GETSTATUS after it. *)
LEMMA GetStatusKept ==
  ASSUME ToolInv, CountsBlocks', GetStatus
  PROVE  TakesErased' /\ TakesAll'
<1>0. /\ block \in Nat /\ block >= Boot /\ block + 1 \in Boot .. Limit /\ Limit' = Limit
      /\ goal = "download" /\ tool = "status" /\ tool' = "transfer" /\ block' = block + 1
      /\ UNCHANGED <<goal, attached, flash>>
  <2>1. tool = "status" /\ tool' = "transfer" /\ block' = block + 1 /\ UNCHANGED <<goal, attached>>
    BY DEF GetStatus
  <2>2. flash' = flash
    BY DEF GetStatus, Lost, LostRequest, LostAnswer, request_getstatus, dfuVars
  <2>3. goal = "download" /\ block \in Boot .. Limit /\ block < Limit
    BY <2>1 DEF ToolInv, CountsBlocks
  <2> QED BY <2>1, <2>2, <2>3, ImageAssumption, SectorAssumption DEF Limit
<1>1. attached' /\ Loadable' => ErasedFrom(block + 1)
  <2>1. \/ UNCHANGED state
        \/ state = "DFUDNLOAD_SYNC" /\ state' = "DFUDNLOAD_IDLE"
        \/ state = "DFUMANIFEST_SYNC"
    BY DEF GetStatus, Lost, LostRequest, LostAnswer, request_getstatus, set_state, dfuVars
  <2> QED BY <1>0, <2>1 DEF ToolInv, TakesErased, Loadable
<1>2. ~unsure' => Answered /\ request_getstatus("6", 0) /\ ~unsure
  BY DEF GetStatus
<1>3. TakesErased'
  BY <1>0, <1>1 DEF TakesErased, ErasedFrom
<1>4. CASE ~unsure'
  <2>1. attached /\ Holds(block + 1) /\ (block \in Block => state = "DFUDNLOAD_SYNC")
    BY <1>0, <1>2, <1>4 DEF Answered, Served, ToolInv, TakesAll
  <2>2. state = "DFUDNLOAD_SYNC" => state' = "DFUDNLOAD_IDLE"
    BY <1>2, <1>4 DEF Answered, request_getstatus, set_state
  <2>3. block + 1 \in Block => block \in Block
    BY <1>0, SizeAssumption DEF Block
  <2>4. Holds(block)'
    BY <1>0, <2>1 DEF Holds
  <2>5. block' \in Block => Loadable'
    BY <1>0, <2>1, <2>2, <2>3 DEF Loadable
  <2> QED BY <1>0, <1>3, <2>4, <2>5 DEF TakesAll, Succeeded
<1>5. CASE unsure'
  BY <1>3, <1>5 DEF TakesAll
<1> QED BY <1>3, <1>4, <1>5

(* The device, or whoever uses it while the tool does not. *)
LEMMA DeviceKept ==
  ASSUME ToolInv, CountsBlocks', Device
  PROVE  TakesErased' /\ TakesAll'
<1>1. ~attached' /\ UNCHANGED <<tool, goal, block, unsure>>
  BY DEF Device
<1>2. flash' = flash \/ tool = "off" \/ (tool = "transfer" /\ block < Limit)
  BY DEF Device, Leave, EnterSoft, PowerCycle
<1>3. Limit' = Limit
  BY <1>1 DEF Limit
<1>4. goal = "download" => block \in Int /\ Limit \in Int
  BY SectorAssumption, ImageAssumption DEF ToolInv, CountsBlocks, Limit
<1>5. tool = "transfer" /\ goal = "download" /\ block = Limit => flash' = flash
  BY <1>2, <1>4
<1>6. tool = "done" => flash' = flash
  BY <1>2
<1>7. flash' = flash => (Holds(Limit) => Holds(Limit)')
  BY <1>3 DEF Holds
<1> QED BY <1>1, <1>3, <1>5, <1>6, <1>7 DEF ToolInv, TakesErased, TakesAll, Succeeded

LEMMA ToolStepInv ==
  ASSUME ToolInv, DfuInv, [ToolNext]_allVars
  PROVE  ToolInv'
<1>1. CountsBlocks'
  BY CountsKept DEF ToolInv
<1>2. CASE GetState
  BY <1>1, <1>2, EnterKept DEF ToolInv
<1>3. CASE Download
  BY <1>1, <1>3, DownloadKept DEF ToolInv, DfuInv
<1>4. CASE GetStatus
  BY <1>1, <1>4, GetStatusKept DEF ToolInv
<1>5. CASE Device
  BY <1>1, <1>5, DeviceKept DEF ToolInv
<1>6. CASE StartTool \/ Kill \/ OtherHost
  <2>1. tool' \in {"getstate", "off"}
    BY <1>6 DEF StartTool, Kill, OtherHost, toolVars
  <2> QED BY <1>1, <2>1 DEF ToolInv, TakesErased, TakesAll, Succeeded
<1>7. CASE Abort \/ ClearStatus \/ Recheck
  <2>1. tool' \in {"getstate", "failed", "detach"}
    BY <1>7 DEF Abort, ClearStatus, Recheck, Goto
  <2> QED BY <1>1, <2>1 DEF ToolInv, TakesErased, TakesAll, Succeeded
<1>8. CASE Detach \/ Upload
  <2>1. goal' # "download" /\ tool' # "status"
    BY <1>1, <1>8 DEF Detach, Upload, Goto, ToolInv, CountsBlocks
  <2> QED BY <1>1, <2>1 DEF ToolInv, TakesErased, TakesAll, Succeeded
<1>9. CASE Finish
  BY <1>1, <1>9, FinishKept DEF ToolInv
<1>10. CASE EndMain
  <2>1. tool' \in {"off", "getstate"}
    BY <1>10 DEF EndMain
  <2> QED BY <1>1, <2>1 DEF ToolInv, TakesErased, TakesAll, Succeeded
<1>11. CASE UNCHANGED allVars
  BY <1>1, <1>11 DEF allVars, toolVars, dfuVars, ToolInv, TakesErased, TakesAll, ErasedFrom, Holds,
                     Loadable, Limit, Succeeded
<1> QED BY <1>2, <1>3, <1>4, <1>5, <1>6, <1>7, <1>8, <1>9, <1>10, <1>11 DEF ToolNext, Tool

(* The inductive invariant of the tool and its device, together. *)
THEOREM ToolInvariant == ToolSpec => [](DfuInv /\ ToolInv)
<1>1. ToolInit => DfuInv /\ ToolInv
  BY DfuInit, ToolInitInv DEF ToolInit
<1>2. DfuInv /\ ToolInv /\ [ToolNext]_allVars => (DfuInv /\ ToolInv)'
  BY ToolKeepsDfu, ToolStepInv DEF ToolInv
<1> QED BY <1>1, <1>2, PTL DEF ToolSpec

(* Whatever the tool sends, and wherever it is killed or the power cut,    *)
(* the blocks of the bootloader keep their content.                        *)
THEOREM ToolSparesBootloader == ToolSpec => []BootloaderIntact
<1>1. DfuInv => BootloaderIntact
  BY DEF DfuInv
<1> QED BY <1>1, ToolInvariant, PTL

(* A download that ends well, and whose GETSTATUS requests all came        *)
(* through, has put into place each block of the file that the chip has:   *)
(* for every layout of sectors, file, and earlier session.                 *)
THEOREM SuccessHolds ==
  ToolSpec => [](Succeeded /\ ~unsure => Holds(Boot + Len(Image)))
<1>1. DfuInv /\ ToolInv => (Succeeded /\ ~unsure => Holds(Boot + Len(Image)))
  BY DEF ToolInv, TakesAll, Succeeded, Limit
<1> QED BY <1>1, ToolInvariant, PTL

(* A file that the chip has room for is then in the flash as a whole.      *)
THEOREM SuccessWritten == ToolSpec => []SuccessIsWritten
<1>1. Fits /\ Holds(Boot + Len(Image)) => InPlace
  <2> SUFFICES ASSUME Fits, Holds(Boot + Len(Image)), NEW i \in 1 .. Len(Image)
               PROVE  Boot + i - 1 \in Block /\ flash[Boot + i - 1] = Image[i]
    BY DEF InPlace
  <2> DEFINE x == Boot + i - 1
  <2>1. Len(Image) \in Nat /\ Boot \in Nat /\ Blocks \in Nat
    BY ImageAssumption, SectorAssumption, SizeAssumption
  <2>2. x \in Block /\ Boot <= x /\ x < Boot + Len(Image) /\ x - Boot + 1 = i
    BY <2>1 DEF Block, Fits
  <2> HIDE DEF x
  <2>3. flash[x] = Image[x - Boot + 1]
    BY <2>2 DEF Holds
  <2> QED BY <2>2, <2>3 DEF x
<1>2. (Succeeded /\ ~unsure => Holds(Boot + Len(Image))) => SuccessIsWritten
  BY <1>1 DEF SuccessIsWritten
<1> QED BY <1>2, SuccessHolds, PTL

(* No request of the tool programs a block that was programmed since its   *)
(* sector was erased, not even after lost answers and retries of the user. *)
THEOREM NeverSpoils == ToolSpec => NoDoubleProgram
<1>1. DfuInv /\ ToolInv /\ [ToolNext]_allVars =>
        [Tool => \A b \in Block : flash'[b] = "mixed" => flash[b] = "mixed"]_allVars
  <2> SUFFICES ASSUME DfuInv, ToolInv, Tool, flash' # flash
               PROVE  \A b \in Block : flash'[b] = "mixed" => flash[b] = "mixed"
    OBVIOUS
  <2>1. Download
    BY DEF Tool, GetState, Abort, ClearStatus, Finish, GetStatus, Upload, Recheck, Detach, EndMain,
           Lost, LostAnswer, LostRequest, dfuVars, request_getstate, request_abort, request_clrstatus,
           request_getstatus, request_upload, request_detach, Refuse, Answer
  <2> DEFINE d == Image[block - Boot + 1]
  <2>2. /\ DnloadWrites("transfer_size", block) /\ flash' = Written(flash, block, d)
        /\ tool = "transfer" /\ goal = "download" /\ attached
    BY <2>1 DEF Download, Dnload, request_dnload, Answered, Stalled, Lost, LostAnswer, LostRequest,
                Served, dfuVars, Refuse, Answer
  <2>3. block \in Block /\ block >= Boot /\ Loadable
    BY <2>2 DEF DnloadWrites, write_permitted
  <2>4. ErasedFrom(block) /\ flash \in [Block -> Content]
    BY <2>2, <2>3 DEF ToolInv, TakesErased, DfuInv, TypeOK
  <2>5. d # "mixed"
    BY <2>1, ImageData DEF ToolInv, Download
  <2>6. \A b \in Block : b # block /\ flash'[b] = "mixed" => flash[b] = "mixed"
    BY <2>2, <2>3, <2>4, WriteErased
  <2>7. flash'[block] # "mixed"
    BY <2>2, <2>3, <2>4, <2>5, WriteErased
  <2> QED BY <2>6, <2>7
<1> QED BY <1>1, ToolInvariant, PTL DEF ToolSpec, NoDoubleProgram

-----------------------------------------------------------------------------
(* The tool is one of the hosts that module Dfu lets do as they like.      *)

(* A request of the tool is one that a host may send. *)
LEMMA ServedIsRequest ==
  ASSUME NEW len \in Lengths, NEW value \in Values, NEW d \in Data,
         request_handler(len, value, d), Served
  PROVE  Request
BY DEF Request, Served

LEMMA BlockCounts ==
  ASSUME block \in Nat, [ToolNext]_allVars
  PROVE  block' \in Nat
<1>1. CASE StartTool
  BY <1>1, SectorAssumption DEF StartTool
<1>2. CASE GetStatus \/ Upload
  BY <1>2 DEF GetStatus, Upload, Goto
<1>3. CASE GetState \/ Abort \/ ClearStatus \/ Finish \/ Download \/ Recheck \/ Detach \/ EndMain
  BY <1>3 DEF GetState, Abort, ClearStatus, Finish, Download, Recheck, Detach, EndMain, Goto
<1>4. CASE Kill \/ OtherHost \/ Device \/ UNCHANGED allVars
  BY <1>4 DEF Kill, OtherHost, Device, toolVars, allVars
<1> QED BY <1>1, <1>2, <1>3, <1>4 DEF ToolNext, Tool

LEMMA ToolStepIsHosts ==
  ASSUME NEW d \in Data, 0 .. Boot + Len(Image) \subseteq Values, 0 .. Blocks \subseteq Values,
         CountsBlocks, block \in Nat, [ToolNext]_allVars
  PROVE  [Next]_vars
<1>0. /\ 0 \in Values /\ {"0", "1", "6", "transfer_size"} \subseteq Lengths
      /\ block \in Nat /\ Boot \in Nat /\ Blocks \in Nat /\ Len(Image) \in Nat
      /\ (block < Limit => block \in Values)
  BY ImageAssumption, SectorAssumption, SizeAssumption DEF Lengths, Limit
<1>1. CASE Request
  BY <1>1 DEF Next
<1>2. CASE UNCHANGED dfuVars
  BY <1>2 DEF dfuVars, vars
<1> USE <1>0 DEF Lost, LostAnswer, LostRequest, Answered, Stalled
<1>3. CASE GetState \/ Recheck
  <2>1. request_getstate("1", 0) => request_handler("1", 0, d)
    BY DEF request_handler
  <2> QED BY <1>1, <1>2, <1>3, <2>1, ServedIsRequest DEF GetState, Recheck
<1>4. CASE Abort
  <2>1. request_abort("0", 0) => request_handler("0", 0, d)
    BY DEF request_handler
  <2> QED BY <1>1, <1>2, <1>4, <2>1, ServedIsRequest DEF Abort
<1>5. CASE ClearStatus
  <2>1. request_clrstatus("0", 0) => request_handler("0", 0, d)
    BY DEF request_handler
  <2> QED BY <1>1, <1>2, <1>5, <2>1, ServedIsRequest DEF ClearStatus
<1>6. CASE Download
  <2>1. Image[block - Boot + 1] \in Data
    BY <1>6, ImageData DEF Download
  <2>2. Dnload => request_handler("transfer_size", block, Image[block - Boot + 1])
    BY DEF request_handler, Dnload
  <2> QED BY <1>1, <1>2, <1>6, <2>1, <2>2, ServedIsRequest DEF Download
<1>7. CASE GetStatus
  <2>1. request_getstatus("6", 0) => request_handler("6", 0, d)
    BY DEF request_handler
  <2> QED BY <1>1, <1>2, <1>7, <2>1, ServedIsRequest DEF GetStatus
<1>8. CASE Upload
  <2>1. request_upload("transfer_size", block) => request_handler("transfer_size", block, d)
    BY DEF request_handler
  <2> QED BY <1>1, <1>2, <1>8, <2>1, ServedIsRequest DEF Upload
<1>9. CASE Detach
  <2>1. request_detach("0", 0) => request_handler("0", 0, d)
    BY DEF request_handler
  <2> QED BY <1>1, <1>2, <1>9, <2>1, ServedIsRequest DEF Detach
<1>10. CASE StartTool \/ Finish \/ EndMain \/ Kill \/ UNCHANGED allVars
  BY <1>2, <1>10 DEF StartTool, Finish, EndMain, Kill, allVars
<1>11. CASE OtherHost
  BY <1>11 DEF OtherHost, Next
<1>12. CASE Device
  BY <1>1, <1>2, <1>12 DEF Device, Next
<1> QED BY <1>3, <1>4, <1>5, <1>6, <1>7, <1>8, <1>9, <1>10, <1>11, <1>12 DEF ToolNext, Tool

(* Whatever ubertooth-dfu does, through lost transfers, kills and other    *)
(* hosts' sessions, the bootloader sees a behaviour of Dfu: each step of   *)
(* the two is one of a host's requests, of the device's own, or none.  So  *)
(* the guarantees of Dfu, proved for any host, hold of this one.  wValue   *)
(* must be wide enough to name the blocks of the chip and of the file.     *)
THEOREM ToolIsHost ==
  ASSUME Data # {}, 0 .. Boot + Len(Image) \subseteq Values, 0 .. Blocks \subseteq Values
  PROVE  ToolSpec => Spec
<1>1. PICK d : d \in Data
  OBVIOUS
<1>2. ToolInit => Init /\ block \in Nat
  BY SectorAssumption DEF ToolInit
<1>3. ToolInv /\ block \in Nat /\ [ToolNext]_allVars => [Next]_vars /\ (block \in Nat)'
  BY <1>1, ToolStepIsHosts, BlockCounts DEF ToolInv
<1> QED BY <1>2, <1>3, ToolInvariant, PTL DEF ToolSpec, Spec
=============================================================================
