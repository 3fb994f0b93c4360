----------------------------- MODULE FvbServices -----------------------------
(***************************************************************************)
(* The firmware volume block (FVB) drivers of Platform/FvbServicesRuntime- *)
(* Dxe: FWBlockService.c (runtime DXE driver) and FWBlockServiceSmm.c (the *)
(* same driver loaded in SMM).  Both produce one protocol instance for the *)
(* non-volatile storage volume of the SPI flash and share nothing but the  *)
(* chip: each has its own copy of the volume attributes and its own base   *)
(* addresses.                                                              *)
(*                                                                         *)
(* A flash cell is the set of its bits that read as one: an erased cell is *)
(* Bits and programming data into a cell intersects it with the data.      *)
(* Every command handed to the SPI protocol is one step, so that an SMI, a *)
(* power loss or an error may fall between any two of them.                *)
(***************************************************************************)
EXTENDS Integers, Sequences, FiniteSets

CONSTANTS
  Drivers,        \* the loaded instances of the driver
  Smm,            \* the one of them that runs in SMM and preempts the others
  Runtime,        \* the one of them that survives into virtual mode
  Bits,           \* bits of a flash cell
  ChipSize,       \* cells of the BIOS region of the chip
  SectorSize,     \* SPI_DEFAULT_SECTOR_SIZE, in cells
  FwBlockSize,    \* PcdFirmwareBlockSize, in cells
  DeviceBase,     \* physical address of the BIOS region
  VirtualDelta,   \* what the OS adds to an address it maps
  FvOffset,       \* where the volume starts in the BIOS region
  BlockMap,       \* the volume's block map with the running sums of its walk
  LbaModulus,     \* an EFI_LBA is 64 bits wide: 2^64
  HeaderImages,   \* the valid volume headers: sequences of cells
  HeaderAttributes, \* the Attributes field of each valid header
  DefaultHeader,  \* the header of the table in FvbInfo.c
  VarStoreImage,  \* gVariableStoreTemplate: what follows a repaired header
  Contents,       \* what the chip may hold behind the header at first
  HasFvbInfo,     \* the volume's base is one of mPlatformFvbMediaInfo
  AssertHalts,    \* ASSERT stops the machine (debug build)
  WriteRequests, ReadRequests, EraseRequests, AttributeRequests,
                  \* what clients may ask
  MaxCalls,       \* bound: write and erase calls in a behaviour
  MaxPowerLosses  \* bound: power losses in a behaviour

VARIABLES
  flash,          \* contents of the chip: one set of bits per cell
  chip,           \* the command the chip is busy with: its cells, as they were
  pc,             \* where each driver is
  call,           \* the call each driver is in
  reply,          \* what the call that returned last returned, and to whom
  attrs,          \* FwhInstance->VolumeHeader.Attributes of each driver
  fvBase,         \* FwhInstance->FvBase[FVB_PHYSICAL, FVB_VIRTUAL]
  devBase,        \* gDeviceBaseAddress
  goneVirtual,    \* EfiGoneVirtual()
  calls, losses   \* counters behind the two bounds

vars == <<flash, chip, pc, call, reply, attrs, fvBase, devBase, goneVirtual,
          calls, losses>>

-----------------------------------------------------------------------------
Cells == 0 .. ChipSize - 1
Cell == SUBSET Bits

StatusFlags == {"READ_STATUS", "WRITE_STATUS", "LOCK_STATUS"}
CapFlags == {"READ_DISABLED_CAP", "READ_ENABLED_CAP", "WRITE_DISABLED_CAP",
             "WRITE_ENABLED_CAP", "LOCK_CAP"}
(* ERASE_POLARITY stands for the other bits of UnchangedAttributes, and    *)
(* WRITE_LOCK_STATUS for the bits that neither mask of the code names.     *)
Flags == StatusFlags \cup CapFlags \cup {"ERASE_POLARITY", "WRITE_LOCK_STATUS"}
Unchanged == CapFlags \cup {"ERASE_POLARITY"}

Status == {"SUCCESS", "INVALID_PARAMETER", "ACCESS_DENIED", "DEVICE_ERROR",
           "BAD_BUFFER_SIZE"}

ASSUME DriversAssumption == Smm \in Drivers /\ Runtime \in Drivers \ {Smm}
ASSUME ChipAssumption ==
  /\ ChipSize \in Nat \ {0} /\ SectorSize \in Nat \ {0}
  /\ FwBlockSize \in Nat \ {0} /\ DeviceBase \in Nat \ {0}
  /\ FwBlockSize % SectorSize = 0
  /\ VirtualDelta \in Nat /\ FvOffset \in Nat /\ LbaModulus \in Nat \ {0}
  /\ MaxCalls \in Nat /\ MaxPowerLosses \in Nat
  /\ HasFvbInfo \in BOOLEAN /\ AssertHalts \in BOOLEAN
(* Each entry of the block map carries the first LBA and the offset that   *)
(* the walk of FvbGetLbaAddress reaches it with (StartLba, Offset).        *)
MapEntry == [first : Nat, num : Nat \ {0}, offset : Nat, len : Nat \ {0}]
ASSUME BlockMapAssumption ==
  /\ BlockMap \in Seq(MapEntry)
  /\ BlockMap # <<>>
  /\ BlockMap[1].first = 0 /\ BlockMap[1].offset = 0
  /\ \A i \in 1 .. Len(BlockMap) - 1 :
       /\ BlockMap[i + 1].first = BlockMap[i].first + BlockMap[i].num
       /\ BlockMap[i + 1].offset =
            BlockMap[i].offset + BlockMap[i].num * BlockMap[i].len
ASSUME HeaderAssumption ==
  /\ HeaderImages \subseteq Seq(Cell) /\ DefaultHeader \in HeaderImages
  /\ HeaderAttributes \in [HeaderImages -> SUBSET Flags]
  /\ VarStoreImage \in Seq(Cell)
  /\ Contents \subseteq [Cells -> Cell]
(* The build's flash map: the volume's first firmware block lies in the    *)
(* BIOS region, both headers fit into it, and the blocks of the volume     *)
(* (of PcdFirmwareBlockSize each, FvbInfo.c) are made of whole sectors.    *)
ASSUME LayoutAssumption ==
  /\ FvOffset + FwBlockSize <= ChipSize
  /\ Len(DefaultHeader \o VarStoreImage) <= FwBlockSize
  /\ \A i \in DOMAIN BlockMap : BlockMap[i].len % SectorSize = 0
(* The status bits `a' hold are ones that its capabilities provide for.    *)
StatusAllowed(a) ==
  /\ "READ_STATUS" \in a => "READ_ENABLED_CAP" \in a
  /\ "READ_STATUS" \notin a => "READ_DISABLED_CAP" \in a
  /\ "WRITE_STATUS" \in a => "WRITE_ENABLED_CAP" \in a
  /\ "WRITE_STATUS" \notin a => "WRITE_DISABLED_CAP" \in a
  /\ "LOCK_STATUS" \in a => "LOCK_CAP" \in a
(* The build gives every volume header a consistent Attributes field.      *)
ASSUME HeaderStatusAssumption ==
  \A img \in HeaderImages : StatusAllowed(HeaderAttributes[img])
ASSUME RequestAssumption ==
  /\ WriteRequests \cup ReadRequests
       \subseteq [lba : 0 .. LbaModulus - 1, offset : Nat, data : Seq(Cell)]
  /\ EraseRequests \subseteq Seq((0 .. LbaModulus - 1) \X Nat)
  /\ AttributeRequests \subseteq SUBSET Flags

-----------------------------------------------------------------------------
(* Geometry.                                                               *)

LastEntry == BlockMap[Len(BlockMap)]

(* FwhInstance->NumOfBlocks: the sum FvbInitialize takes over the map.     *)
NumOfBlocks == LastEntry.first + LastEntry.num

FvLength == LastEntry.offset + LastEntry.num * LastEntry.len

EntryOf(lba) == {i \in DOMAIN BlockMap :
                   /\ lba >= BlockMap[i].first
                   /\ lba < BlockMap[i].first + BlockMap[i].num}

(* The base a driver uses: FvBase[Virtual] of its instance, where the SMM  *)
(* driver always passes FALSE.                                             *)
SmmGetPhysicalAddress == fvBase[Smm].physical
FvbGetPhysicalAddress(d) ==
  IF d = Smm THEN SmmGetPhysicalAddress
  ELSE IF goneVirtual THEN fvBase[d].virtual ELSE fvBase[d].physical

BlockOffset(lba) ==
  LET e == BlockMap[CHOOSE i \in EntryOf(lba) : TRUE]
  IN  e.offset + (lba - e.first) * e.len

BlockLength(lba) == BlockMap[CHOOSE i \in EntryOf(lba) : TRUE].len

(* Address of an LBA, found iff some entry of the map holds it.            *)
LbaExists(lba) == EntryOf(lba) # {}
FvbGetLbaAddress(d, lba) == FvbGetPhysicalAddress(d) + BlockOffset(lba)

(* The cells of the chip that SPI address `addr - gDeviceBaseAddress' and  *)
(* the n - 1 after it denote.                                              *)
SpiCells(d, addr, n) ==
  {c \in Cells : addr - devBase[d] <= c /\ c < addr - devBase[d] + n}

(* The cells a request is about, wherever the driver's pointers lead.      *)
BlockCells(lba) ==
  {c \in Cells : /\ FvOffset + BlockOffset(lba) <= c
                 /\ c < FvOffset + BlockOffset(lba) + BlockLength(lba)}
WriteCells(w) ==
  {c \in BlockCells(w.lba) :
     /\ FvOffset + BlockOffset(w.lba) + w.offset <= c
     /\ c < FvOffset + BlockOffset(w.lba) + w.offset + Len(w.data)}
EraseCells(list) ==
  {c \in Cells : \E i \in DOMAIN list : \E k \in 0 .. list[i][2] - 1 :
     LbaExists(list[i][1] + k) /\ c \in BlockCells(list[i][1] + k)}
RepairCells == {c \in Cells : FvOffset <= c /\ c < FvOffset + FwBlockSize}

-----------------------------------------------------------------------------
(* The calls a driver can be in.  grant, touched and clean are history:    *)
(* the cells the call is about, whether the chip executed a command of the *)
(* call, and whether all of them took effect undisturbed.                  *)

NoCall == [op |-> "none", list |-> <<>>, addr |-> 0, len |-> 0, index |-> 0,
           asked |-> 0, data |-> <<>>, grant |-> {}, touched |-> FALSE, clean |-> TRUE]

NoReply == [by |-> Runtime, op |-> "none", status |-> "SUCCESS", asked |-> 0, num |-> 0]

Waiting == {"eraseWait", "programWait"}
Active(d) == pc[d] \in {"erase", "program"} \cup Waiting
Halted == \E d \in Drivers : pc[d] = "hung"

(* An SMI stops every processor until the SMM driver has returned.         *)
MayRun(d) == ~Halted /\ (d = Smm \/ ~Active(Smm))

Idle == [cells |-> {}, before |-> [c \in Cells |-> Bits]]
Busy == chip.cells # {}

(* Mutant: the call record survives the return.                            *)
ReturnLeavingCall(d, cl, status) ==
  /\ pc' = [pc EXCEPT ![d] = "idle"]
  /\ reply' = [by |-> d, op |-> cl.op, status |-> status,
               asked |-> cl.asked, num |-> cl.len]
  /\ UNCHANGED call

(* Return from the call `cl' with a status.                                *)
Return(d, cl, status) ==
  /\ pc' = [pc EXCEPT ![d] = "idle"]
  /\ call' = [call EXCEPT ![d] = NoCall]
  /\ reply' = [by |-> d, op |-> cl.op, status |-> status,
               asked |-> cl.asked, num |-> cl.len]

(* Return without having started anything.                                 *)
Refuse(d, op, status) ==
  /\ reply' = [by |-> d, op |-> op, status |-> status, asked |-> 0, num |-> 0]
  /\ UNCHANGED <<pc, call>>

CountCall == calls < MaxCalls /\ calls' = calls + 1

-----------------------------------------------------------------------------
(* FvbProtocolSetAttributes                                                *)

(* Mutant: no test of the write-disabled capability.                       *)
SetAttributesNoWriteTest(old, req) ==
  IF old \cap Unchanged # req \cap Unchanged THEN "INVALID_PARAMETER"
  ELSE IF "LOCK_STATUS" \in old /\ old \cap StatusFlags # req \cap StatusFlags
       THEN "ACCESS_DENIED" ELSE "SUCCESS"

(* Mutant: a locked volume accepts a new status.                           *)
SetAttributesNoLock(old, req) ==
  IF \/ old \cap Unchanged # req \cap Unchanged
     \/ "WRITE_DISABLED_CAP" \notin old /\ "WRITE_STATUS" \notin req
     \/ "LOCK_CAP" \notin old /\ "LOCK_STATUS" \in req
  THEN "INVALID_PARAMETER" ELSE "SUCCESS"

(* FvbSetVolumeAttributes: the requested set `req' against the old one.    *)
SetAttributesStatus(old, req) ==
  LET Old == old \cap StatusFlags
      New == req \cap StatusFlags
  IN  IF old \cap Unchanged # req \cap Unchanged THEN "INVALID_PARAMETER"
      ELSE IF "LOCK_STATUS" \in old /\ Old # New THEN "ACCESS_DENIED"
      ELSE IF \/ "READ_DISABLED_CAP" \notin old /\ "READ_STATUS" \notin New
              \/ "READ_ENABLED_CAP" \notin old /\ "READ_STATUS" \in New
              \/ "WRITE_DISABLED_CAP" \notin old /\ "WRITE_STATUS" \notin New
              \/ "WRITE_ENABLED_CAP" \notin old /\ "WRITE_STATUS" \in New
              \/ "LOCK_CAP" \notin old /\ "LOCK_STATUS" \in New
           THEN "INVALID_PARAMETER"
      ELSE "SUCCESS"

SetAttributes(d, req) ==
  /\ MayRun(d) /\ pc[d] = "idle"
  /\ LET status == SetAttributesStatus(attrs[d], req)
     IN  /\ Refuse(d, "set", status)
         /\ attrs' = IF status = "SUCCESS"
                     THEN [attrs EXCEPT ![d] =
                             (@ \ StatusFlags) \cup (req \cap StatusFlags)]
                     ELSE attrs
  /\ UNCHANGED <<flash, chip, fvBase, devBase, goneVirtual, calls, losses>>

-----------------------------------------------------------------------------
(* FvbProtocolWrite                                                        *)

WriteStatus(d, w) ==
  IF Len(w.data) = 0 \/ ~LbaExists(w.lba) THEN "INVALID_PARAMETER"
  ELSE IF "WRITE_STATUS" \notin attrs[d] THEN "ACCESS_DENIED"
  ELSE IF w.offset > BlockLength(w.lba) THEN "INVALID_PARAMETER"
  ELSE "SUCCESS"

(* Mutant: no boundary check.                                              *)
NumBytesUnchecked(w) == Len(w.data)

(* *NumBytes after the boundary adjustment.                                *)
NumBytes(w) ==
  IF BlockLength(w.lba) < Len(w.data) + w.offset
  THEN BlockLength(w.lba) - w.offset ELSE Len(w.data)

(* FvbWriteBlock up to the SPI command; SpiProgramBuffer refuses an empty  *)
(* buffer, which is what is left of a write at the very end of a block.    *)
Write(d, w) ==
  /\ MayRun(d) /\ pc[d] = "idle" /\ CountCall
  /\ LET status == WriteStatus(d, w)
     IN  IF status # "SUCCESS" THEN Refuse(d, "write", status)
         ELSE IF NumBytes(w) = 0 THEN Refuse(d, "write", "INVALID_PARAMETER")
         ELSE /\ pc' = [pc EXCEPT ![d] = "program"]
              /\ call' = [call EXCEPT ![d] =
                   [NoCall EXCEPT !.op = "write",
                                  !.addr = FvbGetLbaAddress(d, w.lba) + w.offset,
                                  !.len = NumBytes(w), !.asked = Len(w.data),
                                  !.data = w.data, !.grant = WriteCells(w)]]
              /\ UNCHANGED reply
  /\ UNCHANGED <<flash, chip, attrs, fvBase, devBase, goneVirtual, losses>>

-----------------------------------------------------------------------------
(* FvbProtocolRead: FvbReadBlock, which unlike FvbWriteBlock reports a     *)
(* request cut at the end of its block.                                    *)

ReadStatus(d, w) ==
  IF Len(w.data) = 0 \/ ~LbaExists(w.lba) THEN "INVALID_PARAMETER"
  ELSE IF "READ_STATUS" \notin attrs[d] THEN "ACCESS_DENIED"
  ELSE IF w.offset > BlockLength(w.lba) THEN "INVALID_PARAMETER"
  ELSE IF NumBytes(w) < Len(w.data) THEN "BAD_BUFFER_SIZE"
  ELSE "SUCCESS"

(* *NumBytes on return; a call that is refused leaves it alone.            *)
BytesRead(d, w) ==
  IF ReadStatus(d, w) \in {"SUCCESS", "BAD_BUFFER_SIZE"} THEN NumBytes(w)
  ELSE Len(w.data)

Read(d, w) ==
  /\ MayRun(d) /\ pc[d] = "idle"
  /\ reply' = [by |-> d, op |-> "read", status |-> ReadStatus(d, w),
               asked |-> Len(w.data), num |-> BytesRead(d, w)]
  /\ UNCHANGED <<flash, chip, pc, call, attrs, fvBase, devBase, goneVirtual,
                 calls, losses>>

-----------------------------------------------------------------------------
(* FvbProtocolEraseBlocks                                                  *)

(* Mutant: only the first range of the list is verified.                   *)
FirstRangeRefused(list) ==
  list # <<>> /\ (list[1][2] = 0 \/ list[1][1] + list[1][2] > NumOfBlocks)

(* The first pass over the argument list, before anything is erased.       *)
ListRefused(list) ==
  \E i \in DOMAIN list :
    \/ list[i][2] = 0
    \/ (list[i][1] + list[i][2]) % LbaModulus > NumOfBlocks

(* What FvbEraseBlock and the head of SpiSectorsErase make of an LBA.      *)
EraseBlockStatus(d, lba) ==
  IF "WRITE_STATUS" \notin attrs[d] THEN "ACCESS_DENIED"
  ELSE IF ~LbaExists(lba) THEN "INVALID_PARAMETER"
  ELSE IF \/ FvbGetLbaAddress(d, lba) = 0
          \/ BlockLength(lba) % SectorSize # 0 THEN "INVALID_PARAMETER"
  ELSE "SUCCESS"

(* Mutant: one block of each range is erased.                              *)
AdvanceRange(list) == Tail(list)

(* The argument list once its first block is erased.  (The LBA does not    *)
(* wrap: the walk ends at the first block that does not exist.)            *)
Advance(list) ==
  IF list[1][2] > 1
  THEN [list EXCEPT ![1] = <<list[1][1] + 1, list[1][2] - 1>>]
  ELSE Tail(list)

(* The second pass reaches `list', in the call `cl'.                       *)
EraseFrom(d, cl, list) ==
  LET lba == list[1][1]
  IN  IF list = <<>> THEN Return(d, cl, "SUCCESS")
      ELSE IF EraseBlockStatus(d, lba) # "SUCCESS"
           THEN Return(d, cl, EraseBlockStatus(d, lba))
      ELSE /\ pc' = [pc EXCEPT ![d] = "erase"]
           /\ call' = [call EXCEPT ![d] =
                [cl EXCEPT !.list = list, !.addr = FvbGetLbaAddress(d, lba),
                           !.len = BlockLength(lba), !.index = 0]]
           /\ UNCHANGED reply

EraseBlocks(d, list) ==
  /\ MayRun(d) /\ pc[d] = "idle" /\ CountCall
  /\ IF ListRefused(list) THEN Refuse(d, "erase", "INVALID_PARAMETER")
     ELSE EraseFrom(d, [NoCall EXCEPT !.op = "erase", !.grant = EraseCells(list)], list)
  /\ UNCHANGED <<flash, chip, attrs, fvBase, devBase, goneVirtual, losses>>

-----------------------------------------------------------------------------
(* The SPI protocol and the chip.                                          *)

(* The chip executes a command of driver d that leaves `new' in `cells'.   *)
(* A call of the other driver on the same cells is disturbed by it.        *)
Execute(d, cells, new, next) ==
  /\ flash' = [c \in Cells |-> IF c \in cells THEN new[c] ELSE flash[c]]
  /\ chip' = [cells |-> cells, before |-> flash]
  /\ pc' = [pc EXCEPT ![d] = next]
  /\ call' = [e \in Drivers |->
       IF e = d THEN [call[e] EXCEPT !.touched = TRUE]
       ELSE [call[e] EXCEPT !.clean = @ /\ (cells \cap call[e].grant = {})]]
  /\ UNCHANGED reply

(* The protocol reports success and the chip leaves its cells as they are: *)
(* it was write-protected, or busy with a command of the preempted driver. *)
Ignored(d, next) ==
  /\ pc' = [pc EXCEPT ![d] = next]
  /\ call' = [call EXCEPT ![d].clean = FALSE]
  /\ UNCHANGED <<flash, chip, reply>>

(* An SPI error ends the loop of SpiSectorsErase and SpiWaitBusy; the code *)
(* returns it to the client, asserts on it after the repair's erase and    *)
(* drops it after the repair's write, which a comparison then checks.      *)
HeaderCells(img) == {c \in Cells : FvOffset <= c /\ c < FvOffset + Len(img)}
Holds(mem, img) ==
  \A i \in DOMAIN img : FvOffset + i - 1 \in Cells /\ mem[FvOffset + i - 1] = img[i]
HeaderValid(mem) == \E img \in HeaderImages : Holds(mem, img)

(* The two ASSERT(0)s of the repair.                                       *)
AssertAndGoTo(d, condition, next) ==
  /\ pc' = [pc EXCEPT ![d] = IF AssertHalts /\ ~condition THEN "hung" ELSE next]
  /\ UNCHANGED reply

(* The end of the repair: CompareMem of the header.                        *)
RepairDone(d) ==
  /\ AssertAndGoTo(d, Holds(flash, DefaultHeader), "idle")
  /\ call' = [call EXCEPT ![d] = NoCall]
  /\ attrs' = [attrs EXCEPT ![d] = HeaderAttributes[DefaultHeader]]

(* Mutant: the variable store header is not written.                       *)
RepairVolumeHeader == DefaultHeader

(* What the repair writes: the first HeaderLength + sizeof(VAR_STORE_-     *)
(* HEADER) bytes of HeaderTmp.                                             *)
RepairImage == DefaultHeader \o VarStoreImage

(* After the repair's erase, SpiProgramBuffer gets the two headers.        *)
RepairProgram(d, condition, clean) ==
  /\ AssertAndGoTo(d, condition, "program")
  /\ call' = [call EXCEPT ![d] =
       [@ EXCEPT !.data = RepairImage, !.len = Len(RepairImage),
                 !.addr = fvBase[d].physical, !.clean = clean]]

SpiError(d) ==
  /\ MayRun(d) /\ Active(d)
  /\ IF call[d].op # "repair" THEN Return(d, call[d], "DEVICE_ERROR") /\ UNCHANGED attrs
     ELSE IF pc[d] \in {"erase", "eraseWait"}
          THEN RepairProgram(d, FALSE, FALSE) /\ UNCHANGED attrs
     ELSE RepairDone(d)
  /\ UNCHANGED <<flash, chip, fvBase, devBase, goneVirtual, calls, losses>>

(* One turn of the loop of SpiSectorsErase: opcode 7 on the next sector.   *)
EraseSector(d) ==
  /\ MayRun(d) /\ pc[d] = "erase"
  /\ LET cells == SpiCells(d, call[d].addr + call[d].index * SectorSize, SectorSize)
     IN  \/ ~Busy /\ Execute(d, cells, [c \in Cells |-> Bits], "eraseWait")
         \/ Ignored(d, "eraseWait")
  /\ UNCHANGED <<attrs, fvBase, devBase, goneVirtual, calls, losses>>

(* Mutant: Index++ forgotten.                                              *)
SameSector(cl) == cl

NextSector(cl) == [cl EXCEPT !.index = @ + 1]

(* The status register no longer reads busy: next sector, next block, or   *)
(* the rest of the repair.                                                 *)
SectorErased(d) ==
  /\ MayRun(d) /\ pc[d] = "eraseWait" /\ ~Busy
  /\ LET cl == NextSector(call[d])
     IN  IF cl.index < cl.len \div SectorSize
         THEN /\ pc' = [pc EXCEPT ![d] = "erase"]
              /\ call' = [call EXCEPT ![d] = cl]
              /\ UNCHANGED reply
         ELSE IF cl.op = "repair" THEN RepairProgram(d, TRUE, cl.clean)
         ELSE EraseFrom(d, cl, Advance(cl.list))
  /\ UNCHANGED <<flash, chip, attrs, fvBase, devBase, goneVirtual, calls, losses>>

(* SpiProgramBuffer: opcode 0.  Its CompareMem only logs.                  *)
Program(d) ==
  /\ MayRun(d) /\ pc[d] = "program"
  /\ LET cl == call[d]
         first == cl.addr - devBase[d]
     IN  \/ /\ ~Busy
            /\ Execute(d, SpiCells(d, cl.addr, cl.len),
                       [c \in Cells |-> IF c - first + 1 \in DOMAIN cl.data
                                        THEN flash[c] \cap cl.data[c - first + 1]
                                        ELSE flash[c]],
                       "programWait")
         \/ Ignored(d, "programWait")
  /\ UNCHANGED <<attrs, fvBase, devBase, goneVirtual, calls, losses>>

(* SpiWaitBusy reads an idle status and SpiProgramBuffer returns it: in    *)
(* FvbWriteBlock that status replaces EFI_BAD_BUFFER_SIZE.                 *)
Programmed(d) ==
  /\ MayRun(d) /\ pc[d] = "programWait" /\ ~Busy
  /\ IF call[d].op = "repair" THEN RepairDone(d)
     ELSE Return(d, call[d], "SUCCESS") /\ UNCHANGED attrs
  /\ UNCHANGED <<flash, chip, fvBase, devBase, goneVirtual, calls, losses>>

(* The chip finishes the command it is busy with.                          *)
FlashReady ==
  /\ Busy
  /\ chip' = Idle
  /\ UNCHANGED <<flash, pc, call, reply, attrs, fvBase, devBase, goneVirtual,
                 calls, losses>>

-----------------------------------------------------------------------------
(* FvbInitialize: the dispatcher loads one driver at a time.               *)
Loading(d) ==
  /\ ~Halted /\ pc[d] = "off" /\ \A e \in Drivers : ~Active(e)

(* ValidateFvHeader accepts the header in flash.                           *)
FvbInitialize(d) ==
  /\ Loading(d) /\ HeaderValid(flash)
  /\ LET img == CHOOSE h \in HeaderImages : Holds(flash, h)
     IN  attrs' = [attrs EXCEPT ![d] = HeaderAttributes[img]]
  /\ pc' = [pc EXCEPT ![d] = "idle"]
  /\ UNCHANGED <<flash, chip, call, reply, fvBase, devBase, goneVirtual, calls, losses>>

(* It does not: write the default header back, if there is one.  The rest  *)
(* of the block is erased with the header.                                 *)
FvbInitializeRepair(d) ==
  /\ Loading(d) /\ ~HeaderValid(flash)
  /\ IF HasFvbInfo
     THEN /\ pc' = [pc EXCEPT ![d] = "erase"]
          /\ call' = [call EXCEPT ![d] =
               [NoCall EXCEPT !.op = "repair", !.addr = fvBase[d].physical,
                              !.len = FwBlockSize, !.grant = RepairCells]]
     ELSE /\ pc' = [pc EXCEPT ![d] = "absent"]
          /\ UNCHANGED call
  /\ UNCHANGED <<flash, chip, reply, attrs, fvBase, devBase, goneVirtual, calls, losses>>

(* FvbVirtualddressChangeEvent, and EfiGoneVirtual from then on.           *)
ConvertPointer(p) == p + VirtualDelta
(* Mutant: gDeviceBaseAddress stays physical.                              *)
PhysicalDeviceBase == devBase
ConvertedDeviceBase == [devBase EXCEPT ![Runtime] = ConvertPointer(@)]

FvbVirtualddressChangeEvent ==
  /\ MayRun(Runtime) /\ pc[Runtime] = "idle" /\ ~goneVirtual
  /\ fvBase' = [fvBase EXCEPT ![Runtime].virtual = ConvertPointer(@)]
  /\ devBase' = ConvertedDeviceBase
  /\ goneVirtual' = TRUE
  /\ UNCHANGED <<flash, chip, pc, call, reply, attrs, calls, losses>>

(* Any of the cells of the command in progress may be left as it was.      *)
PowerLoss ==
  /\ losses < MaxPowerLosses /\ losses' = losses + 1
  /\ \E torn \in SUBSET chip.cells :
       flash' = [c \in Cells |-> IF c \in torn THEN chip.before[c] ELSE flash[c]]
  /\ chip' = Idle
  /\ pc' = [d \in Drivers |-> "off"]
  /\ call' = [d \in Drivers |-> NoCall]
  /\ reply' = NoReply
  /\ attrs' = [d \in Drivers |-> {}]
  /\ fvBase' = [d \in Drivers |-> [physical |-> DeviceBase + FvOffset,
                                   virtual |-> DeviceBase + FvOffset]]
  /\ devBase' = [d \in Drivers |-> DeviceBase]
  /\ goneVirtual' = FALSE
  /\ UNCHANGED calls

-----------------------------------------------------------------------------
(* The volume starts with one of the valid headers or a damaged one.       *)
Init ==
  /\ \E img \in HeaderImages \cup {<<{}>>}, rest \in Contents :
       flash = [c \in Cells |-> IF c \in HeaderCells(img)
                                THEN img[c - FvOffset + 1] ELSE rest[c]]
  /\ chip = Idle
  /\ pc = [d \in Drivers |-> "off"]
  /\ call = [d \in Drivers |-> NoCall]
  /\ reply = NoReply
  /\ attrs = [d \in Drivers |-> {}]
  /\ fvBase = [d \in Drivers |-> [physical |-> DeviceBase + FvOffset,
                                  virtual |-> DeviceBase + FvOffset]]
  /\ devBase = [d \in Drivers |-> DeviceBase]
  /\ goneVirtual = FALSE
  /\ calls = 0 /\ losses = 0

Protocol(d) ==
  \/ \E req \in AttributeRequests : SetAttributes(d, req)
  \/ \E w \in WriteRequests : Write(d, w)
  \/ \E w \in ReadRequests : Read(d, w)
  \/ \E list \in EraseRequests : EraseBlocks(d, list)

(* What a driver does on its own once it has been called or loaded.        *)
Work(d) == EraseSector(d) \/ SectorErased(d) \/ Program(d) \/ Programmed(d)

DriverNext(d) ==
  \/ Protocol(d) \/ Work(d) \/ SpiError(d)
  \/ FvbInitialize(d) \/ FvbInitializeRepair(d)

-----------------------------------------------------------------------------
(* FWBlockServiceSmm.c is its own copy of that code: its functions pass    *)
(* FALSE for EfiGoneVirtual(), it has no event for the address switch, and *)
(* FvbInitializeSmm works in SMM only (outside, it registers its image     *)
(* there, whereupon it is entered again).                                  *)

SmmSetAttributes(req) == SetAttributes(Smm, req)
SmmWrite(w) == Write(Smm, w)
SmmRead(w) == Read(Smm, w)
SmmEraseBlocks(list) == EraseBlocks(Smm, list)
SmmProtocol ==
  \/ \E req \in AttributeRequests : SmmSetAttributes(req)
  \/ \E w \in WriteRequests : SmmWrite(w)
  \/ \E w \in ReadRequests : SmmRead(w)
  \/ \E list \in EraseRequests : SmmEraseBlocks(list)

SmmEraseSector == EraseSector(Smm)
SmmSectorErased == SectorErased(Smm)
SmmProgram == Program(Smm)
SmmProgrammed == Programmed(Smm)
SmmWork == SmmEraseSector \/ SmmSectorErased \/ SmmProgram \/ SmmProgrammed

SmmSpiError == SpiError(Smm)

SmmLoading == Loading(Smm)
SmmFvbInitialize == SmmLoading /\ FvbInitialize(Smm)
SmmFvbInitializeRepair == SmmLoading /\ FvbInitializeRepair(Smm)

SmmNext ==
  \/ SmmProtocol \/ SmmWork \/ SmmSpiError
  \/ SmmFvbInitialize \/ SmmFvbInitializeRepair

-----------------------------------------------------------------------------
Next ==
  \/ \E d \in Drivers \ {Smm} : DriverNext(d)
  \/ SmmNext
  \/ FlashReady
  \/ FvbVirtualddressChangeEvent
  \/ PowerLoss

Spec == Init /\ [][Next]_vars

(* A running driver keeps executing its code, and the chip ends commands.  *)
FairSpec == Spec /\ WF_vars(FlashReady) /\ \A d \in Drivers : WF_vars(Work(d))

-----------------------------------------------------------------------------
(* Every variable holds the kind of value the code keeps there, and a      *)
(* driver is at work exactly while a call or the repair is open.           *)
CallRecord ==
  [op : {"none", "write", "erase", "repair"}, list : Seq(Nat \X Nat), addr : Int,
   len : Nat, index : Nat, asked : Nat, data : Seq(Cell),
   grant : SUBSET Cells, touched : BOOLEAN, clean : BOOLEAN]

TypeOK ==
  /\ flash \in [Cells -> Cell]
  /\ chip \in [cells : SUBSET Cells, before : [Cells -> Cell]]
  /\ pc \in [Drivers -> {"off", "absent", "idle", "erase", "eraseWait",
                         "program", "programWait", "hung"}]
  /\ call \in [Drivers -> CallRecord]
  /\ reply \in [by : Drivers, op : {"none", "set", "read", "write", "erase"},
                status : Status, asked : Nat, num : Nat]
  /\ attrs \in [Drivers -> SUBSET Flags]
  /\ fvBase \in [Drivers -> [physical : Int, virtual : Int]]
  /\ devBase \in [Drivers -> Int]
  /\ goneVirtual \in BOOLEAN /\ calls \in Nat /\ losses \in Nat
  /\ \A d \in Drivers : pc[d] # "hung" => (Active(d) <=> call[d].op # "none")

(* FvbSetVolumeAttributes (L816-947) never leaves a status the volume's    *)
(* capabilities exclude, along any sequence of requests.                   *)
StatusWithinCapabilities ==
  \A d \in Drivers : pc[d] = "idle" => StatusAllowed(attrs[d])

(* The byte of the write `cl' that belongs into cell c.                    *)
Asked(cl, c) == cl.data[c - (CHOOSE b \in cl.grant : \A x \in cl.grant : b <= x) + 1]

(* Driver d returns from a call with the status `st'.                      *)
Returns(d, op, st) ==
  /\ call[d].op = op /\ pc'[d] = "idle" /\ reply'.by = d /\ reply'.status = st

(* FvbProtocolEraseBlocks returning EFI_SUCCESS has erased every cell of   *)
(* every block of its list, over all sectors, blocks and ranges, unless    *)
(* the chip ignored a command or the SMM driver wrote there meanwhile.     *)
EraseSuccessMeansErased ==
  [][\A d \in Drivers : Returns(d, "erase", "SUCCESS") /\ call[d].clean =>
       \A c \in call[d].grant : flash'[c] = Bits]_vars

(* FvbProtocolWrite returning EFI_SUCCESS has cleared in each cell it was  *)
(* asked to write (up to the block's end) every bit the data has clear,    *)
(* under the same proviso.                                                 *)
WriteSuccessMeansProgrammed ==
  [][\A d \in Drivers : Returns(d, "write", "SUCCESS") /\ call[d].clean =>
       \A c \in call[d].grant :
         flash'[c] \subseteq Asked(call[d], c)]_vars

(* A call that is refused (EFI_INVALID_PARAMETER, EFI_ACCESS_DENIED) has   *)
(* not had the chip execute anything: the whole list is verified before    *)
(* any block is erased (FvbProtocolEraseBlocks, L1126-1145).               *)
RefusedMeansUntouched ==
  [][\A d \in Drivers :
       /\ pc'[d] = "idle" /\ reply'.by = d
       /\ reply'.status \in {"INVALID_PARAMETER", "ACCESS_DENIED"}
       => ~call[d].touched]_vars

(* Once every driver's copy of the attributes is locked with writing       *)
(* disabled, the chip keeps its contents and the attributes stay until the *)
(* next power loss.                                                        *)
Frozen ==
  /\ ~Busy
  /\ \A d \in Drivers : /\ pc[d] = "idle"
                        /\ "LOCK_STATUS" \in attrs[d] /\ "WRITE_STATUS" \notin attrs[d]
FrozenUntilPowerLoss ==
  [][Frozen => flash' = flash /\ (Frozen' \/ losses' # losses)]_vars

(* A repair by FvbInitialize whose commands all took effect leaves both    *)
(* headers in flash, whatever state a power loss left the block in.        *)
RepairRestoresHeaders ==
  [][\A d \in Drivers :
       call[d].op = "repair" /\ call[d].clean /\ pc[d] = "programWait"
         /\ pc'[d] \notin {"programWait", "off"} =>
        Holds(flash', DefaultHeader \o VarStoreImage)]_vars

(* Every call returns or dies with the power: the loops of                 *)
(* SpiSectorsErase, SpiWaitBusy and FvbProtocolEraseBlocks end.            *)
CallsReturn == \A d \in Drivers : Active(d) ~> ~Active(d)

(* The drivers implement the contract.                                     *)
Contract == INSTANCE FvbContract WITH
  open <- [d \in Drivers |-> call[d].grant], unfinished <- chip.cells
ImplementsContract == Contract!Spec

-----------------------------------------------------------------------------
(* FWBlockService.c:1191 "If the writes do not stick, it will return an    *)
(* error": a write that returns EFI_SUCCESS has left its data in flash.    *)
SuccessfulWriteSticks ==
  [][\A d \in Drivers : Returns(d, "write", "SUCCESS") =>
       \A c \in call[d].grant :
         flash'[c] = Asked(call[d], c)]_vars

(* FWBlockService.c:689 "EFI_BAD_BUFFER_SIZE - Write attempted across a    *)
(* LBA boundary": a write cut short at the boundary does not return        *)
(* EFI_SUCCESS.                                                            *)
ShortWriteIsReported ==
  reply.op = "write" /\ reply.status = "SUCCESS" => reply.num = reply.asked
=============================================================================
