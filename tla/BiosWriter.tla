------------------------------ MODULE BiosWriter ------------------------------
(***************************************************************************)
(* The session of Applications/BiosWriter.c around the update of SpiFlash: *)
(* the tool is started, its menu reads the flash into a file on the USB    *)
(* drive, saves configuration tables and registers there, and updates the  *)
(* flash from a file.  All of them share the buffer gBuf and, by accident, *)
(* the variable Status.  The session has to end in a SpiFlash update only  *)
(* with the whole, right file in the buffer.                               *)
(*                                                                         *)
(* A sector of the chip is the unit in which a dump is written to the      *)
(* drive (BUFFER_SIZE) as well.                                            *)
(***************************************************************************)
EXTENDS SpiFlash, Sequences

CONSTANTS
  Junk,           \* a page of anything that is not flash contents
  Boards,         \* boards and builds: the records below
  RomFiles,       \* what BiosRom.bin on the drive may be
  AcpiLayouts,    \* where the firmware has put its ACPI tables
  AddressLimit,   \* 2^32
  WordSize,       \* bytes of a UINT32
  DumpUnit,       \* the size of an ACPI dump is a multiple of it (0x100)
  MaxAcpiDump     \* and not above this (0x80000)

(* legal: pchFlashSize is 8 or 16 Mbytes; even: it is a multiple of        *)
(* BUFFER_SIZE; compares: built without GBYTEH77.                          *)
Board == [legal : BOOLEAN, even : BOOLEAN, compares : BOOLEAN]
(* size: the file's against the chip's.                                    *)
RomFile == [size : {"same", "shorter"}, data : [Sectors -> [Page -> Contents]]]
(* A table is where it is and how long; rsdt, xsdt and dsdt are tables.    *)
(* The pointers of the RSDT and the FADT have 32 bits, like addr_min and   *)
(* addr_max: no table lies above 4 GB.                                     *)
Table == {t \in [at : 0 .. AddressLimit - 1, len : 0 .. AddressLimit - 1] :
            t.at + t.len < AddressLimit}
AcpiLayout == [rsdp : 0 .. AddressLimit - DumpUnit - 1, rsdt : Table, xsdt : Table,
               tables : SUBSET Table, dsdt : Table]

ASSUME SessionAssumption ==
  /\ Junk \in Other
  /\ Boards \subseteq {b \in Board : b.legal => b.even}
  /\ \A f \in RomFiles : f \in RomFile /\ f.data \in Images
  /\ \A l \in AcpiLayouts : l \in AcpiLayout
  /\ WordSize \in Nat \ {0} /\ DumpUnit \in Nat \ {0} /\ MaxAcpiDump \in Nat
  /\ AddressLimit \in Nat

VARIABLES
  board,          \* the board the tool runs on
  at,             \* where the session is
  usb,            \* gFlagUsb: the drive the tool was started from is known
  buf,            \* gBuf outside an update
  failed,         \* EFI_ERROR(Status)
  rom,            \* the file opened for the update
  left,           \* tmpBiosSize, in units of BUFFER_SIZE
  dump,           \* what has been written of BiosDump.bin
  quiet,          \* history: no cycle was running when the dump was taken
  acpiDump        \* the last ACPI dump, if it is the last thing done: its layout and its range

session == <<board, at, usb, buf, failed, rom, left, dump, quiet, acpiDump>>

-----------------------------------------------------------------------------
Filled == [s \in Sectors |-> [p \in Page |-> Junk]]
NoBoard == [legal |-> FALSE, even |-> FALSE, compares |-> FALSE]
NoRom == [size |-> "same", data |-> Filled]

(* The tool has ended, or has not been started.                            *)
Ended == /\ board' = NoBoard /\ usb' = FALSE /\ buf' = Filled /\ failed' = FALSE /\ rom' = NoRom
         /\ left' = 0 /\ dump' = <<>> /\ quiet' = TRUE /\ acpiDump' = {}
Leave == at' = "off" /\ Ended

(* The entry point: initSpi, the descriptor, a zeroed buffer, the search   *)
(* for the drive.  It leaves at once on an unknown chipset, an image path  *)
(* of another form, or without memory.                                     *)
StartTool ==
  /\ at = "off" /\ NewRun
  /\ at' = "menu"
  /\ board' \in Boards /\ usb' \in BOOLEAN
  /\ UNCHANGED <<buf, failed, rom, left, dump, quiet, acpiDump>>

Quit == at = "menu" /\ Leave

-----------------------------------------------------------------------------
(* 'r': read the flash.                                                    *)

DumpStarts ==
  /\ at = "menu" /\ usb
  /\ at' = "dump"
  /\ buf' = chip[cs] /\ quiet' = ~cycle.scip
  /\ left' = NumSectors /\ dump' = <<>>
  /\ acpiDump' = {}
  /\ UNCHANGED <<board, usb, failed, rom>>

(* BiosDump.bin cannot be created: the tool ends.                          *)
DumpRefused == at = "menu" /\ usb /\ Leave

(* Mutant: tmpBuf is not advanced.                                         *)
FirstPart == buf[0]

(* The part of the buffer tmpBuf points to.                                *)
NextPart == IF left = 0 THEN Filled[0] ELSE buf[NumSectors - left]

(* The loop ends when tmpBiosSize is zero, which it never is on a chip     *)
(* whose size is no multiple of BUFFER_SIZE: the 32-bit counter goes below *)
(* zero and the loop goes on behind the chip's contents.                   *)
DumpEnds ==
  /\ at = "dump" /\ left = 0 /\ board.even
  /\ at' = "menu" /\ failed' = FALSE
  /\ left' = 0 /\ dump' = <<>> /\ quiet' = TRUE
  /\ UNCHANGED <<board, usb, buf, rom, acpiDump>>

DumpPart ==
  /\ at = "dump" /\ (left > 0 \/ ~board.even)
  /\ dump' = IF left > 0 THEN Append(dump, NextPart) ELSE dump
  /\ left' = IF left > 0 THEN left - 1 ELSE 0
  /\ UNCHANGED <<board, at, usb, buf, failed, rom, quiet, acpiDump>>

(* The drive is full or gone.                                              *)
DumpFails ==
  /\ at = "dump" /\ (left > 0 \/ ~board.even)
  /\ at' = "menu" /\ failed' = TRUE
  /\ left' = 0 /\ dump' = <<>> /\ quiet' = TRUE
  /\ UNCHANGED <<board, usb, buf, rom, acpiDump>>

-----------------------------------------------------------------------------
(* 'i', 'o': tables and registers.                                         *)

Overwritten(n) == [s \in Sectors |-> IF s < n THEN Filled[s] ELSE buf[s]]

(* SaveToUsb copies into the buffer when it has created the file.          *)
SaveToUsb == usb /\ \E n \in 1 .. NumSectors : buf' = Overwritten(n)
Kept == UNCHANGED <<board, at, usb, failed, rom, left, dump, quiet>>

(* The SMBIOS header and table; without a drive nothing is copied.         *)
SaveSmbios == at = "menu" /\ SaveToUsb /\ acpiDump' = {} /\ Kept

(* The NVS areas, SaPolicy and OpRegion go through the buffer before they  *)
(* are displayed, whether or not they are then saved; dumpSio reads the  *)
(* registers of the super I/O into it.                                     *)
ShowNvs == at = "menu" /\ buf' = Overwritten(1) /\ acpiDump' = {} /\ Kept
DumpSio == at = "menu" /\ buf' = Overwritten(1) /\ acpiDump' = {} /\ Kept

(* 'a': the lowest start and the highest end of all that is found.  Ends   *)
(* are taken in UINT32s, but that of the XSDT.                             *)
MinOf(S) == CHOOSE x \in S : \A y \in S : x <= y
MaxOf(S) == CHOOSE x \in S : \A y \in S : x >= y
EndOf(t) == t.at + (t.len \div WordSize) * WordSize
Starts(l) == {l.rsdp, l.rsdt.at, l.xsdt.at, l.dsdt.at} \cup {t.at : t \in l.tables}

(* Mutant: the DSDT is reached through the FADT, and forgotten.            *)
EndsWithoutDsdt(l) ==
  {l.rsdp + DumpUnit, EndOf(l.rsdt), l.xsdt.at + l.xsdt.len}
    \cup {EndOf(t) : t \in l.tables}

Ends(l) == {l.rsdp + DumpUnit, EndOf(l.rsdt), l.xsdt.at + l.xsdt.len, EndOf(l.dsdt)}
             \cup {EndOf(t) : t \in l.tables}

RoundUp(n) == ((n + DumpUnit - 1) \div DumpUnit) * DumpUnit

SaveAcpi ==
  /\ at = "menu" /\ SaveToUsb
  /\ \E l \in AcpiLayouts :
       LET from == MinOf(Starts(l))
           size == MaxOf(Ends(l)) - from
       IN  /\ size <= MaxAcpiDump
           /\ acpiDump' = {[layout |-> l, from |-> from, to |-> from + RoundUp(size)]}
  /\ Kept

-----------------------------------------------------------------------------
(* 'w': update the flash.  Every way out but the update ends the tool.     *)

AskWrite ==
  /\ at = "menu" /\ usb
  /\ at' = "write" /\ acpiDump' = {}
  /\ UNCHANGED <<board, usb, buf, failed, rom, left, dump, quiet>>

(* The BIOS region in the file's descriptor is the chip's, starts or ends  *)
(* elsewhere.  It is read with `status', and the test that follows is of   *)
(* Status: what is left of the last dump decides, and if the read has      *)
(* failed the region is whatever the stack holds, any of the three.        *)
RegionRead == {"same", "start", "end"}

(* Mutant: no test of the file's size.                                     *)
AnySize(f) == TRUE

SizeMatches(f) == f.size = "same"

Accepted(f, region) ==
  /\ board.legal /\ ~failed
  /\ board.compares => region = "same"
  /\ SizeMatches(f)
  /\ region # "end"

OpenRom ==
  /\ at = "write"
  /\ \E f \in RomFiles : \E region \in RegionRead :
       /\ Accepted(f, region)
       /\ rom' = f
  /\ at' = "confirm"
  /\ UNCHANGED <<board, usb, buf, failed, left, dump, quiet, acpiDump>>

(* Declined, no file, or a file that is refused.                           *)
RomRefused == at = "write" /\ Leave

(* Declined (GIGABYTE_H77 does not ask), or the file cannot be read.       *)
WriteRefused == at = "confirm" /\ Leave

(* The whole file goes to the buffer: as much of it as there is.           *)
FileRead(f) ==
  [s \in Sectors |-> IF f.size = "shorter" /\ s = NumSectors - 1 THEN buf[s]
                     ELSE f.data[s]]

UpdateStarts ==
  /\ at = "confirm" /\ pc = "fin"
  /\ file' = rom.data /\ gBuf' = FileRead(rom)
  /\ pc' = "loop" /\ pass' = 1 /\ sector' = First
  /\ at' = "update" /\ Ended
  /\ UNCHANGED <<build, chip, cs, bioswe, cycle, page, erases, saved>>

(* The update, to its end: back in the shell, or the power is off.         *)
Update ==
  /\ at = "update" /\ Tool
  /\ at' = IF pc' = "fin" THEN "off" ELSE "update"
  /\ UNCHANGED <<board, usb, buf, failed, rom, left, dump, quiet, acpiDump>>

-----------------------------------------------------------------------------
SessionInit ==
  /\ Init
  /\ board = NoBoard
  /\ at = "off" /\ usb = FALSE /\ buf = Filled /\ failed = FALSE /\ rom = NoRom
  /\ left = 0 /\ dump = <<>> /\ quiet = TRUE /\ acpiDump = {}

Menu ==
  \/ Quit
  \/ DumpStarts \/ DumpRefused \/ DumpPart \/ DumpEnds \/ DumpFails
  \/ SaveSmbios \/ ShowNvs \/ DumpSio \/ SaveAcpi
  \/ AskWrite \/ OpenRom \/ RomRefused \/ WriteRefused

SessionNext ==
  \/ StartTool
  \/ Menu /\ UNCHANGED vars
  \/ UpdateStarts
  \/ Update
  \/ CycleEnds /\ UNCHANGED session
  \/ PowerOff /\ UNCHANGED session

SessionSpec == SessionInit /\ [][SessionNext]_<<vars, session>>

(* The tool keeps running once an update has been started.                 *)
FairSession == SessionSpec /\ WF_<<vars, session>>(Update)

-----------------------------------------------------------------------------
(* The session and the update together behave as SpiFlash says: whatever   *)
(* has been dumped and saved through gBuf before, whatever the descriptor  *)
(* was read as, an update begins with all of a file of the chip's size in  *)
(* the buffer (BiosWriter.c, the branch of 'w'), and nothing else of the   *)
(* session disturbs it or touches the flash.                               *)
UpdatesAsSpecified == Spec

(* "Save current BIOS in file ... OK": the file holds the chip, sector by  *)
(* sector, unless a cycle that an earlier run gave up waiting for was      *)
(* still changing it.                                                      *)
DumpIsChip ==
  [][DumpEnds /\ quiet =>
       Len(dump) = NumSectors /\ \A s \in Sectors : dump[s + 1] = chip[cs][s]]_<<vars, session>>

(* An ACPI dump that is saved holds the root pointer and every table, but  *)
(* for what is left of a table's length after its last whole UINT32.       *)
AcpiDumpHoldsTables ==
  \A d \in acpiDump :
    LET l == d.layout
    IN  /\ d.from <= l.rsdp /\ l.rsdp + DumpUnit <= d.to
        /\ \A t \in l.tables \cup {l.rsdt, l.xsdt, l.dsdt} :
             d.from <= t.at /\ t.at + t.len < d.to + WordSize
=============================================================================
