------------------------------- MODULE SpiFlash -------------------------------
(***************************************************************************)
(* The BIOS update of Applications/BiosWriter.c over the SPI flash writer  *)
(* Applications/SpiFlash.c: sector by sector, erase until blank, program   *)
(* the pages, verify, compare the whole region, restart.  On the board     *)
(* with two flash chips the second one is erased afterwards.               *)
(*                                                                         *)
(* The controller runs an erase or program cycle by itself.  The tool      *)
(* waits for it with a timeout, so a cycle can outlast the call, and the   *)
(* run of the tool, that started it.                                       *)
(***************************************************************************)
EXTENDS Naturals

CONSTANTS
  NumSectors,     \* sectors of a chip, pchFlashSize
  First, Last,    \* the BIOS region of the chipset's descriptor, pchRegion
  Pages,          \* pages of a sector (64 of 64 bytes in the code)
  Blank,          \* a page of erased bytes
  Word00FF,       \* a page of DWORDs 0x000000ff
  Other,          \* any other contents a page can have
  Images,         \* the image files: sector -> page -> contents
  Factory,        \* what the chips may hold at first: sector -> page -> contents
  Builds          \* subset of {"one chip", "two chips"}: GIGABYTE_H77 or not

Sectors == 0 .. NumSectors - 1
Region == First .. Last
Page == 1 .. Pages
Contents == {Blank, Word00FF} \cup Other
Chip == {0, 1}

ASSUME GeometryAssumption ==
  /\ NumSectors \in Nat /\ First \in Nat /\ Last \in Nat /\ Pages \in Nat \ {0}
  /\ First <= Last /\ Last < NumSectors
ASSUME ContentsAssumption == Blank # Word00FF /\ Blank \notin Other /\ Word00FF \notin Other
ASSUME ImagesAssumption ==
  /\ Images \subseteq [Sectors -> [Page -> Contents]]
  /\ Factory \subseteq [Sectors -> [Page -> Contents]]
  /\ Builds \subseteq {"one chip", "two chips"}

VARIABLES
  build,          \* the build of the tool
  chip,           \* contents of the flash chips
  cs,             \* the chip selected by bit 0 of register 0xef of the super I/O
  bioswe,         \* BIOS_CNTL.BIOSWE
  cycle,          \* the controller: SSFS_SCIP, SSFS_DONE and the cycle it runs
  pc,             \* where the tool is
  file,           \* the image file written
  gBuf,           \* the buffer: the file, then blank for the second chip
  pass,           \* 1: the boot chip, 2: the second chip
  sector,         \* actAddr
  page,           \* tmp_addr within the sector
  erases,         \* erase_cnt
  saved           \* BiosWriteEnable

vars == <<build, chip, cs, bioswe, cycle, pc, file, gBuf, pass, sector, page, erases, saved>>
position == <<file, gBuf, pass, sector, build>>

-----------------------------------------------------------------------------
(* The controller.  Flash reads go past it, through the memory mapping.    *)

Ops == {"erase", "program"}
Idle(done) == [scip |-> FALSE, done |-> done]

(* What a finished cycle has done to its sector.  Programming clears bits. *)
Erased == [p \in Page |-> Blank]
Programmed(old, data) ==
  IF old = Blank THEN {data} ELSE IF data = Blank THEN {old} ELSE Other
Results(c, old) ==
  IF c.op = "erase" THEN {Erased}
  ELSE {[old EXCEPT ![c.page] = x] : x \in Programmed(old[c.page], c.data)}

(* The cycle ends, with or without effect; without, it may be an error,    *)
(* which does not set SSFS_DONE.  The write protect bit is looked at when  *)
(* the cycle starts.                                                       *)
CycleEnds ==
  /\ cycle.scip
  /\ \/ /\ cycle.enabled
        /\ \E new \in Results(cycle, chip[cycle.chip][cycle.sector]) :
             chip' = [chip EXCEPT ![cycle.chip][cycle.sector] = new]
        /\ cycle' = Idle(TRUE)
     \/ /\ \E done \in BOOLEAN : cycle' = Idle(done)
        /\ UNCHANGED chip
  /\ UNCHANGED <<position, cs, bioswe, pc, page, erases, saved>>

-----------------------------------------------------------------------------
(* executeOpcode: refused while a cycle runs; otherwise the cycle starts   *)
(* and the tool waits for SSFS_DONE, 400 ms at most.                       *)

Start(op, data, wait) ==
  /\ ~cycle.scip
  /\ cycle' = [scip |-> TRUE, done |-> FALSE, op |-> op, chip |-> cs, sector |-> sector,
               page |-> page, data |-> data, enabled |-> bioswe]
  /\ pc' = wait

IsCycleDone == ~cycle.scip /\ cycle.done

(* Mutant: the write enable is left as it is.                              *)
BiosweKept == bioswe

(* The ways out of _writeSector and writeSpiFlash with FALSE: BIOSWE back  *)
(* to what it was, the boot chip selected again, the tool exits.           *)
RestoredBioswe == bioswe /\ saved

(* The super I/O's data port writes the register its index port selects.   *)
SioOut(port, bit) == IF port = "data" THEN bit ELSE cs
SetCS0 == SioOut("data", 0)
SetCS1 == SioOut("index", 1)

Exit ==
  /\ pc' = "fin"
  /\ cs' = IF pass = 2 THEN SetCS0 ELSE cs

Fail ==
  /\ Exit
  /\ bioswe' = RestoredBioswe
  /\ UNCHANGED <<position, chip, page, erases, saved>>

-----------------------------------------------------------------------------
(* The tool.  The user chooses 'w' and confirms; a file that cannot be     *)
(* read or has the wrong size ends the run before anything is written.     *)

Rewrite ==
  /\ pc = "fin"
  /\ \E image \in Images : file' = image /\ gBuf' = image
  /\ pc' = "loop" /\ pass' = 1 /\ sector' = First
  /\ UNCHANGED <<build, chip, cs, bioswe, cycle, page, erases, saved>>

(* A new run of the tool: its variables are fresh.                         *)
NewRun ==
  /\ pc = "fin"
  /\ file' = (CHOOSE image \in Images : TRUE) /\ gBuf' = file'
  /\ pass' = 1 /\ sector' = First /\ page' = 1 /\ erases' = 0
  /\ UNCHANGED <<build, chip, cs, bioswe, cycle, pc, saved>>

(* The loop of writeSpiFlash ends after the last sector or when the user   *)
(* aborts it: both return TRUE.                                            *)
LoopEnds ==
  /\ pc = "loop"
  /\ pc' = "compare"
  /\ UNCHANGED <<position, chip, cs, bioswe, cycle, page, erases, saved>>

(* _writeSector: the opcodes are found in the menu and BIOSWE is set; a    *)
(* board that locks it has SMM clear it again at once.                     *)
WriteSector ==
  /\ pc = "loop" /\ sector <= Last
  /\ pc' = "check"
  /\ saved' = bioswe
  /\ \E locked \in BOOLEAN : bioswe' = (bioswe \/ ~locked)
  /\ erases' = 0
  /\ page' = 1
  /\ UNCHANGED <<position, chip, cs, cycle>>

OpcodeMissing ==
  /\ pc = "loop" /\ sector <= Last
  /\ Exit
  /\ saved' = bioswe
  /\ UNCHANGED <<position, chip, bioswe, cycle, page, erases>>

IsBlank == \A p \in Page : chip[cs][sector][p] = Blank

SectorBlank ==
  /\ pc = "check" /\ IsBlank
  /\ pc' = "write"
  /\ UNCHANGED <<position, chip, cs, bioswe, cycle, page, erases, saved>>

Erase ==
  /\ pc = "check" /\ ~IsBlank
  /\ Start("erase", Blank, "erasing")
  /\ UNCHANGED <<position, chip, cs, bioswe, page, erases, saved>>

(* Mutants: one erase too many, and erases that are not counted.           *)
OneEraseMore == 4
Uncounted == erases

MaxErases == 3
Counted == erases + 1

EraseDone ==
  /\ pc = "erasing" /\ IsCycleDone
  /\ erases' = Counted
  /\ IF erases' < MaxErases
     THEN pc' = "check" /\ UNCHANGED <<position, chip, cs, bioswe, page, saved>>
     ELSE /\ Exit
          /\ bioswe' = RestoredBioswe
          /\ UNCHANGED <<position, chip, page, saved>>
  /\ UNCHANGED cycle

(* A page is skipped when every DWORD of it equals 0xff.                   *)
Skipped == gBuf[sector][page] = Word00FF

SkipPage ==
  /\ pc = "write" /\ page <= Pages /\ Skipped
  /\ page' = page + 1
  /\ UNCHANGED <<position, chip, cs, bioswe, cycle, pc, erases, saved>>

ProgramPage ==
  /\ pc = "write" /\ page <= Pages /\ ~Skipped
  /\ Start("program", gBuf[sector][page], "programming")
  /\ UNCHANGED <<position, chip, cs, bioswe, page, erases, saved>>

ProgramDone ==
  /\ pc = "programming" /\ IsCycleDone
  /\ pc' = "write" /\ page' = page + 1
  /\ UNCHANGED <<position, chip, cs, bioswe, cycle, erases, saved>>

(* executeOpcode returns FALSE: a cycle was running, or the wait timed out *)
NotReady ==
  /\ \/ pc = "check" /\ ~IsBlank /\ cycle.scip
     \/ pc = "write" /\ page <= Pages /\ ~Skipped /\ cycle.scip
  /\ Fail /\ UNCHANGED cycle

Timeout ==
  /\ pc \in {"erasing", "programming"} /\ ~IsCycleDone
  /\ Fail /\ UNCHANGED cycle

(* Mutant: the pages are not verified.                                     *)
NotVerified == TRUE

(* The sector is verified and the loop goes on with the next one.          *)
Verified == chip[cs][sector] = gBuf[sector]

SectorWritten ==
  /\ pc = "write" /\ page > Pages /\ Verified
  /\ bioswe' = RestoredBioswe
  /\ pc' = "loop" /\ sector' = sector + 1
  /\ UNCHANGED <<build, file, gBuf, pass, chip, cs, cycle, page, erases, saved>>

VerifyFailed ==
  /\ pc = "write" /\ page > Pages /\ ~Verified
  /\ Fail /\ UNCHANGED cycle

-----------------------------------------------------------------------------
(* compareSpiFlash reads from the region's start to the end of the chip.   *)
Compared == First .. NumSectors - 1

(* Mutant: the address the loop starts at is taken off its end.            *)
CompareSizeOnly == \A s \in First .. Last - First : chip[cs][s] = gBuf[s]

CompareSpiFlash == \A s \in Compared : chip[cs][s] = gBuf[s]

CompareFailed ==
  /\ pc = "compare" /\ ~CompareSpiFlash
  /\ Exit
  /\ UNCHANGED <<position, chip, bioswe, cycle, page, erases, saved>>

(* The buffer is filled with 0xff from the region's start on.              *)
SecondChip ==
  /\ pc = "compare" /\ CompareSpiFlash /\ build = "two chips" /\ pass = 1
  /\ cs' = SetCS1
  /\ gBuf' = [s \in Sectors |-> IF s \in Compared THEN Erased ELSE gBuf[s]]
  /\ pc' = "loop" /\ pass' = 2 /\ sector' = First
  /\ UNCHANGED <<build, file, chip, bioswe, cycle, page, erases, saved>>

Done ==
  /\ pc = "compare" /\ CompareSpiFlash /\ (build = "two chips" => pass = 2)
  /\ pc' = "done"
  /\ cs' = IF pass = 2 THEN SetCS0 ELSE cs
  /\ UNCHANGED <<position, chip, bioswe, cycle, page, erases, saved>>

(* "Rewrite BIOS ... Done": power off, and wait for it.                    *)
PowerOff == pc = "done" /\ UNCHANGED vars

-----------------------------------------------------------------------------
Init ==
  /\ build \in Builds
  /\ chip \in [Chip -> Factory]
  /\ cs = 0
  /\ bioswe \in BOOLEAN
  /\ cycle = Idle(FALSE)
  /\ pc = "fin"
  /\ file \in Images /\ gBuf = file
  /\ pass = 1 /\ sector = First /\ page = 1 /\ erases = 0 /\ saved = bioswe

Tool ==
  \/ LoopEnds \/ WriteSector \/ OpcodeMissing
  \/ SectorBlank \/ Erase \/ EraseDone
  \/ SkipPage \/ ProgramPage \/ ProgramDone
  \/ NotReady \/ Timeout
  \/ SectorWritten \/ VerifyFailed
  \/ CompareFailed \/ SecondChip \/ Done

Next == CycleEnds \/ NewRun \/ Rewrite \/ Tool \/ PowerOff

Spec == Init /\ [][Next]_vars

(* The tool keeps running (and the user answers compareSpiFlash's prompts).*)
FairSpec == Spec /\ WF_vars(Tool)

-----------------------------------------------------------------------------
RunningCycle ==
  [scip : {TRUE}, done : {FALSE}, op : Ops, chip : Chip, sector : Region, page : 1 .. Pages,
   data : Contents, enabled : BOOLEAN]

(* Types.  A sector is erased three times at most in one call.             *)
TypeOK ==
  /\ build \in Builds
  /\ chip \in [Chip -> [Sectors -> [Page -> Contents]]]
  /\ cs \in Chip /\ bioswe \in BOOLEAN /\ saved \in BOOLEAN
  /\ cycle \in RunningCycle \cup {Idle(done) : done \in BOOLEAN}
  /\ pc \in {"fin", "loop", "check", "erasing", "write", "programming", "compare", "done"}
  /\ file \in Images /\ gBuf \in [Sectors -> [Page -> Contents]]
  /\ pass \in {1, 2} /\ sector \in First .. Last + 1 /\ page \in 1 .. Pages + 1
  /\ erases \in 0 .. 3

InSector == pc \in {"check", "erasing", "write", "programming"}

(* BIOSWE is set only while a sector is written: outside _writeSector it   *)
(* has the value the last call found it with, whichever way that call left,*)
(* error returns and timeouts included.                                    *)
WriteProtectRestored == ~InSector => bioswe = saved

(* What has been written stays written: while the loop of writeSpiFlash    *)
(* runs, every sector it has passed equals the buffer, whatever cycles     *)
(* earlier calls and earlier runs of the tool gave up waiting for.         *)
PassedSectorsHold ==
  pc = "loop" \/ InSector => \A s \in First .. sector - 1 : chip[cs][s] = gBuf[s]

(* "Rewrite BIOS with file ... Done" means that the boot chip holds the    *)
(* file from the region's start to the end of the chip, and keeps it.      *)
(* Excepted is an update aborted before its first sector: nothing has then *)
(* waited for a cycle that an earlier run may have left running.           *)
AbortedAtOnce == sector = First
DoneMeansImage ==
  pc = "done" /\ ~AbortedAtOnce => \A s \in Compared : chip[0][s] = file[s]

(* The same of the tool for boards with one chip.                          *)
DoneMeansImageOneChip == build = "one chip" => DoneMeansImage

(* The update ends: with an error, or with the message and the power off.  *)
UpdateEnds == pc = "loop" ~> pc \in {"fin", "done"}
=============================================================================
