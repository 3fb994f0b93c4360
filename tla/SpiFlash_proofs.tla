--------------------------- MODULE SpiFlash_proofs ---------------------------
(* Proofs about SpiFlash: types, the write protect bit, and that sectors   *)
(* that have been written stay written.                                    *)
EXTENDS SpiFlash, TLAPS

USE DEF Chip, Page, Contents

(* What the positions of the tool say about its counters.                  *)
Ranges ==
  /\ InSector => sector <= Last
  /\ pc \in {"check", "erasing"} => page = 1 /\ erases < 3
  /\ pc = "programming" => page <= Pages

(* The cycle that runs while the tool waits is its own.                    *)
OwnCycle ==
  pc \in {"erasing", "programming"} /\ cycle.scip
    => cycle.chip = cs /\ cycle.sector = sector

(* A cycle left behind by an earlier call can only run before the first    *)
(* sector is written: every later one has had the controller idle.         *)
NoLateCycle ==
  pc \in {"loop", "check", "write", "compare", "done"} /\ sector # First => ~cycle.scip

(* If a cycle still runs when the pages are written, all pages so far were *)
(* skipped, and none of them can have become what the skipped ones are.    *)
SkippedOnly ==
  pc = "write" /\ cycle.scip
    => /\ \A q \in Page : q < page => gBuf[sector][q] = Word00FF
       /\ \A q \in Page : chip[cs][sector][q] # Word00FF

NeverWord00FF == cycle.scip /\ cycle.op = "program" => cycle.data # Word00FF

(* Which chip and which buffer a pass works on.                            *)
PassOK ==
  /\ build = "one chip" => pass = 1
  /\ pass = 1 => gBuf = file
  /\ pass = 1 \/ pc = "fin" => cs = 0

Passed ==
  pc \in {"loop", "check", "erasing", "write", "programming"} =>
    \A s \in Sectors : First <= s /\ s < sector => chip[cs][s] = gBuf[s]

DoneOK == pc = "done" /\ sector # First /\ build = "one chip" => \A s \in Compared : chip[0][s] = file[s]

CycleInv == OwnCycle /\ NoLateCycle /\ SkippedOnly /\ NeverWord00FF
Inv == TypeOK /\ Ranges /\ CycleInv /\ PassOK /\ Passed /\ DoneOK

-----------------------------------------------------------------------------
LEMMA PageRange == Pages \in Nat /\ 1 \in 1 .. Pages /\ Region \subseteq Sectors
  BY GeometryAssumption DEF Region, Sectors

(* What a cycle leaves in its sector is a sector.                          *)
LEMMA ResultsType ==
  ASSUME TypeOK, cycle.scip
  PROVE  /\ cycle \in RunningCycle
         /\ chip[cycle.chip][cycle.sector] \in [Page -> Contents]
         /\ Results(cycle, chip[cycle.chip][cycle.sector]) \subseteq [Page -> Contents]
<1>1. cycle \in RunningCycle
  BY DEF TypeOK, Idle
<1>2. cycle.chip \in Chip /\ cycle.sector \in Sectors /\ cycle.page \in Page /\ cycle.data \in Contents
  BY <1>1, PageRange DEF RunningCycle
<1>3. chip[cycle.chip][cycle.sector] \in [Page -> Contents]
  BY <1>2 DEF TypeOK
<1>4. ASSUME NEW old \in [Page -> Contents]
      PROVE  Results(cycle, old) \subseteq [Page -> Contents]
  <2>1. Erased \in [Page -> Contents]
    BY DEF Erased
  <2>2. Programmed(old[cycle.page], cycle.data) \subseteq Contents
    BY <1>2 DEF Programmed
  <2> QED BY <2>1, <2>2, <1>2 DEF Results
<1> QED BY <1>1, <1>3, <1>4

(* A cycle that ends changes at most the sector it ran on.                 *)
LEMMA CycleEffect ==
  ASSUME TypeOK, CycleEnds
  PROVE  /\ chip' \in [Chip -> [Sectors -> [Page -> Contents]]]
         /\ \A c \in Chip, s \in Sectors :
              c # cycle.chip \/ s # cycle.sector => chip'[c][s] = chip[c][s]
         /\ ~cycle'.scip
<1>1. ~cycle'.scip
  BY DEF CycleEnds, Idle
<1>2. cycle.scip
  BY DEF CycleEnds
<1>3. chip \in [Chip -> [Sectors -> [Page -> Contents]]]
  BY DEF TypeOK
<1>4. CASE UNCHANGED chip
  BY <1>1, <1>3, <1>4
<1>5. CASE \E new \in Results(cycle, chip[cycle.chip][cycle.sector]) :
             chip' = [chip EXCEPT ![cycle.chip][cycle.sector] = new]
  <2>1. PICK new \in [Page -> Contents] : chip' = [chip EXCEPT ![cycle.chip][cycle.sector] = new]
    BY <1>5, <1>2, ResultsType
  <2>2. cycle.chip \in Chip /\ cycle.sector \in Sectors
    BY <1>2, ResultsType, PageRange DEF RunningCycle
  <2> QED BY <1>1, <1>3, <2>1, <2>2
<1> QED BY <1>4, <1>5 DEF CycleEnds

-----------------------------------------------------------------------------
(* Types.                                                                  *)

LEMMA InitInv == Init => Inv
<1> SUFFICES ASSUME Init PROVE Inv
  OBVIOUS
<1>1. TypeOK
  <2>1. chip \in [Chip -> [Sectors -> [Page -> Contents]]]
    BY ImagesAssumption DEF Init
  <2>2. build \in Builds /\ file \in Images /\ gBuf \in [Sectors -> [Page -> Contents]]
    BY ImagesAssumption DEF Init
  <2>3. bioswe \in BOOLEAN /\ saved \in BOOLEAN
    BY DEF Init
  <2>4. cycle \in {Idle(done) : done \in BOOLEAN}
    BY DEF Init
  <2>5. cs \in Chip /\ pass \in {1, 2} /\ sector \in First .. Last + 1 /\ page \in 1 .. Pages + 1
        /\ erases \in 0 .. 3 /\ pc = "fin"
    BY GeometryAssumption DEF Init
  <2> QED BY <2>1, <2>2, <2>3, <2>4, <2>5 DEF TypeOK
<1>2. Ranges /\ PassOK /\ Passed /\ DoneOK
  BY DEF Init, Ranges, InSector, PassOK, Passed, DoneOK
<1>3. CycleInv
  BY DEF Init, CycleInv, OwnCycle, NoLateCycle, SkippedOnly, NeverWord00FF, Idle
<1> QED BY <1>1, <1>2, <1>3 DEF Inv

LEMMA StartType ==
  ASSUME TypeOK, NEW op \in Ops, NEW data \in Contents, NEW w, Start(op, data, w),
         sector <= Last, page <= Pages
  PROVE  cycle' \in RunningCycle
<1>1. sector \in Region /\ page \in 1 .. Pages
  BY GeometryAssumption DEF TypeOK, Region
<1> QED BY <1>1 DEF TypeOK, Start, RunningCycle

LEMMA NextTypes == TypeOK /\ Ranges /\ [Next]_vars => TypeOK' /\ Ranges'
<1> SUFFICES ASSUME TypeOK, Ranges, [Next]_vars
             PROVE  TypeOK' /\ Ranges'
  OBVIOUS
<1> USE GeometryAssumption
<1>1. CASE CycleEnds
  <2>1. chip' \in [Chip -> [Sectors -> [Page -> Contents]]]
    BY <1>1, CycleEffect
  <2>2. cycle' \in {Idle(done) : done \in BOOLEAN}
    BY <1>1 DEF CycleEnds
  <2> QED BY <1>1, <2>1, <2>2 DEF CycleEnds, TypeOK, Ranges, InSector, position
<1>2. CASE Rewrite
  <2>1. file' \in Images /\ gBuf' \in [Sectors -> [Page -> Contents]]
    BY <1>2, ImagesAssumption DEF Rewrite
  <2>2. pass' = 1 /\ sector' \in First .. Last + 1 /\ pc' = "loop"
    BY <1>2 DEF Rewrite
  <2> QED BY <1>2, <2>1, <2>2 DEF Rewrite, TypeOK, Ranges, InSector
<1>20. CASE NewRun
  <2>1. file' \in Images /\ gBuf' \in [Sectors -> [Page -> Contents]]
    BY <1>20, ImagesAssumption DEF NewRun, TypeOK
  <2>2. /\ pass' = 1 /\ sector' \in First .. Last + 1 /\ pc' = "fin"
        /\ page' \in 1 .. Pages + 1 /\ erases' \in 0 .. 3
    BY <1>20 DEF NewRun
  <2> QED BY <1>20, <2>1, <2>2 DEF NewRun, TypeOK, Ranges, InSector
<1>3. CASE LoopEnds \/ SectorBlank \/ OpcodeMissing \/ CompareFailed \/ Done
  BY <1>3 DEF LoopEnds, SectorBlank, OpcodeMissing, CompareFailed, Done, Exit, SetCS0, SioOut,
              TypeOK, Ranges, InSector, position
<1>4. CASE WriteSector
  BY <1>4 DEF WriteSector, TypeOK, Ranges, InSector, position
<1>5. CASE Erase
  <2>1. cycle' \in RunningCycle
    BY <1>5, StartType DEF Erase, Ranges, InSector, Ops
  <2> QED BY <1>5, <2>1 DEF Erase, Start, TypeOK, Ranges, InSector, position
<1>6. CASE ProgramPage
  <2>1. gBuf[sector][page] \in Contents
    BY <1>6, PageRange DEF ProgramPage, TypeOK, Ranges, InSector, Sectors
  <2>2. cycle' \in RunningCycle
    BY <1>6, <2>1, StartType DEF ProgramPage, Ranges, InSector, Ops
  <2> QED BY <1>6, <2>2 DEF ProgramPage, Start, TypeOK, Ranges, InSector, position
<1>7. CASE EraseDone
  BY <1>7 DEF EraseDone, Counted, MaxErases, Exit, RestoredBioswe, SetCS0, SioOut, TypeOK, Ranges, InSector, position
<1>8. CASE SkipPage \/ ProgramDone
  BY <1>8 DEF SkipPage, ProgramDone, TypeOK, Ranges, InSector, position
<1>9. CASE NotReady \/ Timeout \/ VerifyFailed
  BY <1>9 DEF NotReady, Timeout, VerifyFailed, Fail, Exit, RestoredBioswe, SetCS0, SioOut, TypeOK, Ranges, InSector, position
<1>10. CASE SectorWritten
  BY <1>10 DEF SectorWritten, RestoredBioswe, TypeOK, Ranges, InSector
<1>11. CASE SecondChip
  <2>1. gBuf' \in [Sectors -> [Page -> Contents]]
    BY <1>11 DEF SecondChip, Erased, TypeOK
  <2>2. pass' = 2 /\ sector' = First /\ pc' = "loop" /\ cs' = cs
    BY <1>11, Zenon DEF SecondChip, SetCS1, SioOut
  <2>3. UNCHANGED <<build, file, chip, bioswe, cycle, page, erases, saved>>
    BY <1>11 DEF SecondChip
  <2>4. sector' \in First .. Last + 1
    BY <2>2
  <2> QED BY <2>1, <2>2, <2>3, <2>4 DEF TypeOK, Ranges, InSector
<1>12. CASE PowerOff \/ UNCHANGED vars
  BY <1>12 DEF PowerOff, vars, TypeOK, Ranges, InSector
<1> QED BY <1>1, <1>20, <1>2, <1>3, <1>4, <1>5, <1>6, <1>7, <1>8, <1>9, <1>10, <1>11, <1>12 DEF Next, Tool

(* Types: no sector is erased more than three times in one call.           *)
THEOREM TypeCorrect == Spec => []TypeOK
<1>1. Init => TypeOK /\ Ranges
  BY InitInv DEF Inv
<1>2. TypeOK /\ Ranges /\ [Next]_vars => (TypeOK /\ Ranges)'
  BY NextTypes
<1> QED BY <1>1, <1>2, PTL DEF Spec

-----------------------------------------------------------------------------
(* The write protect bit.                                                  *)

(* BIOSWE is set only while a sector is written: every way out of          *)
(* _writeSector leaves it as that call found it.                           *)
THEOREM WriteProtectCorrect == Spec => []WriteProtectRestored
<1> DEFINE P == WriteProtectRestored /\ bioswe \in BOOLEAN /\ saved \in BOOLEAN
               /\ (saved => bioswe)
<1>1. TypeOK /\ Init => P
  BY DEF Init, TypeOK, WriteProtectRestored
<1>2. TypeOK /\ TypeOK' /\ P /\ [Next]_vars => P'
  <2> SUFFICES ASSUME TypeOK, TypeOK', P, [Next]_vars PROVE P'
    OBVIOUS
  <2>1. bioswe' \in BOOLEAN /\ saved' \in BOOLEAN
    BY DEF TypeOK
  <2>2. CASE UNCHANGED <<bioswe, saved>> /\ (InSector' => InSector) /\ (InSector => InSector')
    BY <2>1, <2>2 DEF WriteProtectRestored
  <2>3. CASE bioswe' = RestoredBioswe /\ saved' = saved /\ ~InSector'
    BY <2>1, <2>3, Zenon DEF RestoredBioswe, WriteProtectRestored
  <2>4. CASE WriteSector
    <3>1. InSector' /\ ~InSector
      BY <2>4 DEF WriteSector, InSector
    <3>2. saved' => bioswe'
      BY <2>1, <2>4, Zenon DEF WriteSector
    <3> QED BY <2>1, <3>1, <3>2 DEF WriteProtectRestored
  <2>5. CASE OpcodeMissing
    BY <2>1, <2>5 DEF OpcodeMissing, WriteProtectRestored
  <2>6. CASE EraseDone
    BY <2>2, <2>3, <2>6 DEF EraseDone, Exit, InSector
  <2>7. CASE NotReady \/ Timeout \/ VerifyFailed \/ SectorWritten
    BY <2>3, <2>7 DEF NotReady, Timeout, VerifyFailed, Fail, Exit, SectorWritten, InSector
  <2>8. CASE CycleEnds \/ NewRun \/ Rewrite \/ LoopEnds \/ CompareFailed \/ SecondChip \/ Done \/ PowerOff
             \/ UNCHANGED vars
    BY <2>2, <2>8 DEF CycleEnds, NewRun, Rewrite, LoopEnds, CompareFailed, SecondChip, Done, PowerOff, vars,
                      Exit, InSector
  <2>9. CASE SectorBlank \/ Erase \/ SkipPage \/ ProgramPage \/ ProgramDone
    BY <2>2, <2>9 DEF SectorBlank, Erase, SkipPage, ProgramPage, ProgramDone, Start, InSector
  <2> QED BY <2>4, <2>5, <2>6, <2>7, <2>8, <2>9 DEF Next, Tool
<1>3. P => WriteProtectRestored
  OBVIOUS
<1>4. Spec => []TypeOK
  BY TypeCorrect
<1> HIDE DEF P
<1> QED BY <1>1, <1>2, <1>3, <1>4, PTL DEF Spec

-----------------------------------------------------------------------------
(* Written sectors stay written.                                           *)

(* A cycle left behind that ends while the pages are written does not make *)
(* a page equal to the skipped ones.                                       *)
LEMMA NextCycleInv ==
  ASSUME TypeOK, Ranges, CycleInv, [Next]_vars
  PROVE  CycleInv'
<1>1. CASE CycleEnds
  <2>1. ~cycle'.scip /\ pc' = pc /\ sector' = sector
    BY <1>1, CycleEffect DEF CycleEnds, position
  <2> QED BY <2>1 DEF CycleInv, OwnCycle, NoLateCycle, SkippedOnly, NeverWord00FF
<1>2. CASE Erase
  <2>1. pc' = "erasing" /\ sector' = sector /\ cs' = cs /\ ~cycle.scip
    BY <1>2 DEF Erase, Start, position
  <2>2. cycle'.chip = cs /\ cycle'.sector = sector /\ cycle'.op = "erase"
    BY <1>2 DEF Erase, Start
  <2> QED BY <2>1, <2>2 DEF CycleInv, OwnCycle, NoLateCycle, SkippedOnly, NeverWord00FF
<1>3. CASE ProgramPage
  <2>1. pc' = "programming" /\ sector' = sector /\ cs' = cs /\ ~cycle.scip
    BY <1>3 DEF ProgramPage, Start, position
  <2>2. cycle'.chip = cs /\ cycle'.sector = sector /\ cycle'.data = gBuf[sector][page]
    BY <1>3 DEF ProgramPage, Start
  <2>3. gBuf[sector][page] # Word00FF
    BY <1>3 DEF ProgramPage, Skipped
  <2> QED BY <2>1, <2>2, <2>3 DEF CycleInv, OwnCycle, NoLateCycle, SkippedOnly, NeverWord00FF
<1>4. CASE SectorBlank
  <2>1. pc = "check" /\ pc' = "write" /\ page' = 1 /\ UNCHANGED <<cycle, sector, cs, chip, gBuf>>
    BY <1>4 DEF SectorBlank, Ranges, position
  <2>2. \A q \in Page : chip'[cs'][sector'][q] # Word00FF
    BY <1>4, <2>1, ContentsAssumption DEF SectorBlank, IsBlank
  <2>3. \A q \in Page : ~(q < page')
    BY <2>1, GeometryAssumption
  <2> QED BY <2>1, <2>2, <2>3 DEF CycleInv, OwnCycle, NoLateCycle, SkippedOnly, NeverWord00FF
<1>5. CASE SkipPage
  <2>1. pc = "write" /\ UNCHANGED <<pc, cycle, sector, cs, chip, gBuf>> /\ page' = page + 1
    BY <1>5 DEF SkipPage, position
  <2>2. gBuf[sector][page] = Word00FF
    BY <1>5 DEF SkipPage, Skipped
  <2>3. \A q \in Page : q < page + 1 => q < page \/ q = page
    BY GeometryAssumption DEF TypeOK
  <2> QED BY <2>1, <2>2, <2>3 DEF CycleInv, OwnCycle, NoLateCycle, SkippedOnly, NeverWord00FF
<1>6. CASE EraseDone \/ ProgramDone
  <2>1. ~cycle.scip /\ UNCHANGED cycle
    BY <1>6 DEF EraseDone, ProgramDone, IsCycleDone
  <2> QED BY <2>1 DEF CycleInv, OwnCycle, NoLateCycle, SkippedOnly, NeverWord00FF
<1>7. CASE SectorWritten
  <2>1. ~cycle.scip
    <3>1. SUFFICES ASSUME cycle.scip PROVE FALSE
      OBVIOUS
    <3>2. page > Pages /\ pc = "write" /\ chip[cs][sector] = gBuf[sector]
      BY <1>7 DEF SectorWritten, Verified
    <3>3. 1 \in Page /\ 1 < page
      BY <3>2, GeometryAssumption DEF TypeOK
    <3> QED BY <3>1, <3>2, <3>3 DEF CycleInv, SkippedOnly
  <2>2. UNCHANGED cycle
    BY <1>7 DEF SectorWritten
  <2> QED BY <2>1, <2>2 DEF CycleInv, OwnCycle, NoLateCycle, SkippedOnly, NeverWord00FF
<1>8. CASE pc' \in {"fin", "loop", "check"} /\ UNCHANGED cycle /\ sector' = sector /\ (pc' # "fin" => pc \in {"loop", "check"})
  BY <1>8 DEF CycleInv, OwnCycle, NoLateCycle, SkippedOnly, NeverWord00FF
<1>9. CASE pc' \in {"loop", "compare", "done"} /\ UNCHANGED cycle
           /\ (sector' = First \/ (sector' = sector /\ pc \in {"loop", "compare", "done"}))
  BY <1>9 DEF CycleInv, OwnCycle, NoLateCycle, SkippedOnly, NeverWord00FF
<1>10. CASE WriteSector \/ OpcodeMissing
  BY <1>8, <1>10 DEF WriteSector, OpcodeMissing, Exit, position
<1>11. CASE NotReady \/ Timeout \/ VerifyFailed \/ CompareFailed
  BY <1>8, <1>11 DEF NotReady, Timeout, VerifyFailed, CompareFailed, Fail, Exit, position
<1>12. CASE Rewrite \/ LoopEnds \/ SecondChip \/ Done \/ PowerOff
  <2>1. CASE Rewrite
    <3>1. pc' = "loop" /\ sector' = First /\ UNCHANGED cycle
      BY <2>1, Zenon DEF Rewrite
    <3>2. pc' \in {"loop", "compare", "done"}
      BY <3>1
    <3> QED BY <1>9, <3>1, <3>2, Zenon
  <2>2. CASE LoopEnds \/ Done \/ PowerOff
    BY <1>9, <2>2 DEF LoopEnds, Done, PowerOff, position, vars
  <2>3. CASE SecondChip
    <3>1. pc' = "loop" /\ sector' = First /\ UNCHANGED cycle
      BY <2>3, Zenon DEF SecondChip
    <3>2. pc' \in {"loop", "compare", "done"}
      BY <3>1
    <3> QED BY <1>9, <3>1, <3>2, Zenon
  <2> QED BY <1>12, <2>1, <2>2, <2>3
<1>14. CASE NewRun
  BY <1>14 DEF NewRun, CycleInv, OwnCycle, NoLateCycle, SkippedOnly, NeverWord00FF
<1>13. CASE UNCHANGED vars
  BY <1>13 DEF vars, CycleInv, OwnCycle, NoLateCycle, SkippedOnly, NeverWord00FF
<1> QED BY <1>1, <1>2, <1>3, <1>4, <1>5, <1>6, <1>7, <1>10, <1>11, <1>12, <1>13, <1>14 DEF Next, Tool

(* The boot chip is selected in the first pass and whenever the tool ends. *)
LEMMA NextPassOK ==
  ASSUME TypeOK, PassOK, [Next]_vars
  PROVE  PassOK'
<1>1. CASE UNCHANGED <<position, cs>> /\ (pc' = "fin" => pc = "fin")
  BY <1>1 DEF PassOK, position
<1>2. CASE Exit /\ UNCHANGED position
  BY <1>2 DEF PassOK, Exit, SetCS0, SioOut, position, TypeOK
<1>11. CASE NewRun
  BY <1>11 DEF PassOK, NewRun
<1>3. CASE Rewrite
  BY <1>3 DEF PassOK, Rewrite
<1>4. CASE SecondChip
  <2>1. build = "two chips" /\ build' = build /\ pass' = 2 /\ pc' = "loop"
    BY <1>4, Zenon DEF SecondChip
  <2>2. build' # "one chip" /\ pc' # "fin"
    BY <2>1
  <2>3. pass' = 2
    BY <2>1, Zenon
  <2>4. pass' # 1
    BY <2>3
  <2> QED BY <2>2, <2>4, Zenon DEF PassOK
<1>5. CASE Done
  BY <1>5 DEF PassOK, Done, SetCS0, SioOut, position, TypeOK
<1>6. CASE SectorWritten
  BY <1>6 DEF PassOK, SectorWritten
<1>7. CASE EraseDone
  BY <1>1, <1>2, <1>7 DEF EraseDone, position
<1>8. CASE OpcodeMissing \/ NotReady \/ Timeout \/ VerifyFailed \/ CompareFailed
  BY <1>2, <1>8 DEF PassOK, OpcodeMissing, NotReady, Timeout, VerifyFailed, Fail, CompareFailed
<1>9. CASE CycleEnds \/ LoopEnds \/ PowerOff \/ UNCHANGED vars
  BY <1>1, <1>9 DEF PassOK, CycleEnds, LoopEnds, PowerOff, vars, position
<1>10. CASE WriteSector \/ SectorBlank \/ Erase \/ SkipPage \/ ProgramPage \/ ProgramDone
  BY <1>1, <1>10 DEF PassOK, WriteSector, SectorBlank, Erase, SkipPage, ProgramPage, ProgramDone, Start, position
<1> QED BY <1>3, <1>4, <1>5, <1>6, <1>7, <1>8, <1>9, <1>10, <1>11 DEF Next, Tool

(* No step changes a sector that has been passed, or one after the end.    *)
LEMMA NextPassed ==
  ASSUME TypeOK, Ranges, CycleInv, PassOK, Passed, DoneOK, [Next]_vars
  PROVE  Passed' /\ DoneOK'
<1>1. CASE CycleEnds
  <2> USE <1>1 DEF CycleEnds, position
  <2>1. cycle.scip /\ UNCHANGED <<pc, sector, cs, gBuf, file, build>>
    OBVIOUS
  <2>2. pc \notin {"erasing", "programming"} /\ sector # First
          => pc \notin {"loop", "check", "write", "compare", "done"}
    BY <2>1 DEF CycleInv, NoLateCycle
  <2>3. DoneOK'
    BY <2>1, <2>2 DEF DoneOK
  <2>4. ASSUME pc \in {"loop", "check", "erasing", "write", "programming"},
               NEW s \in Sectors, First <= s, s < sector
        PROVE  chip'[cs][s] = gBuf[s]
    <3>1. sector # First
      BY <2>4, GeometryAssumption DEF Sectors, TypeOK
    <3>2. pc \in {"erasing", "programming"}
      BY <2>2, <2>4, <3>1
    <3>3. cycle.sector # s
      BY <2>1, <2>4, <3>2, GeometryAssumption DEF CycleInv, OwnCycle, Sectors, TypeOK
    <3>4. chip'[cs][s] = chip[cs][s]
      BY <2>4, <3>3, CycleEffect DEF TypeOK
    <3> QED BY <2>4, <3>4 DEF Passed
  <2> HIDE DEF CycleEnds
  <2> QED BY <2>1, <2>3, <2>4 DEF Passed
<1>2. CASE SectorWritten
  <2>1. pc = "write" /\ pc' = "loop" /\ sector' = sector + 1 /\ UNCHANGED <<chip, cs, gBuf>>
    BY <1>2 DEF SectorWritten
  <2>2. chip[cs][sector] = gBuf[sector]
    BY <1>2 DEF SectorWritten, Verified
  <2>3. ASSUME NEW s \in Sectors, s < sector + 1
        PROVE  s < sector \/ s = sector
    BY <2>3, GeometryAssumption DEF Sectors, TypeOK
  <2> QED BY <2>1, <2>2, <2>3 DEF Passed, DoneOK
<1>3. CASE Rewrite \/ SecondChip
  <2>1. pc' = "loop" /\ sector' = First
    BY <1>3, Zenon DEF Rewrite, SecondChip
  <2>2. \A s \in Sectors : First <= s => ~(s < First)
    BY GeometryAssumption DEF Sectors
  <2> QED BY <2>1, <2>2 DEF Passed, DoneOK
<1>4. CASE Done
  <2>1. pc' = "done" /\ UNCHANGED <<chip, gBuf, file, sector, build>>
    BY <1>4 DEF Done, position
  <2>2. build = "one chip" => cs = 0 /\ gBuf = file
    BY DEF PassOK
  <2>3. \A s \in Compared : chip[cs][s] = gBuf[s]
    BY <1>4 DEF Done, CompareSpiFlash
  <2> QED BY <2>1, <2>2, <2>3 DEF Passed, DoneOK
<1>5. CASE pc' \in {"fin", "compare"}
  BY <1>5 DEF Passed, DoneOK
<1>11. CASE NewRun
  BY <1>5, <1>11 DEF NewRun
<1>6. CASE /\ pc \in {"loop", "check", "erasing", "write", "programming"}
           /\ pc' \in {"loop", "check", "erasing", "write", "programming"}
           /\ UNCHANGED <<chip, cs, gBuf, sector>>
  BY <1>6 DEF Passed, DoneOK
<1>7. CASE LoopEnds \/ OpcodeMissing \/ CompareFailed \/ NotReady \/ Timeout \/ VerifyFailed
  BY <1>5, <1>7 DEF LoopEnds, OpcodeMissing, CompareFailed, NotReady, Timeout, VerifyFailed, Fail, Exit
<1>8. CASE EraseDone
  BY <1>5, <1>6, <1>8 DEF EraseDone, Exit, position
<1>9. CASE WriteSector \/ SectorBlank \/ Erase \/ SkipPage \/ ProgramPage \/ ProgramDone
  BY <1>6, <1>9 DEF WriteSector, SectorBlank, Erase, SkipPage, ProgramPage, ProgramDone, Start, position
<1>10. CASE PowerOff \/ UNCHANGED vars
  BY <1>10 DEF PowerOff, vars, Passed, DoneOK
<1> QED BY <1>1, <1>2, <1>3, <1>4, <1>7, <1>8, <1>9, <1>10, <1>11 DEF Next, Tool

LEMMA InvCorrect == Spec => []Inv
<1>1. Inv /\ [Next]_vars => Inv'
  BY NextTypes, NextCycleInv, NextPassOK, NextPassed DEF Inv
<1> QED BY <1>1, InitInv, PTL DEF Spec

(* Every sector the loop of writeSpiFlash has passed equals the buffer,    *)
(* for any image, geometry and flash contents, whatever cycles earlier     *)
(* calls gave up waiting for.                                              *)
THEOREM PassedSectorsCorrect == Spec => []PassedSectorsHold
<1>1. Inv => PassedSectorsHold
  BY GeometryAssumption DEF Inv, Passed, PassedSectorsHold, InSector, TypeOK, Sectors
<1> QED BY <1>1, InvCorrect, PTL

(* On a board with one chip, "Done" means that the chip holds the file     *)
(* from the region's start on, and no cycle changes it any more.           *)
THEOREM DoneCorrect == Spec => []DoneMeansImageOneChip
<1>1. Inv => DoneMeansImageOneChip
  BY DEF Inv, DoneOK, DoneMeansImageOneChip, DoneMeansImage, AbortedAtOnce
<1> QED BY <1>1, InvCorrect, PTL
=============================================================================
