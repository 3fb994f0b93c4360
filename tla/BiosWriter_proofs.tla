-------------------------- MODULE BiosWriter_proofs --------------------------
(* Proofs about BiosWriter: the session implements SpiFlash, so what is    *)
(* proved of the update there holds of the whole session, a dump is the    *)
(* chip, and a dump of ACPI tables holds them all.                        *)
EXTENDS BiosWriter, SpiFlash_proofs, SequenceTheorems, WellFoundedInduction

allvars == <<vars, session>>

(* A file that has been accepted has the chip's size.                      *)
RomOK == at = "confirm" => rom \in RomFiles /\ rom.size = "same"

(* A file of the chip's size replaces all of the buffer.                   *)
LEMMA WholeFile ==
  ASSUME NEW f \in RomFiles, f.size = "same"
  PROVE  f.data \in Images /\ FileRead(f) = f.data
<1>1. f.data \in Images /\ f.data \in [Sectors -> [Page -> Contents]]
  BY SessionAssumption DEF RomFile
<1>2. FileRead(f) = [s \in Sectors |-> f.data[s]]
  BY DEF FileRead
<1> QED BY <1>1, <1>2

LEMMA NextRomOK == RomOK /\ [SessionNext]_allvars => RomOK'
<1> SUFFICES ASSUME RomOK, [SessionNext]_allvars PROVE RomOK'
  OBVIOUS
<1>1. CASE at' # "confirm"
  BY <1>1 DEF RomOK
<1>2. CASE OpenRom
  BY <1>2, Zenon DEF OpenRom, Accepted, SizeMatches, RomOK
<1>3. CASE UNCHANGED <<at, rom>>
  BY <1>3 DEF RomOK
<1>4. StartTool \/ UpdateStarts \/ Update => at' # "confirm"
  BY DEF StartTool, UpdateStarts, Update
<1>5. Menu => at' # "confirm" \/ OpenRom \/ UNCHANGED <<at, rom>>
  BY DEF Menu, Quit, Leave, DumpStarts, DumpRefused, DumpPart, DumpEnds, DumpFails,
         SaveSmbios, ShowNvs, DumpSio, SaveAcpi, Kept, AskWrite, RomRefused, WriteRefused
<1>6. ((CycleEnds \/ PowerOff) /\ UNCHANGED session) \/ UNCHANGED allvars => UNCHANGED <<at, rom>>
  BY DEF session, allvars
<1> QED BY <1>1, <1>2, <1>3, <1>4, <1>5, <1>6 DEF SessionNext

(* A step of the session is a step of the update, or none.                 *)
LEMMA StepRefines == RomOK /\ [SessionNext]_allvars => [Next]_vars
<1> SUFFICES ASSUME RomOK, [SessionNext]_allvars PROVE [Next]_vars
  OBVIOUS
<1>1. CASE UpdateStarts
  <2>1. rom \in RomFiles /\ rom.size = "same"
    BY <1>1 DEF RomOK, UpdateStarts
  <2>2. rom.data \in Images /\ FileRead(rom) = rom.data
    BY <2>1, WholeFile
  <2>3. Rewrite
    BY <1>1, <2>2 DEF UpdateStarts, Rewrite
  <2> QED BY <2>3 DEF Next
<1>2. CASE StartTool
  BY <1>2 DEF StartTool, Next
<1>3. CASE Update
  BY <1>3 DEF Update, Next
<1>4. CASE (Menu /\ UNCHANGED vars) \/ UNCHANGED allvars
  BY <1>4 DEF allvars
<1>5. CASE CycleEnds \/ PowerOff
  BY <1>5 DEF Next
<1> QED BY <1>1, <1>2, <1>3, <1>4, <1>5 DEF SessionNext

(* However often the tool is started and whatever its menu has done with   *)
(* the buffer, its updates are those of SpiFlash, for every flash, every   *)
(* image and every file.                                                   *)
THEOREM SessionRefines == SessionSpec => UpdatesAsSpecified
<1>1. SessionInit => Init /\ RomOK
  BY DEF SessionInit, RomOK
<1>2. RomOK /\ [SessionNext]_allvars => RomOK'
  BY NextRomOK
<1>3. RomOK /\ [SessionNext]_allvars => [Next]_vars
  BY StepRefines
<1> QED BY <1>1, <1>2, <1>3, PTL DEF SessionSpec, UpdatesAsSpecified, Spec, allvars

(* In the whole session, too, "Done" on a board with one chip means that   *)
(* the chip holds the file.                                                *)
THEOREM SessionDone == SessionSpec => []DoneMeansImageOneChip
  BY SessionRefines, DoneCorrect, PTL DEF UpdatesAsSpecified

-----------------------------------------------------------------------------
(* The dump.                                                               *)

(* While the dump is written the buffer holds what was read, and the tool  *)
(* is not updating; without a cycle the chip does not change either.       *)
DumpOK ==
  at = "dump" =>
    /\ pc = "fin" /\ left \in 0 .. NumSectors
    /\ dump \in Seq([Page -> Contents]) /\ Len(dump) = NumSectors - left
    /\ buf \in [Sectors -> [Page -> Contents]]
    /\ \A s \in Sectors : s < NumSectors - left => dump[s + 1] = buf[s]
    /\ quiet => buf = chip[cs] /\ ~cycle.scip

(* The update is the only place where the tool runs SpiFlash's code.       *)
AtOK == at # "update" => pc = "fin"

LEMMA NextAtOK == AtOK /\ [SessionNext]_allvars => AtOK'
<1> SUFFICES ASSUME AtOK, [SessionNext]_allvars PROVE AtOK'
  OBVIOUS
<1>1. CASE StartTool
  BY <1>1 DEF StartTool, NewRun, AtOK
<1>2. CASE UpdateStarts
  BY <1>2 DEF UpdateStarts, AtOK
<1>3. CASE Update
  BY <1>3 DEF Update, AtOK
<1>4. CASE UNCHANGED pc /\ (at' # "update" => at # "update")
  BY <1>4 DEF AtOK
<1>5. Menu => at # "update"
  BY DEF Menu, Quit, Leave, DumpStarts, DumpRefused, DumpPart, DumpEnds, DumpFails,
         SaveSmbios, ShowNvs, DumpSio, SaveAcpi, AskWrite, OpenRom, RomRefused, WriteRefused
<1>6. Menu /\ UNCHANGED vars => UNCHANGED pc
  BY DEF vars
<1>7. ((CycleEnds \/ PowerOff) /\ UNCHANGED session) \/ UNCHANGED allvars => UNCHANGED <<pc, at>>
  BY DEF CycleEnds, PowerOff, vars, session, allvars
<1> QED BY <1>1, <1>2, <1>3, <1>4, <1>5, <1>6, <1>7 DEF SessionNext

LEMMA NextDumpOK == TypeOK /\ AtOK /\ DumpOK /\ [SessionNext]_allvars => DumpOK'
<1> SUFFICES ASSUME TypeOK, AtOK, DumpOK, [SessionNext]_allvars PROVE DumpOK'
  OBVIOUS
<1> USE GeometryAssumption
<1>1. CASE at' # "dump"
  BY <1>1 DEF DumpOK
<1>2. CASE DumpStarts /\ UNCHANGED vars
  <2>1. pc' = "fin" /\ buf' = chip[cs] /\ quiet' = ~cycle.scip /\ UNCHANGED <<chip, cs, cycle>>
    BY <1>2 DEF DumpStarts, AtOK, vars
  <2>2. chip[cs] \in [Sectors -> [Page -> Contents]]
    BY DEF TypeOK
  <2>3. left' = NumSectors /\ dump' = <<>>
    BY <1>2 DEF DumpStarts
  <2>4. /\ left' \in 0 .. NumSectors /\ Len(dump') = NumSectors - left'
        /\ dump' \in Seq([Page -> Contents])
    BY <2>3
  <2>5. \A s \in Sectors : ~(s < NumSectors - left')
    BY <2>3 DEF Sectors
  <2>6. quiet' => buf' = chip'[cs'] /\ ~cycle'.scip
    BY <2>1, Zenon
  <2> QED BY <2>1, <2>2, <2>4, <2>5, <2>6 DEF DumpOK
<1>3. CASE DumpPart /\ UNCHANGED vars
  <2>1. at = "dump" /\ UNCHANGED <<at, buf, quiet, pc, chip, cs, cycle>>
    BY <1>3 DEF DumpPart, vars
  <2>2. quiet' => buf' = chip'[cs'] /\ ~cycle'.scip
    BY <2>1, Zenon DEF DumpOK
  <2>3. CASE left > 0
    <3>1. left' = left - 1 /\ dump' = Append(dump, buf[NumSectors - left])
      BY <1>3, <2>3 DEF DumpPart, NextPart, DumpOK
    <3>2. NumSectors - left \in Sectors
      BY <2>1, <2>3 DEF DumpOK, Sectors
    <3>3. /\ dump' \in Seq([Page -> Contents]) /\ Len(dump') = Len(dump) + 1
          /\ \A i \in 1 .. Len(dump) : dump'[i] = dump[i]
          /\ dump'[Len(dump) + 1] = buf[NumSectors - left]
      <4>1. dump \in Seq([Page -> Contents]) /\ buf[NumSectors - left] \in [Page -> Contents]
        BY <2>1, <3>2 DEF DumpOK
      <4> HIDE DEF Page, Contents
      <4> QED BY <3>1, <4>1, AppendProperties
    <3>4. left' \in 0 .. NumSectors /\ Len(dump') = NumSectors - left'
      BY <2>1, <2>3, <3>1, <3>3 DEF DumpOK
    <3>5. ASSUME NEW s \in Sectors, s < NumSectors - left'
          PROVE  dump'[s + 1] = buf'[s]
      <4>1. CASE s = NumSectors - left
        <5>1. s + 1 = Len(dump) + 1
          BY <2>1, <4>1 DEF DumpOK
        <5> QED BY <2>1, <3>3, <4>1, <5>1
      <4>2. CASE s # NumSectors - left
        <5>1. s < NumSectors - left /\ s + 1 \in 1 .. Len(dump)
          BY <2>1, <3>1, <3>5, <4>2 DEF DumpOK, Sectors
        <5> QED BY <2>1, <3>3, <5>1 DEF DumpOK
      <4> QED BY <4>1, <4>2
    <3> QED BY <2>1, <2>2, <3>3, <3>4, <3>5 DEF DumpOK
  <2>4. CASE ~(left > 0)
    BY <1>3, <2>1, <2>2, <2>4 DEF DumpPart, DumpOK
  <2> QED BY <2>3, <2>4
<1>4. CASE CycleEnds /\ UNCHANGED session
  <2>1. cycle.scip /\ UNCHANGED <<pc, at, left, dump, buf, quiet>>
    BY <1>4 DEF CycleEnds, session
  <2>2. at = "dump" => ~quiet
    BY <2>1, Zenon DEF DumpOK
  <2> QED BY <2>1, <2>2 DEF DumpOK
<1>5. CASE UNCHANGED <<pc, chip, cs, cycle, at, left, dump, buf, quiet>>
  BY <1>5 DEF DumpOK
<1>6. (PowerOff /\ UNCHANGED session) \/ UNCHANGED allvars
      => UNCHANGED <<pc, chip, cs, cycle, at, left, dump, buf, quiet>>
  BY DEF PowerOff, vars, session, allvars
<1>7. StartTool \/ UpdateStarts \/ Update => at' # "dump"
  BY DEF StartTool, UpdateStarts, Update
<1>8. Menu => at' # "dump" \/ DumpStarts \/ DumpPart
  BY DEF Menu, Quit, Leave, DumpRefused, DumpEnds, DumpFails, SaveSmbios, ShowNvs, DumpSio,
         SaveAcpi, Kept, AskWrite, OpenRom, RomRefused, WriteRefused
<1> QED BY <1>1, <1>2, <1>3, <1>4, <1>5, <1>6, <1>7, <1>8 DEF SessionNext

(* A dump that is reported as saved, with no cycle running when it was     *)
(* taken, is the chip, for every size of the chip.                         *)
THEOREM DumpCorrect == SessionSpec => DumpIsChip
<1> DEFINE Inv0 == AtOK /\ DumpOK
           Whole == Len(dump) = NumSectors /\ \A s \in Sectors : dump[s + 1] = chip[cs][s]
<1>1. SessionInit => Inv0
  BY DEF SessionInit, Init, AtOK, DumpOK
<1>2. TypeOK /\ Inv0 /\ [SessionNext]_allvars => Inv0'
  BY NextAtOK, NextDumpOK
<1>3. Inv0 /\ [SessionNext]_allvars => [DumpEnds /\ quiet => Whole]_allvars
  <2> SUFFICES ASSUME DumpOK, DumpEnds, quiet PROVE Whole
    OBVIOUS
  <2>1. at = "dump" /\ left = 0
    BY DEF DumpEnds
  <2>2. buf = chip[cs]
    BY <2>1, Zenon DEF DumpOK
  <2>3. Len(dump) = NumSectors /\ \A s \in Sectors : dump[s + 1] = buf[s]
    BY <2>1, GeometryAssumption DEF DumpOK, Sectors
  <2> QED BY <2>2, <2>3
<1>4. SessionSpec => []TypeOK
  BY SessionRefines, TypeCorrect, PTL DEF UpdatesAsSpecified
<1> HIDE DEF Inv0
<1> QED BY <1>1, <1>2, <1>3, <1>4, PTL DEF SessionSpec, DumpIsChip, allvars
-----------------------------------------------------------------------------
(* The dump of the ACPI tables.                                            *)

LEMMA LeastOf ==
  ASSUME NEW S, S \subseteq Nat, S # {}
  PROVE  MinOf(S) \in S /\ \A y \in S : MinOf(S) <= y
<1>1. PICK x \in S : \A y \in S : ~(<<y, x>> \in OpToRel(<, Nat))
  BY NatLessThanWellFounded, WFMin
<1>2. \A y \in S : ~(y < x)
  BY <1>1 DEF OpToRel
<1>3. \A y \in S : x <= y
  BY <1>2
<1> QED
  BY <1>3 DEF MinOf

(* The highest is the lowest distance from a bound.                        *)
LEMMA HighestOf ==
  ASSUME NEW n \in Nat, NEW S, S \subseteq 0 .. n, S # {}
  PROVE  MaxOf(S) \in S /\ \A y \in S : MaxOf(S) >= y
<1> DEFINE T == {n - x : x \in S}
           m == MinOf(T)
<1>1. T \subseteq Nat /\ T # {}
  <2>1. \A x \in S : n - x \in Nat
    OBVIOUS
  <2> QED  BY <2>1
<1>2. m \in T /\ \A d \in T : m <= d
  BY <1>1, LeastOf
<1> HIDE DEF m
<1>3. PICK x \in S : m = n - x
  BY <1>2
<1>4. ASSUME NEW y \in S  PROVE x >= y
  <2>1. n - x <= n - y
    BY <1>2, <1>3
  <2> QED  BY <2>1
<1> QED
  BY <1>4 DEF MaxOf

(* What RoundUp and EndOf round.                                           *)
LEMMA Divided ==
  ASSUME NEW n \in Nat, NEW d \in Nat \ {0}
  PROVE  /\ (n \div d) * d \in Nat /\ (n \div d) * d <= n
         /\ n < (n \div d) * d + d
<1> DEFINE q == n \div d
<1>1. q \in Nat /\ n = d * q + (n % d) /\ n % d \in 0 .. d - 1
  OBVIOUS
<1>2. d * q = q * d /\ q * d \in Nat
  BY <1>1
<1> HIDE DEF q
<1>3. q * d <= n /\ n < q * d + d
  BY <1>1, <1>2
<1> QED
  BY <1>2, <1>3 DEF q

LEMMA RoundUpHolds ==
  ASSUME NEW n \in Nat
  PROVE  RoundUp(n) \in Nat /\ n <= RoundUp(n)
<1>1. DumpUnit \in Nat \ {0} /\ n + DumpUnit - 1 \in Nat
  BY SessionAssumption
<1> DEFINE r == RoundUp(n)
<1>2. r \in Nat /\ n + DumpUnit - 1 < r + DumpUnit
  BY <1>1, Divided DEF RoundUp
<1> HIDE DEF r
<1>3. n <= r
  BY <1>1, <1>2
<1> QED
  BY <1>2, <1>3 DEF r

LEMMA EndOfTable ==
  ASSUME NEW t \in Table
  PROVE  /\ t.at \in Nat /\ t.len \in Nat /\ t.at + t.len < AddressLimit
         /\ EndOf(t) \in 0 .. AddressLimit /\ t.at + t.len < EndOf(t) + WordSize
<1>1. WordSize \in Nat \ {0} /\ AddressLimit \in Nat
  BY SessionAssumption
<1>2. t.at \in Nat /\ t.len \in Nat /\ t.at + t.len < AddressLimit
  BY <1>1 DEF Table
<1> DEFINE w == (t.len \div WordSize) * WordSize
<1>3. w \in Nat /\ w <= t.len /\ t.len < w + WordSize
  BY <1>1, <1>2, Divided
<1>4. EndOf(t) = t.at + w
  BY DEF EndOf
<1> HIDE DEF w
<1>5. t.at + w \in 0 .. AddressLimit /\ t.at + t.len < (t.at + w) + WordSize
  BY <1>1, <1>2, <1>3
<1> QED
  BY <1>2, <1>4, <1>5

(* The range that SaveAcpi takes of l holds all of it.                     *)
DumpHolds(l, from, to) ==
  /\ from <= l.rsdp /\ l.rsdp + DumpUnit <= to
  /\ \A t \in l.tables \cup {l.rsdt, l.xsdt, l.dsdt} : from <= t.at /\ t.at + t.len < to + WordSize

LEMMA LayoutHeld ==
  ASSUME NEW l \in AcpiLayouts
  PROVE  DumpHolds(l, MinOf(Starts(l)),
                   MinOf(Starts(l)) + RoundUp(MaxOf(Ends(l)) - MinOf(Starts(l))))
<1> DEFINE tables == l.tables \cup {l.rsdt, l.xsdt, l.dsdt}
           from == MinOf(Starts(l))
           end == MaxOf(Ends(l))
<1>1. /\ WordSize \in Nat \ {0} /\ DumpUnit \in Nat \ {0} /\ AddressLimit \in Nat
      /\ l \in AcpiLayout
  BY SessionAssumption
<1>2. l.rsdp \in 0 .. AddressLimit - DumpUnit - 1 /\ l.tables \in SUBSET Table
      /\ l.rsdt \in Table /\ l.xsdt \in Table /\ l.dsdt \in Table
  BY <1>1 DEF AcpiLayout
<1>3. l.rsdp \in Nat /\ l.rsdp + DumpUnit \in 0 .. AddressLimit
  BY <1>1, <1>2
<1>4. tables \subseteq Table
  BY <1>2
<1>5. Starts(l) = {l.rsdp} \cup {t.at : t \in tables}
  BY DEF Starts
<1>6. \A t \in tables : t.at \in Nat
  BY <1>4, EndOfTable
<1>7. Starts(l) \subseteq Nat /\ l.rsdp \in Starts(l) /\ \A t \in tables : t.at \in Starts(l)
  BY <1>3, <1>5, <1>6
<1>8. from \in Nat /\ from <= l.rsdp /\ \A t \in tables : from <= t.at
  <2>1. from \in Starts(l) /\ \A y \in Starts(l) : from <= y
    BY <1>7, LeastOf
  <2> HIDE DEF from, tables
  <2> QED  BY <1>7, <2>1
<1>9. l.xsdt.at + l.xsdt.len \in 0 .. AddressLimit
  BY <1>1, <1>2, EndOfTable
<1>10. \A t \in tables : EndOf(t) \in 0 .. AddressLimit /\ t.at + t.len < EndOf(t) + WordSize
  BY <1>4, EndOfTable
<1>11. /\ Ends(l) \subseteq 0 .. AddressLimit
       /\ l.rsdp + DumpUnit \in Ends(l) /\ l.xsdt.at + l.xsdt.len \in Ends(l)
       /\ \A t \in tables \ {l.xsdt} : EndOf(t) \in Ends(l)
  <2>1. Ends(l) \subseteq {l.rsdp + DumpUnit, l.xsdt.at + l.xsdt.len} \cup {EndOf(t) : t \in tables}
    BY DEF Ends
  <2>2. Ends(l) \subseteq 0 .. AddressLimit
    BY <1>3, <1>9, <1>10, <2>1
  <2>3. l.rsdp + DumpUnit \in Ends(l) /\ l.xsdt.at + l.xsdt.len \in Ends(l)
    BY DEF Ends
  <2>4. \A t \in tables \ {l.xsdt} : EndOf(t) \in Ends(l)
    BY DEF Ends
  <2> QED  BY <2>2, <2>3, <2>4
<1>12. end \in 0 .. AddressLimit /\ \A y \in Ends(l) : y <= end
  <2>1. end \in Ends(l) /\ \A y \in Ends(l) : end >= y
    BY <1>1, <1>11, HighestOf
  <2> HIDE DEF end
  <2>2. end \in 0 .. AddressLimit /\ \A y \in Ends(l) : y \in 0 .. AddressLimit
    BY <1>11, <2>1
  <2> QED  BY <2>1, <2>2
<1>13. \A t \in tables : t.at \in Nat /\ t.len \in Nat /\ t.at + t.len < end + WordSize
  <2>1. ASSUME NEW t \in tables  PROVE t.at \in Nat /\ t.len \in Nat
    BY <1>4, EndOfTable
  <2>2. ASSUME NEW t \in tables  PROVE t.at + t.len < end + WordSize
    <3> HIDE DEF end, tables
    <3>1. CASE t = l.xsdt
      <4>1. t.at + t.len <= end
        BY <1>11, <1>12, <3>1
      <4> QED  BY <1>1, <1>12, <2>1, <4>1
    <3>2. CASE t # l.xsdt
      <4>1. EndOf(t) <= end /\ EndOf(t) \in 0 .. AddressLimit
        BY <1>10, <1>11, <1>12, <3>2
      <4>2. t.at + t.len < EndOf(t) + WordSize
        BY <1>10
      <4> QED  BY <1>1, <1>12, <2>1, <4>1, <4>2
    <3> QED  BY <3>1, <3>2
  <2> QED  BY <2>1, <2>2
<1>14. l.rsdp + DumpUnit <= end
  BY <1>11, <1>12
<1> HIDE DEF from, end, tables
<1> DEFINE size == end - from
           to == from + RoundUp(size)
<1>15. size \in Nat
  BY <1>1, <1>3, <1>8, <1>12, <1>14
<1>16. to \in Nat /\ end <= to
  <2>1. RoundUp(size) \in Nat /\ size <= RoundUp(size)
    BY <1>15, RoundUpHolds
  <2> QED  BY <1>8, <1>12, <2>1
<1> HIDE DEF to
<1>17. l.rsdp + DumpUnit <= to
  BY <1>1, <1>3, <1>12, <1>14, <1>16
<1>18. \A t \in tables : t.at + t.len < to + WordSize
  BY <1>1, <1>12, <1>13, <1>16
<1>19. DumpHolds(l, from, to)
  BY <1>8, <1>17, <1>18 DEF DumpHolds, tables
<1> QED
  BY <1>19 DEF to, from, end

(* A dump of ACPI tables that is saved holds all of them, for every place  *)
(* and length of the tables, and every rounding.                           *)
THEOREM AcpiDumpCorrect == SessionSpec => []AcpiDumpHoldsTables
<1>1. SessionInit => AcpiDumpHoldsTables
  BY DEF SessionInit, AcpiDumpHoldsTables
<1>2. AcpiDumpHoldsTables /\ [SessionNext]_allvars => AcpiDumpHoldsTables'
  <2> SUFFICES ASSUME AcpiDumpHoldsTables, [SessionNext]_allvars  PROVE AcpiDumpHoldsTables'
    OBVIOUS
  <2>1. CASE SaveAcpi
    <3>1. PICK l \in AcpiLayouts :
            acpiDump' = {[layout |-> l, from |-> MinOf(Starts(l)),
                          to |-> MinOf(Starts(l)) + RoundUp(MaxOf(Ends(l)) - MinOf(Starts(l)))]}
      BY <2>1 DEF SaveAcpi
    <3>2. DumpHolds(l, MinOf(Starts(l)),
                    MinOf(Starts(l)) + RoundUp(MaxOf(Ends(l)) - MinOf(Starts(l))))
      BY LayoutHeld
    <3>3. \A d \in acpiDump' : DumpHolds(d.layout, d.from, d.to)
      BY <3>1, <3>2
    <3> QED  BY <3>3 DEF AcpiDumpHoldsTables, DumpHolds
  <2>2. CASE acpiDump' \in {{}, acpiDump}
    BY <2>2 DEF AcpiDumpHoldsTables
  <2>3. StartTool \/ UpdateStarts \/ Update => acpiDump' \in {{}, acpiDump}
    BY DEF StartTool, UpdateStarts, Ended, Update
  <2>4. Menu => SaveAcpi \/ acpiDump' \in {{}, acpiDump}
    BY DEF Menu, Quit, Leave, Ended, DumpStarts, DumpRefused, DumpPart, DumpEnds, DumpFails,
           SaveSmbios, ShowNvs, DumpSio, AskWrite, OpenRom, RomRefused, WriteRefused
  <2>5. UNCHANGED session \/ UNCHANGED allvars => acpiDump' = acpiDump
    BY DEF session, allvars
  <2> QED  BY <2>1, <2>2, <2>3, <2>4, <2>5 DEF SessionNext
<1> QED
  BY <1>1, <1>2, PTL DEF SessionSpec, allvars
=============================================================================
