-------------------------- MODULE LegacyBiosPlatform --------------------------
(***************************************************************************)
(* The platform's part in a legacy boot (LegacyBiosPlatform.c): which VGA  *)
(* device to use, the hooks around option ROMs, the $PIR table, and the    *)
(* IRQ of each interrupt pin.  The legacy BIOS driver, which is not in     *)
(* this package, calls them: it writes the IRQs to the Interrupt Line      *)
(* registers of the functions, and passes the $PIR table to the operating  *)
(* system, which routes the same pins by it.  Both rest on the board's     *)
(* table PirqTable and on the routing registers the PEI driver has written *)
(* from two other tables of the board.                                     *)
(***************************************************************************)
EXTENDS PeiPlatform, FiniteSets

CONSTANTS
  PirqTable,              \* PIRQ |-> IRQ, or 0x80 and more if it is off
  DxxR,                   \* devices of bus 0 with a routing register
  Volumes                 \* sequences of what the firmware volumes hold

(* As in PlatformData.c: PIRQA is not off; every register is written, and  *)
(* PirqTable and PirqRoute give a PIRQ the same IRQ.                       *)
ASSUME RoutesAssumption ==
  /\ PirqTable \in [Pirqs -> 0 .. 255] /\ 0 \in Pirqs /\ PirqTable[0] < 16
  /\ \A p \in Pirqs : PirqTable[p] = PirqRoute[p]
  /\ DxxR \subseteq DOMAIN IrqRouteTable
  /\ \A v \in Volumes : v \in Seq({v[i] : i \in DOMAIN v}) /\ \E i \in DOMAIN v : v[i] # None

VARIABLES
  handles,                \* the PCI functions, in the order they are located
  smram,                  \* where SMRAM regions begin: sequence of [low, open]
  ideDecode,
  rom,                    \* the image at F0000, or None
  pir,                    \* RoutingTable, and the priority table; or None
  interruptLine           \* PCI function |-> its Interrupt Line register, once written

legacyVars == <<handles, smram, ideDecode, rom, pir, interruptLine>>

(* A PCI function: its address, interrupt pin (0: none), class, and the    *)
(* driver for a Graphics Output protocol that there is for it.             *)
PciFunction ==
  [bus : Nat, dev : 0 .. 31, fn : 0 .. 7, pin : 0 .. 4,
   class : {"VGA", "old VGA", "LPC", "serial", "SATA", "other"},
   gop : {"native", "legacy", "none"}]

Functions == {handles[i] : i \in DOMAIN handles}

(* The element of s that is the first of those in T.                       *)
FirstOf(s, T) ==
  s[CHOOSE i \in DOMAIN s : s[i] \in T /\ \A j \in DOMAIN s : s[j] \in T => i <= j]

-----------------------------------------------------------------------------
(* GetPlatformHandle.                                                      *)

IsVga(f) == f.class \in {"VGA", "old VGA"}

(* EfiGetPlatformVgaHandle: the first one found.                           *)
PlatformVgaHandle ==
  IF \E f \in Functions : IsVga(f)
  THEN [status |-> "SUCCESS", handle |-> FirstOf(handles, {f \in Functions : IsVga(f)})]
  ELSE [status |-> "UNSUPPORTED", handle |-> None]

(* EfiGetPlatformIdeHandle with INT13_SMM_HANDLER, IsaBus, Usb, and others.*)
PlatformHandle(mode) ==
  CASE mode = "Vga" -> PlatformVgaHandle
    [] mode = "Ide" -> [status |-> "NOT_FOUND", handle |-> None]
    [] mode \in {"IsaBus", "Usb"} -> [status |-> "UNSUPPORTED", handle |-> None]
    [] OTHER -> [status |-> "SUCCESS", handle |-> None]

(* GetSectionInAnyFv: the file of the first volume that has it; each       *)
(* volume is the image in it, or None.                                     *)
GetSectionInAnyFv(fvs) ==
  LET found == {fvs[i] : i \in DOMAIN fvs} \ {None} IN
  IF found # {} THEN FirstOf(fvs, found) ELSE None

(* ASSERT (BiosSection != NULL), UnLock, and the copy.                     *)
LoadRom(fvs) ==
  /\ GetSectionInAnyFv(fvs) # None
  /\ rom' = GetSectionInAnyFv(fvs)

(* GetPlatformInfo has an image for one mode: the CSM, which it loads.     *)
GetPlatformInfo ==
  /\ rom = None
  /\ \E v \in Volumes : LoadRom(v)
  /\ UNCHANGED <<handles, smram, ideDecode, pir, interruptLine>>

(* EfiPlatformHookPrepareToScanRom closes the first SMRAM region below 1 MB*)
(* and has the SATA controllers decode the IDE ports.                      *)
PlatformHooks ==
  /\ LET low == {i \in DOMAIN smram : smram[i].low}
         first == CHOOSE i \in low : \A j \in low : i <= j
     IN smram' = IF low = {} THEN smram ELSE [smram EXCEPT ![first].open = FALSE]
  /\ ideDecode' = TRUE
  /\ UNCHANGED <<handles, rom, pir, interruptLine>>

-----------------------------------------------------------------------------
(* GetRoutingTable.                                                        *)

(* IrqMask, as the set of its bits.                                        *)
IrqMask(irq) == IF irq >= Off THEN {} ELSE {irq}

HasRegister(f) == f.bus = 0 /\ f.dev \in DxxR

IrqRoutingEntry(f) ==
  [bus |-> f.bus, dev |-> f.dev,
   pirq |-> IF HasRegister(f) THEN <<1, 2, 3, 4>> ELSE <<1, 0, 0, 0>>,
   mask |-> IF HasRegister(f)
            THEN [i \in 1 .. 4 |-> IrqMask(PirqTable[irqRoute[f.dev][i]])]
            ELSE <<{PirqTable[0]}, {}, {}, {}>>]

SameDevice(e, f) == e.bus = f.bus /\ e.dev = f.dev

(* The first function of each Bus:Device of s.                             *)
Devices(s) ==
  LET devices[n \in 0 .. Len(s)] ==
        IF n = 0 THEN << >>
        ELSE IF \E i \in DOMAIN devices[n - 1] : SameDevice(devices[n - 1][i], s[n])
             THEN devices[n - 1] ELSE Append(devices[n - 1], s[n])
  IN  devices[Len(s)]

RoutingTable ==
  [i \in DOMAIN Devices(handles) |-> IrqRoutingEntry(Devices(handles)[i])]

(* Four entries are announced; the loop writes the first one four times.   *)
IrqPriorityTable ==
  LET Written(irq) == IF irq >= Off THEN [irq |-> 0, used |-> FALSE] ELSE [irq |-> irq, used |-> TRUE]
  IN [i \in 1 .. 4 |-> IF i = 1 THEN Written(PirqTable[3]) ELSE [irq |-> 0, used |-> FALSE]]

GetRoutingTable ==
  /\ pir' = [entries |-> RoutingTable, size |-> 32 + 16 * Len(RoutingTable),
             priority |-> IrqPriorityTable]
  /\ UNCHANGED <<handles, smram, ideDecode, rom, interruptLine>>

-----------------------------------------------------------------------------
(* TranslatePirq; the pins count from 0.  A device without a register is   *)
(* taken for one of the north bridge, also behind a bridge.  Mutant: the   *)
(* pins count from 1.                                                      *)
PirqOfNext(f, IntX) == IF HasRegister(f) THEN irqRoute[f.dev][((IntX + 1) % 4) + 1] ELSE 0
PirqOf(f, IntX) == IF HasRegister(f) THEN irqRoute[f.dev][IntX + 1] ELSE 0

TranslatePirq(f, IntX) ==
  IF IntX > 3 \/ (~HasRegister(f) /\ IntX # 0) THEN [status |-> "UNSUPPORTED", irq |-> None]
  ELSE [status |-> "SUCCESS", irq |-> PirqTable[PirqOf(f, IntX)]]

(* The legacy BIOS driver asks for every function with an interrupt pin.   *)
ProgramInterruptLines ==
  /\ interruptLine' = [f \in Functions |->
       LET translated == TranslatePirq(f, f.pin - 1) IN
       IF f.pin # 0 /\ translated.status = "SUCCESS" THEN translated.irq ELSE None]
  /\ UNCHANGED <<handles, smram, ideDecode, rom, pir>>

-----------------------------------------------------------------------------
(* Before the driver is loaded: SMRAM is TSEG, or has a region below 1 MB. *)
Smram == <<[low |-> FALSE, open |-> TRUE], [low |-> TRUE, open |-> TRUE]>>

LegacyReset ==
  /\ handles = <<>> /\ smram = Smram
  /\ ideDecode = FALSE /\ rom = None /\ pir = None
  /\ interruptLine = None

(* The machine is left to the operating system, or reset.                  *)
LegacyEnds ==
  /\ handles' = <<>> /\ smram' = Smram
  /\ ideDecode' = FALSE /\ rom' = None /\ pir' = None /\ interruptLine' = None

LegacyTypeOK ==
  /\ handles \in Seq(PciFunction)
  /\ smram \in Seq([low : BOOLEAN, open : BOOLEAN])
  /\ ideDecode \in BOOLEAN /\ rom \in {None} \cup UNION {{v[i] : i \in DOMAIN v} : v \in Volumes}
  /\ interruptLine = None \/ interruptLine \in [Functions -> (0 .. 255) \cup {None}]

(* The $PIR table and the Interrupt Line registers route every interrupt   *)
(* pin alike, and to the IRQ the chipset sends it to: an operating system  *)
(* that goes by either gets the interrupts of a device.  A pin whose PIRQ  *)
(* is off has no IRQ in the table, and one that is not translated none     *)
(* either.  No device is missing, and none is there twice.                 *)
Routed(f, e, line) ==
  IF line = None THEN e.pirq[f.pin] = 0
  ELSE /\ e.pirq[f.pin] # 0 /\ e.mask[f.pin] = IrqMask(line)
       /\ HasRegister(f) => line = pirqRout[irqRoute[f.dev][f.pin]]

RoutesAgree ==
  pir # None /\ interruptLine # None =>
    \A f \in Functions :
      LET entries == {i \in DOMAIN pir.entries : SameDevice(pir.entries[i], f)} IN
      /\ Cardinality(entries) = 1
      /\ \A i \in entries : f.pin # 0 => Routed(f, pir.entries[i], interruptLine[f])
=============================================================================
