------------------------------ MODULE LegacyBoot ------------------------------
(***************************************************************************)
(* Legacy boot over the Int 13 SMM handler, from the user's choice to the  *)
(* jump to the boot sector and the disk requests that follow:              *)
(*   PlatformUpdateBbsTable   lists the SATA devices in the boot table     *)
(*   PrepareToBoot            gives the chosen entry the priority 0        *)
(*   Legacy16PrepareToBoot    hands that entry to the handler: FirstCall   *)
(*   Int 19                   loads the boot sector by Int 13              *)
(*   Int 13                   asks the handler by an SMI                   *)
(* Int 13 runs with interrupts off and the SMI stops everything else, so a *)
(* request is one step.  The devices may differ between the two times they *)
(* are enumerated: PrepareToBoot connects the controllers in between.      *)
(***************************************************************************)
EXTENDS Integers, Sequences, FiniteSets

CONSTANTS
  Places,             \* where a device can be: controller and port
  Strings,            \* what a boot option can be called: port and model
  Inventories,        \* the handles with BlockIo, in the order of their buffer
  RomEntries,         \* entries of the boot table made by option ROMs
  MAX_HDD_SUPPORTED,
  BBS_ENTRIES_NUMBER,
  DriveNumbers,       \* the drive numbers the OS asks for
  Tries               \* Int 19 tries to read the boot sector so often

(* A device: its kind ("other" is a partition, or not on SATA), where it   *)
(* is, the string made of its port and model, and what there is to boot:   *)
(* for a disk "signed" or "unsigned"; for a CD "bootable", "elsewhere" (to *)
(* be loaded at a segment) or "none".                                      *)
Device == [kind : {"disk", "cd", "other"}, loc : Places, name : Strings,
           boot : {"signed", "unsigned", "bootable", "elsewhere", "none"}]
None == [kind |-> "none"]
Priorities == {"0", "LATER", "LOWEST", "UNPRIORITIZED"}
Entry == [type : {"disk", "cd", "bev"}, loc : Places \cup {""}, name : Strings \cup {""},
          prio : Priorities]
(* Whose data is at 0:7C00.                                                *)
Origins == Places \cup {"catalog", "leftover"}

(* Every handle is a device of its own.                                    *)
ASSUME InventoriesAssumption ==
  /\ Places \cap {"", "catalog", "leftover"} = {}
  /\ \A inv \in Inventories :
       inv \in Seq(Device) /\ \A i, j \in DOMAIN inv : inv[i] = inv[j] => i = j
  /\ RomEntries \in Seq(Entry)
(* A drive may come or go while the machine boots, but a disk is not       *)
(* exchanged for a CD drive at the same place, and an option ROM names no  *)
(* place of a SATA drive of another kind.                                  *)
ASSUME PlacesAssumption ==
  \A inv \in Inventories : \A i \in DOMAIN inv : inv[i].kind # "other" =>
    /\ \A old \in Inventories : \A j \in DOMAIN old :
         old[j].kind # "other" /\ old[j].loc = inv[i].loc => old[j].kind = inv[i].kind
    /\ \A n \in DOMAIN RomEntries :
         RomEntries[n].type # "bev" /\ RomEntries[n].loc = inv[i].loc =>
           RomEntries[n].type = inv[i].kind
ASSUME BoundsAssumption ==
  /\ MAX_HDD_SUPPORTED \in 1 .. 16 /\ BBS_ENTRIES_NUMBER \in Nat /\ Tries \in Nat \ {0}
  /\ DriveNumbers \subseteq 0 .. 255

VARIABLES
  handles,            \* what LocateHandleBuffer returns
  BbsTable,           \* the boot table
  chosen,             \* the string of the boot option
  pc,
  BbsEntry,           \* the entry in the communication buffer
  Regs,               \* FirstCall has been: Regs is not NULL
  BootDevice, CdBlockIo, HardDriveBlockIo,
  tpl,                \* the task priority level
  cx,                 \* tries left
  mem7C00,            \* what is at 0:7C00: whose, and whether it has the signature
  reply               \* the last answer of Int 13 to the OS

table == <<BbsTable, chosen>>
handler == <<Regs, BootDevice, CdBlockIo, HardDriveBlockIo>>
vars == <<handles, table, pc, BbsEntry, handler, tpl, cx, mem7C00, reply>>

-----------------------------------------------------------------------------
(* The boot table.                                                         *)

(* The elements of s that are in T, in their order.                        *)
Select(s, T) ==
  LET found[n \in 0 .. Len(s)] ==
        IF n = 0 THEN << >>
        ELSE IF s[n] \in T THEN Append(found[n - 1], s[n]) ELSE found[n - 1]
  IN  found[Len(s)]

Found == {handles[i] : i \in DOMAIN handles}
Drives(kinds) == Select(handles, {d \in Found : d.kind \in kinds})
Cut(s, n) == SubSeq(s, 1, IF Len(s) < n THEN Len(s) ELSE n)

SataEntry(d) == [type |-> d.kind, loc |-> d.loc, name |-> d.name, prio |-> "UNPRIORITIZED"]

PlatformUpdateBbsTable ==
  /\ pc = "start"
  /\ LET found == Cut(Drives({"disk", "cd"}), BBS_ENTRIES_NUMBER)
     IN BbsTable' = RomEntries \o [i \in 1 .. Len(found) |-> SataEntry(found[i])]
  /\ pc' = "table"
  /\ UNCHANGED <<handles, chosen, BbsEntry, handler, tpl, cx, mem7C00, reply>>

(* The user chooses a boot option, perhaps one kept from an earlier boot    *)
(* whose device is gone; the boot manager may have ordered the table.      *)
Names == {BbsTable[i].name : i \in DOMAIN BbsTable}
         \cup UNION {{inv[i].name : i \in DOMAIN inv} : inv \in Inventories}

Choose ==
  /\ pc = "table"
  /\ chosen' \in Names
  /\ \/ UNCHANGED BbsTable
     \/ \E first \in DOMAIN BbsTable :
          BbsTable' = [i \in DOMAIN BbsTable |->
            [BbsTable[i] EXCEPT !.prio = IF i = first THEN "0" ELSE "LATER"]]
  /\ pc' = "prepare"
  /\ UNCHANGED <<handles, BbsEntry, handler, tpl, cx, mem7C00, reply>>

IsFirst(i, S) == i \in S /\ \A j \in S : i <= j

(* PrepareToBoot connects the SATA controllers, and gives the first entry  *)
(* with the chosen string the priority 0, the prioritized others the       *)
(* lowest.                                                                 *)
DemotedNever(prio) == prio
Demoted(prio) == IF prio = "UNPRIORITIZED" THEN prio ELSE "LOWEST"

Matches == {j \in DOMAIN BbsTable : BbsTable[j].name = chosen}

PrepareToBoot ==
  /\ pc = "prepare"
  /\ handles' \in Inventories
  /\ \E i \in DOMAIN BbsTable :
       /\ IsFirst(i, Matches)
       /\ BbsTable' = [j \in DOMAIN BbsTable |->
            [BbsTable[j] EXCEPT !.prio = IF j = i THEN "0" ELSE Demoted(@)]]
  /\ pc' = "rom"
  /\ UNCHANGED <<chosen, BbsEntry, handler, tpl, cx, mem7C00, reply>>

(* EFI_UNSUPPORTED: the boot manager goes on to another option.            *)
Unsupported ==
  /\ pc = "prepare" /\ Matches = {}
  /\ handles' \in Inventories
  /\ pc' = "table"
  /\ UNCHANGED <<table, BbsEntry, handler, tpl, cx, mem7C00, reply>>

-----------------------------------------------------------------------------
(* Legacy16PrepareToBoot takes the first entry with priority 0 and raises  *)
(* the SMI that gives it to the handler.                                   *)

(* FindSataBlockIo: one slot of the array always stays free, and a disk    *)
(* for which there is none is not looked at any further.                   *)
TooManyDisks == Cut(Drives({"disk"}), MAX_HDD_SUPPORTED)
Disks == Cut(Drives({"disk"}), MAX_HDD_SUPPORTED - 1)
Cds == Drives({"cd"})

LastOr(s, default) == IF s = << >> THEN default ELSE s[Len(s)]

MatchingAny(e) == handles
Matching(e) ==
  Select(handles, {d \in Found : /\ d.loc = e.loc
                                 /\ d.kind = "cd" \/ \E i \in DOMAIN Disks : Disks[i] = d})

(* The boot disk and drive 80h change places, if the boot disk is a disk.  *)
CopiedFirst(disks, boot) ==
  [i \in DOMAIN disks |-> IF i = 1 /\ \E j \in DOMAIN disks : disks[j] = boot THEN boot ELSE disks[i]]
SwappedFirst(disks, boot) ==
  [i \in DOMAIN disks |-> IF i = 1 /\ \E j \in DOMAIN disks : disks[j] = boot THEN boot
                          ELSE IF disks[i] = boot THEN disks[1] ELSE disks[i]]

FindSataBlockIo(e) ==
  IF e.type \notin {"disk", "cd"} THEN UNCHANGED <<BootDevice, CdBlockIo, HardDriveBlockIo>>
  ELSE /\ CdBlockIo' = LastOr(Cds, None)
       /\ BootDevice' = LastOr(Matching(e), None)
       /\ HardDriveBlockIo' = IF e.type = "disk" THEN SwappedFirst(Disks, BootDevice') ELSE Disks

Legacy16PrepareToBoot ==
  /\ pc = "rom"
  /\ \E i \in DOMAIN BbsTable :
       /\ IsFirst(i, {j \in DOMAIN BbsTable : BbsTable[j].prio = "0"})
       /\ BbsEntry' = BbsTable[i]
       /\ FindSataBlockIo(BbsTable[i])
  /\ Regs' = TRUE
  /\ pc' = "int19" /\ cx' = Tries
  /\ UNCHANGED <<handles, table, tpl, mem7C00, reply>>

-----------------------------------------------------------------------------
(* SwDispatchInt13Hahdler after the first call: the possible answers to a  *)
(* request.  The flags that are not set by the handler are the caller's.   *)

Requests == {"reset", "parameters", "read", "write", "spec", "boot", "invalid"}
PRIMARY_CDROM_IDENT == 240
FirstDisk == 128

getPreferredBlockIo(dl) ==
  LET i == dl - FirstDisk + 1
  IN  IF dl = PRIMARY_CDROM_IDENT THEN CdBlockIo
      ELSE IF i \in DOMAIN HardDriveBlockIo THEN HardDriveBlockIo[i] ELSE None

Answer(cf, from, level, mem) == [cf |-> cf, from |-> from, tpl |-> level, mem |-> mem]
Ignored(cf) == Answer(cf, None, tpl, mem7C00)
EParamWithoutCarry == Answer(FALSE, None, tpl, mem7C00)
EParam == Answer(TRUE, None, tpl, mem7C00)
Success(d) == Answer(FALSE, d, tpl, mem7C00)

Sector(d) == [loc |-> d.loc, signed |-> d.boot = "signed"]
Catalog == [loc |-> "catalog", signed |-> FALSE]

(* No media; an error of either of the first reads or in the catalog, with *)
(* the volume descriptor or the catalog left at 7C00; emulation; an error  *)
(* of the last read; the boot image loaded.                                *)
PerformCdBootAtCallback(cd) ==
  {EParam} \cup (IF cd.boot = "none" THEN {} ELSE {Answer(FALSE, cd, "CALLBACK", Sector(cd))})
PerformCdBoot(cd) ==
  {EParam, Answer(TRUE, None, "CALLBACK", Catalog)} \cup
  (IF cd.boot = "none" THEN {}
   ELSE {Answer(FALSE, cd, tpl, IF cd.boot = "elsewhere" THEN Catalog ELSE Sector(cd))})

(* A sector operation fails without media, on an error of the device, and  *)
(* a write on a CD.                                                        *)
Transfer(d, request) == {EParam} \cup (IF request = "write" /\ d.kind = "cd" THEN {} ELSE {Success(d)})

Int13(request, dl, cf) ==
  IF BootDevice = None THEN {Ignored(cf)}
  ELSE IF BbsEntry.type = "cd" /\ request = "boot" THEN PerformCdBoot(CdBlockIo)
  ELSE LET d == getPreferredBlockIo(dl)
       IN  IF d = None THEN {EParam}
           ELSE CASE request = "reset" -> {Success(d)}
                  [] request \in {"parameters", "read", "write"} -> Transfer(d, request)
                  [] request = "spec" -> IF dl = PRIMARY_CDROM_IDENT THEN {Success(d)} ELSE {EParam}
                  [] request \in {"boot", "invalid"} -> {EParam}

-----------------------------------------------------------------------------
(* Int 19.  The carry flag is clear when it calls Int 13.                  *)

BootFromCd ==
  /\ pc = "int19" /\ BbsEntry.type = "cd"
  /\ \E a \in Int13("boot", PRIMARY_CDROM_IDENT, FALSE) :
       /\ mem7C00' = a.mem /\ tpl' = a.tpl
       /\ pc' = IF a.cf THEN "int18" ELSE "os"
  /\ UNCHANGED <<handles, table, BbsEntry, handler, cx, reply>>

TriesReloaded == IF cx = 1 THEN Tries ELSE cx - 1
TriesLeft == cx - 1

(* The boot sector is read to 7C00 and its signature tested.               *)
BootFromDisk ==
  /\ pc = "int19" /\ BbsEntry.type = "disk"
  /\ \E a \in Int13("read", FirstDisk, FALSE) :
       /\ tpl' = a.tpl
       /\ mem7C00' = IF a.from = None THEN mem7C00 ELSE Sector(a.from)
       /\ \/ /\ ~a.cf
             /\ pc' = IF mem7C00'.signed THEN "os" ELSE "int18"
             /\ UNCHANGED cx
          \/ /\ a.cf
             /\ cx' = TriesLeft
             /\ pc' = IF cx' = 0 THEN "int18" ELSE "int19"
  /\ UNCHANGED <<handles, table, BbsEntry, handler, reply>>

BootFromOther ==
  /\ pc = "int19" /\ BbsEntry.type \notin {"disk", "cd"}
  /\ pc' = "int18"
  /\ UNCHANGED <<handles, table, BbsEntry, handler, tpl, cx, mem7C00, reply>>

(* "No boot device, press any key": Int 18 returns to Int 19.              *)
Int18 ==
  /\ pc = "int18"
  /\ pc' = "int19" /\ cx' = Tries
  /\ UNCHANGED <<handles, table, BbsEntry, handler, tpl, mem7C00, reply>>

(* The OS and its loader ask for disk services; 7C00 is theirs now.        *)
OsInt13 ==
  /\ pc = "os"
  /\ \E request \in Requests, dl \in DriveNumbers, cf \in BOOLEAN :
       \E a \in Int13(request, dl, cf) :
         /\ reply' = [request |-> request, dl |-> dl, cf |-> a.cf, from |-> a.from]
         /\ tpl' = a.tpl
  /\ UNCHANGED <<handles, table, pc, BbsEntry, handler, cx, mem7C00>>

-----------------------------------------------------------------------------
NoReply == [request |-> "none", dl |-> 0, cf |-> TRUE, from |-> None]
NoEntry == [type |-> "bev", loc |-> "", name |-> "", prio |-> "UNPRIORITIZED"]

Init ==
  /\ handles \in Inventories
  /\ BbsTable = << >> /\ chosen = "" /\ pc = "start" /\ BbsEntry = NoEntry
  /\ Regs = FALSE /\ BootDevice = None /\ CdBlockIo = None /\ HardDriveBlockIo = << >>
  /\ tpl = "APPLICATION" /\ cx = 0
  /\ mem7C00 \in [loc : {"leftover"}, signed : BOOLEAN]
  /\ reply = NoReply

Int19 == BootFromCd \/ BootFromDisk \/ BootFromOther
Next ==
  \/ PlatformUpdateBbsTable \/ Choose \/ PrepareToBoot \/ Unsupported \/ Legacy16PrepareToBoot
  \/ Int19 \/ Int18 \/ OsInt13

Spec == Init /\ [][Next]_vars
FairSpec == Spec /\ WF_vars(Int19)

-----------------------------------------------------------------------------
TypeOK ==
  /\ handles \in Inventories
  /\ BbsTable \in Seq(Entry)
  /\ pc \in {"start", "table", "prepare", "rom", "int19", "int18", "os"}
  /\ Regs \in BOOLEAN
  /\ Len(HardDriveBlockIo) < MAX_HDD_SUPPORTED
  /\ mem7C00 \in [loc : Origins, signed : BOOLEAN]
  /\ tpl \in {"APPLICATION", "CALLBACK"}
  /\ cx \in 0 .. Tries

(* "Boot from the selected disk: it is drive 80h, the others follow in the *)
(* order they are found": with the boot disk known, it is drive 80h, and   *)
(* every disk found has one drive number.                                  *)
BootDiskIsFirst ==
  /\ Regs /\ BbsEntry.type = "disk" /\ BootDevice # None => HardDriveBlockIo[1] = BootDevice
  /\ Regs /\ BbsEntry.type # "bev" =>
       \A d \in {Disks[i] : i \in DOMAIN Disks} :
         Cardinality({i \in DOMAIN HardDriveBlockIo : HardDriveBlockIo[i] = d}) = 1

(* The entry the ROM boots is the one the user has chosen, whatever order  *)
(* of booting the table had before: no other entry has the priority 0.     *)
ChosenIsFirst ==
  pc = "rom" => \A i \in DOMAIN BbsTable : BbsTable[i].prio = "0" =>
                  /\ BbsTable[i].name = chosen
                  /\ \A j \in DOMAIN BbsTable : BbsTable[j].prio = "0" => i = j

(* "Jump to boot sector": what runs at 7C00 was read from the device of    *)
(* the entry that is booted.                                               *)
JumpMeansLoaded == pc = "os" => mem7C00.loc = BbsEntry.loc

(* It holds where the handler has found that device, the board has one CD  *)
(* drive at most, and a CD asks to be loaded at 7C00.                      *)
BootsTheEntry ==
  BootDevice # None /\ Len(Cds) <= 1 /\ BootDevice.boot # "elsewhere" => JumpMeansLoaded

(* A request that succeeds was served by the drive it names: an absent     *)
(* drive, a failed transfer and an unknown function never answer with the  *)
(* carry flag clear, and drive 80h is the disk the machine was booted from.*)
SuccessIsServed ==
  BootDevice # None /\ ~reply.cf =>
    /\ reply.from # None /\ reply.request # "invalid"
    /\ reply.request # "boot" => (reply.from.kind = "cd" <=> reply.dl = PRIMARY_CDROM_IDENT)
    /\ reply.dl = FirstDisk /\ BbsEntry.type = "disk" => reply.from = BootDevice

(* A request that succeeds leaves the task priority level as it found it:  *)
(* the boot loader runs, and its requests return, at the level of the boot.*)
TplRestored ==
  [][ (pc = "int19" /\ pc' = "os") \/ (pc = "os" /\ ~reply'.cf) => tpl' = tpl ]_vars

(* Every attempt of Int 19 ends: the OS runs, or the message is shown.     *)
AttemptEnds == pc = "int19" ~> pc \in {"os", "int18"}
=============================================================================
