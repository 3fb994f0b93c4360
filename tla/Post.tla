--------------------------------- MODULE Post ---------------------------------
(***************************************************************************)
(* A machine from power-on to the operating system and on through further  *)
(* boots: the PEI platform, the BDS platform, the legacy platform, and the *)
(* delays PEI calls.  The boot mode and the routing registers pass from    *)
(* PEI to what follows; ConOut, ConIn, ErrOut, Setup and ConsoleType pass  *)
(* from one boot to the next, between which the user may change them, and  *)
(* the PCI devices.                                                        *)
(***************************************************************************)
EXTENDS PlatformTimers, PlatformBds

VARIABLE phase

vars == <<phase, timerVars, peiVars, legacyVars, romVars, bdsVars>>

-----------------------------------------------------------------------------
Init ==
  /\ phase = "PEI"
  /\ TimersRest /\ PeiInit /\ LegacyReset /\ BdsInit
  /\ volumes = <<>> /\ optionRom = None

Pei ==
  /\ phase = "PEI" /\ delay = "none"
  /\ PeiNext
  /\ UNCHANGED <<phase, timerVars, legacyVars, romVars, bdsVars>>

(* Bound: a delay is only told apart at one point of PEI.                  *)
Delay ==
  /\ phase = "PEI" /\ peiPc = "services" /\ bootMode = "full configuration"
  /\ TimersNext
  /\ UNCHANGED <<phase, peiVars, legacyVars, romVars, bdsVars>>

(* A resume ends in the waking vector of the operating system, all else in *)
(* DXE.                                                                    *)
PeiEnds ==
  /\ phase = "PEI" /\ peiPc = "over"
  /\ phase' = IF bootMode = "S3 resume" THEN "OS" ELSE "DXE"
  /\ UNCHANGED <<timerVars, peiVars, legacyVars, romVars, bdsVars>>

(* The legacy BIOS driver is dispatched, which loads the CSM.  The        *)
(* flash may have been written since the last boot.                        *)
Dxe ==
  /\ phase = "DXE"
  /\ GetPlatformInfo
  /\ phase' = "BDS"
  /\ volumes' \in RomVolumes /\ UNCHANGED optionRom
  /\ UNCHANGED <<timerVars, peiVars, bdsVars>>

Bds ==
  /\ phase = "BDS"
  /\ BdsNext
  /\ UNCHANGED <<phase, timerVars, peiVars>>

(* A boot option of type BBS: the legacy BIOS driver gets the machine      *)
(* ready, and Legacy16Boot of LegacyBoot follows.                          *)
LegacyBoot ==
  /\ phase = "BDS" /\ bdsPc = "done"
  /\ ProgramInterruptLines \/ GetRoutingTable
  /\ UNCHANGED <<phase, timerVars, peiVars, romVars, bdsVars>>

OperatingSystem ==
  /\ phase = "BDS" /\ bdsPc = "done"
  /\ phase' = "OS"
  /\ LegacyEnds /\ BdsOver
  /\ optionRom' = None /\ volumes' = <<>>
  /\ UNCHANGED <<timerVars, peiVars>>

ChangesVariables ==
  /\ phase = "OS"
  /\ ChangeVariables
  /\ UNCHANGED <<phase, timerVars, peiVars, legacyVars, romVars>>

(* The machine is switched off, devices are changed, and it is switched on *)
(* again.  Bound: PEI, which reads nothing that the last boot has left,    *)
(* is passed over.                                                         *)
BootAgain ==
  /\ phase = "OS"
  /\ phase' = "DXE"
  /\ bootMode' = "full configuration"
  /\ UNCHANGED <<peiPc, irqRoute, pirqRout, graphicsMemory, tested, mtrrVars, timerVars,
                 legacyVars, romVars, bdsVars>>

Next ==
  \/ Pei \/ Delay \/ PeiEnds \/ Dxe \/ Bds
  \/ LegacyBoot \/ OperatingSystem \/ ChangesVariables \/ BootAgain

Spec == Init /\ [][Next]_vars /\ TimersFairness

-----------------------------------------------------------------------------
(* Every variable of the machine has its type; one phase runs at a time,   *)
(* and boots that reach BDS have the mode its ASSERT wants, S4 included.   *)
TypeOK ==
  /\ phase \in {"PEI", "DXE", "BDS", "OS"}
  /\ TimersTypeOK /\ PeiTypeOK /\ LegacyTypeOK /\ PciTypeOK /\ BdsTypeOK
  /\ delay # "none" => phase = "PEI"
  /\ phase \in {"DXE", "BDS"} => bootMode = "full configuration"
  /\ bdsPc # "init" => phase = "BDS" /\ rom # None
=============================================================================
