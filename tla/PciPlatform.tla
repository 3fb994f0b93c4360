------------------------------ MODULE PciPlatform ------------------------------
(***************************************************************************)
(* The PCI platform driver (PciPlatformDxe): as the PCI bus is enumerated  *)
(* it gives the SATA controller the AHCI option ROM of the firmware        *)
(* volumes, in which it sets a delay to what Setup asks for, and the       *)
(* checksum so that the bytes of the image have the sum they had: the      *)
(* legacy BIOS does not run an image with another sum.                     *)
(***************************************************************************)
EXTENDS LegacyBiosPlatform

CONSTANTS
  Byte,                     \* 2^8
  SataAhciFastDelay,        \* the low and the high byte
  SataAhciSlowDelay,
  RomVolumes                \* sequences of what the firmware volumes hold

Bytes == 0 .. Byte - 1

(* An image: whether its headers are those of a PC-AT image, whether the   *)
(* marker is in it, and its bytes: checksum, those of the delay, and the   *)
(* sum of all others.                                                      *)
RomImages ==
  [header : BOOLEAN, marker : BOOLEAN, checksum : Bytes, delay : Bytes \X Bytes, rest : Bytes]

ASSUME RomsAssumption ==
  /\ Byte \in Nat \ {0}
  /\ SataAhciFastDelay \in Bytes \X Bytes /\ SataAhciSlowDelay \in Bytes \X Bytes
  /\ \A v \in RomVolumes : v \in Seq(RomImages \cup {None})
  /\ None \notin RomImages

VARIABLES
  volumes,                  \* those of this machine
  optionRom                 \* of the SATA controller, or None

romVars == <<volumes, optionRom>>

-----------------------------------------------------------------------------
DelayOf(setup) == IF setup = "slow" THEN SataAhciSlowDelay ELSE SataAhciFastDelay

(* Mutant: the delay is taken for one byte.                                *)
NewChecksumOfByte(image, delay) == (image.checksum + image.delay[1] - delay[1]) % Byte
NewChecksum(image, delay) ==
  (image.checksum + image.delay[1] + image.delay[2] - delay[1] - delay[2]) % Byte

(* CheckAndPatchSataAhciRom; an image that has the delay stays as it is.   *)
Patchable(image, setup) == setup # None /\ image.header /\ image.marker

Patched(image, setup) ==
  IF image.delay = DelayOf(setup) THEN image
  ELSE [image EXCEPT !.checksum = NewChecksum(image, DelayOf(setup)), !.delay = DelayOf(setup)]

(* PciPlatformGetPciRom.  gPlatformOpromTable has the AHCI image for the   *)
(* SATA controller, and no CustomGetRom; the video images are given as     *)
(* they are.                                                               *)
PciPlatformGetPciRom(f, setup) ==
  LET image == GetSectionInAnyFv(volumes) IN
  IF f.class = "SATA" /\ image # None /\ Patchable(image, setup) THEN Patched(image, setup)
  ELSE None

(* The PCI bus driver enumerates the bus and asks for each function's ROM. *)
EnumeratePciBus(functions, setup) ==
  /\ handles' = functions
  /\ optionRom' =
       LET sata == {functions[i] : i \in {j \in DOMAIN functions : functions[j].class = "SATA"}}
       IN  IF sata = {} THEN None ELSE PciPlatformGetPciRom(FirstOf(functions, sata), setup)

-----------------------------------------------------------------------------
RomSum(image) == (image.checksum + image.delay[1] + image.delay[2] + image.rest) % Byte

PciTypeOK == volumes \in RomVolumes \cup {<<>>} /\ optionRom \in RomImages \cup {None}
=============================================================================
