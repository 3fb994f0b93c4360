# BIOSPkg in TLA+

TLA+ models of BIOSPkg, the platform package of a UEFI firmware for the Gigabyte
H77 board: TLC configurations that check the models on small instances, and
TLAPS proofs of the properties that hold for every instance. Paths below are
relative to the repository (`src/`).

## 1. The system

BIOSPkg is C (UEFI drivers and applications, EDK II style) and 16-bit NASM (the
compatibility ROM, "CSM"). Everything that decides something, and does not
merely fill a table once, is in eight places:

| Part | State it keeps | Operations | Talks to |
|---|---|---|---|
| **FVB services** `Platform/FvbServicesRuntimeDxe` (`FWBlockService.c`, `FWBlockServiceSmm.c`, `FvbInfo.c`) | volume attributes and base addresses, one copy per driver; the flash chip | Read, Write, EraseBlocks, Get/SetAttributes, initialisation with header repair, virtual address switch | the PCH SPI protocol; the same driver is loaded twice, as a runtime driver and in SMM, on one chip |
| **USB legacy** `Platform/UsbLegacySmmHandler`, `SmmInit` in `Platform/LegacyBiosPlatformProtocolDxe` | the EHCI registers `USBLEGSUP`, `USBLEGCTLSTS`, `USB2STS`; running/enabled flags | SMI handler, enabling of the SMIs | the EHCI drivers (callbacks), the OS (ownership handoff), the chipset's SMI |
| **Legacy keyboard** `Platform/LegacyBiosRom/kbd_func.inc`, `kbd_int16_func.inc`, parts of `csm.n16`, `rtc_func.inc` | the BDA's key buffer and flags, the USB key being held, both PICs | Int 09, the key repeat of the timer interrupt, LED updates, Int 16 | the PS/2 controller, the USB keyboard driver (through memory and SMIs), the program |
| **Legacy boot** `Platform/Int13LegacySmmHandler`, `hdd_smi_func.inc`, Int 18/19 in `csm.n16`, `PrepareToBoot`, `PlatformBbsTableEntries.c` | the boot table, the handler's boot device, disk array and CD drive, task priority level | table update, PrepareToBoot, Legacy16PrepareToBoot, Int 19, Int 13 | the boot manager, the SATA drivers (BlockIo), the ROM and the handler through a communication buffer and an SMI |
| **BiosWriter** `Applications/SpiFlash.c`, `BiosWriter.c` | the chip, the SPI controller's cycle, BIOSWE, the super I/O's chip select; the buffer and `Status` that all menu commands share | erase, program and verify a sector; write, compare and switch chips; dump the flash, save tables, check and read the file | the PCH's SPI registers, files on a USB drive, the user |
| **Early platform** `Platform/PlatformInit/Pei`, `PeiMtrr`, `Library/AcpiTimerLib` | the boot mode, interrupt routes, MTRRs; two free-running counters | PEI entry point, boot mode, memory ranges and test, MTRR set-up, delays | the memory initialisation and PEI core, which are not in the package |
| **Device set-up** `Platform/Library/PlatformBdsLib`, `PciPlatformDxe`, `LegacyBiosPlatformProtocolDxe` | the variables ConOut, ConIn, ErrOut, Setup and ConsoleType, which outlive a boot; the $PIR table; the patched AHCI option ROM | BDS policy, console detection, `GetPlatformInfo`, `GetPlatformHandle`, `GetRoutingTable`, `TranslatePirq`, `GetPciRom` | the BDS, PCI bus and legacy BIOS drivers, the routes PEI has written |
| **CSM services** `Platform/LegacyBiosRom/csm.n16`, `*_func.inc` | BDA, PMM records, boot table, tick counter | POST, PMM, PCI BIOS, option ROM dispatch, Int 08/1A, disk, floppy, serial, printer | option ROMs, the OS loader |

Beside these are drivers that run once and leave tables behind (DXE platform
initialisation, ACPI tables, graphics policy, platform information for the setup
pages) and data (ASL, tables, binaries, build descriptions). `PROJECT.json` lists every part with its status.

What is hard, per part, and what makes it correct:

- **FVB services.** Two drivers that do not know of each other share a chip; the
  SMM one preempts the other between any two SPI commands. A command may fail or
  do nothing; power may be lost in any. Correct: a call changes only what it was
  asked to, a successful call has done it, a refused one nothing; attributes obey
  the capabilities and a locked volume stays as it is; a repair ends in a valid
  header; every busy loop ends.
- **USB legacy.** Status bits of two controllers are set at any moment between
  the handler's register accesses, and one SMI can call the handler twice.
  Correct: no callback for a controller that was given up, one stop per
  controller, every SMI ends, every handoff completes, every completion is handled.
- **Keyboard.** Interrupts nest: Irq0 in Irq1 and, since the LED update sends its
  end of interrupt early, Irq1 in Irq1. Correct: the buffer is a queue, the ends
  of interrupt add up, LED updates do not nest, handlers return.
- **Legacy boot.** The table is made early and used late, when the devices may be
  others; requests fail in the middle. Correct: what is booted is what was
  chosen, its disk is drive 80h, no other disk is lost, an answer without the
  carry flag was served.
- **BiosWriter.** Cycles outlast the call that started them; the user
  aborts, repeats, and the board may have a second chip; every command leaves the
  shared buffer and `Status` to the next. Correct: BIOSWE is restored on every way
  out, passed sectors stay written, "done" means done, an update starts only with
  the whole right file in the buffer, a dump is the chip.
- **Early platform.** Counters wrap, and an SMI may come between two reads of one;
  the HOBs come in any order and may need more MTRRs than there are. Correct: a
  delay lasts and ends; an address is cached as its HOB asks.
- **Device set-up.** Variables written on one machine configuration are read on
  another; three tables state one interrupt routing; the order in which BDS writes
  Setup, connects VGA and enumerates the bus decides what is found. Correct: the
  consoles of the machine as it is are found, all routes agree, the option ROM has
  Setup's delay.
- **CSM services.** Sequential: nothing nests over the timer interrupt before its
  end of interrupt, and Int 1A reads its count under cli. The PMM's record table is
  the one with an interesting history of calls.

## 2. Modules

| Module | Models | Checked by | Proved in |
|---|---|---|---|
| `FvbServices` | the two FVB drivers on one chip | `MCFvbServices` | `FvbServices_proofs` |
| `FvbContract` | what they promise of the chip | refinement in `fvb` | `FvbServices_proofs` |
| `UsbLegacySmm` | SMI handler, SmmInit, two controllers, OS | `MCUsbLegacySmm` | `UsbLegacySmm_proofs` |
| `LegacyKeyboard` | Int 09, timer key repeat, Int 16 | `MCLegacyKeyboard` | `LegacyKeyboard_proofs` |
| `LegacyBoot` | boot table to boot sector, Int 13 | `MCLegacyBoot` | `LegacyBoot_proofs` |
| `SpiFlash` | BiosWriter's update | `MCSpiFlash` | `SpiFlash_proofs` |
| `BiosWriter` | the session around it: extends `SpiFlash` | `MCBiosWriter` | `BiosWriter_proofs` |
| `PlatformTimers` | `Stall` and the delays of the ACPI timer library | `MCPost` | `PlatformTimers_proofs` |
| `PeiPlatform` | the PEI platform driver and the MTRR driver | `MCPost` | `Post_proofs` |
| `LegacyBiosPlatform` | ROM and device handles, $PIR table, PIRQ translation | `MCPost` | `Post_proofs` |
| `PciPlatform` | the patch of the AHCI option ROM | `MCPost` | `Post_proofs` |
| `PlatformBds` | the platform's BDS library: extends the two above | `MCPost` | `Post_proofs` |
| `Post` | composes these five: power-on to operating system, and on | `MCPost` | `Post_proofs` |

`BiosWriter` composes the tool's menu with the update of `SpiFlash`, which it
implements (`UpdatesAsSpecified`). `Post` composes everything that runs one
after the other in a boot and meets in shared state: the routing registers that
PEI writes and the legacy platform reads, the boot mode that BDS asserts, Setup
that BDS writes and the PCI driver reads, variables that the next boot finds.
The other components share no variable: they meet only in hardware (the FVB
drivers and BiosWriter never run at the same time; the keyboard's USB half reads
what the EHCI drivers leave in memory), and `Post` ends where `LegacyBoot`
begins. Each of their modules composes the actors *within* its component: two
drivers and a chip, a handler and an OS, nested interrupt handlers and a program,
a tool and an SPI controller.

Conventions: definitions have the source's names where TLA+ allows; the operator
named as the mutated form of another (placed before it) is a plausible bug and
is used by nothing; a comment states every property before its definition.

### FvbServices

*State.* `flash` holds, per cell, the set of bits that read as one: erasing sets
a cell to all bits, programming intersects. `chip` is the command the chip is
busy with, and the cells as they were before it. Each driver has `pc`, `call`, `attrs`, `fvBase`, `devBase`: the drivers'
globals are separate copies, as in the two images.

*Actions.* A protocol call (`Read`, `Write`, `EraseBlocks`, `SetAttributes`) opens with its
tests in one step; then each SPI command is a step and each end of a busy wait
another (`EraseSector`, `SectorErased`, `Program`, `Programmed`); between commands the SMM driver may be entered (`Smm` preempts,
the others do not run meanwhile). `FvbInitialize` and its header repair run at
every power-up; `PowerLoss` damages only the cells of a command under way. The
loops over sectors, blocks and ranges are the code's, with their early returns.
The block map's walk (`GetBlockSize...`) is the operator with running sums; the
64-bit LBA is `% LbaModulus`. The SMM driver's calls are the same operators over
its own copy of the globals.

*Contract.* `FvbContract` says a driver's command changes only cells of its open
call, and a power loss only those of an unfinished one. The mapping takes the
open cells from the call's request; the run `fvb` checks `ImplementsContract`.

### UsbLegacySmm

*State.* Per controller: the status bits in `USB2STS` and `USBLEGCTLSTS`, who
owns it, whether its driver runs, completed transfers. *Actions.* One per register
access of the handler, since bits are set in between; `SmmInit` enables the four
SMI sources and sets the flag in a step each;
the OS's ownership requests and the controllers' completions are actions of
their own (`Complete`, `PortChange`, `OsTakes`, `OsComplete`). The dispatcher calls the handler once or twice per SMI: it is
registered for both controllers with one source.

### LegacyKeyboard

*State.* The buffer with `m_kbhead` and `m_kbtail`, the in-service bits, the
stack of activations (each with its own `pc` and locals), interrupt flags, the
keyboard's answers, the held USB key. *Actions.* One per instruction group
between which an interrupt is possible; groups under `cli` are one step. An
interrupt pushes an activation if its level is not in service. Inputs (keys,
LED keys, Ctrl-Break, timer ticks) are bounded by `MaxInputs`.

### LegacyBoot

*State.* The boot table, the handler's globals, what is at 0:7C00, the task
priority level, Int 19's retry counter. *Actions.* `PlatformUpdateBbsTable`,
`Choose` (the boot manager, with options whose device may be gone),
`PrepareToBoot` or its `Unsupported` return, `Legacy16PrepareToBoot` with
`FindSataBlockIo` behind its SMI, `BootFromCd`/`BootFromDisk`/`BootFromOther`
(`bootdrv`), `Int18`, and `OsInt13`. A request is one step: Int 13 runs under
`cli` and the SMI stops the processor. The devices found by `PrepareToBoot`'s
connection of the controllers need not be those of the table. `Places` and
`Strings` are whatever tells two drives, or two boot options, apart; `Select`,
which the lists of the handler are built with, is a recursive function, so that
it can be proved about. `PlacesAssumption`: a drive may come or go between the two
enumerations, but a disk does not become a CD drive at the same port. The code
does not look at the kind again: the CD drive would be taken for the boot device
while another disk answers as 80h.

### SpiFlash

*State.* The chip per sector and page, the controller's cycle (which may go on
after `executeOpcode` gave up), BIOSWE and its lock, the chip select, the tool's
position. *Actions.* One per SPI cycle and per decision of `_writeSector`,
`writeSpiFlash`, `compareSpiFlash` and the rewrite command; `CycleEnds` belongs
to the controller. A page is `Blank`, `Word00FF` (all DWORDs 0x000000ff, which
the code's test for an erased page takes for blank) or another value.

### BiosWriter

*State.* That of `SpiFlash`, the board, where the session is (`at`), the shared
buffer, whether `Status` is an error, the file opened for the update, what has
been written of a dump. *Actions.* One per menu command, or per step of it that
can fail or end otherwise; the update is `SpiFlash`'s `Next`, entered by
`UpdateStarts` with what the file read has put into the buffer. `Status` of an
earlier command decides whether the update's check of the descriptor passes, as
in the code. An ACPI dump is told by the range the code computes from the tables'
addresses (`Ends`), in pages, rounded and capped. Every table ends below
`AddressLimit` (4 GB, here 256): the pointers of the RSDT and the FADT are 32 bits
wide, and so are the code's `addr_min` and `addr_max`.

### Post and its parts

*State.* `phase` (PEI, DXE, BDS, OS) and each part's variables. *Actions.*
`PlatformTimers`: a delay is asked for at any counter value; each further read
of the counter is a step, after a gap of up to `MaxGap` counts (an SMI, or the
loop itself). `PeiPlatform`: power state and boot mode, the interrupt routes from
`IrqRouteTable` and `PirqRoute`, the services that the memory initialisation
calls, and a step for each HOB that `PlatformMtrr` merges and each MTRR it sets.
`LegacyBiosPlatform`: `GetPlatformInfo`, `GetPlatformHandle`, the $PIR table from
`PirqTable` and the routing registers, `TranslatePirq` for each function.
`PciPlatform`: `GetPciRom` for the SATA controller. `PlatformBds`: the policy
of BDS in the order of the code: Setup and ConsoleType, VGA before option ROMs,
the consoles (only VGA ones, or all, depending on what variables are missing),
one PCI function at a time, connection, enumeration. `Post` sequences them;
between boots devices and variables change (`BootAgain`, `ChangesVariables`).
A device path is a record of kind, location and terminal type; the interrupt
tables are the board's own (`GByteH77/PlatformDataLib/PlatformData.c`). What the
constants must meet: PCH reset leaves INTA to INTD on PIRQA to PIRQD, so these are
among `Pirqs`; `PirqTable` agrees with the `PirqRoute` that PEI writes, as the
board's do; a machine is a sequence of PCI functions. `FirstOf` (the first
handle of a kind) and `Devices` (the devices of a $PIR table, one
entry each) are written without RECURSIVE.

## 3. Runs

| Run | Shows |
|---|---|
| `fvb` | the drivers' safety properties, termination of calls and the contract, with preemption, errors, ignored commands, a power loss and the virtual switch |
| `fvb_write_sticks` | *violation*: a write that did not stick returns success |
| `fvb_short_write` | *violation*: a write cut at its block's end returns success |
| `usb` | no callback for a stopped controller, one stop each, SMIs end, handoffs happen |
| `usb_lost_completion` | *violation*: of two completions in one SMI one is lost |
| `kbd` | ends of interrupt add up and LED updates do not nest, the buffer is a queue as long as no two handlers are inside `putbuf`, handlers return; Int 16 AH=01 does not wait |
| `kbd_lost_key` | *violation*: Irq0's key repeat inside `putbuf` loses a key |
| `boot` | the chosen entry boots, drive 80h is its disk, every disk has one number, success was served, attempts end |
| `boot_not_loaded` | *violation*: with the device not found, Int 19 jumps to 7C00 with nothing loaded |
| `spi` | whole sessions of the tool: BIOSWE restored, passed sectors hold, done means done on one chip, updates end, the session implements `SpiFlash`, a dump is the chip, an ACPI dump holds the tables |
| `spi_two_chips` | *violation*: the second chip is never selected, the first is erased and reported done |
| `post` | boots of changing machines: delays last and end, MTRRs are what the HOBs ask for, interrupt routes agree, consoles are complete, the AHCI option ROM has Setup's delay |

Each property of a passing run has a mutant in `PROJECT.json`: a plausible bug
of the code under which TLC finds that property violated.

### Bounds

- *FVB*: a chip of 10 cells of two bits, sectors of 2 cells, a volume of two
  block map entries (a block of two sectors and two of one) with foreign cells
  before and behind; writes cut at, starting at and past a block's end; erase
  lists over two entries and with a bad second range; two calls and one power
  loss (`MaxCalls`, `MaxPowerLosses`). Two calls are one per driver, which is all
  the drivers can overlap; a second power loss finds nothing a first did not
  leave. Two bits tell "erased", "programmed over" and "programmed" apart.
- *USB*: both controllers, at most two handler calls per SMI.
- *Keyboard*: a buffer for two keys, so that it fills and wraps; a few inputs
  (`MaxInputs`): Caps Lock, one key interrupting the LED update,
  one more, and a tick. `Retries` is 2, so that a retry and the end of the retries
  both happen.
- *Boot*: eight inventories of up to four devices (a disk more than fits, twins on
  two controllers, a blank disk, two CDs, none), three table entries and a ROM
  entry, three tries as in the code. The handler's array takes two disks instead
  of 15, so that its limit is met.
- *SPI*: three sectors of two pages, two in the BIOS region; sessions and updates
  repeat without bound. A dump is written in steps of one sector. ACPI layouts: each
  table in turn the lowest or the highest, one past the cap.
- *Post*: counters of 32 (HPET) and 8 (ACPI timer) counts, in which every start
  value and every gap up to `MaxGap` is tried; two MTRRs for four
  addresses, so that the table fills and a range can touch two entries; three
  machines: a board with VGA of its own, one with cards behind bridges, one
  without a VGA device; two terminal types, unknown types and failed writes;
  bytes modulo 4, so that the checksum wraps. Three bounds are in the actions: a
  delay runs only while PEI offers its services in a full configuration (no delay
  reads what another part writes); a further boot passes over PEI (which reads
  nothing that a boot leaves); an S3 resume ends in the operating system.

Properties checked with `CHECK_DEADLOCK FALSE` are of systems that may stop: the
FVB drivers after their bounded calls, the halted machine of a failed ASSERT, a
controller the OS owns, a keyboard without further input. `post` is checked for
deadlock: the ASSERT on the boot mode in BDS would be one.

### Fairness

- *FVB*: weak fairness of the chip finishing a command and of each driver's next
  step in a call. Calls run to completion; the SMM driver's return resumes the
  other. Clients, power loss and SPI errors have none.
- *USB*: of raising the SMI and of the handler's steps, not of OS or controllers.
- *Keyboard*: of the handlers' steps and of the steps of a program's Int 16 call,
  not of keys or answers: `kb_send` must return when the keyboard never answers.
- *Boot*: of Int 19's own steps; media may fail every time.
- *SPI*: of the tool's steps; the controller's cycle need not end.
- *Post*: of the polling loops of the delays, nothing else.

## 4. Findings

1. `fvb_write_sticks`, `FWBlockService.c:276`: the comparison after a program
   command is only logged; the comment of `FvbProtocolWrite` (1191) promises an
   error.
2. `fvb_short_write`, `FWBlockService.c:736`: `EFI_BAD_BUFFER_SIZE` is overwritten
   by the status of the program command; the comment (689) promises it.
3. `usb_lost_completion`, `UsbLegacySmmHandler.c:425`: both controllers' status is
   cleared and one is looked at.
4. `kbd_lost_key`, `kbd_func.inc:5`: `putbuf` is not protected against the timer
   interrupt's USB key repeat.
5. `boot_not_loaded`, `Int13LegacySmmHandler.c:271`: a request without a boot
   device returns the caller's flags, which Int 19 reads as success.
6. `spi_two_chips`, `BiosWriter.c:489`: `setCS1` writes its value to the index
   port, so that the chip select does not change.

Seen, without a run of their own: after a CD boot that fails past its first read
the task priority level stays at `TPL_CALLBACK` (`Int13LegacySmmHandler.c:551`);
with two CD drives the handler boots the last one found, whichever was chosen
(177, 280); `LoadSegment` of a CD's catalog is honoured by the load (580) but not
by the jump to 0:7C00. `BootsTheEntry` names these as its conditions.
A ConOut deleted alone on a machine with a VGA device never regains the serial
ports: VGA is added (`BdsPlatform.c:1399`) before the test for a missing ConOut
(854); `ConsolesComplete` names that case. A new ConsoleType only takes effect when
consoles are detected again. `Stall` can wait for its counter to come round when
`Finish` equals `Start` or is just below the wrap (`PlatformInit/Pei/Platform.c:111`):
the condition `Window` of `DelayEnds`. The priority table behind $PIR gets its
entry 0 written four times (`LegacyBiosPlatform.c:955`). S4 is never recognised
(`testS4` reads PM1_STS for SLP_TYP). The second enumeration of boot options is
decided by a stale `Status` (`BdsPlatform.c:1485`). In BiosWriter the GPIO savers'
`SAVE_TO_FILE` leaves by `goto done` without closing the file, and the read of the
descriptor is tested with the `Status` of an earlier command (3702).

## 5. Proofs

All by TLAPS, for every value of the constants that meets the named ASSUMEs.

- **FvbServices_proofs.** `TypeCorrect`: `TypeInv`, the types of all variables
  (`DataOK`) and what each `pc` says of the call in progress (`CallOK`); `TypeOK`
  alone is not inductive, since a step's result is typed only if the indices of
  its call are in range. `StatusCorrect`: `StatusWithinCapabilities`, from
  `StatusInv`, which adds that only a serving driver's copy matters and that what
  a repair will put there is a valid header; it rests on
  `HeaderStatusAssumption`, that the headers shipped in the package meet the rule
  themselves. `FrozenCorrect`: a volume locked, with writing disabled, in every
  driver's copy keeps contents and attributes until a power loss.
  `EraseCorrect`, `WriteCorrect`, `RepairCorrect` and `ContractCorrect` (the
  refinement of `FvbContract`) come from `PlanInv`: at every `pc`, the part of the
  call that is behind has been done to the cells, and the part ahead lies in the
  cells the request asked for (`Plan`), with the driver's addresses those of the
  mode it runs in (`BaseInv`). It survives the other driver because the SMM driver
  runs only between the runtime driver's commands, and what it touches a call does
  not count as its own. `LayoutAssumption` gives it what the flash
  map gives the code: the volume lies in the chip, the default headers in the volume,
  and blocks are whole sectors. `RefusedCorrect` (`RefusedMeansUntouched`) says that
  a refusal comes before the first command of a call; it has the hypothesis `NoWrap`,
  without which it is false: a range whose 64-bit end wraps passes the first pass of
  `FvbProtocolEraseBlocks` and is refused in the second (`FWBlockService.c:1139`;
  `WrappingEraseRequests` in `MCFvbServices` is such a request).
- **UsbLegacySmm_proofs.** `TypeCorrect`, `MonitorCorrect` and `StopCorrect`, from
  an invariant of types, the order in which the handler reads and clears (`Order`), what a
  controller that was given up can still show (`GivenUp`), and that a callback's
  test is fresh (`Fresh`). For any number of handler calls per SMI.
- **LegacyKeyboard_proofs.** `TypeCorrect`, `ServiceCorrect` (`NothingLeftInService`)
  and `BufferCorrect` (`BufferIsQueue`), for any buffer size and stack of activations.
  `Nesting` says that only the timer's own Int 09 stands above a timer handler
  in service; `Service`, that an interrupt in service or a disabled keyboard has
  an Irq1 on the stack that will end it; `Updating`, that kb_fcled is the one
  activation that waits. `Alone` adds, until two activations have met in
  putbuf or kbrk, that the one inside has the current tail in its register and
  room behind it; the lemmas on `Queue` do the arithmetic of the ring.
- **LegacyBoot_proofs.** `TypeCorrect`, `BootDiskCorrect`, `ChosenCorrect`,
  `BootsCorrect`, `ServedCorrect` and `TplCorrect`, for any inventories, boot table
  and size of the disk array. `Known` carries the types, with the handler's lists as
  functions of the handles it found (`HandlerInv`: the boot device is the last match,
  and the disks are those found with the boot disk swapped to the front) and of
  the entry's place, whose kind is settled (`PlaceOK`). `Answers` says what Int 13
  can reply in such a state; on it rest `ReplyInv` (an answer without carry came
  from the device of its drive number) and `LoadedInv` (what is at 0:7C00 is of
  the boot device). `ChosenInv`: between `PrepareToBoot` and the ROM, priority 0
  is the chosen entry's alone. Lemmas on `Select` show that it keeps order, members
  and distinctness.
- **SpiFlash_proofs.** `TypeCorrect`, `WriteProtectCorrect`,
  `PassedSectorsCorrect`, `DoneCorrect`, for any geometry and image. The heart is
  `CycleInv`: a cycle that outlasts its call can only be left over *before* the
  first sector of an update is written, because a call that times out ends the
  update and the next one sends no command while the controller is busy; so no
  late cycle meets a passed sector. `Passed` then carries "equals the buffer"
  from the verification of a sector to the end, and `DoneOK` to the comparison.
- **BiosWriter_proofs.** `SessionRefines`: every session implements `SpiFlash`, by
  the lemma that a file past the checks is whole and of the chip's size (`RomOK`);
  with `DoneCorrect` it gives `SessionDone`. `DumpCorrect`: a dump is the chip, from
  `DumpOK`, which ties what is written to what is left. `AcpiDumpCorrect`
  (`AcpiDumpHoldsTables`): the range of every ACPI dump that is saved covers the
  root pointer and all tables, but for the odd bytes after a table's last whole UINT32. `LeastOf` and `HighestOf` find the extremes of the layout, `Divided` does
  the rounding to pages, for every page size and address.
- **PlatformTimers_proofs.** `TimersTypeCorrect` and `DelayCorrect` (`DelayLasts`),
  for every counter width, frequency and delay. `AcpiPolling` says that the time
  passed, the way to the target and the quarter turns still to come make up the
  ticks asked for, `AcpiBetween` that a quarter is only left beyond its target;
  `StallInv` says that, until the HPET has been round once, it is as far from Start
  as the time passed. `TimersAssumption` is needed: two reads at most half a turn
  of the ACPI timer apart, and its divisors whole multiples of each other.
- **Post_proofs.** A step of the whole machine is a step or a stutter of each of
  its parts, on every boot of every machine.
  - `MtrrsCorrect` (`MtrrsAreHobs`), for every list of disjoint HOBs and number of
    MTRRs, from `MergeInv`: while HOBs are read, each entry of VarMtrrs covers only
    addresses of its own type (`Exact`), and unless a range was dropped every
    cached address lies in an entry (`Complete`). `PostMtrrsCorrect` and
    `PostDelayCorrect` carry it and `DelayLasts` over to `Post`.
  - `RoutesCorrect` (`RoutesAgree`): `PhaseInv` says that the routing registers hold
    PEI's tables from PEI on, `RoutesInv` that $PIR and the interrupt lines are
    what the handles of this machine give. That the entry of a device holds its pins is
    `DevicesAre`, proved of the recursive function by induction over the functions.
  - `OptionRomCorrect` (`OptionRomFits`): once BDS has enumerated, the ROM is that of
    the volume found first, patched with the delay Setup asks for (`RomInv`);
    `SameByte` and `PatchedIs` show that the new checksum makes up for the changed bytes.
  - `ConsolesCorrect` (`ConsolesComplete`): `ConsoleInv` says that what was missing as
    BDS began is still known when functions are visited (`StillMissing`), that all
    functions are looked at when they are needed (`AllNeeded`), and that each visited
    one has left its path (`ConsoleOf`).
  - `TypeCorrect`: the types of all parts.

Every invariant and action property of a passing run, and both refinements, are
thus proved for every value of the constants that meets the assumptions. Only
model-checked are the seven liveness properties (`CallsReturn`, `SmiEnds`,
`HandlersReturn`, `HandoffHappens`, `AttemptEnds`, `UpdateEnds`, `DelayEnds`): they need
ENABLED and fairness, which the prover does not handle. The library's induction theorems
cannot be instantiated with the installed provers either; where a lemma on a recursive
function needs induction, it is over a set of numbers (`AllNumbers`), and the
function's existence is proved first.

## 6. Not modelled

- *FVB*: the queries GetAttributes, GetBlockSize and GetPhysicalAddress, array reads
  while the chip is busy, protocol handle and device path
  bookkeeping, a crash between the repaired volume header and the variable store
  header (nothing promises recovery), the hand-over of attributes to SMM.
- *USB*: the ULKMC and SPCSMI write-backs (no modelled SMI source sets them).
- *Keyboard*: prefixes E0/E1, Shift/Ctrl/Alt state, Alt-digits, Pause, PrtSc, SysRq,
  reboot, Int 15 AH=4F, Int 16 AH=02, 03, 11, 12.
- *Boot*: an Int 13 before Legacy16PrepareToBoot, `Legacy16UpdateBbs`, the build
  without the SMM handler, a controller without PciIo, transfer lengths.
- *SPI*: the Skylake path (the sector goes to a chipset protocol), status and JEDEC
  reads; memory reads while a cycle runs are taken as unblocked; power loss
  (the board has no second copy to recover from); displays; the editors of memory,
  ports and PCI registers (`dumpSystem`, `dumpPciConfig`), with which the user may
  change anything; the optional test commands, off by default.
- *Post*: registers that nothing in the package reads back (SMBus, HECI, GPIO);
  the BDS connection of the first boot option and the messages after a boot; the
  IDE handles of builds without the Int 13 handler; functions nothing calls.
- Whole parts: see `PROJECT.json`. The ACPI and information drivers fill
  tables once; the CSM's PMM, boot table and clock are planned; disk, floppy,
  serial and printer services are the devices' own register protocols; stubs, binaries and build files execute nothing.

## 7. Plan

In order of what the behaviour is worth:

1. `PmmAllocator`: the CSM's POST memory manager (`csm.n16` 5408-5683), with an
   abstract allocator as its specification; `BbsTable`: `Legacy16UpdateBbs`.
2. The keyboard's E0 prefix and Int 16 AH=03, which sends LED commands outside Irq1.
3. An Int 13 before the hand-over as an action of `LegacyBoot`; the hand-back of a
   USB controller by the OS.
4. `BiosTimer`: the real-time clock of Int 1A against its update and Irq8.
5. Proofs for the modules above as they are written, and for the loops behind
   the liveness properties a measure that every step lowers (the tries of Int 19,
   the retries of `kb_send`, the sectors of an update), as the part of
   termination the prover can reach.
