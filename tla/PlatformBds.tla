------------------------------ MODULE PlatformBds ------------------------------
(***************************************************************************)
(* The platform's part of boot device selection (PlatformBdsLib): which    *)
(* devices become consoles.  ConOut, ConIn and ErrOut are non-volatile     *)
(* variables, lists of device paths that outlive the machine's devices;    *)
(* each boot adds what it detects and removes nothing.  Serial ports and   *)
(* the keyboard are only looked for when ConOut or ConIn is missing, VGA   *)
(* devices on every boot.  The device paths carry the terminal type of     *)
(* the ConsoleType variable.  The BDS driver, the bus drivers and the      *)
(* library that connects consoles are not in this package.                 *)
(***************************************************************************)
EXTENDS PciPlatform

CONSTANTS
  Terminals,                \* terminal types, of which UTF8 is the default
  Machines                  \* the sequences of PCI functions of the machine

ASSUME TerminalsAssumption == "UTF8" \in Terminals
ASSUME MachinesAssumption == Machines \subseteq Seq(PciFunction)

VARIABLES
  setup, ConsoleType,       \* non-volatile variables, or None
  ConOut, ConIn, ErrOut,    \* sets of paths; missing if empty
  ConOutDev,                \* the same, but volatile
  bdsPc,
  missing,                  \* the console variables missing as BDS begins
  gTerminalTypeDeviceNode,
  mDetectVgaOnly,
  visited,                  \* how many functions the visit has been to
  shadowed,                 \* the option ROMs are
  enabled,                  \* functions whose decoding is enabled
  connected,                \* "none", "root bridge", or "all"
  status,                   \* Status of PlatformBdsConnectConsole
  enumerations              \* how often the boot options were enumerated

storedVars == <<setup, ConsoleType, ConOut, ConIn, ErrOut>>
bdsVars == <<storedVars, ConOutDev, bdsPc, missing, gTerminalTypeDeviceNode, mDetectVgaOnly,
             visited, shadowed, enabled, connected, status, enumerations>>

-----------------------------------------------------------------------------
(* Device paths.  The library appends a path unless it is there.           *)

Path(f, node, terminal) == [at |-> <<f.bus, f.dev, f.fn>>, node |-> node, terminal |-> terminal]
PciPath(f) == Path(f, "PCI", None)
GopPath(f) == Path(f, "GOP", None)

Ports(f) ==
  CASE f.class = "LPC" -> {"COM1", "COM2"}
    [] f.class = "serial" -> {"UART"}
    [] OTHER -> {}

SerialPaths(f, terminal) == {Path(f, port, terminal) : port \in Ports(f)}

(* A driver that is found, in the option ROM or, once it is shadowed, for  *)
(* a legacy one, adds a child with a Graphics Output protocol.             *)
HasGop(f) == f.gop = "native" \/ (f.gop = "legacy" /\ shadowed)

GopDevicePath(f) == IF HasGop(f) THEN GopPath(f) ELSE PciPath(f)

(* GetGopDevicePath, with its connecting, and PreparePciVgaDevicePath.     *)
PreparePciVgaDevicePath(f) ==
  /\ ConOutDev' = IF HasGop(f) THEN (ConOutDev \ {PciPath(f)}) \cup {GopPath(f)} ELSE ConOutDev
  /\ ConOut' = ConOut \cup {GopDevicePath(f)}

PreparePciSerialDevicePath(f) ==
  LET ports == SerialPaths(f, gTerminalTypeDeviceNode) IN
  /\ ConOut' = ConOut \cup ports
  /\ ConIn' = ConIn \cup ports
  /\ ErrOut' = ErrOut \cup ports

PrepareLpcBridgeDevicePath(f) ==
  LET ports == SerialPaths(f, gTerminalTypeDeviceNode) IN
  /\ ConIn' = ConIn \cup {Path(f, "keyboard", None)} \cup ports
  /\ ConOut' = ConOut \cup ports
  /\ ErrOut' = ErrOut \cup ports

-----------------------------------------------------------------------------
(* Setup is written if it is not there; whether that succeeds is ignored.  *)
DefaultSetup ==
  setup' \in IF setup = None THEN {None, "fast"} ELSE {setup}

TerminalOf(type) == IF type \in Terminals THEN type ELSE "UTF8"

(* Of a ConsoleType of another size GetVariable returns nothing, and what  *)
(* PAThConsType holds is not defined.                                      *)
PlatformBdsInit ==
  /\ bdsPc = "init"
  /\ DefaultSetup
  /\ \/ /\ ConsoleType \notin {None, "wrong size"}
        /\ gTerminalTypeDeviceNode' = TerminalOf(ConsoleType)
        /\ UNCHANGED ConsoleType
     \/ /\ ConsoleType = "wrong size"
        /\ gTerminalTypeDeviceNode' \in Terminals
        /\ UNCHANGED ConsoleType
     \/ /\ ConsoleType = None
        /\ ConsoleType' = "UTF8" /\ gTerminalTypeDeviceNode' = "UTF8"
     \/ /\ ConsoleType = None       \* it is not written: the function returns
        /\ UNCHANGED <<ConsoleType, gTerminalTypeDeviceNode>>
  /\ missing' = {v \in {"ConOut", "ConIn"} : IF v = "ConOut" THEN ConOut = {} ELSE ConIn = {}}
  /\ bdsPc' = "policy"
  /\ UNCHANGED <<ConOut, ConIn, ErrOut, ConOutDev, mDetectVgaOnly, visited, shadowed,
                 enabled, connected, status, enumerations>>

-----------------------------------------------------------------------------
(* PlatformBdsPolicyBehavior.                                              *)

(* The registers of PIrqInitialization are not told apart.                 *)
ConnectRootBridge ==
  /\ bdsPc = "policy"
  /\ \E functions \in Machines : EnumeratePciBus(functions, setup)
  /\ connected' = "root bridge"
  /\ bdsPc' = "VGA"
  /\ UNCHANGED <<storedVars, ConOutDev, missing, gTerminalTypeDeviceNode, mDetectVgaOnly,
                 visited, shadowed, enabled, status, enumerations, volumes>>
  /\ UNCHANGED <<smram, ideDecode, rom, pir, interruptLine>>

(* The VGA device of GetPlatformHandle is enabled and prepared before any  *)
(* option ROM.                                                             *)
ConnectVga ==
  /\ bdsPc = "VGA"
  /\ \/ /\ PlatformHandle("Vga").status = "SUCCESS"
        /\ enabled' = enabled \cup {PlatformHandle("Vga").handle}
        /\ PreparePciVgaDevicePath(PlatformHandle("Vga").handle)
     \/ /\ PlatformHandle("Vga").status # "SUCCESS"
        /\ UNCHANGED <<enabled, ConOut, ConOutDev>>
  /\ bdsPc' = "shadow"
  /\ UNCHANGED <<setup, ConsoleType, ConIn, ErrOut, missing, gTerminalTypeDeviceNode,
                 mDetectVgaOnly, visited, shadowed, connected, status, enumerations>>

(* The legacy BIOS driver calls the platform's hook, and runs the ROMs.    *)
ShadowAllLegacyOproms ==
  /\ bdsPc = "shadow"
  /\ PlatformHooks
  /\ shadowed' = TRUE
  /\ bdsPc' = "consoles"
  /\ UNCHANGED <<storedVars, ConOutDev, missing, gTerminalTypeDeviceNode, mDetectVgaOnly,
                 visited, enabled, connected, status, enumerations>>

(* ASSERT (BootMode == BOOT_WITH_FULL_CONFIGURATION), and the first part   *)
(* of PlatformBdsConnectConsole.                                           *)
DetectVgaOnly == ConOut # {} /\ ConIn # {}

PlatformBdsConnectConsole ==
  /\ bdsPc = "consoles"
  /\ bootMode = "full configuration"
  /\ mDetectVgaOnly' = DetectVgaOnly
  /\ visited' = 0
  /\ bdsPc' = "visit"
  /\ UNCHANGED <<storedVars, ConOutDev, missing, gTerminalTypeDeviceNode, shadowed, enabled,
                 connected, status, enumerations>>

(* Which functions of the visit are prepared.  Mutant: no VGA device is,   *)
(* once there are consoles.                                                *)
IsConsoleUnlessStored(f) == ~mDetectVgaOnly /\ f.class \in {"LPC", "serial", "VGA"}
IsConsole(f) == f.class = "VGA" \/ (~mDetectVgaOnly /\ f.class \in {"LPC", "serial"})

(* VisitAllPciInstances (DetectAndPreparePlatformPciDevicePath); an old    *)
(* VGA device (class code 000100) is not one of IS_PCI_VGA.                *)
VisitingAPciInstance ==
  /\ bdsPc = "visit" /\ visited < Len(handles)
  /\ LET f == handles[visited + 1] IN
     /\ enabled' = enabled \cup {f}
     /\ \/ /\ IsConsole(f) /\ f.class = "LPC"
           /\ PrepareLpcBridgeDevicePath(f)
           /\ UNCHANGED ConOutDev
        \/ /\ IsConsole(f) /\ f.class = "serial"
           /\ PreparePciSerialDevicePath(f)
           /\ UNCHANGED ConOutDev
        \/ /\ IsConsole(f) /\ f.class = "VGA"
           /\ PreparePciVgaDevicePath(f)
           /\ UNCHANGED <<ConIn, ErrOut>>
        \/ /\ ~IsConsole(f)
           /\ UNCHANGED <<ConOut, ConIn, ErrOut, ConOutDev>>
  /\ visited' = visited + 1
  /\ UNCHANGED <<setup, ConsoleType, bdsPc, missing, gTerminalTypeDeviceNode, mDetectVgaOnly,
                 shadowed, connected, status, enumerations>>

(* BdsLibConnectAllDefaultConsoles fails if a variable is missing, or none *)
(* of its paths can be connected.  gPlatformConsole is empty, and          *)
(* PlatformBdsNoConsoleAction does nothing.                                *)
ConnectAllDefaultConsoles ==
  /\ bdsPc = "visit" /\ visited = Len(handles)
  /\ \/ ConOut # {} /\ ConIn # {} /\ status' = "SUCCESS"
     \/ status' = "NOT_FOUND"
  /\ visited' = 0
  /\ bdsPc' = "connected"
  /\ UNCHANGED <<storedVars, ConOutDev, missing, gTerminalTypeDeviceNode, mDetectVgaOnly,
                 shadowed, enabled, connected, enumerations>>

(* PlatformBdsConnectSequence, with an empty gPlatformConnectSequence, and *)
(* the enumeration, which is repeated when Status, still that of           *)
(* PlatformBdsConnectConsole, is an error.                                 *)
ConnectAllAndEnumerate ==
  /\ bdsPc = "connected"
  /\ connected' = "all"
  /\ enumerations' = IF status = "SUCCESS" THEN 1 ELSE 2
  /\ bdsPc' = "done"
  /\ UNCHANGED <<storedVars, ConOutDev, missing, gTerminalTypeDeviceNode, mDetectVgaOnly,
                 visited, shadowed, enabled, status>>

-----------------------------------------------------------------------------
(* What a boot begins with.                                                *)
BdsLocals ==
  /\ ConOutDev = {} /\ bdsPc = "init" /\ missing = {}
  /\ gTerminalTypeDeviceNode = "UTF8" /\ mDetectVgaOnly = FALSE /\ visited = 0
  /\ shadowed = FALSE /\ enabled = {} /\ connected = "none" /\ status = "SUCCESS"
  /\ enumerations = 0

BdsOver ==
  /\ ConOutDev' = {} /\ bdsPc' = "init" /\ missing' = {}
  /\ gTerminalTypeDeviceNode' = "UTF8" /\ mDetectVgaOnly' = FALSE /\ visited' = 0
  /\ shadowed' = FALSE /\ enabled' = {} /\ connected' = "none" /\ status' = "SUCCESS"
  /\ enumerations' = 0
  /\ UNCHANGED storedVars

(* An empty store.                                                         *)
BdsInit ==
  /\ setup = None /\ ConsoleType = None
  /\ ConOut = {} /\ ConIn = {} /\ ErrOut = {}
  /\ BdsLocals

BdsNext ==
  \/ ConnectRootBridge
  \/ ShadowAllLegacyOproms /\ UNCHANGED romVars
  \/ /\ \/ PlatformBdsInit \/ ConnectVga \/ PlatformBdsConnectConsole
        \/ VisitingAPciInstance \/ ConnectAllDefaultConsoles \/ ConnectAllAndEnumerate
     /\ UNCHANGED <<legacyVars, romVars>>

(* Programs of the user: ConOut or ConIn is deleted, ConsoleType is set,   *)
(* maybe to a type that is not known, or the delay of SATA in Setup.       *)
ChangeVariables ==
  /\ \/ ConOut' = {} /\ ConOut # {} /\ UNCHANGED <<ConIn, ConsoleType, setup>>
     \/ ConIn' = {} /\ ConIn # {} /\ UNCHANGED <<ConOut, ConsoleType, setup>>
     \/ /\ ConsoleType' \in Terminals \cup {"unknown", "wrong size"} /\ ConsoleType' # ConsoleType
        /\ UNCHANGED <<ConOut, ConIn, setup>>
     \/ /\ setup # None /\ setup' \in {"fast", "slow"} \ {setup}
        /\ UNCHANGED <<ConOut, ConIn, ConsoleType>>
  /\ UNCHANGED <<ErrOut, ConOutDev, bdsPc, missing, gTerminalTypeDeviceNode,
                 mDetectVgaOnly, visited, shadowed, enabled, connected, status, enumerations>>

-----------------------------------------------------------------------------
Paths == [at : Seq(Nat), node : {"PCI", "GOP", "COM1", "COM2", "UART", "keyboard"},
          terminal : Terminals \cup {None}]

BdsTypeOK ==
  /\ setup \in {None, "fast", "slow"}
  /\ ConsoleType \in Terminals \cup {None, "unknown", "wrong size"}
  /\ \A paths \in {ConOut, ConIn, ErrOut, ConOutDev} : \A p \in paths : p \in Paths
  /\ bdsPc \in {"init", "policy", "VGA", "shadow", "consoles", "visit", "connected", "done"}
  /\ missing \subseteq {"ConOut", "ConIn"}
  /\ gTerminalTypeDeviceNode \in Terminals /\ mDetectVgaOnly \in BOOLEAN
  /\ visited \in 0 .. Len(handles) /\ shadowed \in BOOLEAN /\ enabled \subseteq Functions
  /\ connected \in {"none", "root bridge", "all"} /\ status \in {"SUCCESS", "NOT_FOUND"}
  /\ enumerations \in 0 .. 2

HasVga == \E f \in Functions : IsVga(f)

(* "there must have one ConOut device is active vga device": whatever the  *)
(* variables have been left with by other machines, users and failed       *)
(* writes, the path that each VGA device has now is in ConOut when the     *)
(* consoles are connected, and the device decodes its addresses.  When     *)
(* ConIn is missing as BDS begins, or ConOut on a machine with no VGA      *)
(* device, the keyboard and every serial port, with the terminal type of   *)
(* this boot, are consoles again; ConIn is then never left missing.        *)
ConsolesComplete ==
  bdsPc \in {"connected", "done"} =>
    /\ \A f \in Functions :
         f.class = "VGA" => f \in enabled /\ GopDevicePath(f) \in ConOut
    /\ "ConIn" \in missing \/ ("ConOut" \in missing /\ ~HasVga) =>
         \A f \in Functions :
           /\ SerialPaths(f, gTerminalTypeDeviceNode) \subseteq ConOut \cap ConIn \cap ErrOut
           /\ f.class = "LPC" => Path(f, "keyboard", None) \in ConIn

(* The SATA controller's option ROM has the delay Setup asks for, and the  *)
(* sum of the image it was made from, also where a byte of the checksum    *)
(* wraps; and it is there whenever the volumes have one, on the first boot *)
(* too, if Setup was written before the PCI bus was enumerated.            *)
OptionRomFits ==
  connected # "none" =>
    LET image == GetSectionInAnyFv(volumes) IN
    IF setup # None /\ image # None /\ image.header /\ image.marker
       /\ (\E f \in Functions : f.class = "SATA")
    THEN /\ optionRom # None /\ RomSum(optionRom) = RomSum(image)
         /\ optionRom.delay = DelayOf(setup)
    ELSE optionRom = None
=============================================================================
