SPECIFICATION Spec
CONSTANTS
  Word = 32
  Quarter = 2
  MaxGap = 3
  HPET_1US = 3
  ACPI_TIMER_FREQUENCY = 7
  Micro = 2
  Nano = 6
  Delays = {0, 1, 2, 3, 4, 5}
  Pirqs <- mcPirqs
  IrqRouteTable <- mcIrqRouteTable
  PirqRoute <- mcPirqTable
  PirqTable <- mcPirqTable
  DxxR <- mcDxxR
  MAX_MTRR_NUMBER = 2
  Top = 4
  TestSpan = 2
  None = None
  Volumes <- mcVolumes
  Terminals = {"UTF8", "PC_ANSI"}
  Machines <- mcMachines
  Byte = 4
  SataAhciFastDelay <- mcFast
  SataAhciSlowDelay <- mcSlow
  RomVolumes <- mcRomVolumes
INVARIANTS TypeOK DelayLasts   ConsolesComplete OptionRomFits
PROPERTY DelayEnds
CHECK_DEADLOCK TRUE
