SPECIFICATION FairSpec
CONSTANTS
  Drivers = {runtime, smm}
  Smm = smm
  Runtime = runtime
  Bits <- MCBits
  ChipSize = 10
  SectorSize = 2
  FwBlockSize = 4
  DeviceBase = 100
  VirtualDelta = 50
  FvOffset = 1
  BlockMap <- MCBlockMap
  LbaModulus = 16
  HeaderImages <- MCHeaderImages
  HeaderAttributes <- MCHeaderAttributes
  DefaultHeader <- Default
  VarStoreImage <- MCVarStoreImage
  Contents <- MCContents
  HasFvbInfo = TRUE
  AssertHalts = TRUE
  WriteRequests <- MCWriteRequests
  ReadRequests <- MCReadRequests
  EraseRequests <- MCEraseRequests
  AttributeRequests <- MCAttributeRequests
  MaxCalls = 2
  MaxPowerLosses = 1
INVARIANTS
  TypeOK
  StatusWithinCapabilities
PROPERTIES
  EraseSuccessMeansErased
  WriteSuccessMeansProgrammed
  
  FrozenUntilPowerLoss
  RepairRestoresHeaders
  CallsReturn
  ImplementsContract
CHECK_DEADLOCK FALSE
