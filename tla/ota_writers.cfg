CONSTANTS
  f1 = f1
  f2 = f2
  f3 = f3
  fact = fact
  Uploads <- ThreeFiles
  Factory = fact
  FileBlocks <- Sizes
  Firmware <- TwoFirmware
  PartBlocks = 2
  Writers <- Both
  OtaFaults <- AllFaults
SPECIFICATION Spec
INVARIANTS TypeOK SafeFallback
