CONSTANTS
  c1 = c1
  c2 = c2
  factory = factory
  NoClient = NoClient
  Factory = factory
  Uploads <- TwoUploads
  FileBlocks <- LongAndShort
  Firmware <- OnlySecond
  PartBlocks = 2
  BadRequest <- NoBad
  Retransmits = 1
  BlockMod = 4
  MboxSize = 2
  Faults = {"begin", "write", "recv", "boot", "crash"}
SPECIFICATION Spec
INVARIANT TransferIsOneFile
