CONSTANTS
  c1 = c1
  c2 = c2
  factory = factory
  NoClient = NoClient
  Factory = factory
  Uploads <- TwoUploads
  FileBlocks <- TwoBlocks
  Firmware <- OnlyFirst
  PartBlocks = 2
  BadRequest <- OneBad
  Retransmits = 1
  BlockMod = 4
  MboxSize = 2
  Faults = {"write", "ack"}
SPECIFICATION FairSpec
PROPERTIES AckAfterWrite DoneBoots SilentClientReleasesServer
