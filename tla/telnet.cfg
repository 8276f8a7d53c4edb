CONSTANTS
  Items <- AllItems
  MaxItems = 2
  Tails <- Unfinished
  RxSize = 10
  SubSize = 6
  DataSize = 2
  DeviceData <- FromDevice
  MaxSends = 1
SPECIFICATION Spec
INVARIANTS TypeOK DataUnchanged CommandsFaithful ClientAnnounced AnswersSettle WireDecodes
CONSTRAINT Uncut
