CONSTANTS
  c1 = c1
  c2 = c2
  Net = Net
  Nobody = Nobody
  Clients <- TwoClients
  Dialog <- Dialogs
  FrameLen = 2
  MaxFrames = 2
  Faults = {"listen", "accept", "thread"}
  Stops = TRUE
SPECIFICATION FairSpec
INVARIANTS TypeOK FramesWhole
PROPERTIES SessionKept NextIsServed
CHECK_DEADLOCK FALSE
