CONSTANTS
  MaxSessions = 2
  MaxPlugs = 2
  MaxBytes = 3
  RingSize = 2
  Controls = {"set_rts"}
SPECIFICATION FairSpec
INVARIANTS TypeOK DeviceOrder DeviceKnown
PROPERTY Reopened
CHECK_DEADLOCK FALSE
