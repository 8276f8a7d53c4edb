CONSTANTS
  n = n
  long = long
  open = open
  p = p
  short = short
  longpw = longpw
  Nameless = Nameless
  Absent = Absent
  DefaultName = DefaultName
  DefaultPassword = open
  Names <- TwoNames
  LongNames = {long}
  Passwords <- FourPasswords
  ShortPasswords = {short}
  LongPasswords = {longpw}
  MaxCalls = 3
  MaxFails = 1
SPECIFICATION Spec
INVARIANTS SettlesAsAsked PanicNeedsTwo
