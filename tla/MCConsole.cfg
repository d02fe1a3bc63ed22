SPECIFICATION CSpec
CONSTANTS
  a = a
  a1 = a1
  a2 = a2
  Peer = {a}
  Key <- Keys
  Empty = Empty
  Junk = Junk
  NoKey = NoKey
  Torn = Torn
  Lines = 2
  Frames = 2
  Kills = 1
INVARIANTS
  ConsoleOK
  WarnedBeforeUse
  ChangeIsReported
PROPERTY
  LineEnds
CHECK_DEADLOCK FALSE
