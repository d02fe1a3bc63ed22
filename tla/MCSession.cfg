SPECIFICATION SSpec
CONSTANTS
  Guest = Guest
  Attempts = 2
  Buffer = 1
INVARIANTS
  SessionOK
  ShownIsServed
PROPERTIES
  OutcomeIsHeard
  GivenUpEnds
  NoThreadHangs
CHECK_DEADLOCK FALSE
