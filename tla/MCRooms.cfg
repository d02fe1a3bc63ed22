CONSTANTS
  Me = me
  Other = {o1}
  Guest = o1
  Room = {main, r1}
  Main = main
  Pass = {p1}
  NoPass = NoPass
  Absent = Absent
  NoText = NoText
  Knows <- MCKnows
  MaxQueue = 3
  MaxEvents = 1
SPECIFICATION RSpec
INVARIANTS
  RTypeOK
  RoomAgreement
  MembersKnowPassword
  CalmTextInItsRoom
