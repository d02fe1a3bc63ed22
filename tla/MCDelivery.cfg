SPECIFICATION DSpec
CONSTANTS
  p = p
  q = q
  a = a
  b = b
  c = c
  me = me
  Person = {p, q}
  Name = {a, b, c, me}
  Me = me
  First <- FirstNames
  Starts <- NamesNow
  ToRoom = ToRoom
  Nobody = Nobody
  Garbage = Garbage
  Texts = 2
  Changes = 2
INVARIANTS
  DeliveryOK
  ReadByRecipients
  InOrder
  MembersRead
PROPERTY
  TextIsTold
CHECK_DEADLOCK FALSE
