SPECIFICATION QSpec
CONSTANTS
  User = {u, v}
  Server = {s, t}
  Pass = {p, q}
  NoPass = NoPass
  MaxSaved = 2
INVARIANTS
  QuickOK
  SavedOpens
SYMMETRY Symmetry
CHECK_DEADLOCK FALSE
