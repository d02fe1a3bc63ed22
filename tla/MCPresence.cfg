CONSTANTS
  Session = {v, c1, c2}
  Viewer = {v}
  Address = {n1, n2}
  Key = {k1}
  Nobody = Nobody
  NoKey = NoKey
SPECIFICATION PSpec
SYMMETRY Symmetry
CONSTRAINT ViewersWatch
INVARIANTS
  PTypeOK
  PresenceIsExact
  EveryKeyReaches
