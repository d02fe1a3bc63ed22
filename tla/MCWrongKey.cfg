CONSTANTS
  Peer = {a, b}
  Version = {v1, v2}
  NoKey = NoKey
  Junk = Junk
  Blank = Blank
  MaxWire = 3
SPECIFICATION KSpec
SYMMETRY Symmetry
INVARIANTS
  EncryptedForRecipient
