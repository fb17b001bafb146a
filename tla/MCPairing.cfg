SPECIFICATION Spec
CONSTANTS
  Nodes = {n1, n2}
  Addrs = {a1, a2}
  n1 = n1
  n2 = n2
  a1 = a1
  a2 = a2
  Unknown = Unknown
  NoCall = NoCall
  Kinds = {"receive"}
  Events = {"remove", "rename", "readdress", "lose", "restart", "expire"}
  MaxCodes = 2
  MaxEdits = 0
  MaxPosts = 2
  MaxMoves = 0
  Homes <- Injective
SYMMETRY NodeSymmetry
INVARIANTS TypeOK OneUse Authorised
PROPERTY NoReturnWithoutPairing
