SPECIFICATION Spec
CONSTANTS
  Nodes = {n1, n2}
  Addrs = {a1, a2}
  n1 = n1
  n2 = n2
  a1 = a1
  a2 = a2
  Unknown = Unknown
  NoCall = NoCall
  Kinds = {"send", "receive"}
  Events = {"edit"}
  MaxCodes = 1
  MaxEdits = 1
  MaxPosts = 2
  MaxMoves = 0
  Homes <- Injective
INVARIANT SavedMeansSynchronized
