SPECIFICATION FairSpec
CONSTANTS
  Nodes = {n1, n2}
  Addrs = {a1, a2, a3}
  n1 = n1
  n2 = n2
  a1 = a1
  a2 = a2
  a3 = a3
  Unknown = Unknown
  NoCall = NoCall
  Kinds = {"receive"}
  Events = {"stream", "move"}
  MaxCodes = 1
  MaxEdits = 0
  MaxPosts = 2
  MaxMoves = 1
  Homes <- OneHome
PROPERTY ProfileArrives
