SPECIFICATION Spec
CONSTANTS
  Nodes = {n1, n2}
  NoCall = NoCall
  PortRange = 1000
  Failures = {}
  MaxSources = 2
  MaxId = 3
  MaxPosts = 2
CHECK_DEADLOCK FALSE
INVARIANT ReceiversApart
