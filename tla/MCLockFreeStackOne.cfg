CONSTANTS
  p1 = p1
  p2 = p2
  c1 = c1
  c2 = c2
  n1 = n1
  n2 = n2
  v1 = v1
  v2 = v2
  term = term
  junk = junk
  null = null
  Terminator = term
  Junk = junk
  Null = null
  Pusher <- MCTwoPushers
  Popper <- MCOnePopper
  Node <- MCNode
  Value <- MCValue
  NHeads = 2
SPECIFICATION FairSpec
INVARIANTS NodesInOnePlace
PROPERTIES ImplementsStackArray UsesPoolProperly PopsDrainStack
