CONSTANTS
  t1 = t1
  t2 = t2
  h1 = h1
  h2 = h2
  k1 = k1
  k2 = k2
  v1 = v1
  v2 = v2
  novalue = novalue
  none = none
  Thread <- MCThread
  Handle <- MCHandle
  Key <- MCKey
  NPoints = 3
  points <- MCPoints
  Value <- MCValue
  NoValue = novalue
  None = none
SPECIFICATION FairSpec
CHECK_DEADLOCK FALSE
INVARIANTS EntriesHaveHandles
PROPERTIES ImplementsHashRing CallsReturn
