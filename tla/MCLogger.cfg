CONSTANTS
  p1 = p1
  p2 = p2
  r = r
  w = w
  s1 = s1
  s2 = s2
  s3 = s3
  s4 = s4
  none = none
  Producer <- MCProducer
  Resetter <- MCResetter
  Worker = w
  Limit = 2
  Burst = 1
  Period = 1
  Stream <- MCStream
  None = none
SPECIFICATION FairSpec
INVARIANTS QueueBounded StreamsHaveOwners CrashOnlyByOthers
PROPERTIES RotatesInTime LinesTaken
