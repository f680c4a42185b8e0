SPECIFICATION FairSpec
CONSTANTS
  Publishers = {p1, p2}
  Subscribers = {s1, s2}
  Streams = {a, b}
  MaxSize = 1
  PerPublisher = 2
  MaxCancels = 1
  MayAbandon = {s2}
INVARIANTS TypeOK NoLostWakeup ExactlyOnce PublisherOrder
PROPERTIES EveryPublishEnds EveryMessageYielded
CHECK_DEADLOCK FALSE
