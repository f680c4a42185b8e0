SPECIFICATION Spec
CONSTANTS
  Publishers = {p1}
  Subscribers = {s1}
  Streams = {a}
  MaxSize = 2
  PerPublisher = 3
  MaxCancels = 0
  MayAbandon = {}
INVARIANT PublishNeverWaits
CHECK_DEADLOCK FALSE
