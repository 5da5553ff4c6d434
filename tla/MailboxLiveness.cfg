\* One module, one producer and the loop posting to it, one signal.
SPECIFICATION FairSpec
CONSTANTS
  NumModules = 1
  Level <- MCOneLevel
  Producers = {p1}
  Signallers = {s1}
  Loop = loop
  QueueSize = 3
  MaxPosts = 2
  Free = Free
  Destroyed = Destroyed
  NoMsg = NoMsg
PROPERTIES EventualDelivery PostReturns SignalEndsLoop
