\* One module, two producers and the loop posting to it, one signal.
SPECIFICATION Spec
CONSTANTS
  NumModules = 1
  Level <- MCOneLevel
  Producers = {p1, p2}
  Signallers = {s1}
  Loop = loop
  QueueSize = 2
  MaxPosts = 2
  Free = Free
  Destroyed = Destroyed
  NoMsg = NoMsg
SYMMETRY MCSymmetry
INVARIANTS TypeOK NoLostWakeup CloseQuiesces HandlerOnlyWhileOpen RingExclusive
