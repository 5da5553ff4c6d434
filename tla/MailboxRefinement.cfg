\* Two modules stopped against their start order, posting to each other.
SPECIFICATION Spec
CONSTANTS
  NumModules = 2
  Level <- MCTwoLevels
  Producers = {p1}
  Signallers = {s1}
  Loop = loop
  QueueSize = 3
  MaxPosts = 2
  Free = Free
  Destroyed = Destroyed
  NoMsg = NoMsg
PROPERTIES ImplementsMailbox
