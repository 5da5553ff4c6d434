\* Three modules at any levels, the first with a timer; rings for two messages.
SPECIFICATION DaemonSpec
CONSTANTS
  NumModules = 3
  HasTimer = {1}
  MayLackOps = {}
  MayFailReg = {}
  MayFailStart = {}
  QueueSize = 3
  MaxHops = 1
  MaxTicks = 2
INVARIANTS DaemonTypeOK NoStrayPost
PROPERTIES HeartbeatsKeepUp MailHandled SignalEndsDaemon
