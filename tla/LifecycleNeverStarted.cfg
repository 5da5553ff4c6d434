\* Two modules; the second one's regcall may fail.
SPECIFICATION Spec
CONSTANTS
  NumModules = 2
  HasTimer = {}
  MayLackOps = {}
  MayFailReg = {2}
  MayFailStart = {}
INVARIANTS OnlyKnownHandlesClosed
