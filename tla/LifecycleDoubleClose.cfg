\* Two modules; the on_start of either may fail.
SPECIFICATION Spec
CONSTANTS
  NumModules = 2
  HasTimer = {1}
  MayLackOps = {}
  MayFailReg = {}
  MayFailStart = {1, 2}
INVARIANTS NeverClosedTwice
