\* Three modules at any levels; two regcalls and two on_starts may
\* fail, and the last module may lack its operations.
SPECIFICATION FairSpec
CONSTANTS
  NumModules = 3
  HasTimer = {1, 3}
  MayLackOps = {3}
  MayFailReg = {1, 2}
  MayFailStart = {2, 3}
INVARIANTS TypeOK LevelsNest RegistryMatchesHandles CleanExit
PROPERTIES SignalEndsProgram
