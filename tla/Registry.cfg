\* Three modules, two of the same name, and three levels.
SPECIFICATION FairSpec
CONSTANTS
  Modules = {m1, m2, m3}
  MaxLevel = 3
  Twins = {m1, m2}
  Null = Null
INVARIANTS TypeOK RingsWellFormed WalksComplete
PROPERTIES WalksEnd ImplementsLevelLists
