SPECIFICATION SessionSpec
CONSTANTS
  Agents = {a1, a2}
  Boots = {b1, b2}
  NoBoot = NoBoot
  MaxCrashes = 3
INVARIANTS RegisteredIsOffered
PROPERTIES DeadIsFenced RestartRegisters Settles
CHECK_DEADLOCK FALSE
