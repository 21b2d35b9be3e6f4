SPECIFICATION Spec
CHECK_DEADLOCK FALSE
CONSTANTS
  Requests = {r1, r2, r3}
  ls = ls
  rm = rm
  src = src
  conf = conf
  Patterns <- MCPatterns
  Rules <- MCRules
  Protected = {conf}
  Asks <- MCAsks
  Replies = {"once", "always", "reject"}
  MaxSaves = 2
SYMMETRY Symmetry
INVARIANTS
  WaitsWhilePending
PROPERTIES
  GrantIsJustified
  SavesSpareConfigFiles
  SavesLeaveNoCovered
