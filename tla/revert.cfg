SPECIFICATION RevertSpec
CONSTANTS
  Clients = {c1, c2}
  Files = {f1, f2}
  Contents = {x}
  Absent = Absent
  Unset = Unset
  MaxPieces = 2
SYMMETRY Symmetry
INVARIANTS
  FilesMatchMessages
PROPERTIES
  UnrevertGivesBack
  OnlyUndoneIsDeleted
  UndoIsOneStep
