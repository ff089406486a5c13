SPECIFICATION Spec
CONSTANTS
  Clients = {c1, c2}
  Users = {u1}
  Names = {n1}
  Sizes = {1, 2}
  MaxConns = 3
  SendRoom = 1
  MaxUploads = 2
  MaxStarts = 2
  MaxStops = 2
INVARIANTS
  DownloadIsWhole
SYMMETRY Symmetry
CHECK_DEADLOCK FALSE
