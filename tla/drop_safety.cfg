SPECIFICATION Spec
CONSTANTS
  Clients = {c1, c2}
  Users = {u1, u2}
  Names = {n1, n2}
  Sizes = {2}
  MaxConns = 3
  SendRoom = 2
  MaxUploads = 2
  MaxStarts = 2
  MaxStops = 1
INVARIANTS
  TypeOK
  TablesAgree
  RequestsAreKnown
  ListMatchesDisk
  ListsAreWhole
PROPERTIES
  BoxSpec
SYMMETRY Symmetry
CHECK_DEADLOCK FALSE
