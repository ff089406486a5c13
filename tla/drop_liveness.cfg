SPECIFICATION LiveSpec
CONSTANTS
  Clients = {c1, c2}
  Users = {u1}
  Names = {n1, n2}
  Sizes = {1}
  MaxConns = 4
  SendRoom = 2
  MaxUploads = 2
  MaxStarts = 2
  MaxStops = 1
PROPERTIES
  Synced
  UploadsArrive
CHECK_DEADLOCK FALSE
