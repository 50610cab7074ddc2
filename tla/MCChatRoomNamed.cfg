SPECIFICATION Spec
CONSTANTS
  Channels = {c1, c2}
  Rooms = {lobby, room888}
  DefaultRoom = lobby
  NamedRooms = {lobby, room888}
  NoRoom = none
  MaxTasks = 2
CHECK_DEADLOCK FALSE
INVARIANTS NamedRoomIsUsed
