SPECIFICATION Spec
CONSTANTS
  Channels = {c1, c2}
  Rooms = {lobby, room888}
  DefaultRoom = lobby
  NamedRooms = {lobby}
  NoRoom = none
  MaxTasks = 2
CHECK_DEADLOCK FALSE
PROPERTIES MembersHear NoSquatter
