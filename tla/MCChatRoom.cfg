SPECIFICATION Spec
CONSTANTS
  Channels = {c1, c2}
  Rooms = {lobby, room888}
  DefaultRoom = lobby
  NamedRooms = {lobby}
  NoRoom = none
  MaxTasks = 3
CHECK_DEADLOCK FALSE
SYMMETRY ChannelSymmetry
INVARIANTS TypeOK MembersAreLive OnlyCallersHear CurrentRoomJoined StayerHearsItself
