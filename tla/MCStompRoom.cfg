SPECIFICATION Spec
CONSTANTS
  Channels = {c1, c2}
  Rooms = {lobby, topic, app}
  DefaultRoom = lobby
  Topic = topic
  AppRooms = {app}
  ClientIds = {1}
  NoDest = nodest
  NoRoom = noroom
  NoId = noid
  NoFrame = noframe
  MaxFrames = 2
CHECK_DEADLOCK FALSE
SYMMETRY ChannelSymmetry
INVARIANTS TypeOK MapsAgree NoGhosts MessageIdsUnique SubscribersHear PublisherOrder
