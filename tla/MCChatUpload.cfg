SPECIFICATION Spec
CONSTANTS
  a = a
  Channels = {c1, c2}
  Names = {a, b}
  Requests = {h1}
  FileOf <- MCFileOf
  NoName = noname
  NoFile = nofile
  Directory = directory
  MaxUploads = 2
  MaxChunks = 3
  BigSize = 3
CHECK_DEADLOCK FALSE
SYMMETRY ChannelSymmetry
INVARIANTS TypeOK LosslessUnlessDisturbed AnsweredUnlessDisturbed NoOrphanStream BroadcastFileIsGone FinishedIsBroadcast
