SPECIFICATION Spec
CONSTANTS
  Channels = {c1}
  Names = {a, b}
  Requests = {}
  FileOf <- MCFileOf
  NoName = noname
  NoFile = nofile
  Directory = directory
  MaxUploads = 2
  MaxChunks = 2
  BigSize = 3
  Hasty = {c1}
CHECK_DEADLOCK FALSE
INVARIANT AlwaysBackPressure
