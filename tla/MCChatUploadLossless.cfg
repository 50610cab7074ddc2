SPECIFICATION Spec
CONSTANTS
  a = a
  Channels = {c1}
  Names = {a}
  Requests = {}
  FileOf <- MCFileOf
  NoName = noname
  NoFile = nofile
  Directory = directory
  MaxUploads = 3
  MaxChunks = 2
  BigSize = 2
CHECK_DEADLOCK FALSE
INVARIANTS LosslessAtCallback
