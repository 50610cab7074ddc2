SPECIFICATION Spec
CONSTANTS
  Channels = {c1, c2}
  Names = {a, b}
  Requests = {}
  FileOf <- MCFileOf
  NoName = noname
  NoFile = nofile
  Directory = directory
  MaxUploads = 2
  MaxChunks = 1
  BigSize = 2
  Hasty = {}
CHECK_DEADLOCK FALSE
INVARIANT RenderedAsItself
