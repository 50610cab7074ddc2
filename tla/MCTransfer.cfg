SPECIFICATION LiveSpec
CONSTANTS
  Channels = {c1, c2}
  Names = {a}
  Requests = {}
  FileOf <- MCFileOf
  NoName = noname
  NoFile = nofile
  Directory = directory
  MaxUploads = 2
  MaxChunks = 2
  BigSize = 2
  Hasty = {c2}
CHECK_DEADLOCK FALSE
INVARIANTS TypeOK BackPressure AcksMeetTheirFile
PROPERTIES DeliversInOrder EveryUploadEnds
