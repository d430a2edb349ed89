SPECIFICATION FairUploadSpec
CONSTANTS
  Clients = {c1}
  Slots = {1, 2}
  Uploads = {u1, u2, u3}
  NameOf <- MCNameOf
  Size = 3
  ChunkSize = 2
  Retries = 2
  MaxTries = 2
  MaxDrops = 1
  MaxCrashes = 1
  MaxOthers = 1
  Ages = TRUE
INVARIANTS NothingAhead ImageWhole RegisteredOnce PartsHaveMeta
PROPERTIES UploadEnds
CHECK_DEADLOCK FALSE
