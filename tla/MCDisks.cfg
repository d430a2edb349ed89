SPECIFICATION MCSpec
CONSTANTS
  Align = 2
  GPTTail = 1
  Layouts <- MCLayouts
  Sizes <- MCSizes
  Text <- MCText
  Lists <- MCLists
  RootFS = {"ext4", "xfs", ""}
  Disk <- MCDisk
  Images <- MCImages
  Magic = 3
  Chunk = 5
  Media <- MCMedia
  Releases = {1, 2}
  Length <- MCLength
  Sites = {"official", "mirror"}
  Official = "official"
  Holds <- MCHolds
  RunBound = 3
  KillBound = 1
  BreakBound = 1
  HandBound = 1
  Catalogue = {"iso", "wim"}
  ISOs = {"iso"}
  Uploaded = {"wim"}
  PE = {1, 2}
  Count = 3
  Workers = {w1, w2}
  WorkBound = 4
  FailBound = 1
  StopBound = 1
SYMMETRY WorkerSymmetry
INVARIANTS PlanFitsDisk PlanKeepsApart NothingLost LossIsCovered RootFillsDisk
INVARIANTS ConfigIsSeen LoaderIsFound MediumIsRead IsoWhole BootSetWhole
INVARIANTS  ReadyIsPatched
CHECK_DEADLOCK FALSE
