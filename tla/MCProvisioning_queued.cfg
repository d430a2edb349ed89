SPECIFICATION ProvSpec
CONSTANTS
  MachineIds = {m1}
  MACs = {x}
  ImageIds = {i1}
  MaxJobs = 2
  Slots = {s1}
  Tabs = {t1}
  ListLimit = 40
  Requests = {"install", "register", "poll", "complete"}
  Reboot = TRUE
  OneAtATime = FALSE
  Faults = {}
INVARIANTS DiskBootIsWhole
CHECK_DEADLOCK FALSE
