SPECIFICATION ProvSpec
CONSTANTS
  MachineIds = {m1}
  MACs = {x}
  ImageIds = {i1}
  MaxJobs = 2
  Slots = {s1}
  Tabs = {t1}
  ListLimit = 40
  Requests = {"machine", "install", "register", "poll", "progress", "complete", "winpe"}
  Reboot = TRUE
  OneAtATime = FALSE
  Faults = {}
INVARIANTS AnswersAreOwn
CHECK_DEADLOCK FALSE
