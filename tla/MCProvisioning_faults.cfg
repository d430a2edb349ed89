SPECIFICATION ProvSpec
CONSTANTS
  MachineIds = {m1}
  MACs = {x}
  ImageIds = {i1}
  MaxJobs = 2
  Slots = {s1}
  Tabs = {t1}
  ListLimit = 40
  Requests = {"machine", "install", "cancel", "delete", "register", "poll", "progress", "complete", "winpe", "image"}
  Reboot = TRUE
  OneAtATime = FALSE
  Faults = {"power", "lost", "slow", "unnoticed"}
INVARIANTS WorkIsKnown
PROPERTIES SuccessLeavesSystem OutcomeStays HandlersSpec
CHECK_DEADLOCK FALSE
