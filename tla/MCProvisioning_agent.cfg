SPECIFICATION FairSpec
CONSTANTS
  MachineIds = {m1, m2}
  MACs = {x}
  ImageIds = {i1}
  MaxJobs = 2
  Slots = {s1}
  Tabs = {t1}
  ListLimit = 40
  Requests = {"machine", "removeMachine", "install", "cancel", "delete", "register", "poll", "progress", "complete", "winpe"}
  Reboot = FALSE
  OneAtATime = FALSE
  Faults = {}
INVARIANTS ProvTypeOK
PROPERTIES JobGetsRun JobIsOver
CHECK_DEADLOCK FALSE
