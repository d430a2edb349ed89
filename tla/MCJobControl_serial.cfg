SPECIFICATION Spec
CONSTANTS
  MachineIds = {m1}
  MACs = {x, y}
  ImageIds = {i1}
  MaxJobs = 2
  Slots = {s1}
  Tabs = {t1}
  ListLimit = 40
  Requests = {"machine", "removeMachine", "boot", "edit", "readdress", "detect", "install", "stress", "cancel", "delete", "register", "poll", "progress", "complete", "winpe", "image"}
INVARIANTS BusyMachineHasJob JobsHaveMachine
PROPERTIES SerialLifecycle SuccessAfterMachine
CHECK_DEADLOCK FALSE
