SPECIFICATION Spec
CONSTANTS
  MachineIds = {m1}
  MACs = {x}
  ImageIds = {i1, i2}
  MaxJobs = 2
  Slots = {s1}
  Tabs = {t1}
  ListLimit = 40
  Requests = {"register", "install", "poll", "complete"}
INVARIANTS WindowsJobBootsWinPE
CHECK_DEADLOCK FALSE
