SPECIFICATION Spec
CONSTANTS
  MachineIds = {m1}
  MACs = {x}
  ImageIds = {i1}
  MaxJobs = 1
  Slots = {s1, s2}
  Tabs = {t1}
  ListLimit = 40
  Requests = {"machine", "install", "delete"}
INVARIANTS BusyMachineHasJob
CHECK_DEADLOCK FALSE
