SPECIFICATION Spec
CONSTANTS
  MachineIds = {m1}
  MACs = {x}
  ImageIds = {i1}
  MaxJobs = 1
  Slots = {s1, s2}
  Tabs = {t1}
  ListLimit = 40
  Requests = {"machine", "removeMachine", "detect", "install", "cancel", "delete", "register", "poll", "progress", "complete", "winpe", "image", "crash", "storeError"}
SYMMETRY SlotSymmetry
INVARIANTS Inv JobRowsWhole LocalBootNeedsInstall
PROPERTIES RacingLifecycle
CHECK_DEADLOCK FALSE
