SPECIFICATION FairSpec
CONSTANTS
  MachineIds = {m1}
  MACs = {x}
  ImageIds = {i1, i2}
  MaxJobs = 2
  Slots = {s1}
  Tabs = {t1}
  ListLimit = 40
  Requests = {"machine", "install", "stress", "register", "poll", "progress", "complete", "winpe"}
  Reboot = TRUE
  OneAtATime = TRUE
  Faults = {"restart"}
INVARIANTS DiskBootIsWhole
PROPERTIES ProvisionedBootsDisk
CHECK_DEADLOCK FALSE
