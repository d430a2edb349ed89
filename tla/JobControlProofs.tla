--------------------------- MODULE JobControlProofs ---------------------------
(***************************************************************************)
(* Theorems about JobControl, for every set of machines, MAC addresses,    *)
(* images, handler slots and requests, and every bound on the jobs.        *)
(***************************************************************************)
EXTENDS JobControl, TLAPS

-----------------------------------------------------------------------------
(* Types.                                                                  *)

\* The empty rows and the idle handler have their types.
LEMMA RowTypes ==
  /\ NoMachine \in MachineRow
  /\ NoJob \in JobRow
  /\ Idle \in Frame
BY MaxJobsIsNat
   DEF NoMachine, NoJob, Idle, MachineRow, JobRow, Frame, Steps

MachineTable == [MachineIds -> MachineRow]
JobTable == [JobIds -> JobRow]

\* What each writing method of the store leaves is a table again.
LEMMA StoreMethodTypes ==
  ASSUME StoreTypeOK
  PROVE  /\ \A m : \A row \in MachineRow : UpsertMachine(m, row) \in MachineTable
         /\ \A m : \A st \in MachineStatuses \cup {"none"} :
              SetMachineStatus(m, st) \in MachineTable
         /\ \A m : \A mode \in BootModes : SetBootMode(m, mode) \in MachineTable
         /\ \A m : DeleteMachine(m) \in MachineTable
         /\ \A m : JobsWithout(m) \in JobTable
         /\ \A j : \A row \in JobRow : UpdateJob(j, row) \in JobTable
         /\ \A row \in JobRow : InsertJob(row) \in JobTable
         /\ \A j : DeleteJob(j) \in JobTable
<1> USE DEF MachineTable, JobTable
<1>1. \A m : \A row \in MachineRow : UpsertMachine(m, row) \in MachineTable
  BY DEF StoreTypeOK, UpsertMachine
<1>2. \A m : \A st \in MachineStatuses \cup {"none"} : SetMachineStatus(m, st) \in MachineTable
  <2>1. \A row \in MachineRow : \A st \in MachineStatuses \cup {"none"} :
          [row EXCEPT !.status = st] \in MachineRow
    BY DEF MachineRow
  <2>2. \A m, st : SetMachineStatus(m, st) \in
          {machines, [machines EXCEPT ![m] = [machines[m] EXCEPT !.status = st]]}
    BY DEF SetMachineStatus
  <2>3. QED
    BY <2>1, <2>2 DEF StoreTypeOK
<1>3. \A m : \A mode \in BootModes : SetBootMode(m, mode) \in MachineTable
  <2>1. \A row \in MachineRow : \A mode \in BootModes : [row EXCEPT !.boot = mode] \in MachineRow
    BY DEF MachineRow
  <2>2. \A m, mode : SetBootMode(m, mode) \in
          {machines, [machines EXCEPT ![m] = [machines[m] EXCEPT !.boot = mode]]}
    BY DEF SetBootMode
  <2>3. QED
    BY <2>1, <2>2 DEF StoreTypeOK
<1>4. \A m : DeleteMachine(m) \in MachineTable
  BY RowTypes DEF StoreTypeOK, DeleteMachine
<1>5. \A m : JobsWithout(m) \in JobTable
  BY RowTypes DEF StoreTypeOK, JobsWithout
<1>6. \A j : \A row \in JobRow : UpdateJob(j, row) \in JobTable
  BY DEF StoreTypeOK, UpdateJob
<1>7. \A row \in JobRow : InsertJob(row) \in JobTable
  BY DEF StoreTypeOK, InsertJob
<1>8. \A j : DeleteJob(j) \in JobTable
  BY RowTypes DEF StoreTypeOK, DeleteJob
<1>9. QED
  BY <1>1, <1>2, <1>3, <1>4, <1>5, <1>6, <1>7, <1>8

\* The ways in which an action changes the frame of its slot.
LEMMA FrameTypes ==
  ASSUME TypeOK, NEW s \in Slots
  PROVE  /\ \A kind : \A f \in Frame : Start(kind, s, f) => req' \in [Slots -> Frame]
         /\ \A pc \in Steps : Goto(s, pc) => req' \in [Slots -> Frame]
         /\ Done(s) => req' \in [Slots -> Frame]
<1>1. \A kind : \A f \in Frame : Start(kind, s, f) => req' \in [Slots -> Frame]
  BY DEF TypeOK, Start
<1>2. \A pc \in Steps : Goto(s, pc) => req' \in [Slots -> Frame]
  BY DEF TypeOK, Goto, Frame
<1>3. Done(s) => req' \in [Slots -> Frame]
  BY RowTypes DEF TypeOK, Done
<1>4. QED
  BY <1>1, <1>2, <1>3

\* The ways in which an action changes the store.
LEMMA TableWrites ==
  ASSUME StoreTypeOK
  PROVE  /\ UNCHANGED storeVars => StoreTypeOK'
         /\ \A t \in MachineTable : WriteMachines(t) => StoreTypeOK'
         /\ \A t \in JobTable : WriteJobs(t) => StoreTypeOK'
         /\ \A m \in MachineIds, row \in MachineRow : NewMachine(m, row) => StoreTypeOK'
<1>1. UNCHANGED storeVars => StoreTypeOK'
  BY DEF storeVars, StoreTypeOK
<1>2. \A t \in MachineTable : WriteMachines(t) => StoreTypeOK'
  BY DEF WriteMachines, StoreTypeOK, MachineTable
<1>3. \A t \in JobTable : WriteJobs(t) => StoreTypeOK'
  BY DEF WriteJobs, StoreTypeOK, JobTable
<1>4. \A m \in MachineIds, row \in MachineRow : NewMachine(m, row) => StoreTypeOK'
  <2>1. \A m \in MachineIds, row \in MachineRow : UpsertMachine(m, row) \in MachineTable
    BY StoreMethodTypes
  <2>2. QED
    BY <2>1 DEF NewMachine, StoreTypeOK, MachineTable
<1>5. QED
  BY <1>1, <1>2, <1>3, <1>4

-----------------------------------------------------------------------------
\* The copies a handler makes, changes and keeps have the types of rows.
LEMMA CopyTypes ==
  /\ \A pc \in Steps, m \in MachineIds \cup {"none"}, row \in MachineRow :
       WithMachine(pc, m, row) \in Frame
  /\ \A pc \in Steps, j \in 0 .. MaxJobs, row \in JobRow : WithJob(pc, j, row) \in Frame
  /\ \A type \in {"install", "stress"}, m \in MachineIds, i \in ImageIds \cup {"none"} :
       NewJob(type, m, i) \in JobRow
  /\ \A row \in JobRow : Started(row) \in JobRow /\ Progressed(row) \in JobRow
  /\ \A row \in JobRow, st \in JobStatuses : Finished(row, st) \in JobRow
  /\ \A row \in MachineRow, boot \in BootModes : [row EXCEPT !.boot = boot] \in MachineRow
  /\ \A mac \in MACs : Discovered(mac) \in MachineRow
<1>1. \A pc \in Steps, m \in MachineIds \cup {"none"}, row \in MachineRow :
        WithMachine(pc, m, row) \in Frame
  BY RowTypes DEF WithMachine, Frame
<1>2. \A pc \in Steps, j \in 0 .. MaxJobs, row \in JobRow : WithJob(pc, j, row) \in Frame
  BY RowTypes DEF WithJob, Frame
<1>3. \A type \in {"install", "stress"}, m \in MachineIds, i \in ImageIds \cup {"none"} :
        NewJob(type, m, i) \in JobRow
  BY RowTypes DEF NewJob, JobRow, JobStatuses, ActiveStatuses
<1>4. \A row \in JobRow : Started(row) \in JobRow
  BY DEF Started, JobRow, JobStatuses, ActiveStatuses
<1>5. \A row \in JobRow : Progressed(row) \in JobRow
  BY <1>4 DEF Progressed
<1>6. \A row \in JobRow, st \in JobStatuses : Finished(row, st) \in JobRow
  BY DEF Finished, JobRow
<1>7. \A row \in MachineRow, boot \in BootModes : [row EXCEPT !.boot = boot] \in MachineRow
  BY DEF MachineRow
<1>8. \A mac \in MACs : Discovered(mac) \in MachineRow
  BY DEF Discovered, MachineRow, MachineStatuses, BootModes
<1>9. QED
  BY <1>1, <1>2, <1>3, <1>4, <1>5, <1>6, <1>7, <1>8

-----------------------------------------------------------------------------
\* Every handler leaves rows, ids and copies in their types.
LEMMA TypeStep == Inv /\ [Next]_vars => TypeOK'
<1> SUFFICES ASSUME TypeOK, JobTableInv, JobCopyInv, [Next]_vars PROVE TypeOK'
  BY DEF Inv
<1>t. StoreTypeOK
  BY DEF TypeOK
<1>m. /\ \A m \in MachineIds : machines[m] \in MachineRow
      /\ \A j \in JobIds : jobs[j] \in JobRow
      /\ \A s \in Slots : req[s] \in Frame
  BY DEF TypeOK, StoreTypeOK
<1>j. JobIds \subseteq 0 .. MaxJobs
  BY MaxJobsIsNat DEF JobIds
<1> USE <1>t, FrameTypes, TableWrites, StoreMethodTypes DEF TypeOK, KeepHistory, FreshStatus
<1>1. CASE UNCHANGED vars
  BY <1>1 DEF vars, storeVars
<1>2. CASE ConsoleMachine
  <2>1. ASSUME NEW m \in MachineIds, NEW mac \in MACs, NEW boot \in BootModes,
               CreateMachine(m, mac, boot)
        PROVE  TypeOK'
    <3>1. [status |-> "ready", boot |-> boot, mac |-> mac] \in MachineRow
      BY DEF MachineRow, MachineStatuses
    <3>2. QED
      BY <2>1, <3>1 DEF CreateMachine, Quick
  <2>2. ASSUME NEW m \in MachineIds, RemoveMachine(m)
        PROVE  TypeOK'
    BY <2>2 DEF RemoveMachine, StoreTypeOK, Quick, MachineTable, JobTable
  <2>3. ASSUME NEW m \in MachineIds, NEW mode \in BootModes, SetBoot(m, mode)
        PROVE  TypeOK'
    BY <2>3 DEF SetBoot, Quick
  <2>4. ASSUME NEW t \in Tabs, NEW m \in MachineIds, EditLoad(t, m)
        PROVE  TypeOK'
    <3>1. machines[m].status \in MachineStatuses \cup {"none"}
      BY <1>m DEF MachineRow
    <3>2. QED
      BY <2>4, <3>1 DEF EditLoad, Quick
  <2>p. ASSUME NEW s \in Slots, NEW t \in Tabs, NEW boot \in BootModes, EditPut(s, t, boot)
        PROVE  TypeOK'
    <3>1. PICK row, f : /\ row \in MachineRow /\ f = WithMachine("EditUpsert", form[t].mid, row)
                        /\ Start("edit", s, f) /\ UNCHANGED storeVars /\ KeepHistory
      <4>1. PICK mac \in FormMACs(form[t].mid) :
              Start("edit", s, WithMachine("EditUpsert", form[t].mid,
                                 [status |-> form[t].status, boot |-> boot, mac |-> mac]))
        BY <2>p DEF EditPut
      <4>2. mac \in MACs \cup {"none"}
        BY <1>m, <2>p DEF EditPut, FormMACs, GetMachine, MachineRow
      <4>3. [status |-> form[t].status, boot |-> boot, mac |-> mac] \in MachineRow
        BY <4>2 DEF MachineRow
      <4>4. QED
        BY <2>p, <4>1, <4>3 DEF EditPut
    <3>2. f \in Frame
      BY <3>1, CopyTypes DEF Steps
    <3>3. QED
      BY <3>1, <3>2
  <2>5. ASSUME NEW s \in Slots, NEW m \in MachineIds, DetectRead(s, m)
        PROVE  TypeOK'
    <3>1. WithMachine("DetectUpsert", m, machines[m]) \in Frame
      BY <1>m, CopyTypes DEF Steps
    <3>2. QED
      BY <2>5, <3>1 DEF DetectRead
  <2>6. QED
    BY <1>2, <2>1, <2>2, <2>3, <2>4, <2>p, <2>5 DEF ConsoleMachine
<1>3. ASSUME NEW s \in Slots, ConsoleMachineStep(s)
      PROVE  TypeOK'
  <2>0. req[s].row \in MachineRow
    BY <1>m DEF Frame
  <2>2. CASE EditUpsert(s)
    BY <2>0, <2>2 DEF EditUpsert
  <2>3. CASE DetectUpsert(s)
    BY <2>0, <2>3 DEF DetectUpsert
  <2>4. QED
    BY <1>3, <2>2, <2>3 DEF ConsoleMachineStep
<1>4. CASE ConsoleJob
  <2>1. ASSUME NEW s \in Slots, NEW m \in MachineIds, NEW i \in ImageIds, CreateInstall(s, m, i)
        PROVE  TypeOK'
    <3>1. WithJob("CreateInsert", 0, NewJob("install", m, i)) \in Frame
      BY CopyTypes, MaxJobsIsNat DEF Steps
    <3>2. QED
      BY <2>1, <3>1 DEF CreateInstall
  <2>2. ASSUME NEW s \in Slots, NEW m \in MachineIds, CreateStress(s, m)
        PROVE  TypeOK'
    <3>1. WithJob("CreateInsert", 0, NewJob("stress", m, "none")) \in Frame
      BY CopyTypes, MaxJobsIsNat DEF Steps
    <3>2. QED
      BY <2>2, <3>1 DEF CreateStress
  <2>3. ASSUME NEW s \in Slots, NEW j \in JobIds, CancelRead(s, j)
        PROVE  TypeOK'
    <3>1. WithJob("CancelUpdate", j, Finished(jobs[j], "cancelled")) \in Frame
      BY <1>m, <1>j, CopyTypes DEF Steps, JobStatuses, FinalStatuses
    <3>2. QED
      BY <2>3, <3>1 DEF CancelRead
  <2>4. ASSUME NEW s \in Slots, NEW j \in JobIds, DeleteRead(s, j)
        PROVE  TypeOK'
    <3>1. WithJob("JobDelete", j, jobs[j]) \in Frame
      BY <1>m, <1>j, CopyTypes DEF Steps
    <3>2. QED
      BY <2>4, <3>1 DEF DeleteRead
  <2>5. QED
    BY <1>4, <2>1, <2>2, <2>3, <2>4 DEF ConsoleJob
<1>5. ASSUME NEW s \in Slots, ConsoleJobStep(s)
      PROVE  TypeOK'
  <2>0. req[s].job \in JobRow
    BY <1>m DEF Frame
  <2>1. CASE CreateInsert(s)
    BY <2>0, <2>1, MaxJobsIsNat DEF CreateInsert, StoreTypeOK, JobTable, Steps
  <2>2. CASE CreateStatus(s)
    BY <2>2 DEF CreateStatus, Steps, MachineStatuses
  <2>3. CASE CreateBoot(s)
    BY <2>3 DEF CreateBoot, BootModes
  <2>4. CASE CancelUpdate(s)
    BY <2>0, <2>4 DEF CancelUpdate, Steps
  <2>5. CASE JobDelete(s)
    BY <2>5 DEF JobDelete, Steps
  <2>6. CASE ReleaseRead(s)
    BY <2>6 DEF ReleaseRead, Steps
  <2>7. CASE ReleaseCheck(s)
    BY <2>7 DEF ReleaseCheck, Steps
  <2>8. CASE ReleaseSet(s)
    BY <2>8 DEF ReleaseSet, MachineStatuses
  <2>9. QED
    BY <1>5, <2>1, <2>2, <2>3, <2>4, <2>5, <2>6, <2>7, <2>8 DEF ConsoleJobStep
<1>6. CASE AgentCall
  <2>1. ASSUME NEW s \in Slots, NEW mac \in MACs, Register(s, mac)
        PROVE  TypeOK'
    <3>1. WithMachine("RegisterInsert", "none", Discovered(mac)) \in Frame
      BY CopyTypes DEF Steps
    <3>2. \A m \in MachineByMAC(mac) : WithMachine("RegisterTouch", m, machines[m]) \in Frame
      BY <1>m, CopyTypes DEF Steps, MachineByMAC
    <3>3. QED
      BY <2>1, <3>1, <3>2 DEF Register
  <2>2. ASSUME NEW s \in Slots, NEW m \in MachineIds, PollNext(s, m)
        PROVE  TypeOK'
    <3>1. \A j \in JobIds : WithJob("PollImage", j, jobs[j]) \in Frame
      BY <1>m, <1>j, CopyTypes DEF Steps
    <3>2. QED
      BY <2>2, <3>1 DEF PollNext, NextPendingJob, PendingJobs, JobsOf
  <2>3. ASSUME NEW s \in Slots, NEW j \in JobIds, ProgressRead(s, j)
        PROVE  TypeOK'
    <3>1. WithJob("ProgressUpdate", j, Progressed(jobs[j])) \in Frame
      BY <1>m, <1>j, CopyTypes DEF Steps
    <3>2. QED
      BY <2>3, <3>1 DEF ProgressRead
  <2>4. ASSUME NEW s \in Slots, NEW j \in JobIds, NEW ok \in BOOLEAN, CompleteRead(s, j, ok)
        PROVE  TypeOK'
    <3>1. Outcome(ok) \in JobStatuses
      BY DEF Outcome, JobStatuses, FinalStatuses
    <3>2. WithJob("CompleteStatus", j, Finished(jobs[j], Outcome(ok))) \in Frame
      BY <1>m, <1>j, <3>1, CopyTypes DEF Steps
    <3>3. installed' \subseteq MachineIds
      <4>1. CASE ok /\ jobs[j].type = "install"
        <5>1. jobs[j].mid \in MachineIds
          BY <2>4 DEF CompleteRead, JobTableInv
        <5>2. QED
          BY <2>4, <4>1, <5>1 DEF CompleteRead
      <4>2. CASE ~(ok /\ jobs[j].type = "install")
        BY <2>4, <4>2 DEF CompleteRead
      <4>3. QED
        BY <4>1, <4>2
    <3>4. QED
      BY <2>4, <3>2, <3>3 DEF CompleteRead
  <2>5. QED
    BY <1>6, <2>1, <2>2, <2>3, <2>4 DEF AgentCall
<1>7. ASSUME NEW s \in Slots, AgentStep(s)
      PROVE  TypeOK'
  <2>0. req[s].job \in JobRow /\ req[s].row \in MachineRow /\ req[s].jid \in 0 .. MaxJobs
    BY <1>m DEF Frame
  <2>1. ASSUME NEW m \in MachineIds, RegisterInsert(s, m)
        PROVE  TypeOK'
    BY <2>0, <2>1 DEF RegisterInsert
  <2>2. CASE RegisterTouch(s)
    <3>1. req[s].row.status \in MachineStatuses \cup {"none"}
      BY <2>0 DEF MachineRow
    <3>2. QED
      BY <2>2, <3>1 DEF RegisterTouch, TouchMachine, Steps
  <2>3. CASE RegisterReread(s)
    <3>1. req' \in [Slots -> Frame]
      <4>1. CASE Done(s)
        BY <4>1
      <4>2. CASE /\ GetMachine(req[s].mid)
                 /\ req' = [req EXCEPT ![s] = WithMachine("RegisterRename", req[s].mid,
                                                          machines[req[s].mid])]
        BY <1>m, <4>2, CopyTypes DEF Steps, GetMachine
      <4>3. QED
        BY <2>3, <4>1, <4>2 DEF RegisterReread
    <3>2. QED
      BY <2>3, <3>1 DEF RegisterReread
  <2>4. CASE RegisterRename(s)
    BY <2>0, <2>4 DEF RegisterRename
  <2>5. CASE PollImage(s)
    BY <2>5 DEF PollImage, Steps
  <2>6. CASE PollClaim(s)
    <3>1. Started(req[s].job) \in JobRow
      BY <2>0, CopyTypes
    <3>2. WithJob("PollReply", req[s].jid, Started(req[s].job)) \in Frame
      BY <2>0, <3>1, CopyTypes DEF Steps
    <3>3. QED
      BY <2>6, <3>1, <3>2 DEF PollClaim
  <2>7. CASE PollReply(s)
    <3>1. req[s].jid \in 1 .. lastJob
      BY <2>7 DEF PollReply, At, JobCopyInv, JobCopyOK
    <3>2. req[s].jid \in JobIds
      BY <3>1, MaxJobsIsNat DEF StoreTypeOK, JobIds
    <3>3. QED
      BY <2>7, <3>2 DEF PollReply
  <2>8. CASE ProgressUpdate(s)
    BY <2>0, <2>8 DEF ProgressUpdate
  <2>9. CASE CompleteStatus(s)
    BY <2>9 DEF CompleteStatus, Steps, MachineStatuses
  <2>10. CASE CompleteBoot(s)
    BY <2>10 DEF CompleteBoot, Steps, BootModes
  <2>11. CASE CompleteUpdate(s)
    BY <2>0, <2>11 DEF CompleteUpdate
  <2>12. QED
    BY <1>7, <2>1, <2>2, <2>3, <2>4, <2>5, <2>6, <2>7, <2>8, <2>9, <2>10, <2>11 DEF AgentStep
<1>8. CASE Environment
  <2>1. ASSUME NEW m \in MachineIds, ServeWinPE(m)
        PROVE  TypeOK'
    <3>1. WindowsInstall(m) \subseteq JobIds
      BY DEF WindowsInstall, WindowsJobs, ListJobs, JobsOf
    <3>2. QED
      BY <2>1, <3>1 DEF ServeWinPE, Quick
  <2>2. ASSUME NEW i \in ImageIds, DropImage(i)
        PROVE  TypeOK'
    BY <2>2 DEF DropImage, Quick, StoreTypeOK
  <2>3. ASSUME NEW i \in ImageIds, NEW kind \in ImageKinds, PutImage(i, kind)
        PROVE  TypeOK'
    BY <2>3 DEF PutImage, Quick, StoreTypeOK
  <2>4. CASE Crash
    BY <2>4, RowTypes DEF Crash
  <2>5. ASSUME NEW s \in Slots, StoreFails(s)
        PROVE  TypeOK'
    <3>1. AfterFailure(req[s]) \in Steps
      BY DEF AfterFailure, Steps
    <3>2. QED
      BY <2>5, <3>1 DEF StoreFails
  <2>6. QED
    BY <1>8, <2>1, <2>2, <2>3, <2>4, <2>5 DEF Environment
<1>9. QED
  BY <1>1, <1>2, <1>3, <1>4, <1>5, <1>6, <1>7, <1>8 DEF Next

-----------------------------------------------------------------------------
(* Everything a step can do to the job table.                              *)

JobsKept == jobs' = jobs /\ lastJob' = lastJob
JobsUpdated(j, row) ==
  /\ j \in 1 .. lastJob
  /\ row \in JobRow /\ WholeRow(row)
  /\ row.status \in JobStatuses \ {"pending"} /\ row.mid \in MachineIds
  /\ jobs' = UpdateJob(j, row) /\ lastJob' = lastJob
JobsDeleted(j) == j \in 1 .. lastJob /\ jobs' = DeleteJob(j) /\ lastJob' = lastJob
JobsOfMachineDeleted(m) == jobs' = JobsWithout(m) /\ lastJob' = lastJob
JobsInserted(row) ==
  /\ lastJob < MaxJobs
  /\ row \in JobRow /\ WholeRow(row) /\ row.status = "pending" /\ row.mid \in MachineIds
  /\ jobs' = InsertJob(row) /\ lastJob' = lastJob + 1

LEMMA JobsSteps ==
  ASSUME Inv, [Next]_vars
  PROVE  \/ JobsKept
         \/ \E j \in JobIds, row \in JobRow : JobsUpdated(j, row)
         \/ \E j \in JobIds : JobsDeleted(j)
         \/ \E m \in MachineIds : JobsOfMachineDeleted(m)
         \/ \E row \in JobRow : JobsInserted(row)
<1> DEFINE Goal == \/ JobsKept
                   \/ \E j \in JobIds, row \in JobRow : JobsUpdated(j, row)
                   \/ \E j \in JobIds : JobsDeleted(j)
                   \/ \E m \in MachineIds : JobsOfMachineDeleted(m)
                   \/ \E row \in JobRow : JobsInserted(row)
<1>0. /\ \A s \in Slots : JobCopyOK(req[s]) /\ req[s].job \in JobRow
      /\ 1 .. lastJob \subseteq JobIds
  BY MaxJobsIsNat DEF Inv, JobCopyInv, TypeOK, StoreTypeOK, Frame, JobIds
<1>1. CASE UNCHANGED vars
  BY <1>1 DEF vars, JobsKept
<1>2. ASSUME ConsoleMachine PROVE Goal
  BY <1>2
     DEF ConsoleMachine, CreateMachine, NewMachine, RemoveMachine, SetBoot, EditLoad, EditPut,
         DetectRead, WriteMachines, storeVars, JobsKept, JobsOfMachineDeleted
<1>3. ASSUME NEW s \in Slots, ConsoleMachineStep(s) PROVE Goal
  BY <1>3
     DEF ConsoleMachineStep, EditUpsert, DetectUpsert, WriteMachines, storeVars, JobsKept
<1>4. ASSUME ConsoleJob PROVE Goal
  BY <1>4
     DEF ConsoleJob, CreateInstall, CreateStress, CancelRead, DeleteRead, storeVars, JobsKept
<1>5. ASSUME NEW s \in Slots, ConsoleJobStep(s) PROVE Goal
  <2>1. CASE CreateInsert(s)
    BY <1>0, <2>1 DEF CreateInsert, JobsInserted, At, JobCopyOK, JobReaders
  <2>2. CASE CancelUpdate(s)
    BY <1>0, <2>2 DEF CancelUpdate, JobsUpdated, At, JobCopyOK, JobWriters, WriteJobs
  <2>3. CASE JobDelete(s)
    BY <1>0, <2>3 DEF JobDelete, JobsDeleted, At, JobCopyOK, WriteJobs
  <2>4. CASE CreateStatus(s) \/ CreateBoot(s) \/ ReleaseRead(s) \/ ReleaseCheck(s) \/ ReleaseSet(s)
    BY <2>4
       DEF CreateStatus, CreateBoot, ReleaseRead, ReleaseCheck, ReleaseSet,
           WriteMachines, storeVars, JobsKept
  <2>5. QED
    BY <1>5, <2>1, <2>2, <2>3, <2>4 DEF ConsoleJobStep
<1>6. ASSUME AgentCall PROVE Goal
  BY <1>6
     DEF AgentCall, Register, PollNext, ProgressRead, CompleteRead, storeVars, JobsKept
<1>7. ASSUME NEW s \in Slots, AgentStep(s) PROVE Goal
  <2>1. CASE PollClaim(s)
    <3>1. /\ Started(req[s].job) \in JobRow
          /\ WholeRow(Started(req[s].job))
          /\ Started(req[s].job).status = "running"
          /\ Started(req[s].job).mid = req[s].job.mid
      <4>1. WholeRow(req[s].job) /\ req[s].job.status = "pending" /\ req[s].job \in JobRow
        BY <1>0, <2>1 DEF PollClaim, At, JobCopyOK, JobReaders
      <4>2. QED
        BY <4>1, CopyTypes DEF Started, WholeRow, FinalStatuses, JobRow
    <3>2. QED
      BY <1>0, <2>1, <3>1
         DEF PollClaim, JobsUpdated, At, JobCopyOK, JobReaders, WriteJobs,
             JobStatuses, ActiveStatuses
  <2>2. CASE ProgressUpdate(s)
    BY <1>0, <2>2 DEF ProgressUpdate, JobsUpdated, At, JobCopyOK, JobWriters, WriteJobs
  <2>3. CASE CompleteUpdate(s)
    BY <1>0, <2>3 DEF CompleteUpdate, JobsUpdated, At, JobCopyOK, JobWriters, WriteJobs
  <2>4. CASE \/ \E m \in MachineIds : RegisterInsert(s, m)
             \/ RegisterTouch(s) \/ RegisterReread(s) \/ RegisterRename(s)
             \/ PollImage(s) \/ PollReply(s) \/ CompleteStatus(s) \/ CompleteBoot(s)
    BY <2>4
       DEF RegisterInsert, NewMachine, RegisterTouch, RegisterReread, RegisterRename,
           PollImage, PollReply, CompleteStatus, CompleteBoot,
           WriteMachines, storeVars, JobsKept
  <2>5. QED
    BY <1>7, <2>1, <2>2, <2>3, <2>4 DEF AgentStep
<1>8. ASSUME Environment PROVE Goal
  BY <1>8 DEF Environment, ServeWinPE, DropImage, PutImage, Crash, StoreFails, storeVars, JobsKept
<1>9. QED
  BY <1>1, <1>2, <1>3, <1>4, <1>5, <1>6, <1>7, <1>8 DEF Next

-----------------------------------------------------------------------------
(* The conjuncts of the inductive invariant, step by step.                 *)

\* No row of the job table is ever torn, and ids stay in order.
LEMMA JobTableStep == Inv /\ [Next]_vars => JobTableInv'
<1> SUFFICES ASSUME Inv, [Next]_vars PROVE JobTableInv'
  OBVIOUS
<1>0. /\ JobTableInv
      /\ jobs \in [JobIds -> JobRow]
      /\ lastJob \in 0 .. MaxJobs
  BY DEF Inv, TypeOK, StoreTypeOK
<1>n. WholeRow(NoJob) /\ NoJob.status = "none"
  BY DEF WholeRow, NoJob, FinalStatuses
<1>p. "pending" \in JobStatuses
  BY DEF JobStatuses, ActiveStatuses
<1> USE MaxJobsIsNat DEF JobIds
<1>1. CASE JobsKept
  BY <1>0, <1>1 DEF JobsKept, JobTableInv, GetJob
<1>2. ASSUME NEW j \in JobIds, NEW row \in JobRow, JobsUpdated(j, row)
      PROVE  JobTableInv'
  BY <1>0, <1>2 DEF JobsUpdated, UpdateJob, JobTableInv, GetJob
<1>3. ASSUME NEW j \in JobIds, JobsDeleted(j)
      PROVE  JobTableInv'
  BY <1>0, <1>n, <1>3 DEF JobsDeleted, DeleteJob, JobTableInv, GetJob
<1>4. ASSUME NEW m \in MachineIds, JobsOfMachineDeleted(m)
      PROVE  JobTableInv'
  BY <1>0, <1>n, <1>4 DEF JobsOfMachineDeleted, JobsWithout, JobTableInv, GetJob
<1>5. ASSUME NEW row \in JobRow, JobsInserted(row)
      PROVE  JobTableInv'
  BY <1>0, <1>p, <1>5 DEF JobsInserted, InsertJob, JobTableInv, GetJob
<1>6. QED
  BY <1>1, <1>2, <1>3, <1>4, <1>5, JobsSteps

\* Changing a copy of a whole row the way the handlers do keeps it whole.
LEMMA EditsKeepRowsWhole ==
  ASSUME NEW row \in JobRow, WholeRow(row)
  PROVE  /\ row.status = "pending" => WholeRow(Started(row)) /\ Started(row).status = "running"
         /\ WholeRow(Progressed(row))
         /\ Progressed(row).status \in {"running", row.status} \ {"pending"}
         /\ \A st \in FinalStatuses :
              WholeRow(Finished(row, st)) /\ Finished(row, st).status = st
         /\ \A st \in FinalStatuses :
              Finished(row, st).mid = row.mid /\ Finished(row, st).type = row.type
         /\ Started(row).mid = row.mid /\ Progressed(row).mid = row.mid
<1>1. /\ row.status = "pending" => WholeRow(Started(row)) /\ Started(row).status = "running"
      /\ Started(row).mid = row.mid
  BY DEF Started, WholeRow, FinalStatuses, JobRow
<1>2. /\ WholeRow(Progressed(row)) /\ Progressed(row).mid = row.mid
      /\ Progressed(row).status \in {"running", row.status} \ {"pending"}
  BY <1>1 DEF Progressed
<1>3. \A st \in FinalStatuses :
        /\ WholeRow(Finished(row, st)) /\ Finished(row, st).status = st
        /\ Finished(row, st).mid = row.mid /\ Finished(row, st).type = row.type
  BY DEF Finished, WholeRow, FinalStatuses, JobRow
<1>4. QED
  BY <1>1, <1>2, <1>3

\* A handler that has not changed its own copies, and one that is idle, keep
\* what was true of the copies: ids are never taken back.
LEMMA JobCopyKept ==
  ASSUME Inv, [Next]_vars
  PROVE  /\ lastJob' \in Nat /\ lastJob <= lastJob'
         /\ \A s \in Slots : req'[s] = req[s] => JobCopyOK(req[s])'
         /\ \A s \in Slots : req'[s] = Idle => JobCopyOK(req[s])'
<1>0. lastJob \in 0 .. MaxJobs
  BY DEF Inv, TypeOK, StoreTypeOK
<1>1. lastJob' \in Nat /\ lastJob <= lastJob'
  BY <1>0, JobsSteps, MaxJobsIsNat
     DEF JobsKept, JobsUpdated, JobsDeleted, JobsOfMachineDeleted, JobsInserted
<1>2. ASSUME NEW s \in Slots, req'[s] = req[s] PROVE JobCopyOK(req[s])'
  BY <1>0, <1>1, <1>2 DEF Inv, JobCopyInv, JobCopyOK
<1>3. ASSUME NEW s \in Slots, req'[s] = Idle PROVE JobCopyOK(req[s])'
  BY <1>3 DEF JobCopyOK, Idle, JobWriters, JobReaders
<1>4. QED
  BY <1>1, <1>2, <1>3

\* An action of a handler changes the frame of its own slot only.
LEMMA SlotChanges ==
  ASSUME TypeOK, NEW s \in Slots
  PROVE  /\ \A kind, f : Start(kind, s, f) =>
              req'[s] = f /\ \A t \in Slots \ {s} : req'[t] = req[t]
         /\ \A pc : Goto(s, pc) =>
              /\ req'[s] = [req[s] EXCEPT !.pc = pc]
              /\ req'[s].pc = pc /\ req'[s].mid = req[s].mid /\ req'[s].row = req[s].row
              /\ req'[s].jid = req[s].jid /\ req'[s].job = req[s].job
              /\ \A t \in Slots \ {s} : req'[t] = req[t]
         /\ Done(s) => req'[s] = Idle /\ \A t \in Slots \ {s} : req'[t] = req[t]
<1>1. \A kind, f : Start(kind, s, f) =>
        req'[s] = f /\ \A t \in Slots \ {s} : req'[t] = req[t]
  BY DEF Start, TypeOK
<1>2. \A pc : Goto(s, pc) =>
        /\ req'[s] = [req[s] EXCEPT !.pc = pc]
        /\ req'[s].pc = pc /\ req'[s].mid = req[s].mid /\ req'[s].row = req[s].row
        /\ req'[s].jid = req[s].jid /\ req'[s].job = req[s].job
        /\ \A t \in Slots \ {s} : req'[t] = req[t]
  BY DEF Goto, TypeOK, Frame
<1>3. Done(s) => req'[s] = Idle /\ \A t \in Slots \ {s} : req'[t] = req[t]
  BY DEF Done, TypeOK
<1>4. QED
  BY <1>1, <1>2, <1>3

\* A handler whose Store call failed goes on with the copies it had, or is done.
LEMMA FailureLeaves ==
  ASSUME TypeOK, NEW s \in Slots, StoreFails(s)
  PROVE  /\ \/ req'[s] = Idle
            \/ /\ req'[s].pc = AfterFailure(req[s]) /\ AfterFailure(req[s]) # "idle"
               /\ req'[s].mid = req[s].mid /\ req'[s].row = req[s].row
               /\ req'[s].jid = req[s].jid /\ req'[s].job = req[s].job
         /\ \A t \in Slots \ {s} : req'[t] = req[t]
         /\ machines' = machines /\ jobs' = jobs /\ lastJob' = lastJob /\ installed' = installed
<1>1. machines' = machines /\ jobs' = jobs /\ lastJob' = lastJob /\ installed' = installed
  BY DEF StoreFails, storeVars, KeepHistory
<1>2. Done(s) \/ (AfterFailure(req[s]) # "idle" /\ Goto(s, AfterFailure(req[s])))
  BY DEF StoreFails
<1>3. QED
  BY <1>1, <1>2, SlotChanges

\* What the two frame constructors put where.
LEMMA FrameFields ==
  /\ \A pc, m, row :
       /\ WithMachine(pc, m, row).pc = pc
       /\ WithMachine(pc, m, row).mid = m
       /\ WithMachine(pc, m, row).row = row
       /\ WithMachine(pc, m, row).job = NoJob
  /\ \A pc, j, row :
       /\ WithJob(pc, j, row).pc = pc
       /\ WithJob(pc, j, row).jid = j
       /\ WithJob(pc, j, row).job = row
       /\ WithJob(pc, j, row).row = NoMachine
BY DEF WithMachine, WithJob, Idle

\* Whatever a handler will write back to the job table stays fit to be written.
LEMMA JobCopyStep == Inv /\ [Next]_vars => JobCopyInv'
<1> SUFFICES ASSUME Inv, [Next]_vars PROVE JobCopyInv'
  OBVIOUS
<1>t. TypeOK
  BY DEF Inv
<1>0. /\ \A s \in Slots : JobCopyOK(req[s]) /\ req[s].job \in JobRow
      /\ 1 .. lastJob \subseteq JobIds
      /\ 1 .. lastJob \subseteq 1 .. lastJob'
  <2>1. \A s \in Slots : JobCopyOK(req[s]) /\ req[s].job \in JobRow
    BY DEF Inv, JobCopyInv, TypeOK, Frame
  <2>2. 1 .. lastJob \subseteq JobIds /\ 1 .. lastJob \subseteq 1 .. lastJob'
    BY JobCopyKept, MaxJobsIsNat DEF Inv, TypeOK, StoreTypeOK, JobIds
  <2>3. QED
    BY <2>1, <2>2
<1>j. \A j \in JobIds : GetJob(j) => /\ jobs[j] \in JobRow /\ WholeRow(jobs[j])
                                    /\ jobs[j].status \in JobStatuses
                                    /\ jobs[j].mid \in MachineIds
                                    /\ j \in 1 .. lastJob'
  BY JobCopyKept, MaxJobsIsNat DEF Inv, JobTableInv, TypeOK, StoreTypeOK, JobIds
<1>k. \A s \in Slots :
        (\A t \in Slots \ {s} : req'[t] = req[t]) /\ JobCopyOK(req[s])' => JobCopyInv'
  BY JobCopyKept DEF JobCopyInv
<1>i. \A s \in Slots : req'[s] = Idle => JobCopyOK(req[s])'
  BY JobCopyKept
<1>u. req' = req => JobCopyInv'
  BY JobCopyKept DEF JobCopyInv
<1>1. CASE UNCHANGED vars
  BY <1>1, <1>u DEF vars
<1>2. CASE ConsoleMachine
  <2>1. ASSUME NEW s \in Slots,
               \/ \E t \in Tabs, boot \in BootModes : EditPut(s, t, boot)
               \/ \E m \in MachineIds : DetectRead(s, m)
        PROVE  JobCopyInv'
    <3>1. /\ req'[s].pc \in {"EditUpsert", "DetectUpsert"}
          /\ \A t \in Slots \ {s} : req'[t] = req[t]
      <4>1. \E kind, pc, m, row : /\ pc \in {"EditUpsert", "DetectUpsert"}
                                  /\ Start(kind, s, WithMachine(pc, m, row))
        <5>1. ASSUME NEW t \in Tabs, NEW boot \in BootModes, EditPut(s, t, boot)
              PROVE  \E m, row : Start("edit", s, WithMachine("EditUpsert", m, row))
          BY ZenonT(30), <5>1 DEF EditPut
        <5>2. ASSUME NEW m \in MachineIds, DetectRead(s, m)
              PROVE  Start("detect", s, WithMachine("DetectUpsert", m, machines[m]))
          BY <5>2 DEF DetectRead
        <5>3. QED
          BY <2>1, <5>1, <5>2
      <4>2. QED
        BY <1>t, <4>1, SlotChanges, FrameFields
    <3>2. JobCopyOK(req[s])'
      BY <3>1 DEF JobCopyOK, JobWriters, JobReaders
    <3>3. QED
      BY <1>k, <3>1, <3>2
  <2>2. QED
    BY <1>2, <1>u, <2>1 DEF ConsoleMachine, CreateMachine, RemoveMachine, SetBoot, EditLoad, Quick
<1>3. ASSUME NEW s \in Slots, ConsoleMachineStep(s)
      PROVE  JobCopyInv'
  <2>1. /\ req'[s] = Idle
        /\ \A t \in Slots \ {s} : req'[t] = req[t]
    BY <1>t, <1>3, SlotChanges DEF ConsoleMachineStep, EditUpsert, DetectUpsert
  <2>2. JobCopyOK(req[s])'
    BY <2>1, <1>i DEF JobCopyOK, JobWriters, JobReaders
  <2>3. QED
    BY <1>k, <2>1, <2>2
<1>4. CASE ConsoleJob
  <2>1. ASSUME NEW s \in Slots, NEW m \in MachineIds, NEW i \in ImageIds \cup {"none"},
               CreateInstall(s, m, i) \/ CreateStress(s, m)
        PROVE  JobCopyInv'
    <3>1. \E type, img : req'[s] = WithJob("CreateInsert", 0, NewJob(type, m, img))
      BY <1>t, <2>1, SlotChanges DEF CreateInstall, CreateStress
    <3>2. \A type, img : /\ WholeRow(NewJob(type, m, img))
                         /\ NewJob(type, m, img).status = "pending"
                         /\ NewJob(type, m, img).mid = m
      BY DEF NewJob, NoJob, WholeRow, FinalStatuses
    <3>3. JobCopyOK(req[s])'
      BY <3>1, <3>2, FrameFields DEF JobCopyOK, JobWriters, JobReaders
    <3>4. \A t \in Slots \ {s} : req'[t] = req[t]
      BY <1>t, <2>1, SlotChanges DEF CreateInstall, CreateStress
    <3>5. QED
      BY <1>k, <3>3, <3>4
  <2>2. ASSUME NEW s \in Slots, NEW j \in JobIds, CancelRead(s, j)
        PROVE  JobCopyInv'
    <3>1. /\ req'[s] = WithJob("CancelUpdate", j, Finished(jobs[j], "cancelled"))
          /\ \A t \in Slots \ {s} : req'[t] = req[t]
          /\ GetJob(j)
      BY <1>t, <2>2, SlotChanges DEF CancelRead
    <3>2. "cancelled" \in FinalStatuses /\ "cancelled" \in JobStatuses \ {"pending"}
      BY DEF FinalStatuses, JobStatuses
    <3>3. JobCopyOK(req[s])'
      BY <1>j, <3>1, <3>2, EditsKeepRowsWhole, FrameFields DEF JobCopyOK, JobWriters, JobReaders
    <3>4. QED
      BY <1>k, <3>1, <3>3
  <2>3. ASSUME NEW s \in Slots, NEW j \in JobIds, DeleteRead(s, j)
        PROVE  JobCopyInv'
    <3>1. /\ req'[s] = WithJob("JobDelete", j, jobs[j])
          /\ \A t \in Slots \ {s} : req'[t] = req[t]
          /\ GetJob(j)
      BY <1>t, <2>3, SlotChanges DEF DeleteRead
    <3>2. JobCopyOK(req[s])'
      BY <1>j, <3>1, FrameFields DEF JobCopyOK, JobWriters, JobReaders
    <3>3. QED
      BY <1>k, <3>1, <3>2
  <2>4. QED
    BY <1>4, <2>1, <2>2, <2>3 DEF ConsoleJob
<1>5. ASSUME NEW s \in Slots, ConsoleJobStep(s)
      PROVE  JobCopyInv'
  <2>1. /\ \/ req'[s] = Idle
           \/ req'[s].pc \in {"CreateStatus", "CreateBoot", "ReleaseRead", "ReleaseCheck", "ReleaseSet"}
        /\ \A t \in Slots \ {s} : req'[t] = req[t]
    BY <1>t, <1>5, SlotChanges
       DEF ConsoleJobStep, CreateInsert, CreateStatus, CreateBoot, CancelUpdate, JobDelete,
           ReleaseRead, ReleaseCheck, ReleaseSet
  <2>2. JobCopyOK(req[s])'
    BY <2>1, <1>i DEF JobCopyOK, JobWriters, JobReaders
  <2>3. QED
    BY <1>k, <2>1, <2>2
<1>6. CASE AgentCall
  <2>1. ASSUME NEW s \in Slots, NEW mac \in MACs, Register(s, mac)
        PROVE  JobCopyInv'
    <3>1. /\ req'[s].pc \in {"RegisterInsert", "RegisterTouch"}
          /\ \A t \in Slots \ {s} : req'[t] = req[t]
      BY <1>t, <2>1, SlotChanges, FrameFields DEF Register
    <3>2. JobCopyOK(req[s])'
      BY <3>1 DEF JobCopyOK, JobWriters, JobReaders
    <3>3. QED
      BY <1>k, <3>1, <3>2
  <2>2. ASSUME NEW s \in Slots, NEW m \in MachineIds, PollNext(s, m)
        PROVE  JobCopyInv'
    <3>1. PICK j \in JobIds : /\ GetJob(j) /\ jobs[j].status = "pending"
                              /\ req'[s] = WithJob("PollImage", j, jobs[j])
                              /\ \A t \in Slots \ {s} : req'[t] = req[t]
      BY <1>t, <2>2, SlotChanges DEF PollNext, NextPendingJob, PendingJobs, JobsOf
    <3>2. JobCopyOK(req[s])'
      BY <1>j, <3>1, FrameFields DEF JobCopyOK, JobWriters, JobReaders
    <3>3. QED
      BY <1>k, <3>1, <3>2
  <2>3. ASSUME NEW s \in Slots, NEW j \in JobIds, ProgressRead(s, j)
        PROVE  JobCopyInv'
    <3>1. /\ req'[s] = WithJob("ProgressUpdate", j, Progressed(jobs[j]))
          /\ \A t \in Slots \ {s} : req'[t] = req[t]
          /\ GetJob(j)
      BY <1>t, <2>3, SlotChanges DEF ProgressRead
    <3>2. Progressed(jobs[j]).status \in JobStatuses \ {"pending"}
      BY <1>j, <3>1, EditsKeepRowsWhole DEF JobStatuses, ActiveStatuses
    <3>3. JobCopyOK(req[s])'
      BY <1>j, <3>1, <3>2, EditsKeepRowsWhole, FrameFields DEF JobCopyOK, JobWriters, JobReaders
    <3>4. QED
      BY <1>k, <3>1, <3>3
  <2>4. ASSUME NEW s \in Slots, NEW j \in JobIds, NEW ok \in BOOLEAN, CompleteRead(s, j, ok)
        PROVE  JobCopyInv'
    <3>1. /\ req'[s] = WithJob("CompleteStatus", j, Finished(jobs[j], Outcome(ok)))
          /\ \A t \in Slots \ {s} : req'[t] = req[t]
          /\ GetJob(j)
      BY <1>t, <2>4, SlotChanges DEF CompleteRead
    <3>2. Outcome(ok) \in FinalStatuses /\ Outcome(ok) \in JobStatuses \ {"pending"}
      BY DEF Outcome, FinalStatuses, JobStatuses
    <3>3. JobCopyOK(req[s])'
      BY <1>j, <3>1, <3>2, EditsKeepRowsWhole, FrameFields DEF JobCopyOK, JobWriters, JobReaders
    <3>4. QED
      BY <1>k, <3>1, <3>3
  <2>5. QED
    BY <1>6, <2>1, <2>2, <2>3, <2>4 DEF AgentCall
<1>7. ASSUME NEW s \in Slots, AgentStep(s)
      PROVE  JobCopyInv'
  <2>1. CASE \/ \E m \in MachineIds : RegisterInsert(s, m)
             \/ RegisterTouch(s) \/ RegisterReread(s) \/ RegisterRename(s)
             \/ PollReply(s) \/ ProgressUpdate(s) \/ CompleteUpdate(s)
    <3>1. /\ req'[s] = Idle \/ req'[s].pc \in {"RegisterReread", "RegisterRename"}
          /\ \A t \in Slots \ {s} : req'[t] = req[t]
      <4>1. CASE RegisterReread(s)
        <5>1. CASE Done(s)
          BY <1>t, <5>1, SlotChanges
        <5>2. CASE req' = [req EXCEPT ![s] = WithMachine("RegisterRename", req[s].mid,
                                                         machines[req[s].mid])]
          BY <1>t, <5>2, FrameFields DEF TypeOK
        <5>3. QED
          BY <4>1, <5>1, <5>2 DEF RegisterReread
      <4>2. CASE ~RegisterReread(s)
        BY <1>t, <2>1, <4>2, SlotChanges
           DEF RegisterInsert, RegisterTouch, RegisterRename,
               PollReply, ProgressUpdate, CompleteUpdate
      <4>3. QED
        BY <4>1, <4>2
    <3>2. JobCopyOK(req[s])'
      BY <1>i, <3>1 DEF JobCopyOK, JobWriters, JobReaders
    <3>3. QED
      BY <1>k, <3>1, <3>2
  <2>2. CASE PollImage(s) \/ CompleteStatus(s) \/ CompleteBoot(s)
    <3>1. /\ \/ req'[s] = Idle
             \/ /\ req'[s].jid = req[s].jid /\ req'[s].job = req[s].job
                /\ \/ req[s].pc = "PollImage" /\ req'[s].pc = "PollClaim"
                   \/ /\ req[s].pc \in JobWriters
                      /\ req'[s].pc \in {"CompleteBoot", "CompleteUpdate"}
          /\ \A t \in Slots \ {s} : req'[t] = req[t]
      BY <1>t, <2>2, SlotChanges DEF PollImage, CompleteStatus, CompleteBoot, At, JobWriters
    <3>2. JobCopyOK(req[s])'
      BY <1>0, <1>i, <3>1 DEF JobCopyOK, JobWriters, JobReaders, WholeRow
    <3>3. QED
      BY <1>k, <3>1, <3>2
  <2>3. CASE PollClaim(s)
    <3>1. /\ req'[s] = WithJob("PollReply", req[s].jid, Started(req[s].job))
          /\ req[s].jid \in 1 .. lastJob
          /\ \A t \in Slots \ {s} : req'[t] = req[t]
      BY <1>0, <1>t, <2>3 DEF PollClaim, At, JobCopyOK, TypeOK
    <3>2. JobCopyOK(req[s])'
      BY <1>0, <3>1, FrameFields DEF JobCopyOK, JobWriters, JobReaders
    <3>3. QED
      BY <1>k, <3>1, <3>2
  <2>4. QED
    BY <1>7, <2>1, <2>2, <2>3 DEF AgentStep
<1>8. CASE Environment
  <2>1. CASE Crash
    BY <2>1, <1>i DEF Crash, JobCopyInv
  <2>2. ASSUME NEW s \in Slots, StoreFails(s) PROVE JobCopyInv'
    <3>1. CASE req'[s] = Idle
      BY <1>i, <1>k, <1>t, <2>2, <3>1, FailureLeaves
    <3>2. CASE req'[s] # Idle
      <4>1. /\ req'[s].pc = AfterFailure(req[s]) /\ AfterFailure(req[s]) # "idle"
            /\ req'[s].jid = req[s].jid /\ req'[s].job = req[s].job
            /\ \A t \in Slots \ {s} : req'[t] = req[t]
        BY <1>t, <2>2, <3>2, FailureLeaves
      <4>2. \/ req'[s].pc \in {"CreateBoot", "ReleaseRead", "RegisterReread"}
            \/ req[s].pc = "PollImage" /\ req'[s].pc = "PollClaim"
            \/ req[s].pc = "PollClaim" /\ req'[s].pc = "PollReply"
            \/ /\ req[s].pc \in {"CompleteStatus", "CompleteBoot"}
               /\ req'[s].pc \in {"CompleteBoot", "CompleteUpdate"}
        BY <4>1 DEF AfterFailure
      <4>3. JobCopyOK(req[s])'
        BY <1>0, <4>1, <4>2 DEF JobCopyOK, JobWriters, JobReaders, WholeRow
      <4>4. QED
        BY <1>k, <4>1, <4>3
    <3>3. QED
      BY <3>1, <3>2
  <2>3. CASE \/ \E m \in MachineIds : ServeWinPE(m)
             \/ \E i \in ImageIds : DropImage(i) \/ \E kind \in ImageKinds : PutImage(i, kind)
    BY <1>u, <2>3 DEF ServeWinPE, DropImage, PutImage, Quick
  <2>4. QED
    BY <1>8, <2>1, <2>2, <2>3 DEF Environment
<1>9. QED
  BY <1>1, <1>2, <1>3, <1>4, <1>5, <1>6, <1>7, <1>8 DEF Next

-----------------------------------------------------------------------------
\* Which statuses the machine methods of the store leave behind.
LEMMA StatusesWritten ==
  ASSUME StoreTypeOK, NEW n \in MachineIds
  PROVE  /\ \A m : \A row \in MachineRow :
              \/ UpsertMachine(m, row)[n].status = machines[n].status
              \/ n = m /\ UpsertMachine(m, row)[n].status = row.status
         /\ \A m, st : \/ SetMachineStatus(m, st)[n].status = machines[n].status
                       \/ n = m /\ SetMachineStatus(m, st)[n].status = st
         /\ \A m, mode : SetBootMode(m, mode)[n].status = machines[n].status
         /\ \A m : DeleteMachine(m)[n].status \in {machines[n].status, "none"}
<1>1. \A m : \A row \in MachineRow :
              \/ UpsertMachine(m, row)[n].status = machines[n].status
              \/ n = m /\ UpsertMachine(m, row)[n].status = row.status
  BY DEF UpsertMachine, StoreTypeOK
<1>2. \A m, st : \/ SetMachineStatus(m, st)[n].status = machines[n].status
                 \/ n = m /\ SetMachineStatus(m, st)[n].status = st
  BY DEF SetMachineStatus, StoreTypeOK, MachineRow
<1>3. \A m, mode : SetBootMode(m, mode)[n].status = machines[n].status
  BY DEF SetBootMode, StoreTypeOK, MachineRow
<1>4. \A m : DeleteMachine(m)[n].status \in {machines[n].status, "none"}
  BY DEF DeleteMachine, StoreTypeOK, NoMachine
<1>5. QED
  BY <1>1, <1>2, <1>3, <1>4

\* No step makes a machine, or a copy of its row, provisioned without a report.
LEMMA ProvisionedStep == Inv /\ [Next]_vars => ProvisionedInv'
<1> SUFFICES ASSUME Inv, [Next]_vars PROVE ProvisionedInv'
  OBVIOUS
<1>t. TypeOK /\ StoreTypeOK
  BY DEF Inv, TypeOK
<1>f. /\ \A m \in MachineIds : machines[m] \in MachineRow
      /\ \A s \in Slots : req[s].row \in MachineRow /\ ProvisionedCopyOK(req[s])
      /\ \A m \in MachineIds : machines[m].status = "provisioned" => m \in installed
  BY DEF Inv, ProvisionedInv, TypeOK, StoreTypeOK, Frame
<1> DEFINE TableOK == \A m \in MachineIds : machines'[m].status = "provisioned" => m \in installed'
<1>k. ASSUME NEW s \in Slots, \A t \in Slots \ {s} : req'[t] = req[t],
             ProvisionedCopyOK(req[s])', TableOK, installed \subseteq installed'
      PROVE  ProvisionedInv'
  BY <1>f, <1>k DEF ProvisionedInv, ProvisionedCopyOK
<1>u. ASSUME req' = req, TableOK, installed \subseteq installed'
      PROVE  ProvisionedInv'
  BY <1>f, <1>u DEF ProvisionedInv, ProvisionedCopyOK
<1>i. ASSUME NEW s \in Slots, req'[s] = Idle PROVE ProvisionedCopyOK(req[s])'
  BY <1>i DEF ProvisionedCopyOK, Idle, NoMachine
<1>s. machines' = machines /\ installed \subseteq installed' => TableOK
  BY <1>f
<1>1. CASE UNCHANGED vars
  BY <1>1, <1>s, <1>u DEF vars
<1>2. CASE ConsoleMachine
  <2>1. ASSUME NEW m \in MachineIds, NEW mac \in MACs, NEW boot \in BootModes,
               CreateMachine(m, mac, boot)
        PROVE  ProvisionedInv'
    <3> DEFINE row == [status |-> "ready", boot |-> boot, mac |-> mac]
    <3>1. row \in MachineRow /\ row.status # "provisioned"
      BY DEF MachineRow, MachineStatuses
    <3>2. machines' = UpsertMachine(m, row) /\ req' = req /\ installed' = installed
      BY <2>1 DEF CreateMachine, NewMachine, Quick, KeepHistory
    <3> HIDE DEF row
    <3>3. TableOK
      BY <1>t, <1>f, <3>1, <3>2, StatusesWritten
    <3>4. QED
      BY <1>u, <3>2, <3>3
  <2>2. ASSUME NEW m \in MachineIds, RemoveMachine(m)
        PROVE  ProvisionedInv'
    <3>1. TableOK
      BY <1>t, <1>f, <2>2, StatusesWritten DEF RemoveMachine, KeepHistory
    <3>2. QED
      BY <1>u, <2>2, <3>1 DEF RemoveMachine, KeepHistory, Quick
  <2>3. ASSUME NEW m \in MachineIds, NEW mode \in BootModes, SetBoot(m, mode)
        PROVE  ProvisionedInv'
    <3>1. TableOK
      BY <1>t, <1>f, <2>3, StatusesWritten DEF SetBoot, WriteMachines, KeepHistory
    <3>2. QED
      BY <1>u, <2>3, <3>1 DEF SetBoot, KeepHistory, Quick
  <2>p. ASSUME NEW s \in Slots, NEW t \in Tabs, NEW boot \in BootModes, EditPut(s, t, boot)
        PROVE  ProvisionedInv'
    <3>1. /\ req'[s].pc = "EditUpsert" /\ req'[s].mid = form[t].mid
          /\ req'[s].row.status = form[t].status
          /\ \A r \in Slots \ {s} : req'[r] = req[r]
          /\ machines' = machines /\ installed' = installed
      BY <1>t, <2>p, SlotChanges, FrameFields DEF EditPut, storeVars, KeepHistory
    <3>2. ProvisionedCopyOK(req[s])'
      BY <3>1 DEF Inv, FormInv, ProvisionedCopyOK
    <3>3. QED
      BY <1>k, <1>s, <3>1, <3>2
  <2>l. ASSUME NEW t \in Tabs, NEW m \in MachineIds, EditLoad(t, m)
        PROVE  ProvisionedInv'
    BY <1>s, <1>u, <2>l DEF EditLoad, Quick, storeVars
  <2>4. ASSUME NEW s \in Slots, NEW m \in MachineIds, DetectRead(s, m)
        PROVE  ProvisionedInv'
    <3>1. /\ req'[s].pc = "DetectUpsert" /\ req'[s].mid = m
          /\ req'[s].row = machines[m]
          /\ \A t \in Slots \ {s} : req'[t] = req[t]
          /\ machines' = machines /\ installed' = installed
      BY <1>t, <1>f, <2>4, SlotChanges, FrameFields
         DEF DetectRead, storeVars, KeepHistory, MachineRow
    <3>2. ProvisionedCopyOK(req[s])'
      BY <1>f, <3>1 DEF ProvisionedCopyOK
    <3>3. QED
      BY <1>k, <1>s, <3>1, <3>2
  <2>5. QED
    BY <1>2, <2>1, <2>2, <2>3, <2>4, <2>p, <2>l DEF ConsoleMachine
<1>3. ASSUME NEW s \in Slots, ConsoleMachineStep(s)
      PROVE  ProvisionedInv'
  <2>1. /\ req'[s] = Idle
        /\ \A t \in Slots \ {s} : req'[t] = req[t]
        /\ machines' \in {machines, UpsertMachine(req[s].mid, req[s].row)}
        /\ installed' = installed
    BY <1>t, <1>3, SlotChanges
       DEF ConsoleMachineStep, EditUpsert, DetectUpsert, WriteMachines, storeVars, KeepHistory
  <2>2. ProvisionedCopyOK(req[s])'
    BY <1>f, <1>i, <2>1 DEF ProvisionedCopyOK
  <2>3. TableOK
    BY <1>t, <1>f, <2>1, StatusesWritten DEF ProvisionedCopyOK
  <2>4. QED
    BY <1>k, <2>1, <2>2, <2>3
<1>4. CASE ConsoleJob
  <2>1. ASSUME NEW s \in Slots, NEW pc \in {"CreateInsert", "CancelUpdate", "JobDelete"},
               NEW j, NEW row, NEW kind, Start(kind, s, WithJob(pc, j, row)),
               UNCHANGED storeVars, KeepHistory
        PROVE  ProvisionedInv'
    <3>1. /\ req'[s].pc = pc /\ req'[s].row = NoMachine
          /\ \A t \in Slots \ {s} : req'[t] = req[t]
      BY <1>t, <2>1, SlotChanges, FrameFields
    <3>2. ProvisionedCopyOK(req[s])'
      BY <3>1 DEF ProvisionedCopyOK, NoMachine
    <3>3. QED
      BY <1>k, <1>s, <2>1, <3>1, <3>2 DEF storeVars, KeepHistory
  <2>2. QED
    BY <1>4, <2>1 DEF ConsoleJob, CreateInstall, CreateStress, CancelRead, DeleteRead
<1>5. ASSUME NEW s \in Slots, ConsoleJobStep(s)
      PROVE  ProvisionedInv'
  <2>1. /\ \/ req'[s] = Idle
           \/ /\ req'[s].pc \in {"CreateStatus", "CreateBoot", "ReleaseRead", "ReleaseCheck", "ReleaseSet"}
              /\ req'[s].mid = req[s].mid /\ req'[s].row = req[s].row
        /\ \A t \in Slots \ {s} : req'[t] = req[t]
    BY <1>t, <1>5, SlotChanges
       DEF ConsoleJobStep, CreateInsert, CreateStatus, CreateBoot, CancelUpdate, JobDelete,
           ReleaseRead, ReleaseCheck, ReleaseSet
  <2>2. /\ installed' = installed
        /\ \/ machines' = machines
           \/ \E m : \/ \E mode : machines' = SetBootMode(m, mode)
                     \/ \E st \in {"installing", "stressing", "ready"} :
                          machines' = SetMachineStatus(m, st)
    BY <1>5
       DEF ConsoleJobStep, CreateInsert, CreateStatus, CreateBoot, CancelUpdate, JobDelete,
           ReleaseRead, ReleaseCheck, ReleaseSet, WriteMachines, WriteJobs, storeVars, KeepHistory,
           FreshStatus
  <2>3. ProvisionedCopyOK(req[s])'
    BY <1>f, <1>i, <2>1, <2>2 DEF ProvisionedCopyOK
  <2>4. TableOK
    BY <1>t, <1>f, <2>2, StatusesWritten
  <2>5. QED
    BY <1>k, <2>1, <2>2, <2>3, <2>4
<1>6. CASE AgentCall
  <2>1. ASSUME NEW s \in Slots, NEW mac \in MACs, Register(s, mac)
        PROVE  ProvisionedInv'
    <3>1. /\ \/ /\ req'[s].pc = "RegisterInsert" /\ req'[s].row = Discovered(mac)
             \/ \E m \in MachineIds : /\ req'[s].pc = "RegisterTouch" /\ req'[s].mid = m
                                      /\ req'[s].row = machines[m]
          /\ \A t \in Slots \ {s} : req'[t] = req[t]
          /\ machines' = machines /\ installed' = installed
      BY <1>t, <2>1, SlotChanges, FrameFields
         DEF Register, MachineByMAC, storeVars, KeepHistory
    <3>2. Discovered(mac).status = "discovered"
      BY DEF Discovered
    <3>3. ProvisionedCopyOK(req[s])'
      BY <1>f, <3>1, <3>2 DEF ProvisionedCopyOK
    <3>4. QED
      BY <1>k, <1>s, <3>1, <3>3
  <2>2. ASSUME NEW s \in Slots, NEW pc \in {"PollImage", "ProgressUpdate"},
               NEW j, NEW row, NEW kind, Start(kind, s, WithJob(pc, j, row)),
               UNCHANGED storeVars, KeepHistory
        PROVE  ProvisionedInv'
    <3>1. /\ req'[s].pc = pc /\ req'[s].row = NoMachine
          /\ \A t \in Slots \ {s} : req'[t] = req[t]
      BY <1>t, <2>2, SlotChanges, FrameFields
    <3>2. ProvisionedCopyOK(req[s])'
      BY <3>1 DEF ProvisionedCopyOK, NoMachine
    <3>3. QED
      BY <1>k, <1>s, <2>2, <3>1, <3>2 DEF storeVars, KeepHistory
  <2>3. ASSUME NEW s \in Slots, NEW j \in JobIds, NEW ok \in BOOLEAN, CompleteRead(s, j, ok)
        PROVE  ProvisionedInv'
    <3>1. /\ req'[s] = WithJob("CompleteStatus", j, Finished(jobs[j], Outcome(ok)))
          /\ \A t \in Slots \ {s} : req'[t] = req[t]
          /\ GetJob(j) /\ machines' = machines
          /\ installed' = IF ok /\ jobs[j].type = "install"
                          THEN installed \cup {jobs[j].mid} ELSE installed
      BY <1>t, <2>3, SlotChanges DEF CompleteRead, storeVars
    <3>2. jobs[j] \in JobRow /\ WholeRow(jobs[j])
      BY <1>t DEF Inv, JobTableInv, StoreTypeOK
    <3>3. Outcome(ok) \in FinalStatuses /\ (Outcome(ok) = "succeeded" => ok)
      BY DEF Outcome, FinalStatuses
    <3>4. /\ req'[s].job.status = Outcome(ok) /\ req'[s].job.type = jobs[j].type
          /\ req'[s].job.mid = jobs[j].mid
          /\ req'[s].pc = "CompleteStatus" /\ req'[s].row.status = "none"
      BY <3>1, <3>2, <3>3, EditsKeepRowsWhole, FrameFields DEF NoMachine
    <3>5. ProvisionedCopyOK(req[s])'
      BY <3>1, <3>3, <3>4 DEF ProvisionedCopyOK
    <3>6. QED
      BY <1>k, <1>s, <3>1, <3>5
  <2>4. QED
    BY <1>6, <2>1, <2>2, <2>3 DEF AgentCall, PollNext, ProgressRead
<1>7. ASSUME NEW s \in Slots, AgentStep(s)
      PROVE  ProvisionedInv'
  <2>1. CASE \E m \in MachineIds : RegisterInsert(s, m)
    <3>1. PICK m \in MachineIds : RegisterInsert(s, m)
      BY <2>1
    <3>2. /\ machines' = UpsertMachine(m, req[s].row) /\ installed' = installed
          /\ req[s].row.status = "discovered"
      BY <1>f, <3>1 DEF RegisterInsert, NewMachine, KeepHistory, ProvisionedCopyOK, At
    <3>3. /\ req'[s] = Idle
          /\ \A t \in Slots \ {s} : req'[t] = req[t]
      BY <1>t, <3>1, SlotChanges DEF RegisterInsert
    <3>4. TableOK
      BY <1>t, <1>f, <3>2, StatusesWritten
    <3>5. QED
      BY <1>i, <1>k, <3>2, <3>3, <3>4
  <2>2. CASE RegisterTouch(s)
    <3>1. /\ machines' = SetMachineStatus(req[s].mid, req[s].row.status)
          /\ installed' = installed
          /\ req'[s].pc = "RegisterReread"
          /\ req'[s].mid = req[s].mid /\ req'[s].row = req[s].row
          /\ \A t \in Slots \ {s} : req'[t] = req[t]
      BY <1>t, <2>2, SlotChanges DEF RegisterTouch, TouchMachine, WriteMachines, KeepHistory
    <3>2. TableOK
      BY <1>t, <1>f, <3>1, StatusesWritten DEF ProvisionedCopyOK
    <3>3. ProvisionedCopyOK(req[s])'
      BY <1>f, <3>1 DEF ProvisionedCopyOK
    <3>4. QED
      BY <1>k, <3>1, <3>2, <3>3
  <2>3. CASE RegisterReread(s)
    <3>1. machines' = machines /\ installed' = installed
      BY <2>3 DEF RegisterReread, storeVars, KeepHistory
    <3>2. CASE Done(s)
      BY <1>t, <1>i, <1>k, <1>s, <3>1, <3>2, SlotChanges
    <3>3. CASE /\ req[s].mid \in MachineIds
               /\ req' = [req EXCEPT ![s] = WithMachine("RegisterRename", req[s].mid,
                                                        machines[req[s].mid])]
      <4>1. /\ req'[s].pc = "RegisterRename" /\ req'[s].mid = req[s].mid
            /\ req'[s].row = machines[req[s].mid]
            /\ \A t \in Slots \ {s} : req'[t] = req[t]
        BY <1>t, <3>3, FrameFields DEF TypeOK
      <4>2. ProvisionedCopyOK(req[s])'
        BY <1>f, <3>1, <3>3, <4>1 DEF ProvisionedCopyOK
      <4>3. QED
        BY <1>k, <1>s, <3>1, <4>1, <4>2
    <3>4. QED
      BY <2>3, <3>2, <3>3 DEF RegisterReread, GetMachine
  <2>4. CASE RegisterRename(s)
    <3>1. /\ machines' = UpsertMachine(req[s].mid, req[s].row) /\ installed' = installed
          /\ req'[s] = Idle
          /\ \A t \in Slots \ {s} : req'[t] = req[t]
      BY <1>t, <2>4, SlotChanges DEF RegisterRename, WriteMachines, KeepHistory
    <3>2. TableOK
      BY <1>t, <1>f, <3>1, StatusesWritten DEF ProvisionedCopyOK
    <3>3. QED
      BY <1>i, <1>k, <3>1, <3>2
  <2>5. CASE PollClaim(s)
    <3>1. /\ req'[s].pc = "PollReply" /\ req'[s].row = NoMachine
          /\ \A t \in Slots \ {s} : req'[t] = req[t]
          /\ machines' = machines /\ installed' = installed
      BY <1>t, <2>5, FrameFields DEF PollClaim, WriteJobs, KeepHistory, TypeOK
    <3>2. ProvisionedCopyOK(req[s])'
      BY <3>1 DEF ProvisionedCopyOK, NoMachine
    <3>3. QED
      BY <1>k, <1>s, <3>1, <3>2
  <2>6. CASE PollImage(s) \/ PollReply(s) \/ ProgressUpdate(s) \/ CompleteUpdate(s)
    <3>1. /\ \/ req'[s] = Idle
             \/ /\ req'[s].pc = "PollClaim"
                /\ req'[s].mid = req[s].mid /\ req'[s].row = req[s].row
          /\ \A t \in Slots \ {s} : req'[t] = req[t]
          /\ machines' = machines /\ installed' = installed
      BY <1>t, <2>6, SlotChanges
         DEF PollImage, PollReply, ProgressUpdate, CompleteUpdate, WriteJobs, storeVars, KeepHistory
    <3>2. ProvisionedCopyOK(req[s])'
      BY <1>f, <1>i, <3>1 DEF ProvisionedCopyOK
    <3>3. QED
      BY <1>k, <1>s, <3>1, <3>2
  <2>7. CASE CompleteStatus(s) \/ CompleteBoot(s)
    <3>1. /\ req'[s].pc \in {"CompleteBoot", "CompleteUpdate"}
          /\ req'[s].mid = req[s].mid /\ req'[s].row = req[s].row
          /\ \A t \in Slots \ {s} : req'[t] = req[t]
          /\ installed' = installed
      BY <1>t, <2>7, SlotChanges DEF CompleteStatus, CompleteBoot, KeepHistory, FreshStatus
    <3>2. ProvisionedCopyOK(req[s])'
      BY <1>f, <3>1 DEF ProvisionedCopyOK
    <3>3. \/ machines' = SetBootMode(req[s].job.mid, "disk")
          \/ \E st \in {"ready", "error"} : machines' = SetMachineStatus(req[s].job.mid, st)
          \/ /\ req[s].job.mid \in installed
             /\ machines' = SetMachineStatus(req[s].job.mid, "provisioned")
      BY <1>f, <2>7 DEF CompleteStatus, CompleteBoot, WriteMachines, ProvisionedCopyOK, At
    <3>4. TableOK
      BY <1>t, <1>f, <3>1, <3>3, StatusesWritten
    <3>5. QED
      BY <1>k, <3>1, <3>2, <3>4
  <2>8. QED
    BY <1>7, <2>1, <2>2, <2>3, <2>4, <2>5, <2>6, <2>7 DEF AgentStep
<1>8. CASE Environment
  <2>1. machines' = machines /\ installed' = installed
    BY <1>8 DEF Environment, ServeWinPE, DropImage, PutImage, Crash, StoreFails, storeVars, KeepHistory
  <2>2. CASE Crash
    BY <1>i, <1>s, <1>f, <2>1, <2>2 DEF Crash, ProvisionedInv
  <2>3. ASSUME NEW s \in Slots, StoreFails(s) PROVE ProvisionedInv'
    <3>1. ProvisionedCopyOK(req[s])'
      BY <1>t, <1>f, <1>i, <2>3, FailureLeaves DEF AfterFailure, ProvisionedCopyOK
    <3>2. QED
      BY <1>t, <1>k, <1>s, <2>3, <3>1, FailureLeaves
  <2>4. CASE \/ \E m \in MachineIds : ServeWinPE(m)
             \/ \E i \in ImageIds : DropImage(i) \/ \E kind \in ImageKinds : PutImage(i, kind)
    BY <1>s, <1>u, <2>1, <2>4 DEF ServeWinPE, DropImage, PutImage, Quick
  <2>5. QED
    BY <1>8, <2>2, <2>3, <2>4 DEF Environment
<1>9. QED
  BY <1>1, <1>2, <1>3, <1>4, <1>5, <1>6, <1>7, <1>8 DEF Next

\* A page shows the status a machine had, and what was installed stays so.
LEMMA FormStep == Inv /\ [Next]_vars => FormInv'
<1> SUFFICES ASSUME Inv, [Next]_vars PROVE FormInv'
  OBVIOUS
<1>1. /\ \A m \in MachineIds : machines[m].status = "provisioned" => m \in installed
      /\ form \in [Tabs -> [mid : MachineIds \cup {"none"}, status : MachineStatuses \cup {"none"}]]
      /\ FormInv
  BY DEF Inv, ProvisionedInv, TypeOK
<1>2. ASSUME NEW t \in Tabs, NEW m \in MachineIds, EditLoad(t, m) PROVE FormInv'
  BY <1>1, <1>2 DEF EditLoad, FormInv
<1>3. form' = form /\ installed \subseteq installed' => FormInv'
  BY <1>1 DEF FormInv
<1>4. ASSUME ~\E t \in Tabs, m \in MachineIds : EditLoad(t, m)
      PROVE  form' = form /\ installed \subseteq installed'
  <2>1. ConsoleMachine \/ ConsoleJob => form' = form /\ installed' = installed
    BY <1>4 DEF ConsoleMachine, ConsoleJob, CreateMachine, RemoveMachine, SetBoot, EditPut, DetectRead,
                CreateInstall, CreateStress, CancelRead, DeleteRead, KeepHistory
  <2>2. AgentCall => form' = form /\ installed \subseteq installed'
    BY DEF AgentCall, Register, PollNext, ProgressRead, CompleteRead, KeepHistory
  <2>3. Environment => form' = form /\ installed' = installed
    BY DEF Environment, ServeWinPE, DropImage, PutImage, Crash, StoreFails, KeepHistory
  <2>4. ASSUME NEW s \in Slots, ConsoleMachineStep(s) \/ ConsoleJobStep(s)
        PROVE  form' = form /\ installed' = installed
    BY <2>4 DEF ConsoleMachineStep, ConsoleJobStep, EditUpsert, DetectUpsert, CreateInsert, CreateStatus,
                CreateBoot, CancelUpdate, JobDelete, ReleaseRead, ReleaseCheck, ReleaseSet,
                KeepHistory, FreshStatus
  <2>5. ASSUME NEW s \in Slots, AgentStep(s)
        PROVE  form' = form /\ installed' = installed
    BY <2>5 DEF AgentStep, RegisterInsert, RegisterTouch, RegisterReread, RegisterRename, PollImage,
                PollClaim, PollReply, ProgressUpdate, CompleteStatus, CompleteBoot, CompleteUpdate,
                KeepHistory, FreshStatus
  <2>6. UNCHANGED vars => form' = form /\ installed' = installed
    BY DEF vars
  <2>7. QED
    BY <2>1, <2>2, <2>3, <2>4, <2>5, <2>6 DEF Next
<1>5. QED
  BY <1>2, <1>3, <1>4

-----------------------------------------------------------------------------
(* The theorems.                                                           *)

LEMMA InitInv == Init => Inv
<1> SUFFICES ASSUME Init PROVE Inv
  OBVIOUS
<1>1. TypeOK
  BY RowTypes, MaxJobsIsNat DEF Init, StoreInit, TypeOK, StoreTypeOK, NoForm
<1>2. JobTableInv
  BY DEF Init, StoreInit, JobTableInv, GetJob, NoJob, WholeRow, FinalStatuses
<1>3. JobCopyInv
  BY DEF Init, JobCopyInv, JobCopyOK, Idle, JobWriters, JobReaders
<1>4. ProvisionedInv
  BY DEF Init, StoreInit, ProvisionedInv, ProvisionedCopyOK, Idle, NoMachine
<1>5. FormInv
  BY DEF Init, FormInv, NoForm
<1>6. QED
  BY <1>1, <1>2, <1>3, <1>4, <1>5 DEF Inv

\* The invariant holds in every reachable state.
THEOREM Invariance == Spec => []Inv
<1>1. Inv /\ [Next]_vars => Inv'
  BY TypeStep, JobTableStep, JobCopyStep, ProvisionedStep, FormStep DEF Inv
<1>2. QED
  BY <1>1, InitInv, PTL DEF Spec

\* Rows, ids and the handlers' copies have their types in every reachable state.
THEOREM TypeCorrect == Spec => []TypeOK
<1>1. Inv => TypeOK
  BY DEF Inv
<1>2. QED
  BY <1>1, Invariance, PTL

\* However requests interleave, no reader of the job table sees a row that is
\* half one request's and half another's.
THEOREM RowsAlwaysWhole == Spec => []JobRowsWhole
<1>1. Inv => JobRowsWhole
  BY DEF Inv, JobTableInv, JobRowsWhole
<1>2. QED
  BY <1>1, Invariance, PTL

\* Whatever stale copies are written back, a machine is told to boot its disk
\* only after a client reported that it installed something there.
THEOREM LocalBootIsEarned == Spec => []LocalBootNeedsInstall
<1>1. Inv => LocalBootNeedsInstall
  BY DEF Inv, ProvisionedInv, LocalBootNeedsInstall, ScriptFor
<1>2. QED
  BY <1>1, Invariance, PTL

-----------------------------------------------------------------------------
(* JobControl implements JobLifecycle.                                     *)

Life == [j \in JobIds |-> LifeOf(j)]

\* What the job table being as it should says of the abstract status.
LEMMA LifeFacts ==
  ASSUME Inv
  PROVE  \A j \in JobIds :
           /\ j > lastJob => LifeOf(j) = "unborn"
           /\ j <= lastJob /\ GetJob(j) => LifeOf(j) = jobs[j].status /\ jobs[j].status \in JobStatuses
           /\ j <= lastJob /\ ~GetJob(j) => LifeOf(j) = "deleted"
           /\ GetJob(j) => j <= lastJob
<1>1. "none" \notin JobStatuses /\ NoJob.status = "none"
  BY DEF JobStatuses, ActiveStatuses, FinalStatuses, NoJob
<1>2. lastJob \in Nat /\ JobIds \subseteq Nat
  BY MaxJobsIsNat DEF Inv, TypeOK, StoreTypeOK, JobIds
<1>3. ASSUME NEW j \in JobIds
      PROVE  /\ j > lastJob => ~GetJob(j)
             /\ GetJob(j) => jobs[j].status \in JobStatuses
             /\ ~GetJob(j) => jobs[j].status = "none"
  BY <1>1 DEF Inv, JobTableInv, GetJob
<1>4. \A j \in JobIds :
        LifeOf(j) = IF j > lastJob THEN "unborn" ELSE IF GetJob(j) THEN jobs[j].status ELSE "deleted"
  BY <1>1, <1>3 DEF LifeOf
<1>5. QED
  BY <1>2, <1>3, <1>4

\* The statuses of the abstract specification are those of the table.
LEMMA SameStatuses == JobStatuses = Racing!Statuses
BY DEF JobStatuses, ActiveStatuses, FinalStatuses, Racing!Statuses

\* Every step of the handlers is a step of the abstract lifecycle or a stutter.
LEMMA LifecycleStep == Inv /\ Inv' /\ [Next]_vars => [Racing!Next]_Life
<1> SUFFICES ASSUME Inv, Inv', [Next]_vars PROVE [Racing!Next]_Life
  OBVIOUS
<1>0. /\ jobs \in [JobIds -> JobRow] /\ jobs' \in [JobIds -> JobRow]
      /\ lastJob \in 0 .. MaxJobs /\ lastJob' \in 0 .. MaxJobs
  BY DEF Inv, TypeOK, StoreTypeOK
<1>l. \A j \in JobIds :
        /\ j > lastJob => LifeOf(j) = "unborn"
        /\ j <= lastJob /\ GetJob(j) => LifeOf(j) = jobs[j].status /\ jobs[j].status \in JobStatuses
        /\ j <= lastJob /\ ~GetJob(j) => LifeOf(j) = "deleted"
        /\ GetJob(j) => j <= lastJob
  BY LifeFacts
<1>e. Life' = [j \in JobIds |-> LifeOf(j)']
  BY DEF Life, JobIds
<1>s. ASSUME \A j \in JobIds : LifeOf(j)' = LifeOf(j) PROVE [Racing!Next]_Life
  BY <1>s, <1>e DEF Life
<1>1. CASE JobsKept
  BY <1>1, <1>s DEF JobsKept, LifeOf
<1>2. ASSUME NEW j \in JobIds, NEW row \in JobRow, JobsUpdated(j, row)
      PROVE  [Racing!Next]_Life
  <2>1. CASE ~GetJob(j)
    BY <1>2, <1>s, <2>1 DEF JobsUpdated, UpdateJob, LifeOf
  <2>2. CASE GetJob(j)
    <3>1. jobs' = [jobs EXCEPT ![j] = row] /\ lastJob' = lastJob
      BY <1>2, <2>2 DEF JobsUpdated, UpdateJob
    <3>2. /\ row.status \in JobStatuses \ {"pending"} /\ row.status # "none"
          /\ j <= lastJob /\ ~(j > lastJob)
      BY <1>0, <1>2, <1>l, <2>2 DEF JobsUpdated, JobStatuses, ActiveStatuses, FinalStatuses, JobIds
    <3>3. LifeOf(j)' = row.status /\ LifeOf(j) \in JobStatuses
      BY <1>0, <1>l, <2>2, <3>1, <3>2 DEF LifeOf
    <3>4. \A k \in JobIds \ {j} : LifeOf(k)' = LifeOf(k)
      BY <1>0, <3>1 DEF LifeOf
    <3>5. Life' = [Life EXCEPT ![j] = row.status] /\ Life[j] = LifeOf(j)
      BY <1>e, <3>3, <3>4 DEF Life
    <3>6. <<Life[j], row.status>> \in RacingEdges
      BY <3>2, <3>3, <3>5 DEF RacingEdges
    <3>7. Racing!Move(j, row.status)
      BY <3>2, <3>5, <3>6 DEF Racing!Move, Life
    <3>8. QED
      BY <3>2, <3>7, SameStatuses DEF Racing!Next
  <2>3. QED
    BY <2>1, <2>2
<1>3. ASSUME NEW J \in SUBSET JobIds,
             \A j \in J : GetJob(j) /\ jobs'[j] = NoJob,
             \A j \in JobIds \ J : jobs'[j] = jobs[j],
             lastJob' = lastJob
      PROVE  [Racing!Next]_Life
  <2>1. \A j \in J : LifeOf(j) \in JobStatuses /\ LifeOf(j)' = "deleted"
    BY <1>0, <1>l, <1>3 DEF LifeOf, NoJob, JobIds
  <2>2. \A j \in JobIds \ J : LifeOf(j)' = LifeOf(j)
    BY <1>3 DEF LifeOf
  <2>3. Life' = [j \in JobIds |-> IF j \in J THEN "deleted" ELSE Life[j]]
    BY <1>e, <2>1, <2>2 DEF Life
  <2>4. \A j \in J : Life[j] \in JobStatuses
    BY <2>1 DEF Life
  <2>5. Racing!Delete(J)
    BY <2>3, <2>4, SameStatuses DEF Racing!Delete, Life
  <2>6. QED
    BY <2>5 DEF Racing!Next
<1>4. ASSUME NEW j \in JobIds, JobsDeleted(j)
      PROVE  [Racing!Next]_Life
  <2>1. CASE ~GetJob(j)
    BY <1>0, <1>4, <1>s, <2>1 DEF JobsDeleted, DeleteJob, GetJob, LifeOf
  <2>2. CASE GetJob(j)
    <3>1. /\ \A k \in {j} : GetJob(k) /\ jobs'[k] = NoJob
          /\ \A k \in JobIds \ {j} : jobs'[k] = jobs[k]
          /\ lastJob' = lastJob /\ {j} \in SUBSET JobIds
      BY <1>0, <1>4, <2>2 DEF JobsDeleted, DeleteJob
    <3>2. QED
      BY <1>3, <3>1
  <2>3. QED
    BY <2>1, <2>2
<1>5. ASSUME NEW m \in MachineIds, JobsOfMachineDeleted(m)
      PROVE  [Racing!Next]_Life
  <2> DEFINE J == {j \in JobIds : jobs[j].mid = m}
  <2>1. NoJob.mid = "none"
    BY DEF NoJob
  <2>2. /\ \A k \in J : GetJob(k) /\ jobs'[k] = NoJob
        /\ \A k \in JobIds \ J : jobs'[k] = jobs[k]
        /\ lastJob' = lastJob /\ J \in SUBSET JobIds
    BY <1>5, <2>1, NoneIsNoId DEF JobsOfMachineDeleted, JobsWithout, GetJob
  <2>3. QED
    BY <1>3, <2>2
<1>6. ASSUME NEW row \in JobRow, JobsInserted(row), NEW j \in JobIds, j = lastJob + 1
      PROVE  [Racing!Next]_Life
  <2>1. jobs' = [jobs EXCEPT ![j] = row] /\ lastJob' = j /\ jobs'[j] = row
    BY <1>0, <1>6 DEF JobsInserted, InsertJob
  <2>2. j > lastJob /\ ~(j > j) /\ \A k \in JobIds \ {j} : k > lastJob <=> k > j
    BY <1>0, <1>6, MaxJobsIsNat DEF JobIds
  <2>3. LifeOf(j) = "unborn" /\ LifeOf(j)' = "pending"
    BY <1>6, <2>1, <2>2 DEF JobsInserted, LifeOf
  <2>4. \A k \in JobIds \ {j} : LifeOf(k)' = LifeOf(k)
    BY <1>0, <2>1, <2>2 DEF LifeOf
  <2>5. Life' = [Life EXCEPT ![j] = "pending"] /\ Life[j] = "unborn"
    BY <1>e, <2>3, <2>4 DEF Life
  <2>6. Racing!Create(j)
    BY <2>5 DEF Racing!Create, Life
  <2>7. QED
    BY <2>6 DEF Racing!Next
<1>7. ASSUME NEW row \in JobRow, JobsInserted(row)
      PROVE  [Racing!Next]_Life
  <2>1. lastJob + 1 \in JobIds
    BY <1>0, <1>7, MaxJobsIsNat DEF JobsInserted, JobIds
  <2>2. QED
    BY <1>6, <1>7, <2>1
<1>8. QED
  BY <1>1, <1>2, <1>4, <1>5, <1>7, JobsSteps

\* The handlers implement the abstract lifecycle of a job however they race: no
\* deleted job comes back, no id is used twice, no job is put back in the queue.
THEOREM LifecycleImplemented == Spec => RacingLifecycle
<1>1. Init => Racing!Init
  <2>1. Init => \A j \in JobIds : LifeOf(j) = "unborn"
    BY MaxJobsIsNat DEF Init, StoreInit, LifeOf, JobIds
  <2>2. QED
    BY <2>1 DEF Racing!Init
<1>2. Inv /\ Inv' /\ [Next]_vars => [Racing!Next]_Life
  BY LifecycleStep
<1>3. QED
  BY <1>1, <1>2, Invariance, PTL DEF Spec, RacingLifecycle, Racing!Spec, Life

-----------------------------------------------------------------------------
(* Requests served one after another.                                      *)

\* One slot, a control plane that is not killed between two Store calls, and
\* Store calls that do not fail.  Edit forms stay open between requests.
Serially == (\A s, t \in Slots : s = t) /\ Requests \cap {"crash", "storeError"} = {}

Busy(m) == machines[m].status \in {"installing", "stressing"}

\* Busy, and not because somebody saved an outdated form.
Held(m) == Busy(m) /\ m \notin stale

Shown(m, status, boot) == machines[m].status = status /\ machines[m].boot = boot

\* The copy of a machine's row has the row's status, unless it came with a form.
MachineEditors == {"EditUpsert", "DetectUpsert", "RegisterTouch", "RegisterRename"}
FreshMachine(f) ==
  f.pc \in MachineEditors =>
    /\ GetMachine(f.mid) /\ f.row # NoMachine
    /\ f.pc # "EditUpsert" => f.row.status = machines[f.mid].status

\* The copy of a job's row differs from the row as the request means to change it.
JobHolders == JobWriters \cup {"JobDelete", "PollImage", "PollClaim"}
Outcomes == {"succeeded", "failed"}
FreshJob(f) ==
  f.pc \in JobHolders =>
    /\ f.jid \in JobIds /\ GetJob(f.jid)
    /\ f.job.mid = jobs[f.jid].mid /\ f.job.type = jobs[f.jid].type
    /\ f.pc \in {"PollImage", "PollClaim"} => jobs[f.jid].status = "pending"
    /\ f.pc = "ProgressUpdate" =>
         \/ f.job.status = jobs[f.jid].status
         \/ f.job.status = "running" /\ jobs[f.jid].status = "pending"
    /\ f.pc \in JobWriters \ {"ProgressUpdate", "CancelUpdate"} => f.job.status \in Outcomes
    /\ f.pc = "CancelUpdate" =>
         f.job.status = "cancelled" /\ jobs[f.jid].status \notin Outcomes

\* What the calls a handler has made so far leave for the next one.
MidwayOK(f) ==
  /\ f.pc = "CreateInsert" => GetMachine(f.job.mid)
  /\ f.pc \in {"CreateStatus", "CreateBoot"} => f.job.mid \in MachineIds /\ HasActiveJob(f.job.mid)
  /\ f.pc \in {"CompleteBoot", "CompleteUpdate"} => GetMachine(f.job.mid) /\ ~Busy(f.job.mid)
  /\ f.pc = "CompleteBoot" => machines[f.job.mid].status = "provisioned"
  /\ f.pc = "CompleteUpdate" /\ f.job.type = "install" /\ f.job.status = "succeeded" =>
       Shown(f.job.mid, "provisioned", "disk")

\* A busy machine has a job to wait for, or a handler that is about to release it.
Releasing(m) == \E s \in Slots :
  req[s].pc \in {"ReleaseRead", "ReleaseCheck", "ReleaseSet"} /\ req[s].job.mid = m
BusyInv == \A m \in MachineIds : Held(m) => HasActiveJob(m) \/ Releasing(m)

SerialInv ==
  /\ JobsHaveMachine
  /\ BusyInv
  /\ \A s \in Slots : FreshMachine(req[s]) /\ FreshJob(req[s]) /\ MidwayOK(req[s])

-----------------------------------------------------------------------------
(* How a step leaves the tables.                                           *)

\* No row goes, and no machine becomes busy but by a form.
Calm == \A m \in MachineIds : (GetMachine(m) => GetMachine(m)') /\ (Held(m)' => Held(m))

\* A busy machine has a job to wait for.
Settled == \A m \in MachineIds : Held(m) => HasActiveJob(m)

ReleasePcs == {"ReleaseRead", "ReleaseCheck", "ReleaseSet"}

\* A row whose columns are set is a row.
LEMMA RowIsThere ==
  ASSUME NEW row \in MachineRow
  PROVE  /\ \A st \in MachineStatuses : [row EXCEPT !.status = st] # NoMachine
         /\ \A mode \in BootModes : [row EXCEPT !.boot = mode] # NoMachine
         /\ row.status # "none" => row # NoMachine
BY DEF MachineRow, NoMachine, MachineStatuses, BootModes

LEMMA CalmWrites ==
  ASSUME StoreTypeOK
  PROVE  /\ machines' = machines /\ stale' = stale => Calm
         /\ \A m \in MachineIds, row \in MachineRow :
              row # NoMachine /\ (row.status \in {"installing", "stressing"} => Busy(m))
                /\ machines' = UpsertMachine(m, row) /\ stale' = stale => Calm
         /\ \A m, st : st \in MachineStatuses \ {"installing", "stressing"}
                /\ machines' = SetMachineStatus(m, st) /\ stale' = stale \ {m} => Calm
         /\ \A m, mode : mode \in BootModes
                /\ machines' = SetBootMode(m, mode) /\ stale' = stale => Calm
<1>1. machines' = machines /\ stale' = stale => Calm
  BY DEF Calm, GetMachine, Busy, Held
<1>2. ASSUME NEW m \in MachineIds, NEW row \in MachineRow, row # NoMachine,
             row.status \in {"installing", "stressing"} => Busy(m), machines' = UpsertMachine(m, row),
             stale' = stale
      PROVE  Calm
  <2>1. ASSUME NEW n \in MachineIds
        PROVE  machines'[n] = machines[n] \/ (n = m /\ machines'[n] = row)
    BY <1>2 DEF UpsertMachine, StoreTypeOK
  <2> QED
    BY <1>2, <2>1 DEF Calm, GetMachine, Busy, Held
<1>3. ASSUME NEW m, NEW st \in MachineStatuses \ {"installing", "stressing"},
             machines' = SetMachineStatus(m, st), stale' = stale \ {m}
      PROVE  Calm
  <2>1. ASSUME NEW n \in MachineIds
        PROVE  \/ machines'[n] = machines[n] /\ (n = m => machines[n] = NoMachine)
               \/ machines'[n] = [machines[n] EXCEPT !.status = st]
    BY <1>3 DEF SetMachineStatus, GetMachine, StoreTypeOK
  <2>2. ASSUME NEW n \in MachineIds
        PROVE  (GetMachine(n) => GetMachine(n)') /\ (Held(n)' => Held(n))
    <3>1. machines[n] \in MachineRow
      BY DEF StoreTypeOK
    <3>2. [machines[n] EXCEPT !.status = st].status = st
      BY <3>1 DEF MachineRow
    <3>3. NoMachine.status = "none"
      BY DEF NoMachine
    <3> QED
      BY <1>3, <2>1, <3>1, <3>2, <3>3, RowIsThere DEF GetMachine, Busy, Held
  <2> QED
    BY <2>2 DEF Calm
<1>4. ASSUME NEW m, NEW mode \in BootModes, machines' = SetBootMode(m, mode), stale' = stale
      PROVE  Calm
  <2>1. ASSUME NEW n \in MachineIds
        PROVE  machines'[n] = machines[n] \/ machines'[n] = [machines[n] EXCEPT !.boot = mode]
    BY <1>4 DEF SetBootMode, StoreTypeOK
  <2>2. ASSUME NEW n \in MachineIds
        PROVE  (GetMachine(n) => GetMachine(n)') /\ (Held(n)' => Held(n))
    <3>1. machines[n] \in MachineRow
      BY DEF StoreTypeOK
    <3>2. [machines[n] EXCEPT !.boot = mode].status = machines[n].status
      BY <3>1 DEF MachineRow
    <3> QED
      BY <1>4, <2>1, <3>1, <3>2, RowIsThere DEF GetMachine, Busy, Held
  <2> QED
    BY <2>2 DEF Calm
<1> QED
  BY <1>1, <1>2, <1>3, <1>4

\* A form may leave any status, and is remembered where it changes one.
LEMMA FormWrites ==
  ASSUME StoreTypeOK, NEW m \in MachineIds, NEW row \in MachineRow, row # NoMachine,
         machines' = UpsertMachine(m, row),
         stale' = stale \cup {n \in MachineIds : machines'[n].status # machines[n].status}
  PROVE  Calm
<1>1. ASSUME NEW n \in MachineIds
      PROVE  machines'[n] = machines[n] \/ (n = m /\ machines'[n] = row)
  BY DEF UpsertMachine, StoreTypeOK
<1>2. \A n \in MachineIds : GetMachine(n) => GetMachine(n)'
  BY <1>1 DEF GetMachine
<1>3. \A n \in MachineIds : Held(n)' => Held(n)
  BY DEF Held, Busy
<1> QED
  BY <1>2, <1>3 DEF Calm

\* A step that leaves the jobs alone and no machine busier.
LEMMA CalmStep ==
  ASSUME Calm, jobs' = jobs, JobsHaveMachine, Settled
  PROVE  JobsHaveMachine' /\ BusyInv'
<1>1. \A m \in MachineIds : HasActiveJob(m) => HasActiveJob(m)'
  BY DEF HasActiveJob, JobsOf, GetJob
<1>2. BusyInv'
  BY <1>1 DEF BusyInv, Settled, Calm
<1>3. ASSUME NEW j \in JobIds, GetJob(j)' PROVE GetMachine(jobs[j].mid)'
  <2>1. GetMachine(jobs[j].mid)
    BY <1>3 DEF JobsHaveMachine, GetJob
  <2>2. PICK m \in MachineIds : m = jobs[j].mid
    BY <2>1 DEF GetMachine
  <2> QED
    BY <2>1, <2>2 DEF Calm
<1> QED
  BY <1>2, <1>3 DEF JobsHaveMachine

\* A step that rewrites a job, of the same machine, as long as the machine is left with
\* a job to wait for or is not busy.
LEMMA UpdateStep ==
  ASSUME Inv, NEW j \in JobIds, NEW row \in JobRow, GetJob(j),
         row.mid = jobs[j].mid, machines' = machines, jobs' = UpdateJob(j, row), stale' = stale,
         JobsHaveMachine, Settled
  PROVE  /\ JobsHaveMachine'
         /\ \A m \in MachineIds \ {row.mid} : Held(m)' => HasActiveJob(m)'
         /\ row.status \in ActiveStatuses \/ jobs[j].status \notin ActiveStatuses => BusyInv'
<1>1. jobs \in [JobIds -> JobRow] /\ jobs' = [jobs EXCEPT ![j] = row]
  BY DEF Inv, TypeOK, StoreTypeOK, UpdateJob
<1>2. JobsHaveMachine'
  BY <1>1 DEF JobsHaveMachine, GetJob, GetMachine
<1>3. ASSUME NEW m \in MachineIds \ {row.mid}, HasActiveJob(m) PROVE HasActiveJob(m)'
  <2>1. PICK k \in JobsOf(m) : jobs[k].status \in ActiveStatuses
    BY <1>3 DEF HasActiveJob
  <2>2. k # j /\ k \in JobIds
    BY <1>3, <2>1 DEF JobsOf
  <2> QED
    BY <1>1, <2>1, <2>2 DEF HasActiveJob, JobsOf, GetJob
<1>4. row.status \in ActiveStatuses /\ row.mid \in MachineIds => HasActiveJob(row.mid)'
  <2> SUFFICES ASSUME row.status \in ActiveStatuses, row.mid \in MachineIds
               PROVE  HasActiveJob(row.mid)'
    OBVIOUS
  <2>1. jobs'[j] = row /\ row # NoJob
    BY <1>1 DEF NoJob, ActiveStatuses
  <2> QED
    BY <2>1 DEF HasActiveJob, JobsOf, GetJob
<1>5. \A m \in MachineIds \ {row.mid} : Held(m)' => HasActiveJob(m)'
  BY <1>3 DEF Settled, Held, Busy
<1>6. ASSUME row.status \in ActiveStatuses, NEW m \in MachineIds, Held(m)' PROVE HasActiveJob(m)'
  BY <1>4, <1>5, <1>6
<1>7. ASSUME jobs[j].status \notin ActiveStatuses, NEW m \in MachineIds, Held(m)' PROVE HasActiveJob(m)'
  <2>1. PICK k \in JobsOf(m) : jobs[k].status \in ActiveStatuses
    BY <1>7 DEF Settled, Held, Busy, HasActiveJob
  <2>2. k # j /\ k \in JobIds
    BY <1>7, <2>1 DEF JobsOf
  <2> QED
    BY <1>1, <2>1, <2>2 DEF HasActiveJob, JobsOf, GetJob
<1> QED
  BY <1>2, <1>5, <1>6, <1>7 DEF BusyInv

-----------------------------------------------------------------------------
(* The steps of requests served one after another.                         *)

\* The frame a handler is left with is fit for what it does next.
FrameOK(f) == FreshMachine(f) /\ FreshJob(f) /\ MidwayOK(f)
FreeSteps == {"idle", "PollReply", "RegisterInsert", "RegisterReread"} \cup ReleasePcs

\* A handler that is done, or writes no copy it has read, keeps nothing fresh.
LEMMA NothingHeld ==
  ASSUME NEW s \in Slots, req'[s].pc \in FreeSteps
  PROVE  FrameOK(req[s])'
BY DEF FrameOK, FreshMachine, FreshJob, MidwayOK, MachineEditors, JobHolders, JobWriters, FreeSteps, ReleasePcs

\* The only slot decides.
LEMMA OnlySlot ==
  ASSUME Serially, NEW s \in Slots
  PROVE  /\ JobsHaveMachine' /\ BusyInv' /\ FrameOK(req[s])' => SerialInv'
         /\ BusyInv /\ req[s].pc \notin ReleasePcs => Settled
         /\ BusyInv => \A m \in MachineIds : Held(m) => HasActiveJob(m) \/ req[s].job.mid = m
<1>1. \A t \in Slots : t = s
  BY DEF Serially
<1> QED
  BY <1>1 DEF SerialInv, FrameOK, BusyInv, Settled, Releasing, ReleasePcs

\* A request that is served at once finds everybody idle, and leaves them so.
LEMMA QuickSteps ==
  ASSUME Serially, Inv, SerialInv, NEW kind, Quick(kind),
         JobsHaveMachine /\ Settled => JobsHaveMachine' /\ BusyInv'
  PROVE  SerialInv'
<1>1. PICK s \in Slots : req[s] = Idle
  BY DEF Quick
<1>2. req[s].pc = "idle" /\ req'[s].pc = "idle"
  BY <1>1 DEF Quick, Idle
<1>3. Settled
  BY <1>2, OnlySlot DEF SerialInv, ReleasePcs
<1>4. FrameOK(req[s])'
  BY <1>2, NothingHeld DEF FreeSteps
<1> QED
  BY <1>3, <1>4, OnlySlot DEF SerialInv

LEMMA CreateMachineSerial ==
  ASSUME Serially, Inv, SerialInv,
         NEW m \in MachineIds, NEW mac \in MACs, NEW boot \in BootModes, CreateMachine(m, mac, boot)
  PROVE  SerialInv'
<1> DEFINE row == [status |-> "ready", boot |-> boot, mac |-> mac]
<1>1. row \in MachineRow /\ row.status = "ready" /\ row # NoMachine
  BY DEF MachineRow, MachineStatuses, NoMachine
<1>2. machines' = UpsertMachine(m, row) /\ jobs' = jobs /\ stale' = stale /\ Quick("machine")
  BY DEF CreateMachine, NewMachine, KeepHistory
<1> HIDE DEF row
<1>3. Calm
  BY <1>1, <1>2, CalmWrites DEF Inv, TypeOK
<1> QED
  BY <1>2, <1>3, CalmStep, QuickSteps

LEMMA RemoveMachineSerial ==
  ASSUME Serially, Inv, SerialInv, NEW m \in MachineIds, RemoveMachine(m)
  PROVE  SerialInv'
<1>1. /\ machines \in [MachineIds -> MachineRow] /\ jobs \in [JobIds -> JobRow]
      /\ machines' = [machines EXCEPT ![m] = NoMachine]
      /\ jobs' = [j \in JobIds |-> IF jobs[j].mid = m THEN NoJob ELSE jobs[j]]
      /\ Quick("removeMachine") /\ stale' = stale
  BY DEF RemoveMachine, DeleteMachine, JobsWithout, KeepHistory, Inv, TypeOK, StoreTypeOK
<1>2. ASSUME JobsHaveMachine PROVE JobsHaveMachine'
  <2> SUFFICES ASSUME NEW j \in JobIds, GetJob(j)' PROVE GetMachine(jobs[j].mid)'
    BY DEF JobsHaveMachine
  <2>1. jobs'[j] = jobs[j] /\ jobs[j].mid # m /\ GetJob(j)
    BY <1>1 DEF GetJob
  <2>2. GetMachine(jobs[j].mid)
    BY <1>2, <2>1 DEF JobsHaveMachine
  <2> QED
    BY <1>1, <2>1, <2>2 DEF GetMachine
<1>3. ASSUME Settled PROVE BusyInv'
  <2> SUFFICES ASSUME NEW n \in MachineIds, Held(n)' PROVE HasActiveJob(n)'
    BY DEF BusyInv
  <2>1. n # m /\ Held(n)
    BY <1>1 DEF Held, Busy, NoMachine
  <2>2. PICK j \in JobsOf(n) : jobs[j].status \in ActiveStatuses
    BY <1>3, <2>1 DEF Settled, HasActiveJob
  <2>3. j \in JobIds /\ jobs'[j] = jobs[j]
    BY <1>1, <2>1, <2>2 DEF JobsOf
  <2> QED
    BY <2>2, <2>3 DEF HasActiveJob, JobsOf, GetJob
<1> QED
  BY <1>1, <1>2, <1>3, QuickSteps

LEMMA SetBootSerial ==
  ASSUME Serially, Inv, SerialInv, NEW m \in MachineIds, NEW mode \in BootModes, SetBoot(m, mode)
  PROVE  SerialInv'
<1>1. machines' = SetBootMode(m, mode) /\ jobs' = jobs /\ stale' = stale /\ Quick("boot")
  BY DEF SetBoot, WriteMachines, KeepHistory
<1>2. Calm
  BY <1>1, CalmWrites DEF Inv, TypeOK
<1> QED
  BY <1>1, <1>2, CalmStep, QuickSteps

LEMMA EnvironmentSerial ==
  ASSUME Serially, Inv, SerialInv, Environment
  PROVE  SerialInv'
<1>1. machines' = machines /\ jobs' = jobs /\ stale' = stale /\ \E kind : Quick(kind)
  BY DEF Environment, ServeWinPE, DropImage, PutImage, Crash, StoreFails, Serially, storeVars, KeepHistory
<1>2. Calm
  BY <1>1, CalmWrites DEF Inv, TypeOK
<1> QED
  BY <1>1, <1>2, CalmStep, QuickSteps

\* A request that begins finds everybody idle, and has changed nothing yet.
LEMMA StartSteps ==
  ASSUME Serially, Inv, SerialInv, NEW s \in Slots, NEW kind, NEW f, Start(kind, s, f),
         UNCHANGED storeVars, stale' = stale,
         req'[s] = f => FrameOK(req[s])'
  PROVE  SerialInv'
<1>1. req[s].pc = "idle" /\ req'[s] = f
  <2>1. TypeOK
    BY DEF Inv
  <2>2. req[s] = Idle
    BY DEF Start
  <2> QED
    BY <2>1, <2>2, SlotChanges DEF Idle
<1>2. Settled
  BY <1>1, OnlySlot DEF SerialInv, ReleasePcs
<1>3. machines' = machines /\ jobs' = jobs
  BY DEF storeVars
<1>4. Calm
  BY <1>3, CalmWrites DEF Inv, TypeOK
<1>5. JobsHaveMachine' /\ BusyInv'
  BY <1>2, <1>3, <1>4, CalmStep DEF SerialInv
<1> QED
  BY <1>1, <1>5, OnlySlot

\* The copy of a machine's row that was just read.
LEMMA MachineCopied ==
  ASSUME NEW s \in Slots, NEW pc \in MachineEditors, NEW m \in MachineIds, NEW row,
         req'[s] = WithMachine(pc, m, row),
         GetMachine(m)', row # NoMachine, pc # "EditUpsert" => row.status = machines'[m].status
  PROVE  FrameOK(req[s])'
<1>1. req'[s].pc = pc /\ req'[s].mid = m /\ req'[s].row = row
  BY FrameFields
<1>2. FreshMachine(req[s])'
  BY <1>1 DEF FreshMachine
<1>3. pc \notin JobHolders /\ pc \notin {"CreateInsert", "CreateStatus", "CreateBoot", "CompleteBoot", "CompleteUpdate"}
  BY DEF MachineEditors, JobHolders, JobWriters
<1> QED
  BY <1>1, <1>2, <1>3 DEF FrameOK, FreshJob, MidwayOK

\* A form is filled by a request of its own ...
LEMMA EditLoadSerial ==
  ASSUME Serially, Inv, SerialInv, NEW t \in Tabs, NEW m \in MachineIds, EditLoad(t, m)
  PROVE  SerialInv'
<1>1. machines' = machines /\ jobs' = jobs /\ stale' = stale /\ Quick("edit")
  BY DEF EditLoad, storeVars
<1>2. Calm
  BY <1>1, CalmWrites DEF Inv, TypeOK
<1> QED
  BY <1>1, <1>2, CalmStep, QuickSteps

\* ... and saved by another, whatever the status has become since.
LEMMA EditPutSerial ==
  ASSUME Serially, Inv, SerialInv, NEW s \in Slots, NEW t \in Tabs, NEW boot \in BootModes,
         EditPut(s, t, boot)
  PROVE  SerialInv'
<1>1. PICK m \in MachineIds : m = form[t].mid /\ GetMachine(m)
  BY DEF EditPut, GetMachine
<1>2. PICK mac \in FormMACs(m) :
        Start("edit", s, WithMachine("EditUpsert", m,
                           [status |-> form[t].status, boot |-> boot, mac |-> mac]))
  BY <1>1 DEF EditPut
<1> DEFINE row == [status |-> form[t].status, boot |-> boot, mac |-> mac]
<1>3. row # NoMachine
  BY DEF NoMachine, BootModes
<1>4. UNCHANGED storeVars /\ stale' = stale /\ GetMachine(m)'
  BY <1>1 DEF EditPut, KeepHistory, storeVars, GetMachine
<1>5. Start("edit", s, WithMachine("EditUpsert", m, row))
  BY <1>2
<1> HIDE DEF row
<1>6. req'[s] = WithMachine("EditUpsert", m, row) => FrameOK(req[s])'
  BY <1>3, <1>4, MachineCopied DEF MachineEditors
<1> QED
  BY <1>4, <1>5, <1>6, StartSteps

LEMMA DetectReadSerial ==
  ASSUME Serially, Inv, SerialInv, NEW s \in Slots, NEW m \in MachineIds, DetectRead(s, m)
  PROVE  SerialInv'
<1>1. /\ Start("detect", s, WithMachine("DetectUpsert", m, machines[m]))
      /\ UNCHANGED storeVars /\ machines' = machines /\ stale' = stale /\ GetMachine(m)
  BY DEF DetectRead, storeVars, KeepHistory
<1>2. GetMachine(m)'
  BY <1>1 DEF GetMachine
<1>3. req'[s] = WithMachine("DetectUpsert", m, machines[m]) => FrameOK(req[s])'
  BY <1>1, <1>2, MachineCopied DEF MachineEditors, GetMachine
<1> QED
  BY <1>1, <1>3, StartSteps

LEMMA RegisterSerial ==
  ASSUME Serially, Inv, SerialInv, NEW s \in Slots, NEW mac \in MACs, Register(s, mac)
  PROVE  SerialInv'
<1>0. UNCHANGED storeVars /\ machines' = machines /\ stale' = stale
  BY DEF Register, storeVars, KeepHistory
<1>1. CASE Start("register", s, WithMachine("RegisterInsert", "none", Discovered(mac)))
  <2>1. req'[s] = WithMachine("RegisterInsert", "none", Discovered(mac)) => FrameOK(req[s])'
    BY FrameFields, NothingHeld DEF FreeSteps
  <2> QED
    BY <1>0, <1>1, <2>1, StartSteps
<1>2. ASSUME NEW m \in MachineByMAC(mac),
             Start("register", s, WithMachine("RegisterTouch", m, machines[m]))
      PROVE  SerialInv'
  <2>1. m \in MachineIds /\ GetMachine(m) /\ machines[m] # NoMachine
    BY DEF MachineByMAC, GetMachine
  <2>2. GetMachine(m)'
    BY <1>0, <2>1 DEF GetMachine
  <2>3. req'[s] = WithMachine("RegisterTouch", m, machines[m]) => FrameOK(req[s])'
    BY <1>0, <2>1, <2>2, MachineCopied DEF MachineEditors
  <2> QED
    BY <1>0, <1>2, <2>3, StartSteps
<1> QED
  BY <1>1, <1>2 DEF Register

\* The copy of a job's row that was just read, and changed in its status.
LEMMA JobCopied ==
  ASSUME NEW s \in Slots, NEW pc \in JobHolders \ {"CompleteBoot", "CompleteUpdate"},
         NEW j \in JobIds, NEW row,
         req'[s] = WithJob(pc, j, row), GetJob(j)',
         row.mid = jobs'[j].mid, row.type = jobs'[j].type,
         pc \in {"PollImage", "PollClaim"} => jobs'[j].status = "pending",
         pc = "ProgressUpdate" =>
           row.status = jobs'[j].status \/ (row.status = "running" /\ jobs'[j].status = "pending"),
         pc \in JobWriters \ {"ProgressUpdate", "CancelUpdate"} => row.status \in Outcomes,
         pc = "CancelUpdate" =>
           row.status = "cancelled" /\ jobs'[j].status \notin Outcomes
  PROVE  FrameOK(req[s])'
<1>1. req'[s].pc = pc /\ req'[s].jid = j /\ req'[s].job = row
  BY FrameFields
<1>2. FreshJob(req[s])'
  BY <1>1 DEF FreshJob
<1>3. pc \notin MachineEditors /\ pc \notin {"CreateInsert", "CreateStatus", "CreateBoot", "CompleteBoot", "CompleteUpdate"}
  BY DEF MachineEditors, JobHolders, JobWriters
<1> QED
  BY <1>1, <1>2, <1>3 DEF FrameOK, FreshMachine, MidwayOK

LEMMA CreateSerial ==
  ASSUME Serially, Inv, SerialInv, NEW s \in Slots, NEW m \in MachineIds,
         CreateStress(s, m) \/ \E i \in ImageIds : CreateInstall(s, m, i)
  PROVE  SerialInv'
<1>1. PICK kind, type, i : /\ Start(kind, s, WithJob("CreateInsert", 0, NewJob(type, m, i)))
                           /\ UNCHANGED storeVars /\ GetMachine(m) /\ stale' = stale
  BY DEF CreateStress, CreateInstall, KeepHistory
<1>2. NewJob(type, m, i).mid = m
  BY DEF NewJob, NoJob
<1>3. GetMachine(m)'
  BY <1>1 DEF GetMachine, storeVars
<1>4. ASSUME req'[s] = WithJob("CreateInsert", 0, NewJob(type, m, i)) PROVE FrameOK(req[s])'
  <2>1. req'[s].pc = "CreateInsert" /\ req'[s].job.mid = m
    BY <1>2, <1>4, FrameFields
  <2> QED
    BY <1>3, <2>1 DEF FrameOK, FreshMachine, FreshJob, MidwayOK, MachineEditors, JobHolders, JobWriters
<1> QED
  BY <1>1, <1>4, StartSteps

\* Where a copy of a job goes, and what it is when it was just read.
LEMMA JobReadSerial ==
  ASSUME Serially, Inv, SerialInv, NEW s \in Slots, NEW j \in JobIds,
         \/ CancelRead(s, j) \/ DeleteRead(s, j)
         \/ ProgressRead(s, j) \/ \E ok \in BOOLEAN : CompleteRead(s, j, ok)
  PROVE  SerialInv'
<1>0. UNCHANGED storeVars /\ jobs' = jobs /\ GetJob(j) /\ jobs[j] \in JobRow /\ stale' = stale
  BY DEF CancelRead, DeleteRead, ProgressRead, CompleteRead, storeVars, KeepHistory, Inv, TypeOK, StoreTypeOK
<1>1. GetJob(j)'
  BY <1>0 DEF GetJob
<1>2. ASSUME NEW st \in FinalStatuses
      PROVE  /\ Finished(jobs[j], st).mid = jobs[j].mid /\ Finished(jobs[j], st).type = jobs[j].type
             /\ Finished(jobs[j], st).status = st
  BY <1>0 DEF Finished, JobRow
<1>3. /\ Progressed(jobs[j]).mid = jobs[j].mid /\ Progressed(jobs[j]).type = jobs[j].type
      /\ \/ Progressed(jobs[j]).status = jobs[j].status
         \/ Progressed(jobs[j]).status = "running" /\ jobs[j].status = "pending"
  BY <1>0 DEF Progressed, Started, JobRow
<1>4. CASE CancelRead(s, j)
  <2>1. /\ Start("cancel", s, WithJob("CancelUpdate", j, Finished(jobs[j], "cancelled")))
        /\ jobs[j].status \notin Outcomes
    BY <1>4 DEF CancelRead, Outcomes
  <2>2. "cancelled" \in FinalStatuses /\ "CancelUpdate" \in JobHolders \ {"CompleteBoot", "CompleteUpdate"}
    BY DEF FinalStatuses, JobHolders, JobWriters
  <2>3. req'[s] = WithJob("CancelUpdate", j, Finished(jobs[j], "cancelled")) => FrameOK(req[s])'
    BY <1>0, <1>1, <1>2, <2>1, <2>2, JobCopied
  <2> QED
    BY <1>0, <2>1, <2>3, StartSteps
<1>5. CASE DeleteRead(s, j)
  <2>1. Start("delete", s, WithJob("JobDelete", j, jobs[j]))
    BY <1>5 DEF DeleteRead
  <2>2. "JobDelete" \in JobHolders \ ({"CompleteBoot", "CompleteUpdate"} \cup JobWriters)
    BY DEF JobHolders, JobWriters
  <2>3. req'[s] = WithJob("JobDelete", j, jobs[j]) => FrameOK(req[s])'
    BY <1>0, <1>1, <2>2, JobCopied
  <2> QED
    BY <1>0, <2>1, <2>3, StartSteps
<1>6. CASE ProgressRead(s, j)
  <2>1. Start("progress", s, WithJob("ProgressUpdate", j, Progressed(jobs[j])))
    BY <1>6 DEF ProgressRead
  <2>2. "ProgressUpdate" \in JobHolders \ {"CompleteBoot", "CompleteUpdate"}
    BY DEF JobHolders, JobWriters
  <2>3. req'[s] = WithJob("ProgressUpdate", j, Progressed(jobs[j])) => FrameOK(req[s])'
    BY <1>0, <1>1, <1>3, <2>2, JobCopied
  <2> QED
    BY <1>0, <2>1, <2>3, StartSteps
<1>7. ASSUME NEW ok \in BOOLEAN, CompleteRead(s, j, ok) PROVE SerialInv'
  <2>1. Start("complete", s, WithJob("CompleteStatus", j, Finished(jobs[j], Outcome(ok))))
    BY <1>7 DEF CompleteRead
  <2>2. Outcome(ok) \in FinalStatuses \cap Outcomes /\ "CompleteStatus" \in JobHolders \ {"CompleteBoot", "CompleteUpdate"}
    BY DEF FinalStatuses, JobHolders, JobWriters, Outcome, Outcomes
  <2>3. req'[s] = WithJob("CompleteStatus", j, Finished(jobs[j], Outcome(ok))) => FrameOK(req[s])'
    BY <1>0, <1>1, <1>2, <2>2, JobCopied
  <2> QED
    BY <1>0, <2>1, <2>3, StartSteps
<1> QED
  BY <1>4, <1>5, <1>6, <1>7

LEMMA PollSerial ==
  ASSUME Serially, Inv, SerialInv, NEW s \in Slots, NEW m \in MachineIds, PollNext(s, m)
  PROVE  SerialInv'
<1>1. PICK j \in NextPendingJob(m) : Start("poll", s, WithJob("PollImage", j, jobs[j]))
  BY DEF PollNext
<1>2. j \in JobIds /\ GetJob(j) /\ jobs[j].status = "pending"
  BY DEF NextPendingJob, PendingJobs, JobsOf
<1>3. UNCHANGED storeVars /\ jobs' = jobs /\ stale' = stale
  BY DEF PollNext, storeVars, KeepHistory
<1>4. GetJob(j)'
  BY <1>2, <1>3 DEF GetJob
<1>5. "PollImage" \in JobHolders \ ({"CompleteBoot", "CompleteUpdate"} \cup JobWriters)
  BY DEF JobHolders, JobWriters
<1>6. req'[s] = WithJob("PollImage", j, jobs[j]) => FrameOK(req[s])'
  BY <1>2, <1>3, <1>4, <1>5, JobCopied
<1> QED
  BY <1>1, <1>3, <1>6, StartSteps

\* A step of a request under way, which releases no machine.
LEMMA HandlerSteps ==
  ASSUME Serially, Inv, SerialInv, NEW s \in Slots, req[s].pc \notin ReleasePcs,
         JobsHaveMachine /\ Settled => JobsHaveMachine' /\ BusyInv',
         FrameOK(req[s])'
  PROVE  SerialInv'
<1>1. Settled
  BY OnlySlot DEF SerialInv
<1> QED
  BY <1>1, OnlySlot DEF SerialInv

\* What is known of the frame of a request under way.
LEMMA FrameKnown ==
  ASSUME Inv, SerialInv, NEW s \in Slots
  PROVE  /\ TypeOK /\ StoreTypeOK
         /\ req[s].row \in MachineRow /\ req[s].job \in JobRow
         /\ FreshMachine(req[s]) /\ FreshJob(req[s]) /\ MidwayOK(req[s])
         /\ JobCopyOK(req[s]) /\ ProvisionedCopyOK(req[s])
         /\ JobsHaveMachine /\ BusyInv
BY DEF Inv, TypeOK, Frame, SerialInv, JobCopyInv, ProvisionedInv

LEMMA MachineStepsSerial ==
  ASSUME Serially, Inv, SerialInv, NEW s \in Slots, ConsoleMachineStep(s)
  PROVE  SerialInv'
<1>0. /\ req[s].row \in MachineRow /\ TypeOK /\ StoreTypeOK
      /\ req[s].mid \in MachineIds /\ GetMachine(req[s].mid) /\ req[s].row # NoMachine
      /\ req[s].pc = "DetectUpsert" => req[s].row.status = machines[req[s].mid].status
      /\ req[s].pc \in {"EditUpsert", "DetectUpsert"}
  BY FrameKnown
     DEF ConsoleMachineStep, EditUpsert, DetectUpsert, At, FreshMachine, MachineEditors, GetMachine
<1>1. jobs' = jobs /\ Done(s)
  BY DEF ConsoleMachineStep, EditUpsert, DetectUpsert, WriteMachines, storeVars
<1>2. Calm
  <2>1. CASE EditUpsert(s)
    BY <1>0, <2>1, FormWrites DEF EditUpsert, WriteMachines
  <2>2. CASE DetectUpsert(s)
    <3>1. /\ machines' \in {machines, UpsertMachine(req[s].mid, req[s].row)} /\ stale' = stale
          /\ req[s].row.status = machines[req[s].mid].status
      BY <1>0, <2>2 DEF DetectUpsert, WriteMachines, storeVars, KeepHistory, At
    <3> QED
      BY <1>0, <3>1, CalmWrites DEF Busy
  <2> QED
    BY <2>1, <2>2 DEF ConsoleMachineStep
<1>3. FrameOK(req[s])'
  BY <1>0, <1>1, SlotChanges, NothingHeld DEF FreeSteps, Idle
<1>4. req[s].pc \notin ReleasePcs
  BY <1>0 DEF ReleasePcs
<1> QED
  BY <1>1, <1>2, <1>3, <1>4, CalmStep, HandlerSteps

LEMMA RegisterStepsSerial ==
  ASSUME Serially, Inv, SerialInv, NEW s \in Slots,
         \/ \E m \in MachineIds : RegisterInsert(s, m)
         \/ RegisterTouch(s) \/ RegisterReread(s) \/ RegisterRename(s)
  PROVE  SerialInv'
<1>0. /\ req[s].row \in MachineRow /\ TypeOK /\ StoreTypeOK
      /\ machines \in [MachineIds -> MachineRow]
  BY FrameKnown DEF StoreTypeOK
<1>h. ASSUME req[s].pc \in {"RegisterTouch", "RegisterRename"}
      PROVE  /\ req[s].mid \in MachineIds /\ GetMachine(req[s].mid) /\ req[s].row # NoMachine
             /\ req[s].row.status = machines[req[s].mid].status
  BY <1>h, FrameKnown DEF FreshMachine, MachineEditors, GetMachine
<1>p. req[s].pc \notin ReleasePcs /\ stale' = stale
  BY DEF RegisterInsert, RegisterTouch, RegisterReread, RegisterRename, At, ReleasePcs, KeepHistory
<1>1. ASSUME NEW m \in MachineIds, RegisterInsert(s, m) PROVE SerialInv'
  <2>1. req[s].row.status = "discovered" /\ req[s].row # NoMachine
    BY <1>1, FrameKnown DEF RegisterInsert, At, ProvisionedCopyOK, NoMachine
  <2>2. machines' = UpsertMachine(m, req[s].row) /\ jobs' = jobs /\ Done(s)
    BY <1>1 DEF RegisterInsert, NewMachine
  <2>3. Calm
    BY <1>0, <2>1, <2>2, <1>p, CalmWrites
  <2>4. FrameOK(req[s])'
    BY <1>0, <2>2, SlotChanges, NothingHeld DEF FreeSteps, Idle
  <2> QED
    BY <1>p, <2>2, <2>3, <2>4, CalmStep, HandlerSteps
<1>2. CASE RegisterTouch(s)
  <2>1. machines' = machines /\ jobs' = jobs /\ Goto(s, "RegisterReread")
    <3>1. machines' = [machines EXCEPT ![req[s].mid].status = machines[req[s].mid].status] /\ jobs' = jobs
      BY <1>2, <1>h DEF RegisterTouch, At, WriteMachines, TouchMachine, SetMachineStatus
    <3>2. machines[req[s].mid] \in MachineRow
      BY <1>0, <1>2, <1>h DEF RegisterTouch, At
    <3>3. [machines[req[s].mid] EXCEPT !.status = machines[req[s].mid].status] = machines[req[s].mid]
      BY <3>2 DEF MachineRow
    <3> QED
      BY <1>0, <1>2, <3>1, <3>3 DEF RegisterTouch
  <2>2. Calm
    BY <1>0, <2>1, <1>p, CalmWrites
  <2>3. FrameOK(req[s])'
    BY <1>0, <2>1, SlotChanges, NothingHeld DEF FreeSteps
  <2> QED
    BY <1>p, <2>1, <2>2, <2>3, CalmStep, HandlerSteps
<1>3. CASE RegisterReread(s)
  <2>1. machines' = machines /\ jobs' = jobs
    BY <1>3 DEF RegisterReread, storeVars
  <2>2. Calm
    BY <1>0, <2>1, <1>p, CalmWrites
  <2>3. FrameOK(req[s])'
    <3>1. CASE Done(s)
      BY <1>0, <3>1, SlotChanges, NothingHeld DEF FreeSteps, Idle
    <3>2. CASE /\ GetMachine(req[s].mid)
               /\ req' = [req EXCEPT ![s] = WithMachine("RegisterRename", req[s].mid, machines[req[s].mid])]
      <4>1. PICK m \in MachineIds : m = req[s].mid
        BY <3>2 DEF GetMachine
      <4>2. req'[s] = WithMachine("RegisterRename", m, machines[m]) /\ GetMachine(m)
        BY <1>0, <3>2, <4>1 DEF TypeOK
      <4>3. GetMachine(m)' /\ machines[m] # NoMachine
        BY <2>1, <4>2 DEF GetMachine
      <4> QED
        BY <2>1, <4>2, <4>3, MachineCopied DEF MachineEditors
    <3> QED
      BY <1>3, <3>1, <3>2 DEF RegisterReread
  <2> QED
    BY <1>p, <2>1, <2>2, <2>3, CalmStep, HandlerSteps
<1>4. CASE RegisterRename(s)
  <2>1. machines' = UpsertMachine(req[s].mid, req[s].row) /\ jobs' = jobs /\ Done(s)
    BY <1>4 DEF RegisterRename, WriteMachines
  <2>2. Calm
    BY <1>0, <1>4, <1>h, <2>1, <1>p, CalmWrites DEF RegisterRename, At, Busy
  <2>3. FrameOK(req[s])'
    BY <1>0, <2>1, SlotChanges, NothingHeld DEF FreeSteps, Idle
  <2> QED
    BY <1>p, <2>1, <2>2, <2>3, CalmStep, HandlerSteps
<1> QED
  BY <1>1, <1>2, <1>3, <1>4

LEMMA PollStepsSerial ==
  ASSUME Serially, Inv, SerialInv, NEW s \in Slots,
         PollImage(s) \/ PollClaim(s) \/ PollReply(s) \/ ProgressUpdate(s)
  PROVE  SerialInv'
<1>0. /\ TypeOK /\ StoreTypeOK /\ req[s].job \in JobRow
  BY FrameKnown
<1>h. ASSUME req[s].pc \in {"PollImage", "PollClaim", "ProgressUpdate"}
      PROVE  /\ req[s].jid \in JobIds /\ GetJob(req[s].jid)
             /\ req[s].job.mid = jobs[req[s].jid].mid /\ req[s].job.type = jobs[req[s].jid].type
             /\ req[s].pc # "ProgressUpdate" => jobs[req[s].jid].status = "pending"
             /\ req[s].pc = "ProgressUpdate" =>
                  \/ req[s].job.status = jobs[req[s].jid].status
                  \/ req[s].job.status = "running"
  BY <1>h, FrameKnown DEF FreshJob, JobHolders, JobWriters
<1>p. req[s].pc \notin ReleasePcs /\ stale' = stale
  BY DEF PollImage, PollClaim, PollReply, ProgressUpdate, At, ReleasePcs, KeepHistory
<1>a. "running" \in ActiveStatuses
  BY DEF ActiveStatuses
<1>1. CASE PollImage(s)
  <2>1. machines' = machines /\ jobs' = jobs
    BY <1>1 DEF PollImage, storeVars
  <2>2. Calm
    BY <1>0, <2>1, <1>p, CalmWrites
  <2>3. FrameOK(req[s])'
    <3>1. CASE Done(s)
      BY <1>0, <3>1, SlotChanges, NothingHeld DEF FreeSteps, Idle
    <3>2. CASE Goto(s, "PollClaim")
      <4>1. req'[s].pc = "PollClaim" /\ req'[s].jid = req[s].jid /\ req'[s].job = req[s].job
        BY <1>0, <3>2, SlotChanges
      <4>2. FreshJob(req[s])'
        BY <1>1, <1>h, <2>1, <4>1 DEF PollImage, At, FreshJob, JobWriters, GetJob
      <4> QED
        BY <4>1, <4>2 DEF FrameOK, FreshMachine, MidwayOK, MachineEditors
    <3> QED
      BY <1>1, <3>1, <3>2 DEF PollImage
  <2> QED
    BY <1>p, <2>1, <2>2, <2>3, CalmStep, HandlerSteps
<1>2. CASE PollClaim(s)
  <2>1. PICK j \in JobIds : j = req[s].jid /\ GetJob(j) /\ req[s].job.mid = jobs[j].mid
    BY <1>2, <1>h DEF PollClaim, At
  <2>2. PICK row \in JobRow : row = Started(req[s].job) /\ row.mid = jobs[j].mid /\ row.status = "running"
    <3>1. Started(req[s].job) \in JobRow
      BY <1>0, CopyTypes
    <3>2. Started(req[s].job).mid = req[s].job.mid /\ Started(req[s].job).status = "running"
      BY <1>0 DEF Started, JobRow
    <3> QED
      BY <2>1, <3>1, <3>2
  <2>3. machines' = machines /\ jobs' = UpdateJob(j, row)
    BY <1>2, <2>1, <2>2 DEF PollClaim, WriteJobs
  <2>4. JobsHaveMachine /\ Settled => JobsHaveMachine' /\ BusyInv'
    BY <1>a, <2>1, <2>2, <2>3, <1>p, UpdateStep
  <2>5. FrameOK(req[s])'
    <3>1. req'[s] = WithJob("PollReply", j, row)
      BY <1>0, <1>2, <2>1, <2>2 DEF PollClaim, TypeOK
    <3> QED
      BY <3>1, FrameFields, NothingHeld DEF FreeSteps
  <2> QED
    BY <1>p, <2>4, <2>5, HandlerSteps
<1>3. CASE PollReply(s)
  <2>1. machines' = machines /\ jobs' = jobs /\ Done(s)
    BY <1>3 DEF PollReply, storeVars
  <2>2. Calm
    BY <1>0, <2>1, <1>p, CalmWrites
  <2>3. FrameOK(req[s])'
    BY <1>0, <2>1, SlotChanges, NothingHeld DEF FreeSteps, Idle
  <2> QED
    BY <1>p, <2>1, <2>2, <2>3, CalmStep, HandlerSteps
<1>4. CASE ProgressUpdate(s)
  <2>1. PICK j \in JobIds : /\ j = req[s].jid /\ GetJob(j) /\ req[s].job.mid = jobs[j].mid
                            /\ req[s].job.status \in {jobs[j].status, "running"}
    BY <1>4, <1>h DEF ProgressUpdate, At
  <2>2. PICK row \in JobRow : row = req[s].job
    BY <1>0
  <2>3. machines' = machines /\ jobs' = UpdateJob(j, row) /\ Done(s)
    BY <1>4, <2>1, <2>2 DEF ProgressUpdate, WriteJobs
  <2>4. JobsHaveMachine /\ Settled => JobsHaveMachine' /\ BusyInv'
    BY <1>a, <2>1, <2>2, <2>3, <1>p, UpdateStep
  <2>5. FrameOK(req[s])'
    BY <1>0, <2>3, SlotChanges, NothingHeld DEF FreeSteps, Idle
  <2> QED
    BY <1>p, <2>4, <2>5, HandlerSteps
<1> QED
  BY <1>1, <1>2, <1>3, <1>4

\* What setting a column of a machine's row does to it.
LEMMA ColumnSet ==
  ASSUME StoreTypeOK, NEW m \in MachineIds, GetMachine(m)
  PROVE  /\ \A st \in MachineStatuses : machines' = SetMachineStatus(m, st) =>
              /\ GetMachine(m)' /\ machines'[m].status = st
              /\ machines'[m].boot = machines[m].boot
         /\ \A mode \in BootModes : machines' = SetBootMode(m, mode) =>
              /\ GetMachine(m)' /\ machines'[m].boot = mode
              /\ machines'[m].status = machines[m].status
<1>1. machines[m] \in MachineRow /\ machines \in [MachineIds -> MachineRow]
  BY DEF StoreTypeOK
<1>2. ASSUME NEW st \in MachineStatuses, machines' = SetMachineStatus(m, st)
      PROVE  GetMachine(m)' /\ machines'[m].status = st /\ machines'[m].boot = machines[m].boot
  <2>1. machines'[m] = [machines[m] EXCEPT !.status = st]
    BY <1>1, <1>2 DEF SetMachineStatus
  <2>2. machines'[m] # NoMachine
    BY <1>1, <2>1, RowIsThere
  <2> QED
    BY <1>1, <2>1, <2>2 DEF GetMachine, MachineRow
<1>3. ASSUME NEW mode \in BootModes, machines' = SetBootMode(m, mode)
      PROVE  GetMachine(m)' /\ machines'[m].boot = mode /\ machines'[m].status = machines[m].status
  <2>1. machines'[m] = [machines[m] EXCEPT !.boot = mode]
    BY <1>1, <1>3 DEF SetBootMode
  <2>2. machines'[m] # NoMachine
    BY <1>1, <2>1, RowIsThere
  <2> QED
    BY <1>1, <2>1, <2>2 DEF GetMachine, MachineRow
<1> QED
  BY <1>2, <1>3

LEMMA CompleteStepsSerial ==
  ASSUME Serially, Inv, SerialInv, NEW s \in Slots,
         CompleteStatus(s) \/ CompleteBoot(s) \/ CompleteUpdate(s)
  PROVE  SerialInv'
<1>0. /\ TypeOK /\ StoreTypeOK /\ req[s].job \in JobRow
      /\ req[s].pc \in {"CompleteStatus", "CompleteBoot", "CompleteUpdate"}
  BY FrameKnown DEF CompleteStatus, CompleteBoot, CompleteUpdate, At
<1>1. /\ req[s].jid \in JobIds /\ GetJob(req[s].jid)
      /\ req[s].job.mid = jobs[req[s].jid].mid /\ req[s].job.type = jobs[req[s].jid].type
      /\ req[s].job.status \in Outcomes
  BY <1>0, FrameKnown DEF FreshJob, JobHolders, JobWriters
<1>2. PICK j \in JobIds : j = req[s].jid
  BY <1>1
<1>3. GetMachine(req[s].job.mid)
  BY <1>1, FrameKnown DEF JobsHaveMachine
<1>4. PICK m \in MachineIds : m = req[s].job.mid
  BY <1>3 DEF GetMachine
<1>p. req[s].pc \notin ReleasePcs
  BY <1>0 DEF ReleasePcs
<1>q. GetMachine(m)
  BY <1>3, <1>4
<1>f. ASSUME jobs' = jobs, NEW pc \in {"CompleteBoot", "CompleteUpdate"}, Goto(s, pc),
             GetMachine(m)', ~Busy(m)',
             pc = "CompleteBoot" => machines'[m].status = "provisioned",
             pc = "CompleteUpdate" /\ req[s].job.type = "install" /\ req[s].job.status = "succeeded" =>
               Shown(m, "provisioned", "disk")'
      PROVE  FrameOK(req[s])'
  <2>1. req'[s].pc = pc /\ req'[s].jid = j /\ req'[s].job = req[s].job
    BY <1>0, <1>2, <1>f, SlotChanges
  <2>2. FreshJob(req[s])'
    BY <1>1, <1>2, <1>f, <2>1 DEF FreshJob, GetJob
  <2>3. MidwayOK(req[s])'
    BY <1>4, <1>f, <2>1 DEF MidwayOK, GetMachine, Busy, Shown
  <2> QED
    BY <2>1, <2>2, <2>3 DEF FrameOK, FreshMachine, MachineEditors
<1>5. ASSUME NEW st \in {"provisioned", "ready", "error"}, NEW pc \in {"CompleteBoot", "CompleteUpdate"},
             WriteMachines(SetMachineStatus(m, st)), Goto(s, pc), FreshStatus(m),
             pc = "CompleteBoot" => st = "provisioned",
             ~(pc = "CompleteUpdate" /\ req[s].job.type = "install" /\ req[s].job.status = "succeeded")
      PROVE  SerialInv'
  <2>1. machines' = SetMachineStatus(m, st) /\ jobs' = jobs /\ stale' = stale \ {m}
    BY <1>5 DEF WriteMachines, FreshStatus
  <2>2. st \in MachineStatuses \ {"installing", "stressing"}
    BY DEF MachineStatuses
  <2>3. Calm
    BY <1>0, <2>1, <2>2, CalmWrites
  <2>4. GetMachine(m)' /\ machines'[m].status = st
    BY <1>0, <1>q, <2>1, <2>2, ColumnSet
  <2>5. ~Busy(m)'
    BY <2>2, <2>4 DEF Busy
  <2>6. FrameOK(req[s])'
    BY <1>f, <1>5, <2>1, <2>4, <2>5
  <2> QED
    BY <1>p, <2>1, <2>3, <2>6, CalmStep, HandlerSteps
<1>6. CASE CompleteStatus(s)
  BY <1>4, <1>5, <1>6 DEF CompleteStatus
<1>7. CASE CompleteBoot(s)
  <2>1. /\ machines' = SetBootMode(m, "disk") /\ jobs' = jobs /\ Goto(s, "CompleteUpdate")
        /\ machines[m].status = "provisioned" /\ stale' = stale
    BY <1>4, <1>7, FrameKnown DEF CompleteBoot, WriteMachines, At, MidwayOK, KeepHistory
  <2>2. Calm
    BY <1>0, <2>1, CalmWrites DEF BootModes
  <2>3. GetMachine(m)' /\ machines'[m].status = "provisioned" /\ machines'[m].boot = "disk"
    BY <1>0, <1>q, <2>1, ColumnSet DEF BootModes
  <2>4. FrameOK(req[s])'
    BY <1>f, <2>1, <2>3 DEF Busy, Shown
  <2> QED
    BY <1>p, <2>1, <2>2, <2>4, CalmStep, HandlerSteps
<1>8. CASE CompleteUpdate(s)
  <2>1. PICK row \in JobRow : row = req[s].job /\ row.mid = m /\ row.mid = jobs[j].mid
    BY <1>0, <1>1, <1>2, <1>4
  <2>2. /\ machines' = machines /\ jobs' = UpdateJob(j, row) /\ Done(s) /\ GetJob(j)
        /\ stale' = stale
    BY <1>1, <1>2, <1>8, <2>1 DEF CompleteUpdate, WriteJobs, KeepHistory
  <2>3. ~Busy(m)'
    BY <1>4, <1>8, <2>2, FrameKnown DEF CompleteUpdate, At, MidwayOK, Busy
  <2>4. JobsHaveMachine /\ Settled => JobsHaveMachine' /\ BusyInv'
    BY <2>1, <2>2, <2>3, UpdateStep DEF BusyInv, Held
  <2>5. FrameOK(req[s])'
    BY <1>0, <2>2, SlotChanges, NothingHeld DEF FreeSteps, Idle
  <2> QED
    BY <1>p, <2>4, <2>5, HandlerSteps
<1> QED
  BY <1>6, <1>7, <1>8

\* A job that is created waits before its machine is shown as busy.
LEMMA CreateStepsSerial ==
  ASSUME Serially, Inv, SerialInv, NEW s \in Slots,
         CreateInsert(s) \/ CreateStatus(s) \/ CreateBoot(s)
  PROVE  SerialInv'
<1>0. /\ TypeOK /\ StoreTypeOK /\ req[s].job \in JobRow /\ JobCopyOK(req[s]) /\ JobTableInv
      /\ jobs \in [JobIds -> JobRow] /\ lastJob \in 0 .. MaxJobs
      /\ req[s].pc \in {"CreateInsert", "CreateStatus", "CreateBoot"}
  BY FrameKnown DEF CreateInsert, CreateStatus, CreateBoot, At, Inv, StoreTypeOK
<1>p. req[s].pc \notin ReleasePcs
  BY <1>0 DEF ReleasePcs
<1>1. PICK m \in MachineIds : m = req[s].job.mid
  BY <1>0, FrameKnown DEF MidwayOK, GetMachine
<1>f. ASSUME NEW pc \in {"CreateStatus", "CreateBoot"}, Goto(s, pc), HasActiveJob(m)'
      PROVE  FrameOK(req[s])'
  <2>1. req'[s].pc = pc /\ req'[s].job.mid = m
    BY <1>0, <1>1, <1>f, SlotChanges
  <2> QED
    BY <1>f, <2>1
       DEF FrameOK, FreshMachine, FreshJob, MidwayOK, MachineEditors, JobHolders, JobWriters,
           HasActiveJob, JobsOf, GetJob
<1>k. ASSUME jobs' = jobs, HasActiveJob(m) PROVE HasActiveJob(m)'
  BY <1>k DEF HasActiveJob, JobsOf, GetJob
<1>2. CASE CreateInsert(s)
  <2>1. PICK j \in JobIds : j = lastJob + 1
    BY <1>0, <1>2, MaxJobsIsNat DEF CreateInsert, JobIds
  <2>2. PICK row \in JobRow : row = req[s].job
    BY <1>0
  <2>3. row.mid = m /\ row.status = "pending" /\ row # NoJob /\ GetMachine(m)
    BY <1>0, <1>1, <1>2, <2>2, FrameKnown DEF CreateInsert, At, JobCopyOK, JobReaders, MidwayOK, NoJob
  <2>4. /\ jobs' = [jobs EXCEPT ![j] = row] /\ machines' = machines /\ Goto(s, "CreateStatus")
        /\ stale' = stale
    BY <1>2, <2>1, <2>2 DEF CreateInsert, InsertJob, KeepHistory
  <2>5. jobs'[j] = row /\ \A k \in JobIds \ {j} : jobs'[k] = jobs[k]
    BY <1>0, <2>4
  <2>6. HasActiveJob(m)'
    BY <2>3, <2>5 DEF HasActiveJob, JobsOf, GetJob, ActiveStatuses
  <2>7. j > lastJob
    BY <1>0, <2>1
  <2>8. ~GetJob(j)
    BY <1>0, <2>7 DEF JobTableInv
  <2>9. ASSUME NEW n \in MachineIds, HasActiveJob(n) PROVE HasActiveJob(n)'
    <3>1. PICK k \in JobsOf(n) : jobs[k].status \in ActiveStatuses
      BY <2>9 DEF HasActiveJob
    <3>2. k \in JobIds /\ k # j
      BY <2>8, <3>1 DEF JobsOf
    <3> QED
      BY <2>5, <3>1, <3>2 DEF HasActiveJob, JobsOf, GetJob
  <2>10. JobsHaveMachine /\ Settled => JobsHaveMachine' /\ BusyInv'
    BY <2>3, <2>4, <2>5, <2>9 DEF JobsHaveMachine, Settled, BusyInv, GetJob, GetMachine, Held, Busy
  <2>11. FrameOK(req[s])'
    BY <1>f, <2>4, <2>6
  <2> QED
    BY <1>p, <2>10, <2>11, HandlerSteps
<1>3. CASE CreateStatus(s)
  <2>1. HasActiveJob(m)
    BY <1>1, <1>3, FrameKnown DEF CreateStatus, At, MidwayOK
  <2>2. /\ jobs' = jobs /\ stale' = stale \ {m}
        /\ \E st \in MachineStatuses : machines' = SetMachineStatus(m, st)
    BY <1>1, <1>3 DEF CreateStatus, WriteMachines, MachineStatuses, FreshStatus
  <2>3. \A n \in MachineIds : n # m => machines'[n] = machines[n]
    BY <1>0, <2>2 DEF SetMachineStatus, StoreTypeOK
  <2>4. GetMachine(m) => GetMachine(m)'
    BY <1>0, <2>2, ColumnSet
  <2>5. \A n \in MachineIds : HasActiveJob(n) => HasActiveJob(n)'
    BY <2>2 DEF HasActiveJob, JobsOf, GetJob
  <2>6. ASSUME Settled PROVE BusyInv'
    BY <2>1, <2>2, <2>3, <2>5, <2>6 DEF Settled, BusyInv, Held, Busy
  <2>7. ASSUME JobsHaveMachine PROVE JobsHaveMachine'
    <3>1. \A n \in MachineIds : GetMachine(n) => GetMachine(n)'
      BY <2>3, <2>4 DEF GetMachine
    <3> SUFFICES ASSUME NEW j \in JobIds, GetJob(j)' PROVE GetMachine(jobs[j].mid)'
      BY DEF JobsHaveMachine
    <3>2. GetMachine(jobs[j].mid) /\ jobs'[j] = jobs[j]
      BY <2>2, <2>7 DEF JobsHaveMachine, GetJob
    <3>3. PICK n \in MachineIds : n = jobs[j].mid
      BY <3>2 DEF GetMachine
    <3> QED
      BY <3>1, <3>2, <3>3
  <2>8. FrameOK(req[s])'
    <3>1. CASE Goto(s, "CreateBoot")
      BY <1>f, <1>k, <2>1, <2>2, <3>1
    <3>2. CASE Done(s)
      BY <1>0, <3>2, SlotChanges, NothingHeld DEF FreeSteps, Idle
    <3> QED
      BY <1>3, <3>1, <3>2 DEF CreateStatus
  <2> QED
    BY <1>p, <2>6, <2>7, <2>8, HandlerSteps
<1>4. CASE CreateBoot(s)
  <2>1. machines' = SetBootMode(m, "ramos") /\ jobs' = jobs /\ stale' = stale /\ Done(s)
    BY <1>1, <1>4 DEF CreateBoot, WriteMachines, KeepHistory
  <2>2. Calm
    BY <1>0, <2>1, CalmWrites DEF BootModes
  <2>3. FrameOK(req[s])'
    BY <1>0, <2>1, SlotChanges, NothingHeld DEF FreeSteps, Idle
  <2> QED
    BY <1>p, <2>1, <2>2, <2>3, CalmStep, HandlerSteps
<1> QED
  BY <1>2, <1>3, <1>4

\* Only the machine of the job that is cancelled or deleted may be left without a job,
\* and the handler goes on to release it.
LEMMA CancelStepsSerial ==
  ASSUME Serially, Inv, SerialInv, NEW s \in Slots, CancelUpdate(s) \/ JobDelete(s)
  PROVE  SerialInv'
<1>0. /\ TypeOK /\ StoreTypeOK /\ req[s].job \in JobRow /\ JobsHaveMachine
      /\ jobs \in [JobIds -> JobRow]
      /\ req[s].pc \in {"CancelUpdate", "JobDelete"}
  BY FrameKnown DEF CancelUpdate, JobDelete, At, StoreTypeOK
<1>1. /\ req[s].jid \in JobIds /\ GetJob(req[s].jid) /\ req[s].job.mid = jobs[req[s].jid].mid
  BY <1>0, FrameKnown DEF FreshJob, JobHolders, JobWriters
<1>2. PICK j \in JobIds : j = req[s].jid
  BY <1>1
<1>3. PICK row \in JobRow : row = req[s].job
  BY <1>0
<1>4. /\ machines' = machines /\ stale' = stale /\ Goto(s, "ReleaseRead")
      /\ jobs' = UpdateJob(j, row) \/ jobs' = DeleteJob(j)
  BY <1>1, <1>2, <1>3 DEF CancelUpdate, JobDelete, WriteJobs, KeepHistory
<1>5. req'[s].pc = "ReleaseRead" /\ req'[s].job = row
  BY <1>0, <1>3, <1>4, SlotChanges
<1>6. Settled
  BY <1>0, FrameKnown, OnlySlot DEF ReleasePcs
<1>7. JobsHaveMachine' /\ \A m \in MachineIds \ {row.mid} : Held(m)' => HasActiveJob(m)'
  <2>1. CASE jobs' = UpdateJob(j, row)
    BY <1>0, <1>1, <1>2, <1>3, <1>4, <1>6, <2>1, UpdateStep
  <2>2. CASE jobs' = DeleteJob(j)
    <3>1. jobs'[j] = NoJob /\ \A k \in JobIds \ {j} : jobs'[k] = jobs[k]
      BY <1>0, <2>2 DEF DeleteJob
    <3>2. JobsHaveMachine'
      BY <1>0, <1>4, <3>1 DEF JobsHaveMachine, GetJob, GetMachine
    <3>3. ASSUME NEW m \in MachineIds \ {row.mid}, Held(m)' PROVE HasActiveJob(m)'
      <4>1. PICK k \in JobsOf(m) : jobs[k].status \in ActiveStatuses
        BY <1>4, <1>6, <3>3 DEF Settled, Held, Busy, HasActiveJob
      <4>2. k \in JobIds \ {j}
        BY <1>1, <1>2, <1>3, <4>1 DEF JobsOf
      <4> QED
        BY <3>1, <4>1, <4>2 DEF HasActiveJob, JobsOf, GetJob
    <3> QED
      BY <3>2, <3>3
  <2> QED
    BY <1>4, <2>1, <2>2
<1>8. BusyInv'
  BY <1>5, <1>7 DEF BusyInv, Releasing
<1>9. FrameOK(req[s])'
  BY <1>5, NothingHeld DEF FreeSteps, ReleasePcs
<1> QED
  BY <1>7, <1>8, <1>9, OnlySlot

\* releaseMachineIfIdle ends with a machine that has a job, or is not busy any more.
LEMMA ReleaseStepsSerial ==
  ASSUME Serially, Inv, SerialInv, NEW s \in Slots,
         ReleaseRead(s) \/ ReleaseCheck(s) \/ ReleaseSet(s)
  PROVE  SerialInv'
<1>0. TypeOK /\ StoreTypeOK /\ JobsHaveMachine
  BY FrameKnown
<1>1. \A m \in MachineIds : Held(m) => HasActiveJob(m) \/ req[s].job.mid = m
  BY FrameKnown, OnlySlot
<1>i. ASSUME Done(s) PROVE FrameOK(req[s])'
  BY <1>0, <1>i, SlotChanges, NothingHeld DEF FreeSteps, Idle
<1>2. ASSUME machines' = machines, jobs' = jobs, stale' = stale, NEW pc \in ReleasePcs, Goto(s, pc)
      PROVE  SerialInv'
  <2>1. req'[s].pc \in ReleasePcs /\ req'[s].job = req[s].job
    BY <1>0, <1>2, SlotChanges
  <2>2. FrameOK(req[s])'
    BY <2>1, NothingHeld DEF FreeSteps
  <2>3. BusyInv'
    BY <1>1, <1>2, <2>1 DEF BusyInv, Releasing, ReleasePcs, Held, Busy, HasActiveJob, JobsOf, GetJob
  <2>4. JobsHaveMachine'
    BY <1>0, <1>2 DEF JobsHaveMachine, GetJob, GetMachine
  <2> QED
    BY <2>2, <2>3, <2>4, OnlySlot
<1>3. ASSUME machines' = machines, jobs' = jobs, stale' = stale, Done(s), Settled
      PROVE  SerialInv'
  <2>1. Calm
    BY <1>0, <1>3, CalmWrites
  <2> QED
    BY <1>0, <1>i, <1>3, <2>1, CalmStep, OnlySlot
<1>4. CASE ReleaseRead(s)
  <2>1. machines' = machines /\ jobs' = jobs /\ stale' = stale
    BY <1>4 DEF ReleaseRead, storeVars, KeepHistory
  <2>2. CASE Goto(s, "ReleaseCheck")
    BY <1>2, <2>1, <2>2 DEF ReleasePcs
  <2>3. CASE Done(s) /\ ~(GetMachine(req[s].job.mid)
                          /\ machines[req[s].job.mid].status \in {"installing", "stressing"})
    <3>1. \A m \in MachineIds : Busy(m) => machines[m] # NoMachine
      BY DEF Busy, NoMachine
    <3>2. Settled
      BY <1>1, <2>3, <3>1 DEF Settled, Held, Busy, GetMachine
    <3> QED
      BY <1>3, <2>1, <2>3, <3>2
  <2> QED
    BY <1>4, <2>2, <2>3 DEF ReleaseRead
<1>5. CASE ReleaseCheck(s)
  <2>1. machines' = machines /\ jobs' = jobs /\ stale' = stale
    BY <1>5 DEF ReleaseCheck, storeVars, KeepHistory
  <2>2. CASE Goto(s, "ReleaseSet")
    BY <1>2, <2>1, <2>2 DEF ReleasePcs
  <2>3. CASE Done(s) /\ HasActiveJob(req[s].job.mid)
    <3>1. Settled
      BY <1>1, <2>3 DEF Settled
    <3> QED
      BY <1>3, <2>1, <2>3, <3>1
  <2> QED
    BY <1>5, <2>2, <2>3 DEF ReleaseCheck
<1>6. CASE ReleaseSet(s)
  <2>1. /\ jobs' = jobs /\ machines' = SetMachineStatus(req[s].job.mid, "ready") /\ Done(s)
        /\ stale' = stale \ {req[s].job.mid}
    BY <1>6 DEF ReleaseSet, WriteMachines, FreshStatus
  <2>2. Calm
    BY <1>0, <2>1, CalmWrites DEF MachineStatuses
  <2>3. JobsHaveMachine'
    <3> SUFFICES ASSUME NEW j \in JobIds, GetJob(j)' PROVE GetMachine(jobs[j].mid)'
      BY DEF JobsHaveMachine
    <3>1. GetMachine(jobs[j].mid) /\ jobs'[j] = jobs[j]
      BY <1>0, <2>1 DEF JobsHaveMachine, GetJob
    <3>2. PICK n \in MachineIds : n = jobs[j].mid
      BY <3>1 DEF GetMachine
    <3> QED
      BY <2>2, <3>1, <3>2 DEF Calm
  <2>4. ASSUME NEW m \in MachineIds, Held(m)' PROVE HasActiveJob(m)'
    <3>1. Held(m)
      BY <2>2, <2>4 DEF Calm
    <3>2. req[s].job.mid # m
      <4>1. GetMachine(m)
        BY <3>1 DEF Held, Busy, GetMachine, NoMachine
      <4>2. machines' = SetMachineStatus(m, "ready") => machines'[m].status = "ready"
        BY <1>0, <4>1, ColumnSet DEF MachineStatuses
      <4> QED
        BY <2>1, <2>4, <4>2 DEF Held, Busy
    <3> QED
      BY <1>1, <2>1, <3>1, <3>2 DEF HasActiveJob, JobsOf, GetJob
  <2> QED
    BY <1>i, <2>1, <2>3, <2>4, OnlySlot DEF BusyInv
<1> QED
  BY <1>4, <1>5, <1>6

LEMMA SerialStep == Serially /\ Inv /\ SerialInv /\ [Next]_vars => SerialInv'
<1> SUFFICES ASSUME Serially, Inv, SerialInv, [Next]_vars PROVE SerialInv'
  OBVIOUS
<1>1. CASE UNCHANGED vars
  BY <1>1
     DEF vars, SerialInv, JobsHaveMachine, BusyInv, Releasing, Held, Busy, HasActiveJob, JobsOf, GetJob, GetMachine,
         FreshMachine, FreshJob, MidwayOK, Shown
<1>2. CASE ConsoleMachine
  BY <1>2, CreateMachineSerial, RemoveMachineSerial, SetBootSerial,
     EditLoadSerial, EditPutSerial, DetectReadSerial
     DEF ConsoleMachine
<1>3. CASE ConsoleJob
  BY <1>3, CreateSerial, JobReadSerial DEF ConsoleJob
<1>4. CASE AgentCall
  BY <1>4, RegisterSerial, PollSerial, JobReadSerial DEF AgentCall
<1>5. CASE Environment
  BY <1>5, EnvironmentSerial
<1>6. ASSUME NEW s \in Slots, ConsoleJobStep(s) PROVE SerialInv'
  BY <1>6, CreateStepsSerial, CancelStepsSerial, ReleaseStepsSerial DEF ConsoleJobStep
<1>7. ASSUME NEW s \in Slots, AgentStep(s) PROVE SerialInv'
  BY <1>7, RegisterStepsSerial, PollStepsSerial, CompleteStepsSerial DEF AgentStep
<1> QED
  BY <1>1, <1>2, <1>3, <1>4, <1>5, <1>6, <1>7, MachineStepsSerial DEF Next

\* Nothing is read, and no row is there, in the beginning.
LEMMA SerialInit == Init => SerialInv
<1> SUFFICES ASSUME Init PROVE SerialInv
  OBVIOUS
<1>1. \A j \in JobIds : ~GetJob(j)
  BY DEF Init, StoreInit, GetJob
<1>2. \A m \in MachineIds : ~Busy(m)
  BY DEF Init, StoreInit, Busy, NoMachine
<1>3. \A s \in Slots : req[s].pc = "idle"
  BY DEF Init, Idle
<1> QED
  BY <1>1, <1>2, <1>3
     DEF SerialInv, JobsHaveMachine, BusyInv, Held, FreshMachine, FreshJob, MidwayOK, MachineEditors, JobHolders, JobWriters

\* What a step of requests served one after another can do to the status of a job.
LEMMA SerialChange ==
  ASSUME Serially, Inv, SerialInv, [Next]_vars, NEW j \in JobIds, GetJob(j), GetJob(j)'
  PROVE  \/ jobs'[j].status = jobs[j].status
         \/ jobs[j].status = "pending" /\ jobs'[j].status = "running"
         \/ /\ jobs'[j].status = "cancelled" /\ jobs[j].status \notin Outcomes
            /\ \E s \in Slots : CancelUpdate(s)
         \/ \E s \in Slots : /\ CompleteUpdate(s) /\ req[s].jid = j
                             /\ req[s].job.status \in Outcomes
                             /\ jobs'[j].status = req[s].job.status
<1> DEFINE Ends == \E s \in Slots : /\ CompleteUpdate(s) /\ req[s].jid = j
                                    /\ req[s].job.status \in Outcomes
                                    /\ jobs'[j].status = req[s].job.status
           Goal == \/ jobs'[j].status = jobs[j].status
                   \/ jobs[j].status = "pending" /\ jobs'[j].status = "running"
                   \/ /\ jobs'[j].status = "cancelled" /\ jobs[j].status \notin Outcomes
                      /\ \E s \in Slots : CancelUpdate(s)
                   \/ Ends
<1>0. jobs \in [JobIds -> JobRow]
  BY DEF Inv, TypeOK, StoreTypeOK
<1>1. ASSUME jobs'[j] = jobs[j] PROVE Goal
  BY <1>1
<1>2. ASSUME NEW s \in Slots, NEW row, jobs' = UpdateJob(req[s].jid, row)
      PROVE  jobs'[j] = jobs[j] \/ (j = req[s].jid /\ jobs'[j] = row)
  BY <1>0, <1>2 DEF UpdateJob
<1>3. ASSUME NEW s \in Slots, CompleteUpdate(s) PROVE Goal
  <2>1. req[s].job.status \in Outcomes
    BY <1>3, FrameKnown DEF CompleteUpdate, At, FreshJob, JobHolders, JobWriters
  <2>2. jobs'[j] = jobs[j] \/ (j = req[s].jid /\ jobs'[j] = req[s].job)
    BY <1>2, <1>3 DEF CompleteUpdate, WriteJobs
  <2> QED
    BY <1>3, <2>1, <2>2
<1>4. ASSUME NEW s \in Slots, CancelUpdate(s) PROVE Goal
  <2>1. req[s].job.status = "cancelled" /\ jobs[req[s].jid].status \notin Outcomes
    BY <1>4, FrameKnown DEF CancelUpdate, At, FreshJob, JobHolders, JobWriters
  <2>2. jobs'[j] = jobs[j] \/ (j = req[s].jid /\ jobs'[j] = req[s].job)
    BY <1>2, <1>4 DEF CancelUpdate, WriteJobs
  <2> QED
    BY <1>4, <2>1, <2>2
<1>5. ASSUME NEW s \in Slots, PollClaim(s) PROVE Goal
  <2>1. req[s].job \in JobRow /\ jobs[req[s].jid].status = "pending"
    BY <1>5, FrameKnown DEF PollClaim, At, FreshJob, JobHolders
  <2>2. Started(req[s].job).status = "running"
    BY <2>1 DEF Started, JobRow
  <2>3. jobs'[j] = jobs[j] \/ (j = req[s].jid /\ jobs'[j] = Started(req[s].job))
    BY <1>2, <1>5 DEF PollClaim, WriteJobs
  <2> QED
    BY <2>1, <2>2, <2>3
<1>6. ASSUME NEW s \in Slots, ProgressUpdate(s) PROVE Goal
  <2>1. \/ req[s].job.status = jobs[req[s].jid].status
        \/ req[s].job.status = "running" /\ jobs[req[s].jid].status = "pending"
    BY <1>6, FrameKnown DEF ProgressUpdate, At, FreshJob, JobHolders, JobWriters
  <2>2. jobs'[j] = jobs[j] \/ (j = req[s].jid /\ jobs'[j] = req[s].job)
    BY <1>2, <1>6 DEF ProgressUpdate, WriteJobs
  <2> QED
    BY <2>1, <2>2
<1>7. ASSUME NEW s \in Slots, JobDelete(s) PROVE jobs'[j] = jobs[j]
  BY <1>0, <1>7 DEF JobDelete, WriteJobs, DeleteJob, GetJob
<1>8. ASSUME NEW s \in Slots, CreateInsert(s) PROVE jobs'[j] = jobs[j]
  <2>1. j # lastJob + 1
    BY MaxJobsIsNat DEF Inv, TypeOK, StoreTypeOK, JobTableInv, JobIds
  <2> QED
    BY <1>0, <1>8, <2>1 DEF CreateInsert, InsertJob
<1>9. ASSUME NEW m \in MachineIds, RemoveMachine(m) PROVE jobs'[j] = jobs[j]
  BY <1>0, <1>9 DEF RemoveMachine, JobsWithout, GetJob
<1>10. ASSUME ConsoleMachine PROVE jobs'[j] = jobs[j]
  BY <1>9, <1>10
     DEF ConsoleMachine, CreateMachine, NewMachine, SetBoot, EditLoad, EditPut, DetectRead,
         WriteMachines, storeVars
<1>11. ASSUME NEW s \in Slots, ConsoleMachineStep(s) PROVE jobs'[j] = jobs[j]
  BY <1>11 DEF ConsoleMachineStep, EditUpsert, DetectUpsert, WriteMachines, storeVars
<1>12. ASSUME ConsoleJob \/ AgentCall \/ Environment \/ UNCHANGED vars PROVE jobs'[j] = jobs[j]
  <2>1. ConsoleJob => jobs' = jobs
    BY DEF ConsoleJob, CreateInstall, CreateStress, CancelRead, DeleteRead, storeVars
  <2>2. AgentCall => jobs' = jobs
    BY DEF AgentCall, Register, PollNext, ProgressRead, CompleteRead, storeVars
  <2>3. Environment => jobs' = jobs
    BY DEF Environment, ServeWinPE, DropImage, PutImage, Crash, StoreFails, storeVars
  <2> QED
    BY <1>12, <2>1, <2>2, <2>3 DEF vars
<1>13. ASSUME NEW s \in Slots, ConsoleJobStep(s) PROVE Goal
  <2>1. CreateStatus(s) \/ CreateBoot(s) \/ ReleaseRead(s) \/ ReleaseCheck(s) \/ ReleaseSet(s) => jobs' = jobs
    BY DEF CreateStatus, CreateBoot, ReleaseRead, ReleaseCheck, ReleaseSet, WriteMachines, storeVars
  <2> HIDE DEF Goal
  <2> QED
    BY <1>1, <1>4, <1>7, <1>8, <1>13, <2>1 DEF ConsoleJobStep
<1>14. ASSUME NEW s \in Slots, AgentStep(s) PROVE Goal
  <2>1. ASSUME \/ \E m \in MachineIds : RegisterInsert(s, m)
               \/ RegisterTouch(s) \/ RegisterReread(s) \/ RegisterRename(s)
               \/ PollImage(s) \/ PollReply(s) \/ CompleteStatus(s) \/ CompleteBoot(s)
        PROVE  jobs' = jobs
    BY <2>1 DEF RegisterInsert, NewMachine, RegisterTouch, RegisterReread, RegisterRename, PollImage, PollReply,
           CompleteStatus, CompleteBoot, WriteMachines, storeVars
  <2> HIDE DEF Goal
  <2> QED
    BY <1>1, <1>3, <1>5, <1>6, <1>14, <2>1 DEF AgentStep
<1> HIDE DEF Goal
<1>15. Goal
  BY <1>1, <1>10, <1>11, <1>12, <1>13, <1>14 DEF Next
<1> QED
  BY <1>15 DEF Goal

\* The strengthened invariant of requests served one after another.
LEMMA SerialInvariance ==
  ASSUME Serially
  PROVE  Spec => []SerialInv
<1>1. Inv /\ SerialInv /\ [Next]_vars => SerialInv'
  BY SerialStep
<1> QED
  BY <1>1, SerialInit, Invariance, PTL DEF Spec

\* Served one after another, for any number of machines, images, jobs and open edit forms:
\* a machine that is shown as installing or stressing has a job that is pending or running,
\* unless an outdated form was what last set its status.
THEOREM BusyMachinesHaveJobs ==
  ASSUME Serially
  PROVE  Spec => []BusyMachineHasJob
<1>1. SerialInv => BusyMachineHasJob
  <2> SUFFICES ASSUME SerialInv, AllIdle, NEW m \in MachineIds, Held(m) PROVE HasActiveJob(m)
    BY DEF BusyMachineHasJob, Held, Busy
  <2>1. ~Releasing(m)
    BY DEF Releasing, AllIdle, Idle
  <2> QED
    BY <2>1 DEF SerialInv, BusyInv
<1> QED
  BY <1>1, SerialInvariance, PTL

\* Served one after another, no request leaves a job behind whose machine is gone.
THEOREM JobsAlwaysHaveMachine ==
  ASSUME Serially
  PROVE  Spec => []JobsHaveMachine
<1>1. SerialInv => JobsHaveMachine
  BY DEF SerialInv
<1> QED
  BY <1>1, SerialInvariance, PTL

\* Served one after another, an installation turns succeeded when its machine is already
\* provisioned and set to boot its disk.
THEOREM SuccessComesLast ==
  ASSUME Serially
  PROVE  Spec => SuccessAfterMachine
<1> DEFINE Last == \A j \in JobIds :
             LET m == jobs[j].mid IN
             /\ jobs[j].status # "succeeded" /\ jobs'[j].status = "succeeded"
             /\ jobs[j].type = "install"
             => machines[m].status = "provisioned" /\ machines[m].boot = "disk"
<1>1. Inv /\ SerialInv /\ [Next]_vars => [Last]_vars
  <2> SUFFICES ASSUME Inv, SerialInv, [Next]_vars, NEW j \in JobIds,
                      jobs[j].status # "succeeded", jobs'[j].status = "succeeded", jobs[j].type = "install"
               PROVE  Shown(jobs[j].mid, "provisioned", "disk")
    BY DEF Shown
  <2>1. GetJob(j) /\ GetJob(j)'
    BY DEF GetJob, NoJob
  <2>2. PICK s \in Slots : CompleteUpdate(s) /\ req[s].jid = j /\ req[s].job.status = "succeeded"
    BY <2>1, SerialChange
  <2>3. req[s].pc = "CompleteUpdate" /\ req[s].job.mid = jobs[j].mid /\ req[s].job.type = "install"
    BY <2>2, FrameKnown DEF CompleteUpdate, At, FreshJob, JobHolders, JobWriters
  <2> QED
    BY <2>2, <2>3, FrameKnown DEF MidwayOK
<1> QED
  BY <1>1, SerialInvariance, Invariance, PTL DEF Spec, SuccessAfterMachine

\* Served one after another, requests never make a job that is over pending or running
\* again, never cancel one that succeeded or failed, and run a job only from pending; a
\* report may still turn one outcome into another.
THEOREM SerialLifecycleImplemented ==
  ASSUME Serially
  PROVE  Spec => SerialLifecycle
<1>1. Init => Serial!Init
  <2>1. Init => \A j \in JobIds : LifeOf(j) = "unborn"
    BY MaxJobsIsNat DEF Init, StoreInit, LifeOf, JobIds
  <2> QED
    BY <2>1 DEF Serial!Init
<1>2. Inv /\ Inv' /\ SerialInv /\ [Next]_vars => [Serial!Next]_Life
  <2> SUFFICES ASSUME Inv, Inv', SerialInv, [Next]_vars PROVE [Serial!Next]_Life
    OBVIOUS
  <2>1. [Racing!Next]_Life
    BY LifecycleStep
  <2>2. Serial!Statuses = JobStatuses
    BY DEF JobStatuses, ActiveStatuses, FinalStatuses, Serial!Statuses
  <2>3. ASSUME NEW j \in JobIds, NEW st \in JobStatuses, Racing!Move(j, st)
        PROVE  [Serial!Next]_Life
    <3>1. /\ Life' = [Life EXCEPT ![j] = st] /\ st # "pending"
          /\ LifeOf(j) \in JobStatuses /\ LifeOf(j)' = st
      BY <2>3 DEF Racing!Move, RacingEdges, Life
    <3>2. LifeOf(j) \notin {"unborn", "deleted"} /\ st \notin {"unborn", "deleted"}
      BY <3>1 DEF JobStatuses, ActiveStatuses, FinalStatuses
    <3>3. GetJob(j) /\ LifeOf(j) = jobs[j].status
      BY <3>2 DEF LifeOf, GetJob, NoJob
    <3>4. GetJob(j)' /\ st = jobs'[j].status
      BY <3>1, <3>2 DEF LifeOf, GetJob, NoJob
    <3>5. \/ st = jobs[j].status
          \/ jobs[j].status = "pending" /\ st = "running"
          \/ st = "cancelled" /\ jobs[j].status \notin Outcomes
          \/ st \in Outcomes
      BY <3>3, <3>4, SerialChange DEF Outcomes
    <3>6. CASE st = jobs[j].status
      BY <3>1, <3>3, <3>6 DEF Life
    <3>7. CASE st # jobs[j].status
      <4>1. <<LifeOf(j), st>> \in SerialEdges
        BY <3>1, <3>3, <3>5, <3>7 DEF SerialEdges, JobStatuses, ActiveStatuses, FinalStatuses, Outcomes
      <4>2. Serial!Move(j, st)
        BY <3>1, <4>1 DEF Serial!Move, Life
      <4> QED
        BY <2>2, <4>2 DEF Serial!Next
    <3> QED
      BY <3>6, <3>7
  <2>4. ASSUME NEW j \in JobIds, Racing!Create(j) PROVE [Serial!Next]_Life
    BY <2>4 DEF Racing!Create, Serial!Create, Serial!Next, Life
  <2>5. ASSUME NEW J \in SUBSET JobIds, Racing!Delete(J) PROVE [Serial!Next]_Life
    <3>1. Serial!Delete(J)
      BY <2>2, <2>5, SameStatuses DEF Racing!Delete, Serial!Delete, Life
    <3> QED
      BY <3>1 DEF Serial!Next
  <2> QED
    BY <2>1, <2>3, <2>4, <2>5, SameStatuses DEF Racing!Next
<1> QED
  BY <1>1, <1>2, SerialInvariance, Invariance, PTL DEF Spec, SerialLifecycle, Serial!Spec, Life
=============================================================================
