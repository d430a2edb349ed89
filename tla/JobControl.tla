------------------------------ MODULE JobControl ------------------------------
(***************************************************************************)
(* The HTTP handlers of the control plane that move machines and jobs      *)
(* (internal/server/server.go).  A handler runs in a goroutine of its own: *)
(* it reads rows into local copies, changes the copies and writes them     *)
(* back, one Store call at a time and without a transaction.  req[s] is    *)
(* the handler running in slot s: where it stands (pc) and its copies.     *)
(* With one slot the requests are served one after another, with more they *)
(* interleave between any two Store calls.  Either way a page of the web   *)
(* console (web/app.js) may show what was read long ago: form[t] is the    *)
(* edit form open in tab t.                                                *)
(***************************************************************************)
EXTENDS Store

CONSTANTS
  Slots,      \* handlers that can run at the same time
  Tabs,       \* bound: how many edit forms can be open at the same time
  Requests,   \* the kinds of request that arrive
  ListLimit   \* how many jobs WindowsInstall looks at (40 in the code)

VARIABLES
  req,        \* the handler running in each slot
  form,       \* the edit form in each tab: a machine and the status it then had
  issued,     \* history: jobs whose id was sent to an agent or to WinPE
  installed,  \* history: machines whose client reported a successful install
  stale       \* history: machines whose status was last set by an outdated form

vars == <<machines, registered, jobs, lastJob, images, req, form, issued, installed, stale>>

Steps == {"idle", "EditUpsert", "DetectUpsert",
          "CreateInsert", "CreateStatus", "CreateBoot",
          "CancelUpdate", "JobDelete", "ReleaseRead", "ReleaseCheck", "ReleaseSet",
          "RegisterInsert", "RegisterTouch", "RegisterReread", "RegisterRename",
          "PollImage", "PollClaim", "PollReply", "ProgressUpdate",
          "CompleteStatus", "CompleteBoot", "CompleteUpdate"}

\* pc, and the handler's locals: the machine (mid) with the copy of its row,
\* the job (jid) with the copy of its row.
Frame == [pc  : Steps,
          mid : MachineIds \cup {"none"},
          row : MachineRow,
          jid : 0 .. MaxJobs,
          job : JobRow]

Idle == [pc |-> "idle", mid |-> "none", row |-> NoMachine, jid |-> 0, job |-> NoJob]
NoForm == [mid |-> "none", status |-> "none"]
WithMachine(pc, m, row) == [Idle EXCEPT !.pc = pc, !.mid = m, !.row = row]
WithJob(pc, j, row) == [Idle EXCEPT !.pc = pc, !.jid = j, !.job = row]

TypeOK ==
  /\ StoreTypeOK
  /\ req \in [Slots -> Frame]
  /\ form \in [Tabs -> [mid : MachineIds \cup {"none"}, status : MachineStatuses \cup {"none"}]]
  /\ issued \subseteq JobIds
  /\ installed \subseteq MachineIds
  /\ stale \subseteq MachineIds

Init ==
  /\ StoreInit
  /\ req = [s \in Slots |-> Idle]
  /\ form = [t \in Tabs |-> NoForm]
  /\ issued = {} /\ installed = {} /\ stale = {}

-----------------------------------------------------------------------------
Start(kind, s, f) ==
  /\ kind \in Requests
  /\ req[s] = Idle
  /\ req' = [req EXCEPT ![s] = f]

At(s, pc) == req[s].pc = pc
Goto(s, pc) == req' = [req EXCEPT ![s].pc = pc]
Done(s) == req' = [req EXCEPT ![s] = Idle]

\* The bounds: every handler that will insert a row has an id left for it.
Heading(pc) == Cardinality({s \in Slots : At(s, pc)})
RoomForJob == lastJob + Heading("CreateInsert") < MaxJobs
RoomForMachine ==
  Cardinality(registered) + Heading("RegisterInsert") < Cardinality(MachineIds)

\* A handler whose only store write is atomic with its last read.
Quick(kind) ==
  /\ kind \in Requests
  /\ \E s \in Slots : req[s] = Idle
  /\ UNCHANGED req

WriteMachines(t) == machines' = t /\ UNCHANGED <<registered, jobs, lastJob, images>>
WriteJobs(t) == jobs' = t /\ UNCHANGED <<machines, registered, lastJob, images>>
KeepHistory == UNCHANGED <<form, issued, installed, stale>>
FreshStatus(m) == stale' = stale \ {m} /\ UNCHANGED <<form, issued, installed>>

NewMachine(m, row) ==
  /\ m \notin registered
  /\ machines' = UpsertMachine(m, row)
  /\ registered' = registered \cup {m}
  /\ UNCHANGED <<jobs, lastJob, images>>

-----------------------------------------------------------------------------
(* Machines, from the web console.                                         *)

\* createMachine: the console's form sends status "ready" for a new machine.
CreateMachine(m, mac, boot) ==
  /\ Quick("machine")
  /\ RoomForMachine
  /\ NewMachine(m, [status |-> "ready", boot |-> boot, mac |-> mac])
  /\ KeepHistory

\* deleteMachine.
RemoveMachine(m) ==
  /\ Quick("removeMachine")
  /\ GetMachine(m)
  /\ machines' = DeleteMachine(m)
  /\ jobs' = JobsWithout(m)
  /\ UNCHANGED <<registered, lastJob, images>>
  /\ KeepHistory

\* setBoot and pxeInstall, once the BMC has accepted the command.
SetBoot(m, mode) ==
  /\ Quick("boot")
  /\ GetMachine(m)
  /\ WriteMachines(SetBootMode(m, mode))
  /\ KeepHistory

\* machineForm: the form is filled from a machine list that was loaded by a
\* request of its own (GET /machines), and stays open as long as one likes.
EditLoad(t, m) ==
  /\ Quick("edit")
  /\ GetMachine(m)
  /\ form' = [form EXCEPT ![t] = [mid |-> m, status |-> machines[m].status]]
  /\ UNCHANGED <<storeVars, issued, installed, stale>>

\* The MAC address a PUT leaves: the one the form was filled with or, where the
\* field is empty, the one of the row, which are the same unless somebody gave
\* the machine another address ("readdress").
FormMACs(m) ==
  {machines[m].mac} \cup (IF "readdress" \in Requests THEN MACs ELSE {})

\* updateMachine: GetMachine answers 404 for a row that is gone, and the rest of
\* the row is the form's ...
EditPut(s, t, boot) ==
  LET m == form[t].mid IN
  /\ GetMachine(m)
  /\ \E mac \in FormMACs(m) :
       Start("edit", s, WithMachine("EditUpsert", m,
                          [status |-> form[t].status, boot |-> boot, mac |-> mac]))
  /\ UNCHANGED storeVars
  /\ KeepHistory

\* ... which UpsertMachine writes, unless the MAC address is another machine's.
EditUpsert(s) ==
  /\ At(s, "EditUpsert")
  /\ WriteMachines(UpsertMachine(req[s].mid, req[s].row))
  /\ stale' = stale \cup {m \in MachineIds : machines'[m].status # machines[m].status}
  /\ Done(s)
  /\ UNCHANGED <<form, issued, installed>>

\* detectMachine reads the row, asks the BMC for its inventory (a slow call
\* that may fail) and writes the whole row back.
DetectRead(s, m) ==
  /\ GetMachine(m)
  /\ Start("detect", s, WithMachine("DetectUpsert", m, machines[m]))
  /\ UNCHANGED storeVars
  /\ KeepHistory

DetectUpsert(s) ==
  /\ At(s, "DetectUpsert")
  /\ \/ WriteMachines(UpsertMachine(req[s].mid, req[s].row))
     \/ UNCHANGED storeVars
  /\ Done(s)
  /\ KeepHistory

-----------------------------------------------------------------------------
(* Jobs, from the web console.                                             *)

NewJob(type, m, i) ==
  [NoJob EXCEPT !.status = "pending", !.type = type, !.mid = m, !.img = i]
Started(row) == [row EXCEPT !.status = "running", !.started = TRUE]
Finished(row, st) == [row EXCEPT !.status = st, !.finished = TRUE]

\* createInstall, up to InsertJob: the machine and the image must exist.
CreateInstall(s, m, i) ==
  /\ RoomForJob
  /\ GetMachine(m)
  /\ GetImage(i)
  /\ Start("install", s, WithJob("CreateInsert", 0, NewJob("install", m, i)))
  /\ UNCHANGED storeVars
  /\ KeepHistory

\* createStress, up to InsertJob.
CreateStress(s, m) ==
  /\ RoomForJob
  /\ GetMachine(m)
  /\ Start("stress", s, WithJob("CreateInsert", 0, NewJob("stress", m, "none")))
  /\ UNCHANGED storeVars
  /\ KeepHistory

\* InsertJob: no check that the machine is free, or still there.
CreateInsert(s) ==
  /\ At(s, "CreateInsert")
  /\ lastJob < MaxJobs
  /\ jobs' = InsertJob(req[s].job)
  /\ lastJob' = lastJob + 1
  /\ UNCHANGED <<machines, registered, images>>
  /\ Goto(s, "CreateStatus")
  /\ KeepHistory

CreateStatus(s) ==
  LET j == req[s].job IN
  /\ At(s, "CreateStatus")
  /\ IF j.type = "install"
     THEN /\ WriteMachines(SetMachineStatus(j.mid, "installing"))
          /\ Goto(s, "CreateBoot")
     ELSE /\ WriteMachines(SetMachineStatus(j.mid, "stressing"))
          /\ Done(s)
  /\ FreshStatus(j.mid)

CreateBoot(s) ==
  /\ At(s, "CreateBoot")
  /\ WriteMachines(SetBootMode(req[s].job.mid, "ramos"))
  /\ Done(s)
  /\ KeepHistory

\* Faulty: the time of the cancellation is not recorded.
CancelReadUntimed(s, j) ==
  /\ GetJob(j)
  /\ jobs[j].status \notin {"succeeded", "failed"}
  /\ Start("cancel", s, WithJob("CancelUpdate", j, [jobs[j] EXCEPT !.status = "cancelled"]))
  /\ UNCHANGED storeVars
  /\ KeepHistory

\* cancelJob: only a job that succeeded or failed is refused.
CancelRead(s, j) ==
  /\ GetJob(j)
  /\ jobs[j].status \notin {"succeeded", "failed"}
  /\ Start("cancel", s, WithJob("CancelUpdate", j, Finished(jobs[j], "cancelled")))
  /\ UNCHANGED storeVars
  /\ KeepHistory

CancelUpdate(s) ==
  /\ At(s, "CancelUpdate")
  /\ WriteJobs(UpdateJob(req[s].jid, req[s].job))
  /\ Goto(s, "ReleaseRead")
  /\ KeepHistory

\* deleteJob: the row is read for the id of its machine.
DeleteRead(s, j) ==
  /\ GetJob(j)
  /\ Start("delete", s, WithJob("JobDelete", j, jobs[j]))
  /\ UNCHANGED storeVars
  /\ KeepHistory

JobDelete(s) ==
  /\ At(s, "JobDelete")
  /\ WriteJobs(DeleteJob(req[s].jid))
  /\ IF GetJob(req[s].jid) THEN Goto(s, "ReleaseRead") ELSE Done(s)
  /\ KeepHistory

\* Faulty: a stress test does not count.
ReleaseReadInstalling(s) ==
  LET m == req[s].job.mid IN
  /\ At(s, "ReleaseRead")
  /\ IF GetMachine(m) /\ machines[m].status = "installing" THEN Goto(s, "ReleaseCheck") ELSE Done(s)
  /\ UNCHANGED storeVars
  /\ KeepHistory

\* releaseMachineIfIdle, one Store call per step.
ReleaseRead(s) ==
  LET m == req[s].job.mid IN
  /\ At(s, "ReleaseRead")
  /\ IF GetMachine(m) /\ machines[m].status \in {"installing", "stressing"}
     THEN Goto(s, "ReleaseCheck") ELSE Done(s)
  /\ UNCHANGED storeVars
  /\ KeepHistory

ReleaseCheck(s) ==
  /\ At(s, "ReleaseCheck")
  /\ IF HasActiveJob(req[s].job.mid) THEN Done(s) ELSE Goto(s, "ReleaseSet")
  /\ UNCHANGED storeVars
  /\ KeepHistory

ReleaseSet(s) ==
  /\ At(s, "ReleaseSet")
  /\ WriteMachines(SetMachineStatus(req[s].job.mid, "ready"))
  /\ Done(s)
  /\ FreshStatus(req[s].job.mid)

-----------------------------------------------------------------------------
(* The agent in RAMOS.                                                     *)

Discovered(mac) == [status |-> "discovered", boot |-> "ramos", mac |-> mac]

\* agentRegister (agentHeartbeat too): the row of the MAC decides the branch.  A
\* look-up that fails is taken for a machine that is not known.
Register(s, mac) ==
  /\ \/ /\ MachineByMAC(mac) = {} \/ "storeError" \in Requests
        /\ RoomForMachine
        /\ Start("register", s, WithMachine("RegisterInsert", "none", Discovered(mac)))
     \/ \E m \in MachineByMAC(mac) :
          Start("register", s, WithMachine("RegisterTouch", m, machines[m]))
  /\ UNCHANGED storeVars
  /\ KeepHistory

\* A machine nobody registered; another row may have taken the MAC by now.
RegisterInsert(s, m) ==
  /\ At(s, "RegisterInsert")
  /\ NewMachine(m, req[s].row)
  /\ Done(s)
  /\ KeepHistory

\* TouchMachine writes the status that was read back with the inventory.
RegisterTouch(s) ==
  /\ At(s, "RegisterTouch")
  /\ WriteMachines(TouchMachine(req[s].mid, req[s].row.status))
  /\ Goto(s, "RegisterReread")
  /\ KeepHistory

\* GetMachine again: the inventory may give the machine a better name, and
\* then the row is upserted whole.
RegisterReread(s) ==
  LET m == req[s].mid IN
  /\ At(s, "RegisterReread")
  /\ \/ Done(s)
     \/ /\ GetMachine(m)
        /\ req' = [req EXCEPT ![s] = WithMachine("RegisterRename", m, machines[m])]
  /\ UNCHANGED storeVars
  /\ KeepHistory

RegisterRename(s) ==
  /\ At(s, "RegisterRename")
  /\ WriteMachines(UpsertMachine(req[s].mid, req[s].row))
  /\ Done(s)
  /\ KeepHistory

\* agentJob: the oldest pending job of the machine, which was there when the
\* handler looked it up and may be gone by now.
PollNext(s, m) ==
  /\ m \in registered
  /\ \E j \in NextPendingJob(m) :
       Start("poll", s, WithJob("PollImage", j, jobs[j]))
  /\ UNCHANGED storeVars
  /\ KeepHistory

\* A Windows job is not for the agent: it is told there is no job.
PollImage(s) ==
  /\ At(s, "PollImage")
  /\ IF IsWindows(req[s].job.img) THEN Done(s) ELSE Goto(s, "PollClaim")
  /\ UNCHANGED storeVars
  /\ KeepHistory

PollClaim(s) ==
  LET claimed == Started(req[s].job) IN
  /\ At(s, "PollClaim")
  /\ WriteJobs(UpdateJob(req[s].jid, claimed))
  /\ req' = [req EXCEPT ![s] = WithJob("PollReply", req[s].jid, claimed)]
  /\ KeepHistory

\* The reply carries the job and its image as it is now.  It may never arrive.
PollReply(s) ==
  /\ At(s, "PollReply")
  /\ issued' \in {issued, issued \cup {req[s].jid}}
  /\ Done(s)
  /\ UNCHANGED <<storeVars, form, installed, stale>>

\* Faulty: whatever the job was, it is running now.
ProgressedAlways(row) == Started(row)

\* A report makes a pending job running and leaves any other status alone.
Progressed(row) == IF row.status = "pending" THEN Started(row) ELSE row

\* agentProgress, from whoever was given the job's id.
ProgressRead(s, j) ==
  /\ j \in issued
  /\ GetJob(j)
  /\ Start("progress", s, WithJob("ProgressUpdate", j, Progressed(jobs[j])))
  /\ UNCHANGED storeVars
  /\ KeepHistory

ProgressUpdate(s) ==
  /\ At(s, "ProgressUpdate")
  /\ WriteJobs(UpdateJob(req[s].jid, req[s].job))
  /\ Done(s)
  /\ KeepHistory

Outcome(ok) == IF ok THEN "succeeded" ELSE "failed"

\* agentComplete: no status of the job is refused.
CompleteRead(s, j, ok) ==
  /\ j \in issued
  /\ GetJob(j)
  /\ Start("complete", s, WithJob("CompleteStatus", j, Finished(jobs[j], Outcome(ok))))
  /\ installed' = IF ok /\ jobs[j].type = "install"
                  THEN installed \cup {jobs[j].mid} ELSE installed
  /\ UNCHANGED <<storeVars, form, issued, stale>>

\* Faulty: provisioned is a matter of the type of the job, not of its outcome.
CompleteStatusByType(s) ==
  LET j == req[s].job IN
  /\ At(s, "CompleteStatus")
  /\ \/ /\ j.type = "install"
        /\ WriteMachines(SetMachineStatus(j.mid, "provisioned"))
        /\ Goto(s, "CompleteBoot")
     \/ /\ j.type # "install"
        /\ WriteMachines(SetMachineStatus(j.mid, "ready"))
        /\ Goto(s, "CompleteUpdate")
  /\ FreshStatus(j.mid)

\* The machine is written before the job is.
CompleteStatus(s) ==
  LET j == req[s].job IN
  /\ At(s, "CompleteStatus")
  /\ \/ /\ j.status = "succeeded" /\ j.type = "install"
        /\ WriteMachines(SetMachineStatus(j.mid, "provisioned"))
        /\ Goto(s, "CompleteBoot")
     \/ /\ j.status = "succeeded" /\ j.type # "install"
        /\ WriteMachines(SetMachineStatus(j.mid, "ready"))
        /\ Goto(s, "CompleteUpdate")
     \/ /\ j.status = "failed"
        /\ WriteMachines(SetMachineStatus(j.mid, "error"))
        /\ Goto(s, "CompleteUpdate")
  /\ FreshStatus(j.mid)

\* Faulty: the boot mode is left as it was.
CompleteBootKept(s) == At(s, "CompleteBoot") /\ Goto(s, "CompleteUpdate") /\ UNCHANGED storeVars /\ KeepHistory

CompleteBoot(s) ==
  /\ At(s, "CompleteBoot")
  /\ WriteMachines(SetBootMode(req[s].job.mid, "disk"))
  /\ Goto(s, "CompleteUpdate")
  /\ KeepHistory

CompleteUpdate(s) ==
  /\ At(s, "CompleteUpdate")
  /\ WriteJobs(UpdateJob(req[s].jid, req[s].job))
  /\ Done(s)
  /\ KeepHistory

-----------------------------------------------------------------------------
(* Network boot.                                                           *)

\* Faulty: jobs that are over count too.
WindowsJobsAny(m, st) ==
  {j \in ListJobs(m, ListLimit) : jobs[j].type = "install" /\ IsWindows(jobs[j].img)}

\* WindowsInstall: among the newest ListLimit jobs of the machine the oldest
\* pending installation of a Windows image, else the newest running one.
WindowsJobs(m, st) ==
  {j \in ListJobs(m, ListLimit) :
     /\ jobs[j].type = "install"
     /\ jobs[j].status = st
     /\ IsWindows(jobs[j].img)}

WindowsInstall(m) ==
  LET P == WindowsJobs(m, "pending")
      R == WindowsJobs(m, "running")
  IN  IF P # {} THEN {j \in P : \A k \in P : j <= k}
                ELSE {j \in R : \A k \in R : j >= k}

\* Faulty: the boot mode alone decides.
ScriptForMode(m) ==
  IF machines[m].boot = "disk" THEN "local"
  ELSE IF WindowsInstall(m) # {} THEN "winpe" ELSE "ramos"

\* What ScriptForBase answers to the firmware of a machine.
ScriptFor(m) ==
  IF machines[m].boot = "disk" /\ machines[m].status = "provisioned" THEN "local"
  ELSE IF WindowsInstall(m) # {} THEN "winpe"
  ELSE "ramos"

\* serveWindowsIpxeFile: install.cmd carries the id of the job, whatever the
\* boot mode of the machine is by the time WinPE asks for it.
ServeWinPE(m) ==
  /\ Quick("winpe")
  /\ GetMachine(m)
  /\ \E j \in WindowsInstall(m) : issued' = issued \cup {j}
  /\ UNCHANGED <<storeVars, form, installed, stale>>

-----------------------------------------------------------------------------
(* Images come, go, and change kind when they are inspected again.  Any    *)
(* handler that upserts an image copy may bring back a deleted row.        *)

PutImage(i, kind) ==
  /\ Quick("image")
  /\ images' = [images EXCEPT ![i] = kind]
  /\ UNCHANGED <<machines, registered, jobs, lastJob>>
  /\ KeepHistory

DropImage(i) ==
  /\ Quick("image")
  /\ images' = [images EXCEPT ![i] = "absent"]
  /\ UNCHANGED <<machines, registered, jobs, lastJob>>
  /\ KeepHistory

-----------------------------------------------------------------------------
\* The control plane is killed and started again: what handlers were doing
\* is forgotten, what they wrote is not.
Crash ==
  /\ "crash" \in Requests
  /\ req' = [s \in Slots |-> Idle]
  /\ UNCHANGED storeVars
  /\ KeepHistory

\* A Store call that a handler makes fails and leaves the tables alone.  Where
\* the code drops the error the handler goes on as if the call had been done:
\* an image that cannot be read is no Windows image, a job that could not be
\* marked running is sent all the same.  Elsewhere the handler ends there.
AfterFailure(f) ==
  CASE f.pc = "CreateStatus" /\ f.job.type = "install" -> "CreateBoot"
    [] f.pc = "CancelUpdate"  -> "ReleaseRead"
    [] f.pc = "RegisterTouch" -> "RegisterReread"
    [] f.pc = "PollImage"     -> "PollClaim"
    [] f.pc = "PollClaim"     -> "PollReply"
    [] f.pc = "CompleteStatus" /\ f.job.status = "succeeded" /\ f.job.type = "install" -> "CompleteBoot"
    [] f.pc = "CompleteStatus" /\ ~(f.job.status = "succeeded" /\ f.job.type = "install") -> "CompleteUpdate"
    [] f.pc = "CompleteBoot"  -> "CompleteUpdate"
    [] OTHER -> "idle"

StoreFails(s) ==
  /\ "storeError" \in Requests
  /\ req[s].pc \notin {"idle", "PollReply"}
  /\ IF AfterFailure(req[s]) = "idle" THEN Done(s) ELSE Goto(s, AfterFailure(req[s]))
  /\ UNCHANGED storeVars
  /\ KeepHistory

ConsoleMachine ==
  \/ \E m \in MachineIds :
       \/ \E mac \in MACs, boot \in BootModes : CreateMachine(m, mac, boot)
       \/ RemoveMachine(m)
       \/ \E mode \in BootModes : SetBoot(m, mode)
       \/ \E t \in Tabs : EditLoad(t, m)
       \/ \E s \in Slots : DetectRead(s, m)
  \/ \E s \in Slots, t \in Tabs, boot \in BootModes : EditPut(s, t, boot)

ConsoleMachineStep(s) == EditUpsert(s) \/ DetectUpsert(s)

ConsoleJob ==
  \E s \in Slots :
    \/ \E m \in MachineIds :
         CreateStress(s, m) \/ \E i \in ImageIds : CreateInstall(s, m, i)
    \/ \E j \in JobIds : CancelRead(s, j) \/ DeleteRead(s, j)

ConsoleJobStep(s) ==
  \/ CreateInsert(s) \/ CreateStatus(s) \/ CreateBoot(s)
  \/ CancelUpdate(s) \/ JobDelete(s)
  \/ ReleaseRead(s) \/ ReleaseCheck(s) \/ ReleaseSet(s)

AgentCall ==
  \E s \in Slots :
    \/ \E mac \in MACs : Register(s, mac)
    \/ \E m \in MachineIds : PollNext(s, m)
    \/ \E j \in JobIds : ProgressRead(s, j) \/ \E ok \in BOOLEAN : CompleteRead(s, j, ok)

AgentStep(s) ==
  \/ \E m \in MachineIds : RegisterInsert(s, m)
  \/ RegisterTouch(s) \/ RegisterReread(s) \/ RegisterRename(s)
  \/ PollImage(s) \/ PollClaim(s) \/ PollReply(s)
  \/ ProgressUpdate(s)
  \/ CompleteStatus(s) \/ CompleteBoot(s) \/ CompleteUpdate(s)

Environment ==
  \/ \E m \in MachineIds : ServeWinPE(m)
  \/ \E i \in ImageIds : DropImage(i) \/ \E kind \in ImageKinds : PutImage(i, kind)
  \/ Crash
  \/ \E s \in Slots : StoreFails(s)

Next ==
  \/ ConsoleMachine \/ ConsoleJob \/ AgentCall \/ Environment
  \/ \E s \in Slots : ConsoleMachineStep(s) \/ ConsoleJobStep(s) \/ AgentStep(s)

Spec == Init /\ [][Next]_vars

-----------------------------------------------------------------------------
(* Properties that hold however requests interleave and whenever the       *)
(* control plane crashes.                                                  *)

\* A job row is never a mixture of two requests' writes: whoever wrote it last,
\* it has a finish time exactly when its status is final, and a start time when
\* it is running.  UpdateJob writes the row whole, from a copy that was so.
WholeRow(row) ==
  /\ row.finished <=> row.status \in FinalStatuses
  /\ row.status = "running" => row.started

JobRowsWhole == \A j \in JobIds : WholeRow(jobs[j])

\* ScriptFor sends a machine to its own disk only after a client reported that
\* an installation on that machine succeeded: no stale copy of a row, rename,
\* detection or edit can make a machine boot a disk nothing was installed on.
LocalBootNeedsInstall ==
  \A m \in MachineIds : ScriptFor(m) = "local" => m \in installed

\* The status of each job as the abstract specification sees it.
LifeOf(j) ==
  IF j > lastJob THEN "unborn"
  ELSE IF jobs[j].status = "none" THEN "deleted" ELSE jobs[j].status

\* Between two racing requests a status may be overwritten with an older one
\* (a cancelled job runs again), but never with pending.
RacingEdges == JobStatuses \X (JobStatuses \ {"pending"})

\* Served one after another, requests never make a job that is over active
\* again, and never cancel one whose outcome was reported.  A report is believed
\* whenever it comes (agentComplete refuses no status): a cancelled job may
\* still succeed or fail, and a second report replaces the first.
SerialEdges ==
  ({"pending"} \X (JobStatuses \ {"pending"}))
    \cup ({"running"} \X FinalStatuses)
    \cup (FinalStatuses \X {"succeeded", "failed"})

Racing == INSTANCE JobLifecycle
            WITH Jobs <- JobIds, Edges <- RacingEdges, life <- [j \in JobIds |-> LifeOf(j)]
Serial == INSTANCE JobLifecycle
            WITH Jobs <- JobIds, Edges <- SerialEdges, life <- [j \in JobIds |-> LifeOf(j)]

\* The job table implements the abstract lifecycle: no handler resurrects a
\* deleted job, reuses an id, or puts a job that was claimed, cancelled or
\* reported on back in the queue of pending jobs.
RacingLifecycle == Racing!Spec

-----------------------------------------------------------------------------
(* Properties of requests served one after another (a single slot).        *)

\* ... and then a job that is over is never pending or running again, and one
\* that reported its outcome is never shown as cancelled (server.go:1209).
SerialLifecycle == Serial!Spec

AllIdle == \A s \in Slots : req[s] = Idle

\* Between requests, a machine shown as installing or stressing has a job that
\* is pending or running: cancelJob and deleteJob release the machine through
\* releaseMachineIfIdle, agentComplete moves it on (docs/deploy.md:920).  The one
\* way to a busy machine without a job is an edit form that was filled before
\* the job ended and is saved after (updateMachine takes the form's status).
BusyMachineHasJob ==
  AllIdle =>
    \A m \in MachineIds :
      machines[m].status \in {"installing", "stressing"} => HasActiveJob(m) \/ m \in stale

\* When an installation turns succeeded, its machine is already provisioned and
\* set to boot its disk: a reader of the job list who reboots the machine right
\* away does not send it back into RAMOS (agentComplete writes the job last).
SuccessAfterMachine ==
  [][\A j \in JobIds :
       LET m == jobs[j].mid IN
       /\ jobs[j].status # "succeeded" /\ jobs'[j].status = "succeeded"
       /\ jobs[j].type = "install"
       => machines[m].status = "provisioned" /\ machines[m].boot = "disk"]_vars

\* Every job in the table belongs to a machine in the table: DeleteMachine takes
\* the jobs along, and a job is only created for a machine that was found.
JobsHaveMachine == \A j \in JobIds : GetJob(j) => GetMachine(jobs[j].mid)

\* A machine with a Windows installation to do boots WinPE, not its disk and not
\* RAMOS (docs/deploy.md:38, 443 and 911).
WindowsJobBootsWinPE ==
  AllIdle =>
    \A m \in MachineIds : WindowsInstall(m) # {} => ScriptFor(m) = "winpe"

-----------------------------------------------------------------------------
(* The inductive invariant behind the first group of properties: what a    *)
(* handler's copies still guarantee however old they are.                  *)

\* The job table: rows are whole, ids are handed out in order, and a row that
\* is there belongs to a machine id that exists or existed.
JobTableInv ==
  \A j \in JobIds :
    /\ WholeRow(jobs[j])
    /\ j > lastJob => ~GetJob(j)
    /\ GetJob(j) => jobs[j].status \in JobStatuses /\ jobs[j].mid \in MachineIds

\* A handler that will write a job row back holds a row that is whole, that is
\* not pending, and that was read under an id already handed out.
JobWriters == {"CancelUpdate", "ProgressUpdate",
               "CompleteStatus", "CompleteBoot", "CompleteUpdate"}
JobReaders == {"PollImage", "PollClaim", "CreateInsert"}

JobCopyOK(f) ==
  /\ f.pc \in JobWriters => WholeRow(f.job) /\ f.job.status \in JobStatuses \ {"pending"}
  /\ f.pc \in JobReaders => WholeRow(f.job) /\ f.job.status = "pending"
  /\ f.pc \in JobWriters \cup {"JobDelete", "PollImage", "PollClaim", "PollReply"} =>
       f.jid \in 1 .. lastJob
  /\ f.pc \in JobWriters \cup JobReaders => f.job.mid \in MachineIds

JobCopyInv == \A s \in Slots : JobCopyOK(req[s])

\* Provisioned, in the table and in every copy of a machine row, goes back to a
\* client that reported success.
ProvisionedCopyOK(f) ==
  /\ f.pc = "RegisterInsert" => f.row.status = "discovered"
  /\ f.row.status = "provisioned" => f.mid \in installed
  /\ /\ f.pc = "CompleteStatus"
     /\ f.job.status = "succeeded" /\ f.job.type = "install"
     => f.job.mid \in installed

ProvisionedInv ==
  /\ \A m \in MachineIds : machines[m].status = "provisioned" => m \in installed
  /\ \A s \in Slots : ProvisionedCopyOK(req[s])

FormInv == \A t \in Tabs : form[t].status = "provisioned" => form[t].mid \in installed

Inv == TypeOK /\ JobTableInv /\ JobCopyInv /\ ProvisionedInv /\ FormInv
=============================================================================
