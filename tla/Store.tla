-------------------------------- MODULE Store --------------------------------
(***************************************************************************)
(* The SQLite store of the control plane (internal/store/store.go): the    *)
(* tables machines, jobs and images.  Every Store method holds the one     *)
(* mutex of the store from its first line to its last, so a method is one  *)
(* atomic step; a handler that calls several methods is not.               *)
(*                                                                         *)
(* An operator here is one method.  A method that reads is an expression,  *)
(* a method that writes gives the next value of its table.  A row that is  *)
(* not in its table is NoMachine, NoJob or "absent".                       *)
(*                                                                         *)
(* Here and in the other modules, an operator marked "Faulty" is a bug the *)
(* code could have had.  No specification uses it: it is there to be put   *)
(* in place of the operator that follows it, to see a property fail.       *)
(***************************************************************************)
EXTENDS Naturals, FiniteSets

CONSTANTS
  MachineIds,  \* the ids NewID("m") can hand out
  MACs,        \* MAC addresses of the servers to provision
  ImageIds,    \* ids of registered operating system images
  MaxJobs      \* bound: how many jobs are ever created

ASSUME MaxJobsIsNat == MaxJobs \in Nat
ASSUME NoneIsNoId == "none" \notin MachineIds

VARIABLES
  machines,    \* machine table: id -> row
  registered,  \* machine ids handed out so far
  jobs,        \* job table: id -> row; ids count up in order of creation
  lastJob,     \* newest job id handed out
  images       \* image table: id -> what IsWindows says of the row

storeVars == <<machines, registered, jobs, lastJob, images>>

JobIds == 1 .. MaxJobs

MachineStatuses ==
  {"discovered", "ready", "installing", "stressing", "provisioned", "error"}
BootModes == {"ramos", "pxe", "disk"}
ActiveStatuses == {"pending", "running"}
FinalStatuses == {"succeeded", "failed", "cancelled"}
JobStatuses == ActiveStatuses \cup FinalStatuses
ImageKinds == {"linux", "windows"}

\* The columns the control flow depends on.
MachineRow == [status : MachineStatuses \cup {"none"},
               boot   : BootModes \cup {"none"},
               mac    : MACs \cup {"none"}]
JobRow == [status   : JobStatuses \cup {"none"},
           type     : {"install", "stress", "none"},
           mid      : MachineIds \cup {"none"},
           img      : ImageIds \cup {"none"},
           started  : BOOLEAN,
           finished : BOOLEAN]

NoMachine == [status |-> "none", boot |-> "none", mac |-> "none"]
NoJob == [status |-> "none", type |-> "none", mid |-> "none", img |-> "none",
          started |-> FALSE, finished |-> FALSE]

StoreTypeOK ==
  /\ machines \in [MachineIds -> MachineRow]
  /\ registered \subseteq MachineIds
  /\ jobs \in [JobIds -> JobRow]
  /\ lastJob \in 0 .. MaxJobs
  /\ images \in [ImageIds -> ImageKinds \cup {"absent"}]

\* A new database file, in which images were already registered or not.
StoreInit ==
  /\ machines = [m \in MachineIds |-> NoMachine]
  /\ registered = {}
  /\ jobs = [j \in JobIds |-> NoJob]
  /\ lastJob = 0
  /\ images \in [ImageIds -> ImageKinds \cup {"absent"}]

-----------------------------------------------------------------------------
(* Machines.                                                               *)

GetMachine(m) == m \in MachineIds /\ machines[m] # NoMachine

MachineByMAC(mac) == {m \in MachineIds : GetMachine(m) /\ machines[m].mac = mac}

\* INSERT ... ON CONFLICT(id) DO UPDATE of every column: the row is written
\* whole whether or not it is (still) there.  The column mac is UNIQUE.
UpsertConflict(m, row) == \E n \in MachineByMAC(row.mac) : n # m
UpsertMachine(m, row) ==
  IF UpsertConflict(m, row) THEN machines ELSE [machines EXCEPT ![m] = row]

\* UPDATE ... WHERE id=?: nothing happens when the row is gone.
SetMachineStatus(m, st) ==
  IF GetMachine(m) THEN [machines EXCEPT ![m].status = st] ELSE machines
SetBootMode(m, mode) ==
  IF GetMachine(m) THEN [machines EXCEPT ![m].boot = mode] ELSE machines
TouchMachine(m, st) == SetMachineStatus(m, st)

\* Both tables, under one lock.
DeleteMachine(m) == [machines EXCEPT ![m] = NoMachine]
\* Faulty: the jobs of the machine stay behind.
JobsLeftBehind(m) == jobs
JobsWithout(m) == [j \in JobIds |-> IF jobs[j].mid = m THEN NoJob ELSE jobs[j]]

-----------------------------------------------------------------------------
(* Jobs.                                                                   *)

GetJob(j) == jobs[j] # NoJob

InsertJob(row) == [jobs EXCEPT ![lastJob + 1] = row]

\* Faulty: the row comes back, as with INSERT ... ON CONFLICT DO UPDATE.
UpsertJob(j, row) == [jobs EXCEPT ![j] = row]

\* Faulty: finished_at is missing from the list of columns.
UpdateJobUnfinished(j, row) ==
  IF GetJob(j) THEN [jobs EXCEPT ![j] = [row EXCEPT !.finished = jobs[j].finished]] ELSE jobs

\* UPDATE of every mutable column WHERE id=?: a deleted job stays deleted,
\* and whatever another request wrote since the copy was read is lost.
UpdateJob(j, row) == IF GetJob(j) THEN [jobs EXCEPT ![j] = row] ELSE jobs

DeleteJob(j) == [jobs EXCEPT ![j] = NoJob]

\* Jobs of a machine; created_at orders them as their ids do.
JobsOf(m) == {j \in JobIds : jobs[j].mid = m /\ GetJob(j)}

PendingJobs(m) == {j \in JobsOf(m) : jobs[j].status = "pending"}

\* The oldest pending job: ORDER BY created_at ASC LIMIT 1.
NextPendingJob(m) == {j \in PendingJobs(m) : \A k \in PendingJobs(m) : j <= k}

HasActiveJob(m) == \E j \in JobsOf(m) : jobs[j].status \in ActiveStatuses

\* The newest jobs first, at most limit of them.
ListJobs(m, limit) ==
  {j \in JobsOf(m) : Cardinality({k \in JobsOf(m) : k > j}) < limit}

-----------------------------------------------------------------------------
(* Images.                                                                 *)

GetImage(i) == i \in ImageIds /\ images[i] # "absent"
IsWindows(i) == i \in ImageIds /\ images[i] = "windows"
=============================================================================
