----------------------------- MODULE Provisioning -----------------------------
(***************************************************************************)
(* A server being provisioned, from firmware to installed system, composed *)
(* with the control plane of JobControl.  Its firmware boots what ScriptFor  *)
(* answers: its own disk, RAMOS with the agent (internal/agent/run.go), or  *)
(* WinPE with install.cmd (internal/provision/windows.go).  The agent and   *)
(* install.cmd make one HTTP call at a time and wait for its answer.  A     *)
(* host is named by the MAC address it boots with.                          *)
(***************************************************************************)
EXTENDS JobControl

CONSTANTS
  Reboot,     \* whether the jobs ask for a reboot at their end
  OneAtATime, \* the operator gives a machine a job only when it has none
  Faults      \* what may happen: "restart", "power", "lost", "slow", "unnoticed"

ASSUME RebootIsBoolean == Reboot \in BOOLEAN
ASSUME OneAtATimeIsBoolean == OneAtATime \in BOOLEAN
ASSUME NoneIsNoSlot == "none" \notin Slots

VARIABLES
  host,  \* what runs on each host
  disk   \* what is on the disk of each host

provVars == <<machines, registered, jobs, lastJob, images, req, form, issued, installed, stale,
              host, disk>>

Hosts == MACs

\* os: what was booted.  pc: where the agent or install.cmd stands.  mid: the
\* machine id the agent learned.  jid, type, ok: the job in hand, its outcome.
\* slot: the handler whose answer is awaited.  reboot: the goroutine that
\* reboots in 3 seconds is running.
Host == [os     : {"down", "local", "ramos", "winpe"},
         pc     : {"off", "register", "poll", "refresh", "fetch", "work", "report",
                   "answers", "complete", "done"},
         mid    : MachineIds \cup {"none"},
         jid    : 0 .. MaxJobs,
         type   : {"install", "stress", "none"},
         ok     : BOOLEAN,
         slot   : Slots \cup {"none"},
         reboot : BOOLEAN]

\* content: a system installed whole by job "by", one that went through but for
\* a failure nobody looked at, or what the job wrote so far.  answers: the job
\* whose unattend.xml was put there, 0 for none.
Disk == [content : {"blank", "partial", "flawed", "whole"}, by : 0 .. MaxJobs, answers : 0 .. MaxJobs]

Down == [os |-> "down", pc |-> "off", mid |-> "none", jid |-> 0, type |-> "none",
         ok |-> FALSE, slot |-> "none", reboot |-> FALSE]
Booted(os, pc) == [Down EXCEPT !.os = os, !.pc = pc]

ProvTypeOK == TypeOK /\ host \in [Hosts -> Host] /\ disk \in [Hosts -> Disk]

ProvInit ==
  /\ Init
  /\ host = [h \in Hosts |-> Down]
  /\ disk = [h \in Hosts |-> [content |-> "blank", by |-> 0, answers |-> 0]]

-----------------------------------------------------------------------------
Ready(h, pc) == host[h].pc = pc /\ host[h].slot = "none"
Become(h, row) == host' = [host EXCEPT ![h] = row] /\ UNCHANGED disk
GoOn(h, pc) == Become(h, [host[h] EXCEPT !.pc = pc])
Await(h, s, pc) == Become(h, [host[h] EXCEPT !.pc = pc, !.slot = s])
ControlPlaneIdle == UNCHANGED vars

\* After a call that failed: Register is repeated until it succeeds, a poll is
\* followed by Register, other errors are ignored; install.cmd repeats its last
\* report with another tool before it gives up.
NextPcs(row) ==
  CASE row.pc = "register" -> {"register"}
    [] row.pc = "poll"     -> {"refresh"}
    [] row.pc = "refresh"  -> {"poll"}
    [] row.pc = "report"   -> {"work"}
    [] row.pc = "complete" -> IF row.os = "ramos" THEN {"refresh"} ELSE {"complete", "done"}

\* Faulty: the report made with the other tool is that of a failure.
AfterErrorFailed(row) ==
  {[row EXCEPT !.pc = pc, !.slot = "none", !.ok = FALSE] : pc \in NextPcs(row)}

\* The host goes on from there.
AfterError(row) == {[row EXCEPT !.pc = pc, !.slot = "none"] : pc \in NextPcs(row)}

\* Faulty: the answer carries the MAC address.
RegisteredAsMAC(s) == req[s].row.mac

\* The machine_id agentRegister answers with: the row it inserted, or the row
\* it read again and may not have found.
RegisteredAs(s) ==
  IF req[s].pc = "RegisterInsert" THEN CHOOSE m \in registered' : m \notin registered
  ELSE IF machines'[req[s].mid] = NoMachine THEN "none" ELSE req[s].mid

\* After the answer of handler s, which ends in this step.
AfterReply(row, s) ==
  LET back == [row EXCEPT !.slot = "none"] IN
  CASE row.pc \in {"register", "refresh"} -> [back EXCEPT !.pc = "poll", !.mid = RegisteredAs(s)]
    [] row.pc = "poll" ->
         IF req[s].pc = "PollReply"
         THEN [back EXCEPT !.pc = "work", !.jid = req[s].jid, !.type = req[s].job.type]
         ELSE back
    [] row.pc = "report" -> [back EXCEPT !.pc = "work"]
    [] row.pc = "complete" -> [back EXCEPT !.pc = IF row.os = "ramos" THEN "refresh" ELSE "done"]

\* An insert that met a conflict answers 500, a job that was not sent was lost.
Answered(s) ==
  /\ req[s].pc = "RegisterInsert" => machines' # machines
  /\ req[s].pc = "PollReply" => req[s].jid \in issued'

Deliver(s) ==
  /\ UNCHANGED disk
  /\ IF req'[s] = Idle /\ \E h \in Hosts : host[h].slot = s
     THEN \E h \in Hosts :
            /\ host[h].slot = s
            /\ \/ Answered(s) /\ host' = [host EXCEPT ![h] = AfterReply(@, s)]
               \/ /\ "lost" \in Faults \/ (~Answered(s) /\ req[s].pc # "PollReply")
                  /\ \E row \in AfterError(host[h]) : host' = [host EXCEPT ![h] = row]
     ELSE UNCHANGED host

HandlerStep(s) ==
  /\ ConsoleMachineStep(s) \/ ConsoleJobStep(s) \/ AgentStep(s)
  /\ Deliver(s)

-----------------------------------------------------------------------------
(* Booting.                                                                *)

\* The iPXE script decides; a MAC no machine has goes to RAMOS.
Script(h) ==
  IF MachineByMAC(h) = {} THEN "ramos"
  ELSE ScriptFor(CHOOSE m \in MachineByMAC(h) : TRUE)

Boot(h) ==
  /\ host[h].os = "down"
  /\ Become(h, CASE Script(h) = "local" -> Booted("local", "off")
                 [] Script(h) = "winpe" -> Booted("winpe", "fetch")
                 [] Script(h) = "ramos" -> Booted("ramos", "register"))
  /\ ControlPlaneIdle

\* WinPE's install.cmd is downloaded after the script was.  Without it (404)
\* iPXE gives up and the firmware starts again.
FetchInstall(h) ==
  /\ Ready(h, "fetch")
  /\ \E m \in MachineByMAC(h) : \E j \in WindowsInstall(m) :
       /\ ServeWinPE(m)
       /\ Become(h, [host[h] EXCEPT !.pc = "work", !.jid = j, !.type = "install"])

FetchNothing(h) ==
  /\ Ready(h, "fetch")
  /\ \A m \in MachineByMAC(h) : WindowsInstall(m) = {}
  /\ Become(h, Down)
  /\ ControlPlaneIdle

\* A machine at its own system, or at the end of install.cmd, is restarted by
\* its operator; an idle agent may be ("restart"), and with "power" any host at
\* any time.
OperatorReboots(h) ==
  /\ host[h].os = "local" \/ (host[h].os = "winpe" /\ host[h].pc = "done")
  /\ Become(h, Down)
  /\ ControlPlaneIdle

\* Faulty: the handler that serves the host goes down with it.
PowerCutAbandons(h) ==
  /\ "power" \in Faults
  /\ host[h].slot # "none"
  /\ Become(h, Down)
  /\ req' = [req EXCEPT ![host[h].slot] = Idle]
  /\ UNCHANGED <<storeVars, form, issued, installed, stale>>

PowerCut(h) ==
  /\ \/ "power" \in Faults /\ host[h].os # "down"
     \/ "restart" \in Faults /\ Ready(h, "poll")
  /\ Become(h, Down)
  /\ ControlPlaneIdle

-----------------------------------------------------------------------------
(* Calls of the agent and of install.cmd.                                  *)

RegisterCall(h, s) ==
  \E pc \in {"register", "refresh"} :
    /\ Ready(h, pc)
    /\ Register(s, h)
    /\ Await(h, s, pc)

\* agentJob looks the machine up by the id the agent sends, else by its MAC.
PolledMachine(h) ==
  IF host[h].mid = "none" THEN MachineByMAC(h)
  ELSE {m \in {host[h].mid} : GetMachine(m)}

PollCall(h, s) ==
  /\ Ready(h, "poll")
  /\ \E m \in PolledMachine(h) : PollNext(s, m)
  /\ Await(h, s, "poll")

\* Faulty: the agent asks for jobs again under the id that was refused.
PollUnknownIgnored(h) == FALSE

\* 404: the machine was deleted.
PollUnknown(h) ==
  /\ Ready(h, "poll")
  /\ PolledMachine(h) = {}
  /\ GoOn(h, "refresh")
  /\ ControlPlaneIdle

ReportCall(h, s) ==
  /\ Ready(h, "work")
  /\ ProgressRead(s, host[h].jid)
  /\ Await(h, s, "report")

CompleteCall(h, s) ==
  /\ Ready(h, "complete")
  /\ CompleteRead(s, host[h].jid, host[h].ok)
  /\ Await(h, s, "complete")

\* 404: the job was deleted.
CompleteGone(h) ==
  /\ Ready(h, "complete")
  /\ ~GetJob(host[h].jid)
  /\ \E row \in AfterError(host[h]) : Become(h, row)
  /\ ControlPlaneIdle

\* The request itself never arrives.
CallLost(h) ==
  /\ "lost" \in Faults
  /\ \E pc \in {"register", "refresh", "poll", "complete"} : Ready(h, pc)
  /\ \E row \in AfterError(host[h]) : Become(h, row)
  /\ ControlPlaneIdle

-----------------------------------------------------------------------------
(* Work: RunInstall, RunStress, and the body of install.cmd.               *)

Write(h, d) == disk' = [disk EXCEPT ![h] = d]

\* Partitioning or writing the image begins.
Format(h) ==
  /\ Ready(h, "work")
  /\ host[h].type = "install"
  /\ disk[h].by # host[h].jid \/ disk[h].content # "partial"
  /\ Write(h, [content |-> "partial", by |-> host[h].jid, answers |-> 0])
  /\ UNCHANGED host
  /\ ControlPlaneIdle

\* Faulty: an error is reported as a success.
FailUnnoticed(h) ==
  /\ Ready(h, "work")
  /\ Become(h, [host[h] EXCEPT !.pc = "complete", !.ok = TRUE])
  /\ ControlPlaneIdle

\* Faulty: only a success is reported.
FailUnreported(h) ==
  /\ Ready(h, "work")
  /\ GoOn(h, IF host[h].os = "ramos" THEN "refresh" ELSE "done")
  /\ ControlPlaneIdle

\* Any step whose error is looked at may fail.
Fail(h) ==
  /\ Ready(h, "work")
  /\ Become(h, [host[h] EXCEPT !.pc = "complete", !.ok = FALSE])
  /\ ControlPlaneIdle

\* What an installation that went through leaves.  Some steps fail "unnoticed":
\* bcdboot, three times, before install.cmd goes on to its end (windows.go:248),
\* the boot loader, of which the agent only logs the error (install.go:192), or
\* the mount of the root file system, whose error is dropped (install.go:408).
Leaves == {"whole"} \cup (IF "unnoticed" \in Faults THEN {"flawed"} ELSE {})

\* Faulty: the job's wish to reboot is overlooked.
SucceedStaying(h) ==
  /\ Ready(h, "work")
  /\ host[h].type = "install" => disk[h].content = "partial" /\ disk[h].by = host[h].jid
  /\ host' = [host EXCEPT ![h].pc = IF host[h].os = "winpe" THEN "answers" ELSE "complete",
                          ![h].ok = TRUE]
  /\ IF host[h].type = "install" THEN \E c \in Leaves : Write(h, [disk[h] EXCEPT !.content = c])
                                 ELSE UNCHANGED disk
  /\ ControlPlaneIdle

\* RunStress returns, or RunInstall does with the reboot already under way;
\* install.cmd goes on to its answer file.
Succeed(h) ==
  /\ Ready(h, "work")
  /\ host[h].type = "install" => disk[h].content = "partial" /\ disk[h].by = host[h].jid
  /\ host' = [host EXCEPT ![h].pc = IF host[h].os = "winpe" THEN "answers" ELSE "complete",
                          ![h].ok = TRUE,
                          ![h].reboot = Reboot /\ host[h].type = "install" /\ host[h].os = "ramos"]
  /\ IF host[h].type = "install" THEN \E c \in Leaves : Write(h, [disk[h] EXCEPT !.content = c])
                                 ELSE UNCHANGED disk
  /\ ControlPlaneIdle

\* unattend.xml is rendered for whatever WindowsInstall answers by now; a
\* download that fails is not noticed.
FetchAnswers(h) ==
  LET J == UNION {WindowsInstall(m) : m \in MachineByMAC(h)} IN
  /\ Ready(h, "answers")
  /\ Write(h, [disk[h] EXCEPT !.answers = IF J = {} THEN 0 ELSE CHOOSE j \in J : TRUE])
  /\ host' = [host EXCEPT ![h].pc = "complete"]
  /\ ControlPlaneIdle

\* The agent's 3 seconds are over (a report takes less unless it is "slow"),
\* or install.cmd reached wpeutil reboot.
RebootFires(h) ==
  /\ \/ host[h].reboot /\ (host[h].pc = "complete" => "slow" \in Faults)
     \/ Reboot /\ host[h].os = "winpe" /\ host[h].pc = "done" /\ host[h].ok
  /\ Become(h, Down)
  /\ ControlPlaneIdle

-----------------------------------------------------------------------------
\* The console and the agents share the handlers of JobControl.  With
\* OneAtATime the operator waits for a machine's job to be over.
Console ==
  /\ ConsoleMachine \/ ConsoleJob
  /\ OneAtATime =>
       \A s \in Slots : req'[s].pc = "CreateInsert" => ~HasActiveJob(req'[s].job.mid)
  /\ UNCHANGED <<host, disk>>

ImageChange ==
  /\ \E i \in ImageIds : DropImage(i) \/ \E kind \in ImageKinds : PutImage(i, kind)
  /\ UNCHANGED <<host, disk>>

Calls(h) ==
  \/ FetchInstall(h)
  \/ \E s \in Slots : RegisterCall(h, s) \/ PollCall(h, s) \/ CompleteCall(h, s)

Alone(h) ==
  \/ FetchNothing(h) \/ PollUnknown(h) \/ CompleteGone(h) \/ Format(h) \/ FetchAnswers(h)

Ends(h) == Succeed(h) \/ Fail(h)

HostStep(h) ==
  \/ Boot(h) \/ Calls(h) \/ Alone(h) \/ Ends(h)
  \/ OperatorReboots(h) \/ RebootFires(h)
  \/ PowerCut(h) \/ CallLost(h)
  \/ \E s \in Slots : ReportCall(h, s)

ProvNext ==
  \/ Console \/ ImageChange
  \/ \E s \in Slots : HandlerStep(s)
  \/ \E h \in Hosts : HostStep(h)

ProvSpec == ProvInit /\ [][ProvNext]_provVars

\* Handlers run to their end.  Machines are powered on, and restarted when they
\* idle in their own system.  Programs go on.  The server accepts connections
\* again and again, so a call that is repeated gets through; work ends however
\* often it reports on the way.
Fairness ==
  /\ \A s \in Slots : WF_provVars(HandlerStep(s))
  /\ \A h \in Hosts :
       /\ WF_provVars(Boot(h)) /\ WF_provVars(OperatorReboots(h))
       /\ WF_provVars(Alone(h)) /\ WF_provVars(RebootFires(h))
       /\ SF_provVars(Calls(h)) /\ SF_provVars(Ends(h))

FairSpec == ProvSpec /\ Fairness

-----------------------------------------------------------------------------
(* Safety.                                                                 *)

\* The composition is one of the ways the handlers of JobControl are used: what
\* is proved of JobControl!Spec for any client holds of the real clients.
HandlersSpec == Spec

\* When a job turns succeeded, the system that very job installed is on the disk
\* of its machine: the report of one job never stands for another's work, and an
\* installation that was interrupted, or failed at a step whose error is looked
\* at, is never reported as done.  The system is whole but for "unnoticed"
\* failures, which the code does report as a success.
SuccessLeavesSystem ==
  [][\A j \in JobIds :
       /\ jobs[j].status # "succeeded" /\ jobs'[j].status = "succeeded"
       /\ jobs[j].type = "install"
       => \E h \in Hosts :
            /\ machines[jobs[j].mid].mac = h
            /\ disk[h].content \in Leaves /\ disk[h].by = j]_provVars

\* A job that succeeded or failed keeps its outcome until it is deleted, although
\* agentComplete believes every report (server.go:1417): an answer that is lost
\* makes a client report again, but never otherwise, and a host that is powered
\* off and on does not run the job a second time.
OutcomeStays ==
  [][\A j \in JobIds :
       jobs[j].status \in {"succeeded", "failed"} =>
         jobs'[j].status \in {jobs[j].status, "none"}]_provVars

\* A host never works on a job that is over: at most it was cancelled or
\* deleted after the host had received it.
WorkIsKnown ==
  \A h \in Hosts :
    host[h].pc \in {"work", "answers"} =>
      jobs[host[h].jid].status \in {"none", "pending", "running", "cancelled"}

\* A machine that boots its own disk finds there what an installation left that
\* came to its end (docs/deploy.md:431: after a success it restarts from its
\* local disk), never one that is still being written or was broken off.
DiskBootIsWhole ==
  \A h \in Hosts : host[h].os = "local" => disk[h].content \in Leaves

\* The unattend.xml on a disk is that of the job that installed it
\* (docs/deploy.md:443): password and host name are those it was given.
AnswersAreOwn ==
  \A h \in Hosts : disk[h].answers \in {0, disk[h].by}

-----------------------------------------------------------------------------
(* Liveness.                                                               *)

AllLinux == \A i \in ImageIds : images[i] # "windows"

\* A pending job is taken, cancelled or deleted in the end, whatever the console
\* does meanwhile, as long as no Windows job can stand before it in the queue.
JobGetsRun ==
  \A j \in JobIds : AllLinux /\ jobs[j].status = "pending" ~> jobs[j].status # "pending"

\* A running job does not stay running.
JobIsOver ==
  \A j \in JobIds : jobs[j].status = "running" ~> jobs[j].status # "running"

\* A machine shown as provisioned restarts from its disk, unless it is given
\* something else to do (docs/deploy.md:431).
ProvisionedBootsDisk ==
  \A m \in MachineIds, h \in Hosts :
    machines[m].status = "provisioned" /\ machines[m].boot = "disk" /\ machines[m].mac = h
      ~> host[h].os = "local" \/ machines[m].status # "provisioned"
=============================================================================
