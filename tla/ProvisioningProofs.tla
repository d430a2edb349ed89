-------------------------- MODULE ProvisioningProofs --------------------------
(***************************************************************************)
(* Theorems about Provisioning, for every set of hosts, every number of    *)
(* handler slots and all faults: hosts use the control plane only through  *)
(* its handlers, so what JobControlProofs proves holds of the composition. *)
(* With requests served one after another, what a host does and what the   *)
(* job table says of it agree.                                             *)
(***************************************************************************)
EXTENDS Provisioning, JobControlProofs

-----------------------------------------------------------------------------
\* Where a host that awaits an answer stands.
Awaiting == {"register", "refresh", "poll", "report", "complete"}
AwaitsAnswer == \A h \in Hosts : host[h].slot # "none" => host[h].pc \in Awaiting

\* The inductive invariant of the hosts.
HostInv ==
  /\ host \in [Hosts -> Host]
  /\ disk \in [Hosts -> Disk]
  /\ AwaitsAnswer

\* Rows of a host as its actions make them.
RowOK(row) == row \in Host /\ (row.slot # "none" => row.pc \in Awaiting)

\* A row that is as it should be may take its place.
LEMMA BecomeKeeps ==
  ASSUME HostInv, NEW h \in Hosts, NEW row, RowOK(row), host' = [host EXCEPT ![h] = row]
  PROVE  host' \in [Hosts -> Host] /\ AwaitsAnswer'
BY DEF HostInv, AwaitsAnswer, RowOK

\* What an error does to a row.
LEMMA ErrorRows ==
  ASSUME HostInv, NEW h \in Hosts, host[h].pc \in Awaiting, NEW row \in AfterError(host[h])
  PROVE  RowOK(row)
<1>1. host[h] \in Host
  BY DEF HostInv
<1>2. PICK pc \in NextPcs(host[h]) : row = [host[h] EXCEPT !.pc = pc, !.slot = "none"]
  BY DEF AfterError
<1>3. pc \in {"register", "refresh", "poll", "work", "complete", "done"}
  BY <1>2 DEF NextPcs, Awaiting
<1>4. QED
  BY <1>1, <1>2, <1>3 DEF RowOK, Host

\* The machine id a registration answers is one.
LEMMA RegistrationAnswers ==
  ASSUME Inv, NEW s \in Slots, HandlerStep(s)
  PROVE  RegisteredAs(s) \in MachineIds \cup {"none"}
<1>1. CASE req[s].pc = "RegisterInsert"
  <2>1. \E m \in MachineIds : RegisterInsert(s, m)
    BY <1>1
       DEF HandlerStep, ConsoleMachineStep, ConsoleJobStep, AgentStep, At, EditUpsert,
           DetectUpsert, CreateInsert, CreateStatus, CreateBoot, CancelUpdate, JobDelete,
           ReleaseRead, ReleaseCheck, ReleaseSet, RegisterTouch, RegisterReread, RegisterRename,
           PollImage, PollClaim, PollReply, ProgressUpdate, CompleteStatus, CompleteBoot,
           CompleteUpdate
  <2>2. PICK m \in MachineIds : m \notin registered /\ registered' = registered \cup {m}
    BY <2>1 DEF RegisterInsert, NewMachine
  <2>3. QED
    BY <1>1, <2>2 DEF RegisteredAs
<1>2. CASE req[s].pc # "RegisterInsert"
  BY <1>2 DEF RegisteredAs, Inv, TypeOK, Frame
<1>3. QED
  BY <1>1, <1>2

\* What an answer does to the row of the host that waited for it.
LEMMA ReplyRows ==
  ASSUME Inv, HostInv, NEW s \in Slots, NEW h \in Hosts, HandlerStep(s), host[h].pc \in Awaiting
  PROVE  RowOK(AfterReply(host[h], s))
<1> DEFINE back == [host[h] EXCEPT !.slot = "none"]
<1>1. back \in Host /\ back.slot = "none"
  BY DEF HostInv, Host
<1>2. req[s].jid \in 0 .. MaxJobs /\ req[s].job.type \in {"install", "stress", "none"}
  BY DEF Inv, TypeOK, Frame, JobRow
<1>3. RegisteredAs(s) \in MachineIds \cup {"none"}
  BY RegistrationAnswers
<1> HIDE DEF back
<1>4. \A pc \in {"poll", "work", "refresh", "done"} : RowOK([back EXCEPT !.pc = pc])
  BY <1>1 DEF RowOK, Host
<1>5. RowOK([back EXCEPT !.pc = "poll", !.mid = RegisteredAs(s)])
  BY <1>1, <1>3 DEF RowOK, Host
<1>6. RowOK([back EXCEPT !.pc = "work", !.jid = req[s].jid, !.type = req[s].job.type])
  BY <1>1, <1>2 DEF RowOK, Host
<1>7. RowOK(back)
  BY <1>1 DEF RowOK
<1>8. CASE host[h].pc \in {"register", "refresh"}
  BY <1>5, <1>8 DEF AfterReply, back
<1>9. CASE host[h].pc = "poll"
  BY <1>6, <1>7, <1>9 DEF AfterReply, back
<1>10. CASE host[h].pc = "report"
  BY <1>4, <1>10 DEF AfterReply, back
<1>11. CASE host[h].pc = "complete"
  BY <1>4, <1>11 DEF AfterReply, back
<1>12. QED
  BY <1>8, <1>9, <1>10, <1>11 DEF Awaiting

\* A handler ends and its answer is delivered, or lost.
LEMMA HandlerKeepsHosts ==
  ASSUME Inv, HostInv, NEW s \in Slots, HandlerStep(s)
  PROVE  HostInv'
<1>1. disk' \in [Hosts -> Disk]
  BY DEF HandlerStep, Deliver, HostInv
<1>2. CASE UNCHANGED host
  BY <1>1, <1>2 DEF HostInv, AwaitsAnswer
<1>3. ASSUME NEW h \in Hosts, host[h].slot = s,
             \/ host' = [host EXCEPT ![h] = AfterReply(host[h], s)]
             \/ \E row \in AfterError(host[h]) : host' = [host EXCEPT ![h] = row]
      PROVE  HostInv'
  <2>1. host[h].pc \in Awaiting
    BY <1>3, NoneIsNoSlot DEF HostInv, AwaitsAnswer
  <2>2. PICK row : RowOK(row) /\ host' = [host EXCEPT ![h] = row]
    BY <1>3, <2>1, ReplyRows, ErrorRows
  <2>3. QED
    BY <1>1, <2>2, BecomeKeeps DEF HostInv
<1>4. QED
  BY <1>2, <1>3 DEF HandlerStep, Deliver

LEMMA JobNumbers == JobIds \subseteq 0 .. MaxJobs /\ 0 \in 0 .. MaxJobs
BY MaxJobsIsNat DEF JobIds

\* The rows that the actions of a host make.
LEMMA HostRows ==
  ASSUME HostInv, NEW h \in Hosts
  PROVE  /\ RowOK(Down)
         /\ RowOK(Booted("local", "off"))
         /\ RowOK(Booted("winpe", "fetch"))
         /\ RowOK(Booted("ramos", "register"))
         /\ host[h].slot = "none" =>
              /\ \A pc \in {"refresh", "done", "complete"} : RowOK([host[h] EXCEPT !.pc = pc])
              /\ \A j \in JobIds : RowOK([host[h] EXCEPT !.pc = "work", !.jid = j, !.type = "install"])
              /\ RowOK([host[h] EXCEPT !.pc = "complete", !.ok = FALSE])
              /\ \A pc \in {"answers", "complete"}, r \in BOOLEAN :
                   RowOK([host[h] EXCEPT !.pc = pc, !.ok = TRUE, !.reboot = r])
         /\ \A s \in Slots : \A pc \in Awaiting : RowOK([host[h] EXCEPT !.pc = pc, !.slot = s])
<1>1. host[h] \in Host
  BY DEF HostInv
<1>2. /\ RowOK(Down)
      /\ RowOK(Booted("local", "off"))
      /\ RowOK(Booted("winpe", "fetch"))
      /\ RowOK(Booted("ramos", "register"))
  <2>1. Down \in Host /\ Down.slot = "none"
    BY JobNumbers DEF Down, Host
  <2>2. ASSUME NEW os \in {"local", "winpe", "ramos"}, NEW pc \in {"off", "fetch", "register"}
        PROVE  Booted(os, pc) \in Host /\ Booted(os, pc).slot = "none"
    BY <2>1 DEF Booted, Host
  <2>3. QED
    BY <2>1, <2>2 DEF RowOK
<1>3. ASSUME host[h].slot = "none"
      PROVE  /\ \A pc \in {"refresh", "done", "complete"} : RowOK([host[h] EXCEPT !.pc = pc])
             /\ \A j \in JobIds : RowOK([host[h] EXCEPT !.pc = "work", !.jid = j, !.type = "install"])
             /\ RowOK([host[h] EXCEPT !.pc = "complete", !.ok = FALSE])
             /\ \A pc \in {"answers", "complete"}, r \in BOOLEAN :
                  RowOK([host[h] EXCEPT !.pc = pc, !.ok = TRUE, !.reboot = r])
  <2>1. \A pc \in {"refresh", "done", "complete"} : RowOK([host[h] EXCEPT !.pc = pc])
    BY <1>1, <1>3 DEF RowOK, Host
  <2>2. \A j \in JobIds : RowOK([host[h] EXCEPT !.pc = "work", !.jid = j, !.type = "install"])
    BY <1>1, <1>3, JobNumbers DEF RowOK, Host
  <2>3. RowOK([host[h] EXCEPT !.pc = "complete", !.ok = FALSE])
    BY <1>1, <1>3 DEF RowOK, Host
  <2>4. ASSUME NEW pc \in {"answers", "complete"}, NEW r \in BOOLEAN
        PROVE  RowOK([host[h] EXCEPT !.pc = pc, !.ok = TRUE, !.reboot = r])
    BY <1>1, <1>3 DEF RowOK, Host
  <2>5. QED
    BY <2>1, <2>2, <2>3, <2>4
<1>4. \A s \in Slots : \A pc \in Awaiting : RowOK([host[h] EXCEPT !.pc = pc, !.slot = s])
  BY <1>1 DEF RowOK, Host, Awaiting
<1>5. QED
  BY <1>2, <1>3, <1>4

\* Jobs that WindowsInstall answers are jobs.
LEMMA WindowsInstallJobs == \A m : WindowsInstall(m) \subseteq JobIds
BY DEF WindowsInstall, WindowsJobs, ListJobs, JobsOf

\* Every step of a host gives it a row that is as it should be, and its disk too.
LEMMA HostStepKeepsHosts ==
  ASSUME HostInv, NEW h \in Hosts, HostStep(h)
  PROVE  HostInv'
<1> DEFINE Safe == /\ \E row : RowOK(row) /\ host' = [host EXCEPT ![h] = row]
                   /\ disk' \in [Hosts -> Disk]
<1>0. host[h] \in Host /\ disk \in [Hosts -> Disk]
  BY DEF HostInv
<1>1. CASE Boot(h)
  <2>1. Script(h) \in {"local", "winpe", "ramos"}
    BY DEF Script, ScriptFor
  <2>2. Safe
    BY <1>0, <1>1, <2>1, HostRows DEF Boot, Become
  <2>3. QED
    BY <2>2, BecomeKeeps DEF HostInv
<1>2. CASE FetchInstall(h)
  <2>1. Safe
    BY <1>0, <1>2, HostRows, WindowsInstallJobs DEF FetchInstall, Become, Ready
  <2>2. QED
    BY <2>1, BecomeKeeps DEF HostInv
<1>3. CASE \E s \in Slots : RegisterCall(h, s) \/ PollCall(h, s) \/ CompleteCall(h, s) \/ ReportCall(h, s)
  <2>1. Safe
    BY <1>0, <1>3, HostRows DEF RegisterCall, PollCall, CompleteCall, ReportCall, Await, Become, Awaiting
  <2>2. QED
    BY <2>1, BecomeKeeps DEF HostInv
<1>4. CASE FetchNothing(h) \/ OperatorReboots(h) \/ RebootFires(h) \/ PowerCut(h)
  <2>1. Safe
    BY <1>0, <1>4, HostRows DEF FetchNothing, OperatorReboots, RebootFires, PowerCut, Become
  <2>2. QED
    BY <2>1, BecomeKeeps DEF HostInv
<1>5. CASE PollUnknown(h)
  <2>1. Safe
    BY <1>0, <1>5, HostRows DEF PollUnknown, GoOn, Become, Ready
  <2>2. QED
    BY <2>1, BecomeKeeps DEF HostInv
<1>6. CASE CompleteGone(h) \/ CallLost(h)
  <2>1. host[h].pc \in Awaiting
    BY <1>6 DEF CompleteGone, CallLost, Ready, Awaiting
  <2>2. Safe
    BY <1>0, <1>6, <2>1, ErrorRows DEF CompleteGone, CallLost, Become
  <2>3. QED
    BY <2>2, BecomeKeeps DEF HostInv
<1>7. CASE Format(h)
  <2>1. [content |-> "partial", by |-> host[h].jid, answers |-> 0] \in Disk
    BY <1>0, MaxJobsIsNat DEF Host, Disk
  <2>2. QED
    BY <1>0, <1>7, <2>1 DEF Format, Write, HostInv, AwaitsAnswer
<1>8. CASE FetchAnswers(h)
  <2>1. \A j \in 0 .. MaxJobs : [disk[h] EXCEPT !.answers = j] \in Disk
    BY <1>0 DEF Disk
  <2> DEFINE J == UNION {WindowsInstall(m) : m \in MachineByMAC(h)}
             j == IF J = {} THEN 0 ELSE CHOOSE k \in J : TRUE
  <2>2. J \subseteq JobIds
    BY WindowsInstallJobs
  <2>3. disk' = [disk EXCEPT ![h] = [disk[h] EXCEPT !.answers = j]] /\ host[h].slot = "none"
        /\ host' = [host EXCEPT ![h] = [host[h] EXCEPT !.pc = "complete"]]
    BY <1>8, <1>0 DEF FetchAnswers, Write, Ready, HostInv
  <2> HIDE DEF J
  <2>4. j \in 0 .. MaxJobs
    <3>1. J # {} => (CHOOSE k \in J : TRUE) \in J
      OBVIOUS
    <3>2. QED
      BY <2>2, <3>1, JobNumbers
  <2> HIDE DEF j
  <2>5. disk' \in [Hosts -> Disk]
    BY <1>0, <2>1, <2>3, <2>4
  <2>6. QED
    BY <2>3, <2>5, HostRows, BecomeKeeps DEF HostInv
<1>9. CASE Fail(h)
  <2>1. Safe
    BY <1>0, <1>9, HostRows DEF Fail, Become, Ready
  <2>2. QED
    BY <2>1, BecomeKeeps DEF HostInv
<1>10. CASE Succeed(h)
  <2> DEFINE pc == IF host[h].os = "winpe" THEN "answers" ELSE "complete"
             r  == Reboot /\ host[h].type = "install" /\ host[h].os = "ramos"
  <2>1. host' = [host EXCEPT ![h] = [host[h] EXCEPT !.pc = pc, !.ok = TRUE, !.reboot = r]]
    BY <1>10 DEF Succeed, HostInv
  <2>2. \A c \in Leaves : [disk[h] EXCEPT !.content = c] \in Disk
    BY <1>0 DEF Disk, Leaves
  <2>3. disk' \in [Hosts -> Disk] /\ host[h].slot = "none"
    BY <1>0, <1>10, <2>2 DEF Succeed, Write, Ready
  <2>4. pc \in {"answers", "complete"} /\ r \in BOOLEAN
    BY RebootIsBoolean
  <2> HIDE DEF pc, r
  <2>5. RowOK([host[h] EXCEPT !.pc = pc, !.ok = TRUE, !.reboot = r])
    BY <2>3, <2>4, HostRows
  <2>6. QED
    BY <2>1, <2>3, <2>5, BecomeKeeps DEF HostInv
<1>11. QED
  BY HostStep(h), <1>1, <1>2, <1>3, <1>4, <1>5, <1>6, <1>7, <1>8, <1>9, <1>10
     DEF HostStep, Calls, Alone, Ends

-----------------------------------------------------------------------------
(* Hosts use the handlers as any client may.                               *)

\* The calls of a host are calls of an agent or of WinPE.
LEMMA CallsAreHandlers ==
  ASSUME Inv, HostInv, NEW h \in Hosts
  PROVE  /\ FetchInstall(h) => Environment
         /\ \A s \in Slots :
              RegisterCall(h, s) \/ PollCall(h, s) \/ ReportCall(h, s) \/ CompleteCall(h, s)
                => AgentCall
<1> SUFFICES ASSUME NEW s
             PROVE  /\ FetchInstall(h) => Environment
                    /\ s \in Slots /\ RegisterCall(h, s) => AgentCall
                    /\ s \in Slots /\ PollCall(h, s) => AgentCall
                    /\ s \in Slots /\ ReportCall(h, s) => AgentCall
                    /\ s \in Slots /\ CompleteCall(h, s) => AgentCall
  OBVIOUS
<1>1. issued \subseteq JobIds /\ host[h].ok \in BOOLEAN /\ h \in MACs
  BY DEF Inv, TypeOK, HostInv, Host, Hosts
<1>2. FetchInstall(h) => Environment
  BY DEF FetchInstall, Environment, MachineByMAC
<1>3. s \in Slots /\ RegisterCall(h, s) => AgentCall
  BY <1>1 DEF RegisterCall, AgentCall
<1>4. s \in Slots /\ PollCall(h, s) => AgentCall
  <2>1. PolledMachine(h) \subseteq MachineIds
    BY DEF PolledMachine, MachineByMAC, GetMachine
  <2>2. QED
    BY <2>1 DEF PollCall, AgentCall
<1>5. s \in Slots /\ ReportCall(h, s) => AgentCall
  <2>1. ReportCall(h, s) => host[h].jid \in JobIds
    BY <1>1 DEF ReportCall, ProgressRead
  <2>2. QED
    BY <2>1 DEF ReportCall, AgentCall
<1>6. s \in Slots /\ CompleteCall(h, s) => AgentCall
  <2>1. CompleteCall(h, s) => host[h].jid \in JobIds
    BY <1>1 DEF CompleteCall, CompleteRead
  <2>2. QED
    BY <1>1, <2>1 DEF CompleteCall, AgentCall
<1>7. QED
  BY <1>2, <1>3, <1>4, <1>5, <1>6

\* Every other step of a host leaves the control plane alone.
LEMMA HostStepIsHandlers ==
  ASSUME Inv, HostInv, NEW h \in Hosts, HostStep(h)
  PROVE  [Next]_vars
<1>1. CASE Calls(h)
  BY <1>1, CallsAreHandlers DEF Calls, Next
<1>2. CASE \E s \in Slots : ReportCall(h, s)
  BY <1>2, CallsAreHandlers DEF Next
<1>3. CASE Boot(h) \/ Alone(h) \/ Ends(h)
  BY <1>3 DEF Boot, Alone, Ends, FetchNothing, PollUnknown, CompleteGone, Format, FetchAnswers,
              Succeed, Fail, ControlPlaneIdle
<1>4. CASE OperatorReboots(h) \/ RebootFires(h) \/ PowerCut(h) \/ CallLost(h)
  BY <1>4 DEF OperatorReboots, RebootFires, PowerCut, CallLost, ControlPlaneIdle
<1>5. QED
  BY <1>1, <1>2, <1>3, <1>4, HostStep(h) DEF HostStep

\* A step of the composition is a step of the control plane, or leaves it alone.
LEMMA ProvStepIsHandlers == Inv /\ HostInv /\ [ProvNext]_provVars => [Next]_vars
<1> SUFFICES ASSUME Inv, HostInv, [ProvNext]_provVars PROVE [Next]_vars
  OBVIOUS
<1>1. CASE Console
  BY <1>1 DEF Console, Next
<1>2. CASE ImageChange
  BY <1>2 DEF ImageChange, Next, Environment
<1>3. CASE \E s \in Slots : HandlerStep(s)
  BY <1>3 DEF HandlerStep, Next
<1>4. CASE \E h \in Hosts : HostStep(h)
  BY <1>4, HostStepIsHandlers
<1>5. CASE UNCHANGED provVars
  BY <1>5 DEF provVars, vars
<1>6. QED
  BY <1>1, <1>2, <1>3, <1>4, <1>5 DEF ProvNext

-----------------------------------------------------------------------------
(* The theorems.                                                           *)

\* Handlers, console and hosts keep the invariants of both.
LEMMA ProvStep == Inv /\ HostInv /\ [ProvNext]_provVars => Inv' /\ HostInv'
<1> SUFFICES ASSUME Inv, HostInv, [ProvNext]_provVars PROVE Inv' /\ HostInv'
  OBVIOUS
<1>1. Inv'
  BY ProvStepIsHandlers, TypeStep, JobTableStep, JobCopyStep, ProvisionedStep, FormStep DEF Inv
<1>2. CASE Console \/ ImageChange \/ UNCHANGED provVars
  BY <1>1, <1>2 DEF Console, ImageChange, provVars, HostInv, AwaitsAnswer
<1>3. CASE \E s \in Slots : HandlerStep(s)
  BY <1>1, <1>3, HandlerKeepsHosts
<1>4. CASE \E h \in Hosts : HostStep(h)
  BY <1>1, <1>4, HostStepKeepsHosts
<1>5. QED
  BY <1>1, <1>2, <1>3, <1>4 DEF ProvNext

LEMMA ProvInitInv == ProvInit => Init /\ Inv /\ HostInv
<1> SUFFICES ASSUME ProvInit PROVE Init /\ Inv /\ HostInv
  OBVIOUS
<1>1. Init /\ Inv
  BY InitInv DEF ProvInit
<1>2. \A h \in Hosts : host[h] = Down
  BY DEF ProvInit
<1>3. Down \in Host /\ Down.slot = "none"
  BY MaxJobsIsNat DEF Down, Host
<1>4. disk \in [Hosts -> Disk]
  BY MaxJobsIsNat DEF ProvInit, Disk
<1>5. QED
  BY <1>1, <1>2, <1>3, <1>4 DEF ProvInit, HostInv, AwaitsAnswer

\* The rows of hosts and disks, and those of the control plane, have their types
\* whatever the hosts do and whatever fails.
THEOREM ProvTypeCorrect == ProvSpec => []ProvTypeOK
<1>1. Inv /\ HostInv => ProvTypeOK
  BY DEF Inv, HostInv, ProvTypeOK
<1>2. QED
  BY <1>1, ProvInitInv, ProvStep, PTL DEF ProvSpec

\* Booting servers, agents and install.cmd use the control plane only as the
\* clients of JobControl do: the composition implements JobControl!Spec.
THEOREM HandlersImplemented == ProvSpec => HandlersSpec
<1>1. QED
  BY ProvInitInv, ProvStep, ProvStepIsHandlers, PTL DEF ProvSpec, HandlersSpec, Spec

\* So no stale copy makes a server that is being provisioned boot a disk on
\* which no client reported an installation, and no job row is ever torn.
THEOREM ProvisioningInherits == ProvSpec => [](LocalBootNeedsInstall /\ JobRowsWhole)
<1>1. HandlersSpec => Spec
  BY DEF HandlersSpec
<1>2. QED
  BY <1>1, HandlersImplemented, LocalBootIsEarned, RowsAlwaysWhole, PTL

-----------------------------------------------------------------------------
(* Requests served one after another: a machine keeps its MAC address and  *)
(* a job its machine, and a copy of either is of what is in the table.     *)

\* Every id in use was handed out; an edited row has the MAC address of its machine;
\* the job an agent is about to be sent runs.
TablesInv ==
  /\ \A m \in MachineIds : GetMachine(m) => m \in registered
  /\ \A s \in Slots : req[s].pc \in MachineEditors => req[s].row.mac = machines[req[s].mid].mac
  /\ \A s \in Slots : req[s].pc = "PollReply" =>
       jobs[req[s].jid].status = "running" /\ jobs[req[s].jid].type = req[s].job.type

\* A machine that is there was there, with its MAC address, or is new.
MachinesLast ==
  /\ registered \subseteq registered'
  /\ \A m \in MachineIds : GetMachine(m)' =>
       /\ m \in registered'
       /\ m \notin registered \/ (GetMachine(m) /\ machines'[m].mac = machines[m].mac)

\* A job that is there was there, as a job of its machine and type, or is new.
JobsLast ==
  /\ lastJob \in Nat /\ lastJob' \in Nat /\ lastJob <= lastJob'
  /\ \A j \in 1 .. lastJob : GetJob(j)' =>
       GetJob(j) /\ jobs'[j].mid = jobs[j].mid /\ jobs'[j].type = jobs[j].type

\* What each way to write the machine table leaves of a machine.
LEMMA MachineWrites ==
  ASSUME StoreTypeOK, \A m \in MachineIds : GetMachine(m) => m \in registered
  PROVE  /\ UNCHANGED <<machines, registered>> => MachinesLast
         /\ \A m, row : GetMachine(m) /\ row.mac = machines[m].mac
                /\ WriteMachines(UpsertMachine(m, row)) => MachinesLast
         /\ \A m, st : WriteMachines(SetMachineStatus(m, st)) => MachinesLast
         /\ \A m, mode : WriteMachines(SetBootMode(m, mode)) => MachinesLast
         /\ \A m : machines' = DeleteMachine(m) /\ registered' = registered => MachinesLast
         /\ \A m, row : NewMachine(m, row) => MachinesLast
<1>0. machines \in [MachineIds -> MachineRow]
  BY DEF StoreTypeOK
<1>1. ASSUME registered' = registered,
             \A m \in MachineIds : \/ machines'[m] = machines[m]
                                   \/ machines'[m] = NoMachine
                                   \/ GetMachine(m) /\ machines'[m].mac = machines[m].mac
      PROVE  MachinesLast
  BY <1>1 DEF MachinesLast, GetMachine
<1>2. UNCHANGED <<machines, registered>> => MachinesLast
  BY <1>1
<1>3. ASSUME NEW m, NEW row, GetMachine(m), row.mac = machines[m].mac, WriteMachines(UpsertMachine(m, row))
      PROVE  MachinesLast
  <2>1. ASSUME NEW n \in MachineIds
        PROVE  machines'[n] = machines[n] \/ (n = m /\ machines'[n] = row)
    BY <1>0, <1>3 DEF WriteMachines, UpsertMachine
  <2> QED
    BY <1>1, <1>3, <2>1 DEF WriteMachines
<1>4. ASSUME NEW m, NEW st, WriteMachines(SetMachineStatus(m, st)) PROVE MachinesLast
  <2>1. ASSUME NEW n \in MachineIds
        PROVE  machines'[n] = machines[n] \/ (GetMachine(n) /\ machines'[n] = [machines[n] EXCEPT !.status = st])
    BY <1>0, <1>4 DEF WriteMachines, SetMachineStatus
  <2>2. ASSUME NEW n \in MachineIds PROVE [machines[n] EXCEPT !.status = st].mac = machines[n].mac
    BY <1>0 DEF MachineRow
  <2> QED
    BY <1>1, <1>4, <2>1, <2>2 DEF WriteMachines
<1>5. ASSUME NEW m, NEW mode, WriteMachines(SetBootMode(m, mode)) PROVE MachinesLast
  <2>1. ASSUME NEW n \in MachineIds
        PROVE  machines'[n] = machines[n] \/ (GetMachine(n) /\ machines'[n] = [machines[n] EXCEPT !.boot = mode])
    BY <1>0, <1>5 DEF WriteMachines, SetBootMode
  <2>2. ASSUME NEW n \in MachineIds PROVE [machines[n] EXCEPT !.boot = mode].mac = machines[n].mac
    BY <1>0 DEF MachineRow
  <2> QED
    BY <1>1, <1>5, <2>1, <2>2 DEF WriteMachines
<1>6. ASSUME NEW m, machines' = DeleteMachine(m), registered' = registered PROVE MachinesLast
  BY <1>0, <1>1, <1>6 DEF DeleteMachine
<1>7. ASSUME NEW m, NEW row, NewMachine(m, row) PROVE MachinesLast
  <2>1. ASSUME NEW n \in MachineIds \ {m} PROVE machines'[n] = machines[n]
    BY <1>0, <1>7 DEF NewMachine, UpsertMachine
  <2> QED
    BY <1>7, <2>1 DEF NewMachine, MachinesLast, GetMachine
<1> QED
  BY <1>2, <1>3, <1>4, <1>5, <1>6, <1>7

\* What each way to write the job table leaves of a job.
LEMMA JobWrites ==
  ASSUME Inv
  PROVE  /\ UNCHANGED <<jobs, lastJob>> => JobsLast
         /\ \A j, row : row.mid = jobs[j].mid /\ row.type = jobs[j].type
                /\ WriteJobs(UpdateJob(j, row)) => JobsLast
         /\ \A j : WriteJobs(DeleteJob(j)) => JobsLast
         /\ \A m : jobs' = JobsWithout(m) /\ lastJob' = lastJob => JobsLast
         /\ \A row : lastJob < MaxJobs /\ jobs' = InsertJob(row) /\ lastJob' = lastJob + 1 => JobsLast
<1>0. jobs \in [JobIds -> JobRow] /\ lastJob \in Nat /\ 1 .. lastJob \subseteq JobIds
  BY MaxJobsIsNat DEF Inv, TypeOK, StoreTypeOK, JobIds
<1> DEFINE Lasts(j) == \/ jobs'[j] = jobs[j]
                       \/ jobs'[j] = NoJob
                       \/ GetJob(j) /\ jobs'[j].mid = jobs[j].mid /\ jobs'[j].type = jobs[j].type
<1>1. ASSUME lastJob' = lastJob, \A j \in JobIds : Lasts(j) PROVE JobsLast
  BY <1>0, <1>1 DEF JobsLast, GetJob
<1>2. UNCHANGED <<jobs, lastJob>> => JobsLast
  BY <1>1
<1>3. ASSUME NEW j, NEW row, row.mid = jobs[j].mid, row.type = jobs[j].type, WriteJobs(UpdateJob(j, row))
      PROVE  JobsLast
  <2>1. \A k \in JobIds : Lasts(k)
    BY <1>0, <1>3 DEF WriteJobs, UpdateJob
  <2> QED
    BY <1>1, <1>3, <2>1 DEF WriteJobs
<1>4. ASSUME NEW j, WriteJobs(DeleteJob(j)) PROVE JobsLast
  <2>1. \A k \in JobIds : Lasts(k)
    BY <1>0, <1>4 DEF WriteJobs, DeleteJob
  <2> HIDE DEF Lasts
  <2> QED
    BY <1>1, <1>4, <2>1 DEF WriteJobs
<1>5. ASSUME NEW m, jobs' = JobsWithout(m), lastJob' = lastJob PROVE JobsLast
  <2>1. \A k \in JobIds : Lasts(k)
    BY <1>5 DEF JobsWithout
  <2> HIDE DEF Lasts
  <2> QED
    BY <1>1, <1>5, <2>1
<1>6. ASSUME NEW row, lastJob < MaxJobs, jobs' = InsertJob(row), lastJob' = lastJob + 1 PROVE JobsLast
  <2>1. ASSUME NEW j \in 1 .. lastJob PROVE jobs'[j] = jobs[j]
    BY <1>0, <1>6 DEF InsertJob
  <2> QED
    BY <1>0, <1>6, <2>1 DEF JobsLast, GetJob
<1> QED
  BY <1>2, <1>3, <1>4, <1>5, <1>6

Lasting == MachinesLast /\ JobsLast

\* Requests are served one after another, and no edit gives a machine another
\* MAC address: with one, a host would look like another machine from then on.
Steadily == Serially /\ "readdress" \notin Requests

LEMMA StoreKept ==
  ASSUME Inv, TablesInv, UNCHANGED storeVars
  PROVE  Lasting
BY MachineWrites, JobWrites DEF Lasting, TablesInv, storeVars, Inv, TypeOK

\* The only slot decides.
LEMMA TablesOfSlot ==
  ASSUME Serially, NEW s \in Slots, MachinesLast,
         req'[s].pc \in MachineEditors => req'[s].row.mac = machines'[req'[s].mid].mac,
         req'[s].pc = "PollReply" =>
           jobs'[req'[s].jid].status = "running" /\ jobs'[req'[s].jid].type = req'[s].job.type
  PROVE  TablesInv'
<1>1. \A t \in Slots : t = s
  BY DEF Serially
<1> QED
  BY <1>1 DEF TablesInv, MachinesLast

LEMMA TablesQuick ==
  ASSUME Serially, NEW kind, Quick(kind), MachinesLast PROVE TablesInv'
<1>1. PICK s \in Slots : req[s] = Idle
  BY DEF Quick
<1>2. req'[s].pc = "idle"
  BY <1>1 DEF Quick, Idle
<1> QED
  BY <1>2, TablesOfSlot DEF MachineEditors

LEMMA TablesConsoleMachine ==
  ASSUME Steadily, Inv, SerialInv, TablesInv, ConsoleMachine PROVE Lasting /\ TablesInv'
<1>0. Serially /\ StoreTypeOK /\ TypeOK /\ \A m \in MachineIds : GetMachine(m) => m \in registered
  BY DEF Steadily, Inv, TypeOK, TablesInv
<1>1. ASSUME NEW m \in MachineIds, NEW mac \in MACs, NEW boot \in BootModes, CreateMachine(m, mac, boot)
      PROVE  Lasting /\ TablesInv'
  <2>1. MachinesLast
    BY <1>0, <1>1, MachineWrites DEF CreateMachine
  <2>2. JobsLast
    BY <1>1, JobWrites DEF CreateMachine, NewMachine
  <2> QED
    BY <1>0, <1>1, <2>1, <2>2, TablesQuick DEF CreateMachine, Lasting
<1>2. ASSUME NEW m \in MachineIds, RemoveMachine(m) PROVE Lasting /\ TablesInv'
  <2>1. MachinesLast
    BY <1>0, <1>2, MachineWrites DEF RemoveMachine
  <2>2. JobsLast
    BY <1>2, JobWrites DEF RemoveMachine
  <2> QED
    BY <1>0, <1>2, <2>1, <2>2, TablesQuick DEF RemoveMachine, Lasting
<1>3. ASSUME NEW m \in MachineIds, NEW mode \in BootModes, SetBoot(m, mode) PROVE Lasting /\ TablesInv'
  <2>1. MachinesLast
    BY <1>0, <1>3, MachineWrites DEF SetBoot
  <2>2. JobsLast
    BY <1>3, JobWrites DEF SetBoot, WriteMachines
  <2> QED
    BY <1>0, <1>3, <2>1, <2>2, TablesQuick DEF SetBoot, Lasting
<1>4. ASSUME NEW m \in MachineIds, NEW s \in Slots, NEW pc \in MachineEditors, NEW row, NEW kind,
             Start(kind, s, WithMachine(pc, m, row)), row.mac = machines[m].mac, UNCHANGED storeVars
      PROVE  Lasting /\ TablesInv'
  <2>1. req'[s].pc = pc /\ req'[s].mid = m /\ req'[s].row = row
    BY <1>0, <1>4, SlotChanges, FrameFields
  <2>2. machines' = machines /\ pc # "PollReply"
    BY <1>4 DEF storeVars, MachineEditors
  <2> QED
    BY <1>0, <1>4, <2>1, <2>2, StoreKept, TablesOfSlot DEF Lasting
<1>5. ASSUME NEW t \in Tabs, NEW m \in MachineIds, EditLoad(t, m) PROVE Lasting /\ TablesInv'
  BY <1>0, <1>5, StoreKept, TablesQuick DEF EditLoad, Lasting
<1>7. ASSUME NEW s \in Slots, NEW t \in Tabs, NEW boot \in BootModes, EditPut(s, t, boot)
      PROVE  Lasting /\ TablesInv'
  <2> DEFINE m == form[t].mid
             row == [status |-> form[t].status, boot |-> boot, mac |-> machines[m].mac]
  <2>1. FormMACs(m) = {machines[m].mac}
    BY DEF FormMACs, Steadily
  <2>2. m \in MachineIds /\ UNCHANGED storeVars
    BY <1>7 DEF EditPut, GetMachine
  <2>3. Start("edit", s, WithMachine("EditUpsert", m, row))
    BY <1>7, <2>1 DEF EditPut
  <2>4. row.mac = machines[m].mac
    OBVIOUS
  <2> HIDE DEF m, row
  <2> QED
    BY <1>4, <2>2, <2>3, <2>4 DEF MachineEditors
<1>6. ASSUME NEW m \in MachineIds, NEW s \in Slots, DetectRead(s, m) PROVE Lasting /\ TablesInv'
  BY <1>4, <1>6 DEF DetectRead, MachineEditors
<1> QED
  BY <1>1, <1>2, <1>3, <1>5, <1>6, <1>7 DEF ConsoleMachine

\* Calls that read a row and write nothing yet.
LEMMA TablesReaders ==
  ASSUME Serially, Inv, SerialInv, TablesInv, ConsoleJob \/ AgentCall PROVE Lasting /\ TablesInv'
<1>0. TypeOK
  BY DEF Inv
<1>1. ASSUME NEW s \in Slots, NEW pc, NEW j, NEW row, NEW kind, UNCHANGED storeVars,
             Start(kind, s, WithJob(pc, j, row)), pc \notin MachineEditors \cup {"PollReply"}
      PROVE  Lasting /\ TablesInv'
  <2>1. req'[s].pc = pc
    BY <1>0, <1>1, SlotChanges, FrameFields
  <2> QED
    BY <1>1, <2>1, StoreKept, TablesOfSlot DEF Lasting
<1>2. ASSUME ConsoleJob PROVE Lasting /\ TablesInv'
  BY <1>1, <1>2 DEF ConsoleJob, CreateInstall, CreateStress, CancelRead, DeleteRead, MachineEditors
<1>3. ASSUME NEW s \in Slots, NEW mac \in MACs, Register(s, mac) PROVE Lasting /\ TablesInv'
  <2>1. \/ req'[s].pc = "RegisterInsert"
        \/ \E m \in MachineIds : req'[s].pc = "RegisterTouch" /\ req'[s].mid = m /\ req'[s].row = machines[m]
    BY <1>0, <1>3, SlotChanges, FrameFields DEF Register, MachineByMAC
  <2>2. Lasting /\ machines' = machines
    BY <1>3, StoreKept DEF Register, storeVars
  <2> QED
    BY <2>1, <2>2, TablesOfSlot DEF MachineEditors, Lasting
<1>4. ASSUME NEW s \in Slots,
             \/ \E m \in MachineIds : PollNext(s, m)
             \/ \E j \in JobIds : ProgressRead(s, j) \/ \E ok \in BOOLEAN : CompleteRead(s, j, ok)
      PROVE  Lasting /\ TablesInv'
  BY <1>1, <1>4 DEF PollNext, ProgressRead, CompleteRead, MachineEditors
<1> QED
  BY <1>2, <1>3, <1>4 DEF AgentCall

\* Handlers of the console.
LEMMA TablesConsoleSteps ==
  ASSUME Serially, Inv, SerialInv, TablesInv, NEW s \in Slots, ConsoleMachineStep(s) \/ ConsoleJobStep(s)
  PROVE  Lasting /\ TablesInv'
<1>0. /\ StoreTypeOK /\ TypeOK /\ \A m \in MachineIds : GetMachine(m) => m \in registered
      /\ FreshMachine(req[s]) /\ FreshJob(req[s])
      /\ req[s].pc \in MachineEditors => req[s].row.mac = machines[req[s].mid].mac
  BY FrameKnown DEF TablesInv
<1>1. ASSUME \/ Done(s) \/ \E pc : Goto(s, pc) /\ pc \notin MachineEditors \cup {"PollReply"},
             Lasting
      PROVE  Lasting /\ TablesInv'
  <2>1. Idle.pc \notin MachineEditors \cup {"PollReply"}
    BY DEF Idle, MachineEditors
  <2>2. req'[s].pc \notin MachineEditors \cup {"PollReply"}
    <3>1. CASE Done(s)
      BY <1>0, <2>1, <3>1, SlotChanges
    <3>2. ASSUME NEW pc, Goto(s, pc), pc \notin MachineEditors \cup {"PollReply"} PROVE req'[s].pc = pc
      BY <1>0, <3>2, SlotChanges
    <3> QED
      BY <1>1, <3>1, <3>2
  <2> QED
    BY <1>1, <2>2, TablesOfSlot DEF Lasting
<1>3. CASE EditUpsert(s) \/ DetectUpsert(s)
  <2>1. GetMachine(req[s].mid) /\ req[s].row.mac = machines[req[s].mid].mac
    BY <1>0, <1>3 DEF EditUpsert, DetectUpsert, At, FreshMachine, MachineEditors
  <2>2. CASE WriteMachines(UpsertMachine(req[s].mid, req[s].row))
    <3>1. MachinesLast
      BY <1>0, <2>1, <2>2, MachineWrites
    <3>2. JobsLast
      BY <2>2, JobWrites DEF WriteMachines
    <3> QED
      BY <1>1, <1>3, <3>1, <3>2 DEF EditUpsert, DetectUpsert, Lasting
  <2>3. CASE UNCHANGED storeVars
    BY <1>1, <1>3, <2>3, StoreKept DEF EditUpsert, DetectUpsert
  <2> QED
    BY <1>3, <2>2, <2>3 DEF EditUpsert, DetectUpsert
<1>4. CASE CreateInsert(s)
  <2>1. MachinesLast
    BY <1>0, <1>4, MachineWrites DEF CreateInsert
  <2>2. JobsLast
    BY <1>4, JobWrites DEF CreateInsert
  <2> QED
    BY <1>1, <1>4, <2>1, <2>2 DEF CreateInsert, Lasting, MachineEditors
<1>5. CASE CreateStatus(s) \/ CreateBoot(s) \/ ReleaseSet(s)
  <2>1. MachinesLast
    BY <1>0, <1>5, MachineWrites DEF CreateStatus, CreateBoot, ReleaseSet
  <2>2. JobsLast
    BY <1>5, JobWrites DEF CreateStatus, CreateBoot, ReleaseSet, WriteMachines
  <2> QED
    BY <1>1, <1>5, <2>1, <2>2 DEF CreateStatus, CreateBoot, ReleaseSet, Lasting, MachineEditors
<1>6. CASE CancelUpdate(s)
  <2>1. req[s].job.mid = jobs[req[s].jid].mid /\ req[s].job.type = jobs[req[s].jid].type
    BY <1>0, <1>6 DEF CancelUpdate, At, FreshJob, JobHolders, JobWriters
  <2>2. Lasting
    BY <1>0, <1>6, <2>1, JobWrites, MachineWrites DEF CancelUpdate, WriteJobs, Lasting
  <2> QED
    BY <1>1, <1>6, <2>2 DEF CancelUpdate, MachineEditors
<1>7. CASE JobDelete(s)
  <2>1. Lasting
    BY <1>0, <1>7, JobWrites, MachineWrites DEF JobDelete, WriteJobs, Lasting
  <2> QED
    BY <1>1, <1>7, <2>1 DEF JobDelete, MachineEditors
<1>8. CASE ReleaseRead(s) \/ ReleaseCheck(s)
  <2>1. Lasting
    BY <1>8, StoreKept DEF ReleaseRead, ReleaseCheck
  <2> QED
    BY <1>1, <1>8, <2>1 DEF ReleaseRead, ReleaseCheck, MachineEditors
<1> QED
  BY <1>3, <1>4, <1>5, <1>6, <1>7, <1>8 DEF ConsoleMachineStep, ConsoleJobStep

\* Handlers of the agent.
LEMMA TablesAgentSteps ==
  ASSUME Serially, Inv, SerialInv, TablesInv, NEW s \in Slots, AgentStep(s)
  PROVE  Lasting /\ TablesInv'
<1>0. /\ StoreTypeOK /\ TypeOK /\ \A m \in MachineIds : GetMachine(m) => m \in registered
      /\ FreshMachine(req[s]) /\ FreshJob(req[s])
      /\ req[s].pc \in MachineEditors => req[s].row.mac = machines[req[s].mid].mac
      /\ req[s].job \in JobRow /\ jobs \in [JobIds -> JobRow]
  BY FrameKnown DEF TablesInv, StoreTypeOK
<1>1. ASSUME \/ Done(s) \/ \E pc : Goto(s, pc) /\ pc \notin MachineEditors \cup {"PollReply"},
             Lasting
      PROVE  Lasting /\ TablesInv'
  <2>1. Idle.pc \notin MachineEditors \cup {"PollReply"}
    BY DEF Idle, MachineEditors
  <2>2. req'[s].pc \notin MachineEditors \cup {"PollReply"}
    <3>1. CASE Done(s)
      BY <1>0, <2>1, <3>1, SlotChanges
    <3>2. ASSUME NEW pc, Goto(s, pc), pc \notin MachineEditors \cup {"PollReply"} PROVE req'[s].pc = pc
      BY <1>0, <3>2, SlotChanges
    <3> QED
      BY <1>1, <3>1, <3>2
  <2> QED
    BY <1>1, <2>2, TablesOfSlot DEF Lasting
<1>2. ASSUME NEW m \in MachineIds, RegisterInsert(s, m) PROVE Lasting /\ TablesInv'
  <2>1. MachinesLast
    BY <1>0, <1>2, MachineWrites DEF RegisterInsert
  <2>2. JobsLast
    BY <1>2, JobWrites DEF RegisterInsert, NewMachine
  <2> QED
    BY <1>1, <1>2, <2>1, <2>2 DEF RegisterInsert, Lasting
<1>3. CASE RegisterTouch(s) \/ CompleteStatus(s) \/ CompleteBoot(s)
  <2>1. MachinesLast
    BY <1>0, <1>3, MachineWrites DEF RegisterTouch, CompleteStatus, CompleteBoot, TouchMachine
  <2>2. JobsLast
    BY <1>3, JobWrites DEF RegisterTouch, CompleteStatus, CompleteBoot, WriteMachines
  <2> QED
    BY <1>1, <1>3, <2>1, <2>2 DEF RegisterTouch, CompleteStatus, CompleteBoot, Lasting, MachineEditors
<1>4. CASE RegisterReread(s)
  <2>1. Lasting /\ machines' = machines
    BY <1>4, StoreKept DEF RegisterReread, storeVars
  <2>2. CASE Done(s)
    BY <1>1, <2>1, <2>2
  <2>3. CASE req' = [req EXCEPT ![s] = WithMachine("RegisterRename", req[s].mid, machines[req[s].mid])]
    <3>1. req'[s].pc = "RegisterRename" /\ req'[s].mid = req[s].mid /\ req'[s].row = machines[req[s].mid]
      BY <1>0, <2>3, FrameFields DEF TypeOK
    <3> QED
      BY <2>1, <3>1, TablesOfSlot DEF Lasting
  <2> QED
    BY <1>4, <2>2, <2>3 DEF RegisterReread
<1>5. CASE RegisterRename(s)
  <2>1. GetMachine(req[s].mid) /\ req[s].row.mac = machines[req[s].mid].mac
    BY <1>0, <1>5 DEF RegisterRename, At, FreshMachine, MachineEditors
  <2>2. MachinesLast
    BY <1>0, <1>5, <2>1, MachineWrites DEF RegisterRename
  <2>3. JobsLast
    BY <1>5, JobWrites DEF RegisterRename, WriteMachines
  <2> QED
    BY <1>1, <1>5, <2>2, <2>3 DEF RegisterRename, Lasting
<1>6. CASE PollImage(s) \/ PollReply(s)
  <2>1. Lasting
    BY <1>6, StoreKept DEF PollImage, PollReply
  <2> QED
    BY <1>1, <1>6, <2>1 DEF PollImage, PollReply, MachineEditors
<1>7. CASE PollClaim(s)
  <2> DEFINE j == req[s].jid
             claimed == Started(req[s].job)
  <2>1. j \in JobIds /\ GetJob(j) /\ req[s].job.mid = jobs[j].mid /\ req[s].job.type = jobs[j].type
    BY <1>0, <1>7 DEF PollClaim, At, FreshJob, JobHolders
  <2>2. claimed.mid = jobs[j].mid /\ claimed.type = jobs[j].type /\ claimed.status = "running"
    BY <1>0, <2>1 DEF Started, JobRow
  <2>3. WriteJobs(UpdateJob(j, claimed)) /\ req' = [req EXCEPT ![s] = WithJob("PollReply", j, claimed)]
    BY <1>7 DEF PollClaim
  <2> HIDE DEF j, claimed
  <2>4. Lasting
    BY <1>0, <2>2, <2>3, JobWrites, MachineWrites DEF WriteJobs, Lasting
  <2>5. jobs'[j] = claimed
    BY <1>0, <2>1, <2>3 DEF WriteJobs, UpdateJob
  <2>6. req'[s].pc = "PollReply" /\ req'[s].jid = j /\ req'[s].job = claimed
    BY <1>0, <2>3, FrameFields DEF TypeOK
  <2> QED
    BY <2>2, <2>4, <2>5, <2>6, TablesOfSlot DEF Lasting, MachineEditors
<1>8. CASE ProgressUpdate(s) \/ CompleteUpdate(s)
  <2>1. req[s].job.mid = jobs[req[s].jid].mid /\ req[s].job.type = jobs[req[s].jid].type
    BY <1>0, <1>8 DEF ProgressUpdate, CompleteUpdate, At, FreshJob, JobHolders, JobWriters
  <2>2. Lasting
    BY <1>0, <1>8, <2>1, JobWrites, MachineWrites DEF ProgressUpdate, CompleteUpdate, WriteJobs, Lasting
  <2> QED
    BY <1>1, <1>8, <2>2 DEF ProgressUpdate, CompleteUpdate
<1> QED
  BY <1>2, <1>3, <1>4, <1>5, <1>6, <1>7, <1>8 DEF AgentStep

\* Served one after another, requests leave a machine its MAC address and a job its machine.
LEMMA TablesStep == Steadily /\ Inv /\ SerialInv /\ TablesInv /\ [Next]_vars => Lasting /\ TablesInv'
<1> SUFFICES ASSUME Steadily, Inv, SerialInv, TablesInv, [Next]_vars PROVE Lasting /\ TablesInv'
  OBVIOUS
<1>0. Serially
  BY DEF Steadily
<1>1. CASE UNCHANGED vars
  BY <1>1, StoreKept DEF vars, storeVars, TablesInv, GetMachine
<1>2. CASE Environment
  <2>1. UNCHANGED storeVars \/ UNCHANGED <<machines, registered, jobs, lastJob>>
    BY <1>2 DEF Environment, ServeWinPE, DropImage, PutImage, Crash, StoreFails, storeVars
  <2>2. Lasting
    BY <2>1, JobWrites, MachineWrites DEF Inv, TypeOK, TablesInv, storeVars, Lasting
  <2>3. \E kind : Quick(kind)
    BY <1>0, <1>2 DEF Environment, ServeWinPE, DropImage, PutImage, Crash, StoreFails, Serially
  <2> QED
    BY <1>0, <2>2, <2>3, TablesQuick DEF Lasting
<1> QED
  BY <1>0, <1>1, <1>2, TablesConsoleMachine, TablesReaders, TablesConsoleSteps, TablesAgentSteps DEF Next

-----------------------------------------------------------------------------
(* What a host that works may rely on, with requests served one after      *)
(* another.                                                                *)

Registering == {"RegisterInsert", "RegisterTouch", "RegisterReread", "RegisterRename"}
Polling == {"PollImage", "PollClaim", "PollReply"}
Completing == {"CompleteStatus", "CompleteBoot", "CompleteUpdate"}
AtWork == {"work", "report", "answers"}

\* A machine, if it is still there, is this host; a job, if it is still there, is its own.
Known(m, h) == m \in registered /\ (GetMachine(m) => machines[m].mac = h)
Own(j, h) == j \in 1 .. lastJob /\ (GetJob(j) => machines[jobs[j].mid].mac = h)
Typed(j, type) == GetJob(j) => jobs[j].type = type
Undone(j) == jobs[j].status \notin {"succeeded", "failed"}

\* The handler in slot s is the one that the host called, about itself.
Serving(s, h) ==
  \/ /\ host[h].pc \in {"register", "refresh"} /\ req[s].pc \in Registering
     /\ req[s].pc = "RegisterInsert" => req[s].row.mac = h
     /\ req[s].pc # "RegisterInsert" => Known(req[s].mid, h)
  \/ host[h].pc = "poll" /\ req[s].pc \in Polling /\ Own(req[s].jid, h)
  \/ host[h].pc = "report" /\ req[s].pc = "ProgressUpdate"
  \/ host[h].pc = "complete" /\ req[s].pc \in Completing /\ req[s].jid = host[h].jid

\* What a finished installation left on the disk.
Installed(h, j) == disk[h].content \in Leaves /\ disk[h].by = j

HostOK(h) ==
  /\ \A s \in Slots : host[h].slot = s => Serving(s, h)
  /\ host[h].mid # "none" => Known(host[h].mid, h)
  /\ host[h].pc \in AtWork \cup {"complete"} => Own(host[h].jid, h) /\ Typed(host[h].jid, host[h].type)
  /\ host[h].pc \in AtWork => Undone(host[h].jid)
  /\ host[h].pc \in {"answers", "complete"} /\ host[h].ok /\ host[h].type = "install" =>
       Installed(h, host[h].jid)

\* Whose work the handler of a report of an end is about, even if that host was cut off.
FinishOK(s, h) ==
  /\ machines[req[s].job.mid].mac = h
  /\ host[h].pc \in AtWork \cup {"complete"} => host[h].pc = "complete" /\ host[h].slot = s
  /\ req[s].job.status = "succeeded" /\ req[s].job.type = "install" => Installed(h, req[s].jid)

OneCaller == \A g, h \in Hosts : host[g].slot = host[h].slot /\ host[g].slot # "none" => g = h

HostsInv ==
  /\ OneCaller
  /\ \A h \in Hosts : HostOK(h)
  /\ \A s \in Slots : req[s].pc \in Completing => \E h \in Hosts : FinishOK(s, h)

\* All that holds of requests served one after another, in one state.
Steady == Inv /\ SerialInv /\ TablesInv

-----------------------------------------------------------------------------
(* What stays true of a machine or a job whatever the control plane does.  *)

LEMMA KnownStays ==
  ASSUME Lasting, NEW m \in MachineIds, NEW h, Known(m, h)
  PROVE  Known(m, h)'
BY DEF Lasting, MachinesLast, Known

LEMMA OwnStays ==
  ASSUME Steady, Steady', Lasting, NEW j, NEW h, Own(j, h)
  PROVE  Own(j, h)'
<1>1. j \in 1 .. lastJob' /\ j \in JobIds
  BY MaxJobsIsNat DEF Lasting, JobsLast, Own, Steady, Inv, TypeOK, StoreTypeOK, JobIds
<1>2. SUFFICES ASSUME GetJob(j)' PROVE machines'[jobs'[j].mid].mac = h
  BY <1>1 DEF Own
<1>3. GetJob(j) /\ jobs'[j].mid = jobs[j].mid /\ machines[jobs[j].mid].mac = h
  BY <1>2 DEF Lasting, JobsLast, Own
<1>4. GetMachine(jobs[j].mid) /\ GetMachine(jobs[j].mid)'
  BY <1>1, <1>2, <1>3 DEF Steady, SerialInv, JobsHaveMachine
<1>5. PICK m \in MachineIds : m = jobs[j].mid
  BY <1>4 DEF GetMachine
<1>6. GetMachine(m) /\ GetMachine(m)'
  BY <1>3, <1>4, <1>5 DEF GetMachine
<1>7. m \in registered
  BY <1>6 DEF Steady, TablesInv
<1>8. machines'[m].mac = machines[m].mac
  BY <1>6, <1>7 DEF Lasting, MachinesLast
<1> QED
  BY <1>3, <1>5, <1>8

LEMMA TypedStays ==
  ASSUME Lasting, NEW j \in 1 .. lastJob, NEW type, Typed(j, type)
  PROVE  Typed(j, type)'
BY DEF Lasting, JobsLast, Typed

\* The end of a job is told by the handler of a report of an end, and by no other.
LEMMA UndoneStays ==
  ASSUME Serially, Steady, Lasting, [Next]_vars, NEW j, NEW h, Own(j, h), Undone(j),
         \A s \in Slots : req[s].pc \in Completing => machines[req[s].job.mid].mac # h
  PROVE  Undone(j)'
<1>1. j \in JobIds /\ j \in 1 .. lastJob
  BY MaxJobsIsNat DEF Own, Steady, Inv, TypeOK, StoreTypeOK, JobIds
<1>2. CASE ~GetJob(j)'
  BY <1>2 DEF GetJob, NoJob, Undone
<1>3. CASE GetJob(j)'
  <2>1. GetJob(j)
    BY <1>1, <1>3 DEF Lasting, JobsLast
  <2>2. ASSUME NEW s \in Slots, CompleteUpdate(s), req[s].jid = j PROVE FALSE
    <3>1. req[s].pc = "CompleteUpdate"
      BY <2>2 DEF CompleteUpdate, At
    <3>2. req[s].job.mid = jobs[j].mid
      BY <2>2, <3>1, FrameKnown DEF Steady, FreshJob, JobHolders, JobWriters
    <3> QED
      BY <2>1, <3>1, <3>2 DEF Own, Completing
  <2>3. \/ jobs'[j].status = jobs[j].status
        \/ jobs'[j].status \in {"running", "cancelled"}
    BY <1>1, <1>3, <2>1, <2>2, SerialChange DEF Steady
  <2> QED
    BY <2>3 DEF Undone
<1> QED
  BY <1>2, <1>3

-----------------------------------------------------------------------------
(* Handlers under way.                                                     *)

\* While a request is served no other begins.
LEMMA BusySlot ==
  ASSUME Serially, TypeOK, NEW s \in Slots, req[s].pc # "idle"
  PROVE  /\ ~ConsoleMachine /\ ~ConsoleJob /\ ~AgentCall /\ ~Environment
<1>1. \A t \in Slots : req[t] # Idle
  BY DEF Serially, Idle
<1>2. \A kind : ~Quick(kind)
  BY <1>1 DEF Quick
<1>3. \A kind, f : \A t \in Slots : ~Start(kind, t, f)
  BY <1>1 DEF Start
<1>4. ~ConsoleMachine
  BY <1>2, <1>3 DEF ConsoleMachine, CreateMachine, RemoveMachine, SetBoot, EditLoad, EditPut, DetectRead
<1>5. ~ConsoleJob
  BY <1>3 DEF ConsoleJob, CreateInstall, CreateStress, CancelRead, DeleteRead
<1>6. ~AgentCall
  BY <1>3 DEF AgentCall, Register, PollNext, ProgressRead, CompleteRead
<1>7. ~Environment
  BY <1>2 DEF Environment, ServeWinPE, DropImage, PutImage, Crash, StoreFails, Serially
<1> QED
  BY <1>4, <1>5, <1>6, <1>7

HandlerActs(s) == ConsoleMachineStep(s) \/ ConsoleJobStep(s) \/ AgentStep(s)

\* What a handler that goes on is still about.
GoesOn(s) ==
  /\ req[s].pc \in (Registering \ {"RegisterInsert"}) \cup Polling \cup Completing
  /\ req[s].pc \in Registering =>
       req'[s].pc \in Registering \ {"RegisterInsert"} /\ req'[s].mid = req[s].mid
  /\ req[s].pc \in Polling => req'[s].pc \in Polling /\ req'[s].jid = req[s].jid
  /\ req[s].pc \in Completing =>
       req'[s].pc \in Completing /\ req'[s].jid = req[s].jid /\ req'[s].job = req[s].job

LEMMA CompletingGoesOn ==
  ASSUME NEW s \in Slots, req'[s] = req[s] \/ GoesOn(s), req'[s].pc \in Completing
  PROVE  req[s].pc \in Completing /\ req'[s].jid = req[s].jid /\ req'[s].job = req[s].job
BY DEF GoesOn, Registering, Polling, Completing

\* The steps of the handlers that hosts call, told by where the handler stands.
LEMMA HandlerGoesOn ==
  ASSUME TypeOK, NEW s \in Slots, HandlerActs(s),
         req[s].pc \in Registering \cup Polling \cup Completing \cup {"ProgressUpdate"}
  PROVE  req'[s] = Idle \/ GoesOn(s)
<1>1. AgentStep(s)
  BY DEF HandlerActs, ConsoleMachineStep, ConsoleJobStep, EditUpsert, DetectUpsert, CreateInsert,
         CreateStatus, CreateBoot, CancelUpdate, JobDelete, ReleaseRead, ReleaseCheck, ReleaseSet, At,
         Registering, Polling, Completing
<1>2. Done(s) => req'[s] = Idle
  BY SlotChanges
<1>3. ASSUME NEW m \in MachineIds, RegisterInsert(s, m) PROVE req'[s] = Idle
  BY <1>2, <1>3 DEF RegisterInsert
<1>4. CASE RegisterRename(s) \/ PollReply(s) \/ ProgressUpdate(s) \/ CompleteUpdate(s)
  BY <1>2, <1>4 DEF RegisterRename, PollReply, ProgressUpdate, CompleteUpdate
<1>5. CASE RegisterTouch(s)
  <2>1. req[s].pc = "RegisterTouch" /\ req'[s].pc = "RegisterReread" /\ req'[s].mid = req[s].mid
    BY <1>5, SlotChanges DEF RegisterTouch, At
  <2> QED
    BY <2>1 DEF GoesOn, Registering, Polling, Completing
<1>6. CASE RegisterReread(s)
  <2>1. req[s].pc = "RegisterReread"
    BY <1>6 DEF RegisterReread, At
  <2>2. CASE req' = [req EXCEPT ![s] = WithMachine("RegisterRename", req[s].mid, machines[req[s].mid])]
    <3>1. req'[s].pc = "RegisterRename" /\ req'[s].mid = req[s].mid
      BY <2>2, FrameFields DEF TypeOK
    <3> QED
      BY <2>1, <3>1 DEF GoesOn, Registering, Polling, Completing
  <2> QED
    BY <1>2, <1>6, <2>2 DEF RegisterReread
<1>7. CASE PollImage(s)
  <2>1. req[s].pc = "PollImage"
    BY <1>7 DEF PollImage, At
  <2>2. CASE Goto(s, "PollClaim")
    <3>1. req'[s].pc = "PollClaim" /\ req'[s].jid = req[s].jid
      BY <2>2, SlotChanges
    <3> QED
      BY <2>1, <3>1 DEF GoesOn, Registering, Polling, Completing
  <2> QED
    BY <1>2, <1>7, <2>2 DEF PollImage
<1>8. CASE PollClaim(s)
  <2>1. req[s].pc = "PollClaim" /\ req'[s].pc = "PollReply" /\ req'[s].jid = req[s].jid
    BY <1>8, FrameFields DEF PollClaim, At, TypeOK
  <2> QED
    BY <2>1 DEF GoesOn, Registering, Polling, Completing
<1>9. CASE CompleteStatus(s) \/ CompleteBoot(s)
  <2>1. req[s].pc \in {"CompleteStatus", "CompleteBoot"}
    BY <1>9 DEF CompleteStatus, CompleteBoot, At
  <2>2. /\ req'[s].pc \in {"CompleteBoot", "CompleteUpdate"}
        /\ req'[s].jid = req[s].jid /\ req'[s].job = req[s].job
    BY <1>9, SlotChanges DEF CompleteStatus, CompleteBoot
  <2> QED
    BY <2>1, <2>2 DEF GoesOn, Registering, Polling, Completing
<1> QED
  BY <1>1, <1>3, <1>4, <1>5, <1>6, <1>7, <1>8, <1>9 DEF AgentStep

-----------------------------------------------------------------------------
(* Hosts that a step is not about.                                         *)

\* Every step of the control plane, seen from here.
Onward == Steady /\ Steady' /\ Lasting /\ [Next]_vars

LEMMA WorkIsOpen ==
  ASSUME HostsInv, NEW h \in Hosts, NEW s \in Slots, req[s].pc \in Completing,
         host[h].pc \in AtWork \/ (host[h].pc = "complete" /\ host[h].slot # s)
  PROVE  machines[req[s].job.mid].mac # h
<1>1. PICK g \in Hosts : FinishOK(s, g)
  BY DEF HostsInv
<1> QED
  BY <1>1 DEF FinishOK, AtWork

LEMMA HostStays ==
  ASSUME Serially, HostInv, Onward, HostsInv, NEW h \in Hosts, host'[h] = host[h], disk'[h] = disk[h],
         \A s \in Slots : host[h].slot = s => req'[s] = req[s] \/ GoesOn(s)
  PROVE  HostOK(h)'
<1>0. HostOK(h) /\ host[h] \in Host
  BY DEF HostsInv, HostInv
<1>1. ASSUME NEW s \in Slots, host[h].slot = s PROVE Serving(s, h)'
  <2>1. Serving(s, h)
    BY <1>0, <1>1 DEF HostOK
  <2>2. registered \subseteq MachineIds
    BY DEF Onward, Steady, Inv, TypeOK, StoreTypeOK
  <2>3. PICK m : m = req[s].mid
    OBVIOUS
  <2>4. PICK j : j = req[s].jid
    OBVIOUS
  <2>5. Known(m, h) => Known(m, h)'
    BY <2>2, KnownStays DEF Known, Onward
  <2>6. Own(j, h) => Own(j, h)'
    BY OwnStays DEF Onward
  <2>7. CASE req'[s] = req[s]
    BY <1>1, <2>1, <2>3, <2>4, <2>5, <2>6, <2>7 DEF Serving, Known, Own
  <2>8. CASE GoesOn(s)
    <3>1. CASE req[s].pc \in Registering
      <4>1. req'[s].pc \in Registering \ {"RegisterInsert"} /\ req'[s].mid = m
        BY <2>3, <2>8, <3>1 DEF GoesOn
      <4>2. host[h].pc \in {"register", "refresh"} /\ Known(m, h)
        BY <2>1, <2>3, <2>8, <3>1 DEF Serving, GoesOn, Registering, Polling, Completing
      <4> QED
        BY <2>5, <4>1, <4>2 DEF Serving, Known
    <3>2. CASE req[s].pc \in Polling
      <4>1. req'[s].pc \in Polling /\ req'[s].jid = j
        BY <2>4, <2>8, <3>2 DEF GoesOn
      <4>2. host[h].pc = "poll" /\ Own(j, h)
        BY <2>1, <2>4, <3>2 DEF Serving, Registering, Polling, Completing
      <4> QED
        BY <2>6, <4>1, <4>2 DEF Serving, Own
    <3>3. CASE req[s].pc \in Completing
      <4>1. req'[s].pc \in Completing /\ req'[s].jid = req[s].jid
        BY <2>8, <3>3 DEF GoesOn
      <4>2. host[h].pc = "complete" /\ req[s].jid = host[h].jid
        BY <2>1, <3>3 DEF Serving, Registering, Polling, Completing
      <4> QED
        BY <4>1, <4>2 DEF Serving
    <3> QED
      BY <2>1, <2>8, <3>1, <3>2, <3>3 DEF Serving, GoesOn
  <2> QED
    BY <1>1, <2>7, <2>8
<1>2. PICK m, j, type : m = host[h].mid /\ j = host[h].jid /\ type = host[h].type
  OBVIOUS
<1>3. m # "none" => Known(m, h)'
  <2>1. m # "none" => m \in MachineIds /\ Known(m, h)
    BY <1>0, <1>2 DEF HostOK, Host
  <2> QED
    BY <2>1, KnownStays DEF Onward
<1>4. host[h].pc \in AtWork \cup {"complete"} => Own(j, h)' /\ Typed(j, type)'
  <2>1. host[h].pc \in AtWork \cup {"complete"} => Own(j, h) /\ Typed(j, type)
    BY <1>0, <1>2 DEF HostOK
  <2> QED
    BY <2>1, OwnStays, TypedStays DEF Onward, Own
<1>5. host[h].pc \in AtWork => Undone(j)'
  <2>1. host[h].pc \in AtWork => Own(j, h) /\ Undone(j)
    BY <1>0, <1>2 DEF HostOK
  <2> QED
    BY <2>1, UndoneStays, WorkIsOpen DEF Onward
<1>6. host[h].pc \in {"answers", "complete"} /\ host[h].ok /\ host[h].type = "install" => Installed(h, j)'
  BY <1>0, <1>2 DEF HostOK, Installed
<1> QED
  BY <1>1, <1>2, <1>3, <1>4, <1>5, <1>6 DEF HostOK, Known, Own, Typed, Undone, Installed

LEMMA FinishStays ==
  ASSUME Onward, NEW s \in Slots, NEW h, FinishOK(s, h), req[s].pc \in Completing,
         req'[s].pc \in Completing, req'[s].jid = req[s].jid, req'[s].job = req[s].job,
         host'[h] = host[h] \/ host'[h].pc \notin AtWork \cup {"complete"},
         disk'[h].content = disk[h].content, disk'[h].by = disk[h].by
  PROVE  FinishOK(s, h)'
<1>1. FreshJob(req[s]) /\ JobsHaveMachine
  BY FrameKnown DEF Onward, Steady
<1>2. FreshJob(req[s])' /\ JobsHaveMachine'
  BY DEF Onward, Steady, SerialInv
<1>3. PICK j \in JobIds : j = req[s].jid /\ GetJob(j) /\ req[s].job.mid = jobs[j].mid
  BY <1>1 DEF FreshJob, JobHolders, JobWriters, Completing
<1>4. GetJob(j)' /\ req[s].job.mid = jobs'[j].mid
  BY <1>2, <1>3 DEF FreshJob, JobHolders, JobWriters, Completing
<1>5. PICK m : m = req[s].job.mid
  OBVIOUS
<1>6. m \in MachineIds /\ GetMachine(m) /\ GetMachine(m)'
  BY <1>1, <1>2, <1>3, <1>4, <1>5 DEF JobsHaveMachine, GetMachine
<1>7. machines'[m].mac = machines[m].mac
  BY <1>6 DEF Onward, Steady, TablesInv, Lasting, MachinesLast
<1> QED
  BY <1>5, <1>7 DEF FinishOK, Installed

\* A step of the control plane that no host takes part in.
LEMMA QuietStep ==
  ASSUME Serially, HostInv, Onward, HostsInv, UNCHANGED <<host, disk>>,
         \A s \in Slots : \/ req'[s] = req[s]
                          \/ GoesOn(s)
                          \/ req'[s].pc \notin Completing /\ \A h \in Hosts : host[h].slot # s
  PROVE  HostsInv'
<1>1. OneCaller'
  BY DEF HostsInv, OneCaller
<1>2. ASSUME NEW h \in Hosts PROVE HostOK(h)'
  BY <1>2, HostStays
<1>3. ASSUME NEW s \in Slots, req'[s].pc \in Completing PROVE \E h \in Hosts : FinishOK(s, h)'
  <2>1. req'[s] = req[s] \/ GoesOn(s)
    BY <1>3
  <2>2. req[s].pc \in Completing /\ req'[s].jid = req[s].jid /\ req'[s].job = req[s].job
    BY <1>3, <2>1, CompletingGoesOn
  <2>3. PICK h \in Hosts : FinishOK(s, h)
    BY <2>2 DEF HostsInv
  <2> QED
    BY <1>3, <2>2, <2>3, FinishStays
<1> QED
  BY <1>1, <1>2, <1>3 DEF HostsInv

\* A step that host h takes, given what becomes of it and of the report of an end.
LEMMA OneHostMoves ==
  ASSUME Serially, HostInv, Onward, HostsInv, NEW h \in Hosts,
         \A g \in Hosts \ {h} : host'[g] = host[g] /\ disk'[g] = disk[g],
         \/ UNCHANGED req /\ host'[h].slot = "none"
         \/ \A g \in Hosts \ {h} : host[g].slot = "none",
         HostOK(h)',
         \A s \in Slots : req'[s].pc \in Completing => \E g \in Hosts : FinishOK(s, g)'
  PROVE  HostsInv'
<1>1. ASSUME NEW g \in Hosts \ {h}, NEW s \in Slots, host[g].slot = s PROVE req'[s] = req[s]
  BY <1>1, NoneIsNoSlot
<1>2. ASSUME NEW g \in Hosts PROVE HostOK(g)'
  BY <1>1, <1>2, HostStays
<1>3. OneCaller'
  BY DEF HostsInv, OneCaller
<1> QED
  BY <1>2, <1>3 DEF HostsInv

\* A step of host h without a call: it goes on with its work, or begins anew.
LEMMA AloneStep ==
  ASSUME Serially, HostInv, Onward, HostsInv, NEW h \in Hosts, NEW row, UNCHANGED vars,
         host' = [host EXCEPT ![h] = row], row.slot = "none", row.mid \in {"none", host[h].mid},
         row.pc \in AtWork \cup {"complete"} =>
           /\ host[h].pc \in AtWork \cup {"complete"} /\ host[h].slot = "none"
           /\ row.jid = host[h].jid /\ row.type = host[h].type,
         row.pc \in AtWork => host[h].pc \in AtWork,
         row.pc \in {"answers", "complete"} /\ row.ok /\ row.type = "install" => Installed(h, row.jid)',
         \A g \in Hosts : \/ g = h /\ host[h].pc = "work" /\ host[h].slot = "none"
                          \/ disk'[g].content = disk[g].content /\ disk'[g].by = disk[g].by,
         \A g \in Hosts \ {h} : disk'[g] = disk[g]
  PROVE  HostsInv'
<1>0. HostOK(h) /\ host[h] \in Host /\ host'[h] = row
  BY DEF HostsInv, HostInv
<1>1. PICK m, j, type : m = row.mid /\ j = row.jid /\ type = row.type
  OBVIOUS
<1>2. /\ req' = req /\ machines' = machines /\ registered' = registered
      /\ jobs' = jobs /\ lastJob' = lastJob
  BY DEF vars
<1>3. m # "none" => Known(m, h)
  BY <1>0, <1>1 DEF HostOK
<1>4. row.pc \in AtWork \cup {"complete"} => Own(j, h) /\ Typed(j, type)
  BY <1>0, <1>1 DEF HostOK
<1>5. row.pc \in AtWork => Undone(j)
  BY <1>0, <1>1 DEF HostOK
<1>6. \A s \in Slots : host'[h].slot # s
  BY <1>0, NoneIsNoSlot
<1>7. HostOK(h)'
  BY <1>0, <1>1, <1>2, <1>3, <1>4, <1>5, <1>6 DEF HostOK, Known, Own, Typed, Undone, GetMachine, GetJob, Installed
<1>8. ASSUME NEW s \in Slots, req'[s].pc \in Completing PROVE \E g \in Hosts : FinishOK(s, g)'
  <2>1. PICK g \in Hosts : FinishOK(s, g)
    BY <1>2, <1>8 DEF HostsInv
  <2>2. s # "none"
    BY NoneIsNoSlot
  <2>3. g = h /\ host[h].slot = "none" => host[h].pc \notin AtWork \cup {"complete"}
    BY <2>1, <2>2 DEF FinishOK
  <2>4. disk'[g].content = disk[g].content /\ disk'[g].by = disk[g].by
    BY <2>3 DEF AtWork
  <2>5. host'[g] = host[g] \/ host'[g].pc \notin AtWork \cup {"complete"}
    BY <1>0, <2>3 DEF HostInv
  <2> QED
    BY <1>2, <1>8, <2>1, <2>4, <2>5, FinishStays
<1> QED
  BY <1>0, <1>2, <1>7, <1>8, OneHostMoves DEF HostInv

\* The steps of a host that are no calls.
LEMMA HostAloneSteps ==
  ASSUME Serially, HostInv, Onward, HostsInv, NEW h \in Hosts,
         \/ Boot(h) \/ Alone(h) \/ Ends(h)
         \/ OperatorReboots(h) \/ RebootFires(h) \/ PowerCut(h) \/ CallLost(h)
  PROVE  HostsInv'
<1>0. host[h] \in Host /\ disk[h] \in Disk /\ host \in [Hosts -> Host] /\ disk \in [Hosts -> Disk]
  BY DEF HostInv
<1>1. ASSUME Become(h, Down) \/ \E os, pc : pc \in {"off", "fetch", "register"} /\ Become(h, Booted(os, pc)),
             UNCHANGED vars
      PROVE  HostsInv'
  <2>1. PICK row : /\ Become(h, row) /\ row.slot = "none" /\ row.mid = "none"
                   /\ row.pc \in {"off", "fetch", "register"}
    <3>1. Down.slot = "none" /\ Down.mid = "none" /\ Down.pc = "off"
      BY DEF Down
    <3>2. \A os, pc : Booted(os, pc).slot = "none" /\ Booted(os, pc).mid = "none" /\ Booted(os, pc).pc = pc
      BY DEF Down, Booted
    <3> QED
      BY <1>1, <3>1, <3>2
  <2>2. row.pc \notin AtWork \cup {"complete", "answers"}
    BY <2>1 DEF AtWork
  <2>3. UNCHANGED disk /\ host' = [host EXCEPT ![h] = row]
    BY <2>1 DEF Become
  <2> QED
    BY <1>1, <2>1, <2>2, <2>3, AloneStep
<1>2. CASE Boot(h)
  <2>1. Script(h) \in {"local", "winpe", "ramos"}
    BY DEF Script, ScriptFor
  <2> QED
    BY <1>1, <1>2, <2>1 DEF Boot, ControlPlaneIdle
<1>3. CASE FetchNothing(h) \/ OperatorReboots(h) \/ RebootFires(h) \/ PowerCut(h)
  BY <1>1, <1>3 DEF FetchNothing, OperatorReboots, RebootFires, PowerCut, ControlPlaneIdle
<1>4. ASSUME NEW pc, host[h].slot = "none", pc \notin AtWork \cup {"complete"},
             Become(h, [host[h] EXCEPT !.pc = pc, !.slot = "none"]), UNCHANGED vars
      PROVE  HostsInv'
  <2>0. PICK row : row = [host[h] EXCEPT !.pc = pc, !.slot = "none"]
    OBVIOUS
  <2>1. row.slot = "none" /\ row.mid = host[h].mid /\ row.pc = pc
    BY <1>0, <2>0 DEF Host
  <2>2. UNCHANGED disk /\ host' = [host EXCEPT ![h] = row]
    BY <1>4, <2>0 DEF Become
  <2> QED
    BY <1>4, <2>1, <2>2, AloneStep DEF AtWork
<1>5. CASE PollUnknown(h)
  <2>1. [host[h] EXCEPT !.pc = "refresh"] = [host[h] EXCEPT !.pc = "refresh", !.slot = "none"]
    BY <1>0, <1>5 DEF PollUnknown, Ready, Host
  <2> QED
    BY <1>4, <1>5, <2>1 DEF PollUnknown, GoOn, Ready, AtWork, ControlPlaneIdle
<1>6. CASE CompleteGone(h) \/ CallLost(h)
  <2>1. PICK pc \in NextPcs(host[h]) : Become(h, [host[h] EXCEPT !.pc = pc, !.slot = "none"])
    BY <1>6 DEF CompleteGone, CallLost, AfterError
  <2>2. host[h].slot = "none" /\ host[h].pc \in {"register", "refresh", "poll", "complete"} /\ UNCHANGED vars
    BY <1>6 DEF CompleteGone, CallLost, Ready, ControlPlaneIdle
  <2>3. pc \in {"register", "refresh", "poll", "done"} \/ (pc = "complete" /\ host[h].pc = "complete")
    BY <2>2 DEF NextPcs
  <2>4. CASE pc = "complete" /\ host[h].pc = "complete"
    <3>1. [host[h] EXCEPT !.pc = pc, !.slot = "none"] = host[h]
      BY <1>0, <2>2, <2>4 DEF Host
    <3>2. host' = [host EXCEPT ![h] = host[h]] /\ UNCHANGED disk
      BY <2>1, <3>1 DEF Become
    <3>3. HostOK(h)
      BY DEF HostsInv
    <3>4. host[h].ok /\ host[h].type = "install" => Installed(h, host[h].jid)
      BY <2>4, <3>3 DEF HostOK
    <3>5. PICK row : row = host[h]
      OBVIOUS
    <3>6. row.ok /\ row.type = "install" => Installed(h, row.jid)'
      BY <3>2, <3>4, <3>5 DEF Installed
    <3> QED
      BY <2>2, <2>4, <3>2, <3>5, <3>6, AloneStep DEF AtWork
  <2> QED
    BY <1>4, <2>1, <2>2, <2>3, <2>4 DEF AtWork
<1>7. ASSUME host[h].slot = "none", host[h].pc \in AtWork, NEW pc \in {"work", "answers", "complete"},
             NEW row, row = [host[h] EXCEPT !.pc = pc, !.ok = row.ok, !.reboot = row.reboot],
             host' = [host EXCEPT ![h] = row], UNCHANGED vars,
             pc # "work" /\ row.ok /\ host[h].type = "install" => Installed(h, host[h].jid)',
             \/ host[h].pc = "work"
             \/ disk'[h].content = disk[h].content /\ disk'[h].by = disk[h].by,
             \A g \in Hosts \ {h} : disk'[g] = disk[g]
      PROVE  HostsInv'
  <2>1. /\ row.slot = "none" /\ row.mid = host[h].mid /\ row.pc = pc
        /\ row.jid = host[h].jid /\ row.type = host[h].type
    BY <1>0, <1>7 DEF Host
  <2>2. PICK j : j = host[h].jid
    OBVIOUS
  <2>3. row.pc \in {"answers", "complete"} /\ row.ok /\ row.type = "install" => Installed(h, row.jid)'
    BY <1>7, <2>1 DEF Installed
  <2>4. row.pc \in AtWork => host[h].pc \in AtWork
    BY <1>7
  <2>5. \A g \in Hosts : \/ g = h /\ host[h].pc = "work" /\ host[h].slot = "none"
                         \/ disk'[g].content = disk[g].content /\ disk'[g].by = disk[g].by
    BY <1>7
  <2> QED
    BY <1>7, <2>1, <2>3, <2>4, <2>5, AloneStep
<1>8. CASE Format(h)
  <2>1. /\ host[h].slot = "none" /\ host[h].pc = "work" /\ UNCHANGED host /\ UNCHANGED vars
        /\ disk' = [disk EXCEPT ![h] = [content |-> "partial", by |-> host[h].jid, answers |-> 0]]
    BY <1>8 DEF Format, Ready, Write, ControlPlaneIdle
  <2>2. PICK row : row = host[h]
    OBVIOUS
  <2>3. row = [host[h] EXCEPT !.pc = "work", !.ok = row.ok, !.reboot = row.reboot]
    BY <1>0, <2>1, <2>2 DEF Host
  <2>4. host' = [host EXCEPT ![h] = row] /\ \A g \in Hosts \ {h} : disk'[g] = disk[g]
    BY <1>0, <2>1, <2>2
  <2> QED
    BY <1>7, <2>1, <2>3, <2>4 DEF AtWork
<1>9. CASE Fail(h)
  <2>1. /\ host[h].slot = "none" /\ host[h].pc = "work" /\ UNCHANGED disk /\ UNCHANGED vars
        /\ host' = [host EXCEPT ![h] = [host[h] EXCEPT !.pc = "complete", !.ok = FALSE]]
    BY <1>9 DEF Fail, Ready, Become, ControlPlaneIdle
  <2>2. PICK row : row = [host[h] EXCEPT !.pc = "complete", !.ok = FALSE]
    OBVIOUS
  <2>3. row = [host[h] EXCEPT !.pc = "complete", !.ok = row.ok, !.reboot = row.reboot] /\ ~row.ok
    BY <1>0, <2>2 DEF Host
  <2> QED
    BY <1>7, <2>1, <2>2, <2>3 DEF AtWork
<1>10. CASE Succeed(h)
  <2> DEFINE pc == IF host[h].os = "winpe" THEN "answers" ELSE "complete"
             r  == Reboot /\ host[h].type = "install" /\ host[h].os = "ramos"
  <2>1. /\ host[h].slot = "none" /\ host[h].pc = "work" /\ UNCHANGED vars
        /\ host' = [host EXCEPT ![h] = [host[h] EXCEPT !.pc = pc, !.ok = TRUE, !.reboot = r]]
    BY <1>0, <1>10 DEF Succeed, Ready, ControlPlaneIdle
  <2>2. PICK row : row = [host[h] EXCEPT !.pc = pc, !.ok = TRUE, !.reboot = r]
    OBVIOUS
  <2>3. row = [host[h] EXCEPT !.pc = pc, !.ok = row.ok, !.reboot = row.reboot]
    BY <1>0, <2>2 DEF Host
  <2>4. pc \in {"work", "answers", "complete"}
    OBVIOUS
  <2>5. \A g \in Hosts \ {h} : disk'[g] = disk[g]
    BY <1>0, <1>10 DEF Succeed, Write
  <2>6. host[h].type = "install" => Installed(h, host[h].jid)'
    <3>1. SUFFICES ASSUME host[h].type = "install"
                   PROVE  disk'[h].content \in Leaves /\ disk'[h].by = host'[h].jid
      BY DEF Installed
    <3>2. PICK c \in Leaves : disk' = [disk EXCEPT ![h] = [disk[h] EXCEPT !.content = c]]
      BY <1>10, <3>1 DEF Succeed, Write
    <3>4. disk[h].by = host[h].jid
      BY <1>10, <3>1 DEF Succeed
    <3>3. host'[h].jid = host[h].jid
      BY <1>0, <2>1 DEF Host
    <3> QED
      BY <1>0, <3>2, <3>3, <3>4 DEF Disk
  <2> HIDE DEF pc, r
  <2> QED
    BY <1>7, <2>1, <2>2, <2>3, <2>4, <2>5, <2>6 DEF AtWork
<1>11. CASE FetchAnswers(h)
  <2>1. /\ host[h].slot = "none" /\ host[h].pc = "answers" /\ UNCHANGED vars
        /\ host' = [host EXCEPT ![h] = [host[h] EXCEPT !.pc = "complete"]]
        /\ \E j : disk' = [disk EXCEPT ![h] = [disk[h] EXCEPT !.answers = j]]
    BY <1>0, <1>11 DEF FetchAnswers, Ready, Write, ControlPlaneIdle
  <2>2. disk'[h].content = disk[h].content /\ disk'[h].by = disk[h].by /\ \A g \in Hosts \ {h} : disk'[g] = disk[g]
    BY <1>0, <2>1 DEF Disk
  <2>3. PICK row : row = [host[h] EXCEPT !.pc = "complete"]
    OBVIOUS
  <2>4. row = [host[h] EXCEPT !.pc = "complete", !.ok = row.ok, !.reboot = row.reboot] /\ row.ok = host[h].ok
    BY <1>0, <2>3 DEF Host
  <2>5. host[h].ok /\ host[h].type = "install" => Installed(h, host[h].jid)
    BY <2>1 DEF HostsInv, HostOK
  <2>6. host'[h].jid = host[h].jid
    BY <1>0, <2>1 DEF Host
  <2>7. host[h].ok /\ host[h].type = "install" => Installed(h, host[h].jid)'
    BY <2>2, <2>5, <2>6 DEF Installed
  <2> QED
    BY <1>7, <2>1, <2>2, <2>3, <2>4, <2>7 DEF AtWork
<1> QED
  BY <1>2, <1>3, <1>5, <1>6, <1>8, <1>9, <1>10, <1>11 DEF Alone, Ends

-----------------------------------------------------------------------------
(* Calls of a host.                                                        *)

\* While no request is served, no host waits for an answer.
LEMMA NobodyAwaits ==
  ASSUME Serially, HostInv, HostsInv, NEW s \in Slots, req[s] = Idle
  PROVE  \A g \in Hosts : host[g].slot = "none"
<1> SUFFICES ASSUME NEW g \in Hosts, host[g].slot # "none" PROVE FALSE
  OBVIOUS
<1>1. host[g].slot \in Slots
  BY DEF HostInv, Host
<1>2. host[g].slot = s
  BY <1>1 DEF Serially
<1>3. Serving(s, g)
  BY <1>2 DEF HostsInv, HostOK
<1> QED
  BY <1>3 DEF Serving, Idle, Registering, Polling, Completing

\* Host h called, and the handler in slot s began.
LEMMA CallStep ==
  ASSUME Serially, HostInv, Onward, HostsInv, NEW h \in Hosts, NEW s \in Slots, req[s] = Idle,
         NEW pc \in Awaiting, Await(h, s, pc), UNCHANGED storeVars,
         host[h].pc = pc \/ (host[h].pc = "work" /\ pc = "report"),
         Serving(s, h)', req'[s].pc \in Completing => FinishOK(s, h)'
  PROVE  HostsInv'
<1>0. HostOK(h) /\ host[h] \in Host /\ host \in [Hosts -> Host] /\ disk' = disk
  BY DEF HostsInv, HostInv, Await, Become
<1>1. PICK m, j, type : m = host[h].mid /\ j = host[h].jid /\ type = host[h].type
  OBVIOUS
<1>2. /\ host'[h].pc = pc /\ host'[h].mid = m /\ host'[h].jid = j /\ host'[h].type = type
      /\ host'[h].ok = host[h].ok /\ \A g \in Hosts \ {h} : host'[g] = host[g]
  BY <1>0, <1>1 DEF Await, Become, Host
<1>3. machines' = machines /\ registered' = registered /\ jobs' = jobs /\ lastJob' = lastJob
  BY DEF storeVars
<1>4. \A t \in Slots : t = s
  BY DEF Serially
<1>5. (m # "none" => Known(m, h)) /\ (m # "none" => Known(m, h)')
  BY <1>0, <1>1, <1>3 DEF HostOK, Known, GetMachine
<1>6. pc \in AtWork \cup {"complete"} => Own(j, h)' /\ Typed(j, type)'
  <2>1. pc \in AtWork \cup {"complete"} => Own(j, h) /\ Typed(j, type)
    BY <1>0, <1>1 DEF HostOK, AtWork
  <2> QED
    BY <1>3, <2>1 DEF Own, Typed, GetJob
<1>7. pc \in AtWork => Undone(j)'
  BY <1>0, <1>1, <1>3 DEF HostOK, AtWork, Undone
<1>8. pc \in {"answers", "complete"} /\ host[h].ok /\ type = "install" => Installed(h, j)'
  BY <1>0, <1>1 DEF HostOK, Installed
<1>9. HostOK(h)'
  BY <1>2, <1>4, <1>5, <1>6, <1>7, <1>8 DEF HostOK, Known, Own, Typed, Undone, GetMachine, GetJob, Installed
<1>10. \A t \in Slots : req'[t].pc \in Completing => \E g \in Hosts : FinishOK(t, g)'
  BY <1>4
<1> QED
  BY <1>0, <1>2, <1>9, <1>10, NobodyAwaits, OneHostMoves

LEMMA RegisterCallStep ==
  ASSUME Serially, HostInv, Onward, HostsInv, NEW h \in Hosts, NEW s \in Slots, RegisterCall(h, s)
  PROVE  HostsInv'
<1>0. TypeOK /\ TablesInv
  BY DEF Onward, Steady, Inv
<1>1. PICK pc \in {"register", "refresh"} : Ready(h, pc) /\ Register(s, h) /\ Await(h, s, pc)
  BY DEF RegisterCall
<1>2. host[h] \in Host /\ host'[h].pc = pc
  BY <1>1 DEF HostInv, Await, Become, Host
<1>3. UNCHANGED storeVars /\ req[s] = Idle
  BY <1>1 DEF Register, Start
<1>4. \/ req'[s] = WithMachine("RegisterInsert", "none", Discovered(h))
      \/ \E m \in MachineByMAC(h) : req'[s] = WithMachine("RegisterTouch", m, machines[m])
  BY <1>0, <1>1, SlotChanges DEF Register
<1>5. Serving(s, h)'
  <2>1. CASE req'[s] = WithMachine("RegisterInsert", "none", Discovered(h))
    <3>1. req'[s].pc = "RegisterInsert" /\ req'[s].row.mac = h
      BY <2>1, FrameFields DEF Discovered
    <3> QED
      BY <1>2, <3>1 DEF Serving, Registering
  <2>2. ASSUME NEW m \in MachineByMAC(h), req'[s] = WithMachine("RegisterTouch", m, machines[m])
        PROVE  Serving(s, h)'
    <3>1. req'[s].pc = "RegisterTouch" /\ req'[s].mid = m
      BY <2>2, FrameFields
    <3>2. m \in registered /\ machines[m].mac = h
      BY <1>0, <2>2 DEF MachineByMAC, TablesInv
    <3>3. m \in registered' /\ machines'[m].mac = h
      BY <1>3, <3>2 DEF storeVars
    <3> QED
      BY <1>2, <3>1, <3>3 DEF Serving, Registering, Known
  <2> QED
    BY <1>4, <2>1, <2>2
<1>6. req'[s].pc \notin Completing
  BY <1>4, FrameFields DEF Completing
<1>7. pc \in Awaiting /\ host[h].pc = pc
  BY <1>1 DEF Awaiting, Ready
<1> QED
  BY <1>1, <1>3, <1>5, <1>6, <1>7, CallStep

LEMMA PollCallStep ==
  ASSUME Serially, HostInv, Onward, HostsInv, NEW h \in Hosts, NEW s \in Slots, PollCall(h, s)
  PROVE  HostsInv'
<1>0. TypeOK /\ JobTableInv /\ TablesInv /\ HostOK(h)
  BY DEF Onward, Steady, Inv, HostsInv
<1>1. PICK m \in PolledMachine(h) : Ready(h, "poll") /\ PollNext(s, m) /\ Await(h, s, "poll")
  BY DEF PollCall
<1>2. host[h] \in Host /\ host'[h].pc = "poll"
  BY <1>1 DEF HostInv, Await, Become, Host
<1>3. UNCHANGED storeVars /\ req[s] = Idle
  BY <1>1 DEF PollNext, Start
<1>4. PICK j \in NextPendingJob(m) : req'[s] = WithJob("PollImage", j, jobs[j])
  BY <1>0, <1>1, SlotChanges DEF PollNext
<1>5. req'[s].pc = "PollImage" /\ req'[s].jid = j
  BY <1>4, FrameFields
<1>6. j \in JobIds /\ jobs[j].mid = m /\ GetJob(j) /\ j \in 1 .. lastJob
  BY <1>0, <1>4, MaxJobsIsNat DEF NextPendingJob, PendingJobs, JobsOf, JobTableInv, JobIds, TypeOK, StoreTypeOK
<1>7. machines[m].mac = h
  <2>1. CASE host[h].mid = "none"
    BY <1>1, <2>1 DEF PolledMachine, MachineByMAC
  <2>2. CASE host[h].mid # "none"
    BY <1>0, <1>1, <2>2 DEF PolledMachine, HostOK, Known
  <2> QED
    BY <2>1, <2>2
<1>8. j \in 1 .. lastJob' /\ machines'[jobs'[j].mid].mac = h
  BY <1>3, <1>6, <1>7 DEF storeVars
<1>9. Serving(s, h)'
  BY <1>2, <1>5, <1>8 DEF Serving, Polling, Own
<1>10. "poll" \in Awaiting /\ host[h].pc = "poll" /\ req'[s].pc \notin Completing
  BY <1>1, <1>5 DEF Awaiting, Ready, Completing
<1> QED
  BY <1>1, <1>3, <1>9, <1>10, CallStep

LEMMA ReportCallStep ==
  ASSUME Serially, HostInv, Onward, HostsInv, NEW h \in Hosts, NEW s \in Slots, ReportCall(h, s)
  PROVE  HostsInv'
<1>0. TypeOK
  BY DEF Onward, Steady, Inv
<1>1. Ready(h, "work") /\ Await(h, s, "report") /\ UNCHANGED storeVars /\ req[s] = Idle
  BY DEF ReportCall, ProgressRead, Start
<1>2. host[h] \in Host /\ host'[h].pc = "report"
  BY <1>1 DEF HostInv, Await, Become, Host
<1>3. req'[s].pc = "ProgressUpdate"
  BY <1>0, SlotChanges, FrameFields DEF ReportCall, ProgressRead
<1>4. Serving(s, h)'
  BY <1>2, <1>3 DEF Serving
<1>5. "report" \in Awaiting /\ host[h].pc = "work" /\ req'[s].pc \notin Completing
  BY <1>1, <1>3 DEF Awaiting, Ready, Completing
<1> QED
  BY <1>1, <1>4, <1>5, CallStep

LEMMA CompleteCallStep ==
  ASSUME Serially, HostInv, Onward, HostsInv, NEW h \in Hosts, NEW s \in Slots, CompleteCall(h, s)
  PROVE  HostsInv'
<1>0. TypeOK /\ JobTableInv /\ HostOK(h) /\ host[h] \in Host
  BY DEF Onward, Steady, Inv, HostsInv, HostInv
<1>1. PICK j, ok : j = host[h].jid /\ ok = host[h].ok
  OBVIOUS
<1>2. /\ Ready(h, "complete") /\ Await(h, s, "complete") /\ UNCHANGED storeVars /\ req[s] = Idle
      /\ CompleteRead(s, j, ok)
  BY <1>1 DEF CompleteCall, CompleteRead, Start
<1>3. /\ host'[h].pc = "complete" /\ host'[h].slot = s /\ host'[h].jid = j
      /\ disk' = disk /\ machines' = machines
  BY <1>0, <1>1, <1>2 DEF HostInv, Await, Become, Host, storeVars
<1>4. PICK job : job = Finished(jobs[j], Outcome(ok))
  OBVIOUS
<1>5. req'[s].pc = "CompleteStatus" /\ req'[s].jid = j /\ req'[s].job = job
  BY <1>0, <1>2, <1>4, SlotChanges, FrameFields DEF CompleteRead
<1>6. Own(j, h) /\ Typed(j, host[h].type) /\ GetJob(j) /\ j \in JobIds
  BY <1>0, <1>1, <1>2, MaxJobsIsNat
     DEF HostOK, Ready, CompleteRead, Own, TypeOK, StoreTypeOK, JobIds
<1>7. job.mid = jobs[j].mid /\ job.type = jobs[j].type /\ (job.status = "succeeded" => ok)
  BY <1>0, <1>1, <1>4, <1>6 DEF Finished, Outcome, JobRow, TypeOK, StoreTypeOK, Host
<1>8. machines[job.mid].mac = h
  BY <1>6, <1>7 DEF Own
<1>9. job.status = "succeeded" /\ job.type = "install" => Installed(h, j)
  BY <1>0, <1>1, <1>2, <1>6, <1>7 DEF HostOK, Typed, Ready
<1>10. FinishOK(s, h)'
  BY <1>3, <1>5, <1>8, <1>9 DEF FinishOK, Installed
<1>11. Serving(s, h)'
  BY <1>3, <1>5 DEF Serving, Completing
<1>12. "complete" \in Awaiting /\ host[h].pc = "complete"
  BY <1>2 DEF Awaiting, Ready
<1> QED
  BY <1>2, <1>10, <1>11, <1>12, CallStep

\* install.cmd starts on the job it was rendered for.
LEMMA FetchInstallStep ==
  ASSUME Serially, HostInv, Onward, HostsInv, NEW h \in Hosts, FetchInstall(h)
  PROVE  HostsInv'
<1>0. /\ TypeOK /\ JobTableInv /\ HostOK(h) /\ host[h] \in Host /\ host \in [Hosts -> Host]
  BY DEF Onward, Steady, Inv, HostsInv, HostInv
<1>1. PICK m, j :
        /\ m \in MachineByMAC(h) /\ j \in WindowsInstall(m)
        /\ ServeWinPE(m)
        /\ Become(h, [host[h] EXCEPT !.pc = "work", !.jid = j, !.type = "install"])
  BY DEF FetchInstall
<1>2. UNCHANGED <<machines, registered, jobs, lastJob, req, disk>> /\ \E s \in Slots : req[s] = Idle
  BY <1>1 DEF ServeWinPE, Quick, storeVars, Become
<1>3. \A g \in Hosts : host[g].slot = "none"
  BY <1>2, NobodyAwaits
<1>4. /\ host'[h].pc = "work" /\ host'[h].jid = j /\ host'[h].type = "install"
      /\ host'[h].mid = host[h].mid /\ host'[h].slot = "none"
      /\ \A g \in Hosts \ {h} : host'[g] = host[g]
  BY <1>0, <1>1, <1>3 DEF Become, Host
<1>5. /\ j \in JobIds /\ jobs[j].mid = m /\ GetJob(j) /\ jobs[j].type = "install"
      /\ jobs[j].status \in {"pending", "running"}
  BY <1>1 DEF WindowsInstall, WindowsJobs, ListJobs, JobsOf
<1>6. j \in 1 .. lastJob
  BY <1>0, <1>5, MaxJobsIsNat DEF JobTableInv, JobIds, TypeOK, StoreTypeOK
<1>7. machines[m].mac = h
  BY <1>1 DEF MachineByMAC
<1>8. PICK n : n = host[h].mid
  OBVIOUS
<1>9. n # "none" => Known(n, h)
  BY <1>0, <1>8 DEF HostOK
<1>10. HostOK(h)'
  <2>1. \A s \in Slots : host'[h].slot # s
    BY <1>4, NoneIsNoSlot
  <2>2. Own(j, h) /\ Typed(j, "install") /\ Undone(j)
    BY <1>5, <1>6, <1>7 DEF Own, Typed, Undone
  <2> QED
    BY <1>2, <1>4, <1>8, <1>9, <2>1, <2>2 DEF HostOK, Known, Own, Typed, Undone, GetMachine, GetJob, AtWork
<1>11. \A s \in Slots : req[s].pc \notin Completing
  <2>1. PICK t \in Slots : req[t] = Idle
    BY <1>2
  <2> QED
    BY <2>1 DEF Serially, Idle, Completing
<1>12. \A g \in Hosts \ {h} : host'[g] = host[g] /\ disk'[g] = disk[g]
  BY <1>2, <1>4
<1> QED
  BY <1>2, <1>4, <1>10, <1>11, <1>12, OneHostMoves

-----------------------------------------------------------------------------
(* Handlers and their answers.                                             *)

\* Only the report of an end goes on as one.
LEMMA CompletingBegan ==
  ASSUME TypeOK, NEW s \in Slots, HandlerActs(s), req'[s].pc \in Completing
  PROVE  req[s].pc \in Completing
<1>1. ~Done(s)
  BY SlotChanges DEF Idle, Completing
<1>2. \A pc : Goto(s, pc) => pc \in Completing
  BY SlotChanges
<1>3. ~ConsoleMachineStep(s)
  BY <1>1, <1>2 DEF ConsoleMachineStep, EditUpsert, DetectUpsert, Completing
<1>4. ~ConsoleJobStep(s)
  BY <1>1, <1>2 DEF ConsoleJobStep, CreateInsert, CreateStatus, CreateBoot, CancelUpdate, JobDelete,
                    ReleaseRead, ReleaseCheck, ReleaseSet, Completing
<1>5. AgentStep(s)
  BY <1>3, <1>4 DEF HandlerActs
<1>6. req[s].pc \in Registering \cup Polling \cup Completing \cup {"ProgressUpdate"}
  BY <1>5 DEF AgentStep, RegisterInsert, RegisterTouch, RegisterReread, RegisterRename, PollImage, PollClaim,
              PollReply, ProgressUpdate, CompleteStatus, CompleteBoot, CompleteUpdate, At,
              Registering, Polling, Completing
<1>7. GoesOn(s)
  BY <1>6, HandlerGoesOn DEF Idle, Completing
<1> QED
  BY <1>7, CompletingGoesOn

\* The handler goes on, or nobody waits for it.
LEMMA HandlerQuiet ==
  ASSUME Serially, HostInv, Onward, HostsInv, NEW s \in Slots, HandlerActs(s), UNCHANGED <<host, disk>>,
         ~(req'[s] = Idle /\ \E h \in Hosts : host[h].slot = s)
  PROVE  HostsInv'
<1>0. TypeOK
  BY DEF Onward, Steady, Inv
<1>1. CASE req[s].pc \in Completing
  <2>1. req'[s] = Idle \/ GoesOn(s)
    BY <1>0, <1>1, HandlerGoesOn
  <2>2. Idle.pc \notin Completing
    BY DEF Idle, Completing
  <2>3. GoesOn(s) \/ (req'[s].pc \notin Completing /\ \A h \in Hosts : host[h].slot # s)
    BY <2>1, <2>2
  <2> QED
    BY <2>3, QuietStep DEF Serially
<1>2. CASE req[s].pc \notin Completing
  <2>1. req'[s].pc \notin Completing
    BY <1>0, <1>2, CompletingBegan
  <2>2. ASSUME NEW h \in Hosts, host[h].slot = s PROVE GoesOn(s)
    <3>1. Serving(s, h)
      BY <2>2 DEF HostsInv, HostOK
    <3>2. req[s].pc \in Registering \cup Polling \cup Completing \cup {"ProgressUpdate"}
      BY <3>1 DEF Serving
    <3> QED
      BY <1>0, <2>2, <3>2, HandlerGoesOn
  <2>3. GoesOn(s) \/ (req'[s].pc \notin Completing /\ \A h \in Hosts : host[h].slot # s)
    BY <2>1, <2>2
  <2> QED
    BY <2>3, QuietStep DEF Serially
<1> QED
  BY <1>1, <1>2

\* The answer of a registration names the machine of the host that asked.
LEMMA RegistrationKnown ==
  ASSUME Serially, Onward, NEW h \in Hosts, NEW s \in Slots, HandlerActs(s), req'[s] = Idle,
         host[h].pc \in {"register", "refresh"}, Serving(s, h), Answered(s),
         NEW id, id = RegisteredAs(s), id # "none"
  PROVE  Known(id, h)'
<1>0. TypeOK /\ registered \subseteq MachineIds /\ machines \in [MachineIds -> MachineRow]
  BY DEF Onward, Steady, Inv, TypeOK, StoreTypeOK
<1>1. CASE req[s].pc = "RegisterInsert"
  <2>1. \E m \in MachineIds : RegisterInsert(s, m)
    BY <1>1
       DEF HandlerActs, ConsoleMachineStep, ConsoleJobStep, AgentStep, At, EditUpsert,
           DetectUpsert, CreateInsert, CreateStatus, CreateBoot, CancelUpdate, JobDelete,
           ReleaseRead, ReleaseCheck, ReleaseSet, RegisterTouch, RegisterReread, RegisterRename,
           PollImage, PollClaim, PollReply, ProgressUpdate, CompleteStatus, CompleteBoot,
           CompleteUpdate
  <2>2. PICK m \in MachineIds : /\ m \notin registered /\ registered' = registered \cup {m}
                                /\ machines' = UpsertMachine(m, req[s].row)
    BY <2>1 DEF RegisterInsert, NewMachine
  <2>3. machines'[m] = req[s].row
    BY <1>0, <1>1, <2>2 DEF Answered, UpsertMachine
  <2>4. req[s].row.mac = h
    BY <1>1 DEF Serving, Polling, Completing
  <2>5. id = m
    BY <1>1, <2>2 DEF RegisteredAs
  <2> QED
    BY <2>2, <2>3, <2>4, <2>5 DEF Known
<1>2. CASE req[s].pc # "RegisterInsert"
  <2>1. id = req[s].mid
    BY <1>2 DEF RegisteredAs
  <2>2. Known(id, h)
    BY <1>2, <2>1 DEF Serving, Polling, Completing
  <2> QED
    BY <1>0, <2>2, KnownStays DEF Onward, Known
<1> QED
  BY <1>1, <1>2

\* The answer reaches the host, which takes it as row says.
LEMMA AnswerStep ==
  ASSUME Serially, HostInv, Onward, HostsInv, NEW s \in Slots, req'[s] = Idle,
         NEW h \in Hosts, host[h].slot = s, NEW row, host' = [host EXCEPT ![h] = row], UNCHANGED disk,
         row.slot = "none", row.mid # "none" => Known(row.mid, h)',
         row.pc \in AtWork \cup {"complete"} => Own(row.jid, h)' /\ Typed(row.jid, row.type)',
         row.pc \in AtWork => Undone(row.jid)',
         row.pc \in {"answers", "complete"} /\ row.ok /\ row.type = "install" => Installed(h, row.jid)'
  PROVE  HostsInv'
<1>1. host'[h] = row /\ \A g \in Hosts \ {h} : host'[g] = host[g] /\ disk'[g] = disk[g]
  BY DEF HostInv
<1>2. ASSUME NEW g \in Hosts \ {h} PROVE host[g].slot = "none"
  <2>1. host[g].slot # s
    BY NoneIsNoSlot DEF HostsInv, OneCaller
  <2>2. host[g].slot \in Slots \cup {"none"}
    BY DEF HostInv, Host
  <2> QED
    BY <2>1, <2>2 DEF Serially
<1>3. \A t \in Slots : row.slot # t
  BY NoneIsNoSlot
<1>4. HostOK(h)'
  BY <1>1, <1>3 DEF HostOK, Known, Own, Typed, Undone, GetMachine, GetJob, Installed
<1>5. \A t \in Slots : req'[t].pc \notin Completing
  BY DEF Serially, Idle, Completing
<1> QED
  BY <1>1, <1>2, <1>4, <1>5, OneHostMoves

\* What a host that waits still knows when its handler ends.
LEMMA WaitingKnows ==
  ASSUME Serially, HostInv, Onward, HostsInv, NEW s \in Slots, NEW h \in Hosts, host[h].slot = s,
         NEW m, NEW j, NEW type, m = host[h].mid, j = host[h].jid, type = host[h].type
  PROVE  /\ m # "none" => Known(m, h)'
         /\ host[h].pc \in {"report", "complete"} => Own(j, h)' /\ Typed(j, type)'
         /\ host[h].pc = "report" => Undone(j)'
<1>0. HostOK(h) /\ host[h] \in Host
  BY DEF HostsInv, HostInv
<1>1. m # "none" => m \in MachineIds /\ Known(m, h)
  BY <1>0 DEF HostOK, Host
<1>2. host[h].pc \in {"report", "complete"} => Own(j, h) /\ Typed(j, type)
  BY <1>0 DEF HostOK, AtWork
<1>3. host[h].pc = "report" => Undone(j)'
  <2>1. host[h].pc = "report" => Own(j, h) /\ Undone(j) /\ host[h].pc \in AtWork
    BY <1>0 DEF HostOK, AtWork
  <2> QED
    BY <2>1, UndoneStays, WorkIsOpen DEF Onward
<1> QED
  BY <1>1, <1>2, <1>3, KnownStays, OwnStays, TypedStays DEF Onward, Own

LEMMA ErrorStep ==
  ASSUME Serially, HostInv, Onward, HostsInv, NEW s \in Slots, req'[s] = Idle,
         NEW h \in Hosts, host[h].slot = s, NEW row \in AfterError(host[h]),
         host' = [host EXCEPT ![h] = row], UNCHANGED disk
  PROVE  HostsInv'
<1>0. host[h] \in Host /\ HostOK(h) /\ host[h].pc \in Awaiting
  BY NoneIsNoSlot DEF HostInv, HostsInv, AwaitsAnswer
<1>1. PICK pc \in NextPcs(host[h]) : row = [host[h] EXCEPT !.pc = pc, !.slot = "none"]
  BY DEF AfterError
<1>2. \/ pc \in {"register", "refresh", "poll", "done"}
      \/ pc = "work" /\ host[h].pc = "report"
      \/ pc = "complete" /\ host[h].pc = "complete"
  BY <1>0, <1>1 DEF NextPcs, Awaiting
<1>3. /\ row.pc = pc /\ row.slot = "none" /\ row.mid = host[h].mid /\ row.jid = host[h].jid
      /\ row.type = host[h].type /\ row.ok = host[h].ok
  BY <1>0, <1>1 DEF Host
<1>4. PICK m, j, type : m = row.mid /\ j = row.jid /\ type = row.type
  OBVIOUS
<1>5. /\ m # "none" => Known(m, h)'
      /\ host[h].pc \in {"report", "complete"} => Own(j, h)' /\ Typed(j, type)'
      /\ host[h].pc = "report" => Undone(j)'
  BY <1>3, <1>4, WaitingKnows
<1>6. row.pc = "complete" /\ row.ok /\ type = "install" => Installed(h, j)'
  BY <1>0, <1>2, <1>3, <1>4 DEF HostOK, Installed
<1>7. row.pc \in AtWork \cup {"complete"} => host[h].pc \in {"report", "complete"}
  BY <1>2, <1>3 DEF AtWork
<1>8. row.pc \in AtWork => host[h].pc = "report"
  BY <1>2, <1>3 DEF AtWork
<1>9. row.pc # "answers"
  BY <1>2, <1>3
<1> QED
  BY <1>3, <1>4, <1>5, <1>6, <1>7, <1>8, <1>9, AnswerStep DEF Known, Own, Typed, Undone, GetMachine, GetJob, Installed

LEMMA ReplyStep ==
  ASSUME Serially, HostInv, Onward, HostsInv, NEW s \in Slots, HandlerActs(s), req'[s] = Idle,
         NEW h \in Hosts, host[h].slot = s, Answered(s),
         host' = [host EXCEPT ![h] = AfterReply(host[h], s)], UNCHANGED disk
  PROVE  HostsInv'
<1>0. host[h] \in Host /\ HostOK(h) /\ Serving(s, h) /\ host[h].pc \in Awaiting
  BY NoneIsNoSlot DEF HostInv, HostsInv, HostOK, AwaitsAnswer
<1>1. PICK m, j, type : m = host[h].mid /\ j = host[h].jid /\ type = host[h].type
  OBVIOUS
<1>2. /\ m # "none" => Known(m, h)'
      /\ host[h].pc \in {"report", "complete"} => Own(j, h)' /\ Typed(j, type)'
      /\ host[h].pc = "report" => Undone(j)'
  BY <1>1, WaitingKnows
<1>3. ASSUME NEW pc, pc \notin AtWork \cup {"complete"}, NEW id, id # "none" => Known(id, h)',
             host' = [host EXCEPT ![h] = [host[h] EXCEPT !.slot = "none", !.pc = pc, !.mid = id]]
      PROVE  HostsInv'
  <2>1. PICK row : row = [host[h] EXCEPT !.slot = "none", !.pc = pc, !.mid = id]
    OBVIOUS
  <2>2. row.pc = pc /\ row.slot = "none" /\ row.mid = id
    BY <1>0, <2>1 DEF Host
  <2>3. row.pc \notin AtWork \cup {"complete", "answers"}
    BY <1>3, <2>2 DEF AtWork
  <2>4. row.mid # "none" => Known(row.mid, h)'
    BY <1>3, <2>2 DEF Known, GetMachine
  <2> QED
    BY <1>3, <2>1, <2>2, <2>3, <2>4, AnswerStep
<1>4. CASE host[h].pc \in {"register", "refresh"}
  <2>1. PICK id : id = RegisteredAs(s)
    OBVIOUS
  <2>2. id # "none" => Known(id, h)'
    BY <1>0, <1>4, <2>1, RegistrationKnown
  <2>3. AfterReply(host[h], s) = [host[h] EXCEPT !.slot = "none", !.pc = "poll", !.mid = id]
    BY <1>4, <2>1 DEF AfterReply
  <2> QED
    BY <1>3, <2>2, <2>3 DEF AtWork
<1>5. ASSUME NEW row, host' = [host EXCEPT ![h] = row], row.pc = "work", row.slot = "none",
             row.mid = host[h].mid, NEW k, k = row.jid, NEW t, t = row.type,
             Own(k, h)', Typed(k, t)', Undone(k)'
      PROVE  HostsInv'
  <2>1. row.mid # "none" => Known(row.mid, h)'
    BY <1>1, <1>2, <1>5 DEF Known, GetMachine
  <2>2. Own(row.jid, h)' /\ Typed(row.jid, row.type)' /\ Undone(row.jid)'
    BY <1>5 DEF Own, Typed, Undone, GetJob
  <2> QED
    BY <1>5, <2>1, <2>2, AnswerStep
<1>6. CASE host[h].pc = "poll"
  <2>1. CASE req[s].pc = "PollReply"
    <3>1. PollReply(s)
      BY <2>1
         DEF HandlerActs, ConsoleMachineStep, ConsoleJobStep, AgentStep, At, EditUpsert,
             DetectUpsert, CreateInsert, CreateStatus, CreateBoot, CancelUpdate, JobDelete,
             ReleaseRead, ReleaseCheck, ReleaseSet, RegisterInsert, RegisterTouch, RegisterReread,
             RegisterRename, PollImage, PollClaim, ProgressUpdate, CompleteStatus, CompleteBoot,
             CompleteUpdate
    <3>2. PICK k, t : k = req[s].jid /\ t = req[s].job.type
      OBVIOUS
    <3>3. Own(k, h) /\ jobs[k].status = "running" /\ jobs[k].type = t
      BY <1>0, <1>6, <2>1, <3>2 DEF Serving, Onward, Steady, TablesInv
    <3>4. Own(k, h)' /\ Typed(k, t)' /\ Undone(k)'
      <4>1. jobs' = jobs /\ machines' = machines /\ lastJob' = lastJob
        BY <3>1 DEF PollReply, storeVars
      <4> QED
        BY <3>3, <4>1 DEF Own, Typed, Undone, GetJob
    <3>5. PICK row : row = [host[h] EXCEPT !.slot = "none", !.pc = "work", !.jid = k, !.type = t]
      OBVIOUS
    <3>6. AfterReply(host[h], s) = row
      BY <1>6, <2>1, <3>2, <3>5 DEF AfterReply
    <3>7. row.pc = "work" /\ row.slot = "none" /\ row.mid = host[h].mid /\ row.jid = k /\ row.type = t
      BY <1>0, <3>5 DEF Host
    <3> QED
      BY <1>5, <3>4, <3>6, <3>7
  <2>2. CASE req[s].pc # "PollReply"
    <3>1. AfterReply(host[h], s) = [host[h] EXCEPT !.slot = "none"]
      BY <1>6, <2>2 DEF AfterReply
    <3>2. [host[h] EXCEPT !.slot = "none"] = [host[h] EXCEPT !.slot = "none", !.pc = "poll", !.mid = m]
      BY <1>0, <1>1, <1>6 DEF Host
    <3> QED
      BY <1>2, <1>3, <3>1, <3>2 DEF AtWork
  <2> QED
    BY <2>1, <2>2
<1>7. CASE host[h].pc = "report"
  <2>1. PICK row : row = [host[h] EXCEPT !.slot = "none", !.pc = "work"]
    OBVIOUS
  <2>2. AfterReply(host[h], s) = row
    BY <1>7, <2>1 DEF AfterReply
  <2>3. /\ row.pc = "work" /\ row.slot = "none" /\ row.mid = host[h].mid
        /\ row.jid = j /\ row.type = type
    BY <1>0, <1>1, <2>1 DEF Host
  <2> QED
    BY <1>2, <1>5, <1>7, <2>2, <2>3
<1>8. CASE host[h].pc = "complete"
  <2>1. PICK pc \in {"refresh", "done"} :
          AfterReply(host[h], s) = [host[h] EXCEPT !.slot = "none", !.pc = pc]
    BY <1>8 DEF AfterReply
  <2>2. [host[h] EXCEPT !.slot = "none", !.pc = pc]
          = [host[h] EXCEPT !.slot = "none", !.pc = pc, !.mid = m]
    BY <1>0, <1>1 DEF Host
  <2>3. pc \notin AtWork \cup {"complete"}
    BY <2>1 DEF AtWork
  <2> QED
    BY <1>2, <1>3, <2>1, <2>2, <2>3
<1> QED
  BY <1>0, <1>4, <1>6, <1>7, <1>8 DEF Awaiting

LEMMA HandlerHosts ==
  ASSUME Serially, HostInv, Onward, HostsInv, NEW s \in Slots, HandlerStep(s)
  PROVE  HostsInv'
<1>1. HandlerActs(s) /\ UNCHANGED disk
  BY DEF HandlerStep, HandlerActs, Deliver
<1>2. CASE req'[s] = Idle /\ \E h \in Hosts : host[h].slot = s
  <2>1. PICK h \in Hosts :
          /\ host[h].slot = s
          /\ \/ Answered(s) /\ host' = [host EXCEPT ![h] = AfterReply(host[h], s)]
             \/ \E row \in AfterError(host[h]) : host' = [host EXCEPT ![h] = row]
    BY <1>2 DEF HandlerStep, Deliver
  <2> QED
    BY <1>1, <1>2, <2>1, ReplyStep, ErrorStep
<1>3. CASE ~(req'[s] = Idle /\ \E h \in Hosts : host[h].slot = s)
  BY <1>1, <1>3, HandlerQuiet DEF HandlerStep, Deliver
<1> QED
  BY <1>2, <1>3

-----------------------------------------------------------------------------
(* Requests served one after another, with hosts.                          *)

LEMMA TablesInit == Init => TablesInv
BY DEF Init, StoreInit, TablesInv, GetMachine, NoMachine, Idle, MachineEditors

LEMMA HostsInit == ProvInit => HostsInv
<1> SUFFICES ASSUME ProvInit PROVE HostsInv
  OBVIOUS
<1>1. ASSUME NEW h \in Hosts
      PROVE  host[h].slot = "none" /\ host[h].mid = "none" /\ host[h].pc = "off"
  BY DEF ProvInit, Down
<1>2. \A s \in Slots : req[s].pc = "idle"
  BY DEF ProvInit, Init, Idle
<1> QED
  BY <1>1, <1>2, NoneIsNoSlot DEF HostsInv, OneCaller, HostOK, AtWork, Completing

\* The console does not report ends.
LEMMA ConsoleHosts ==
  ASSUME Serially, HostInv, Onward, HostsInv, Console \/ ImageChange
  PROVE  HostsInv'
<1>0. TypeOK
  BY DEF Onward, Steady, Inv
<1>1. PICK s \in Slots : req[s] = Idle
  BY DEF Console, ConsoleMachine, ConsoleJob, CreateMachine, RemoveMachine, SetBoot, EditLoad, EditPut, DetectRead,
         CreateInstall, CreateStress, CancelRead, DeleteRead, ImageChange, PutImage, DropImage, Quick, Start
<1>2. \A g \in Hosts : host[g].slot = "none"
  BY <1>1, NobodyAwaits
<1>3. ASSUME NEW kind, NEW t \in Slots, NEW f, Start(kind, t, f), f.pc \notin Completing
      PROVE  req'[s].pc \notin Completing
  <2>1. t = s
    BY DEF Serially
  <2> QED
    BY <1>0, <1>3, <2>1, SlotChanges
<1>4. ASSUME NEW kind, Quick(kind) PROVE req'[s].pc \notin Completing
  BY <1>1, <1>4 DEF Quick, Idle, Completing
<1>5. \A pc \in Steps \ Completing : \A x, y :
        WithMachine(pc, x, y).pc \notin Completing /\ WithJob(pc, x, y).pc \notin Completing
  BY FrameFields
<1>6. {"EditUpsert", "DetectUpsert", "CreateInsert", "CancelUpdate", "JobDelete"} \subseteq Steps \ Completing
  BY DEF Steps, Completing
<1>7. ASSUME ConsoleMachine PROVE req'[s].pc \notin Completing
  BY <1>3, <1>4, <1>5, <1>6, <1>7
     DEF ConsoleMachine, CreateMachine, RemoveMachine, SetBoot, EditLoad, EditPut, DetectRead
<1>8. ASSUME ConsoleJob PROVE req'[s].pc \notin Completing
  BY <1>3, <1>5, <1>6, <1>8 DEF ConsoleJob, CreateInstall, CreateStress, CancelRead, DeleteRead
<1>9. ASSUME ImageChange PROVE req'[s].pc \notin Completing
  BY <1>4, <1>9 DEF ImageChange, PutImage, DropImage
<1>10. req'[s].pc \notin Completing
  BY <1>7, <1>8, <1>9 DEF Console
<1>11. UNCHANGED <<host, disk>>
  BY DEF Console, ImageChange
<1>12. \A h \in Hosts : host[h].slot # s
  BY <1>2, NoneIsNoSlot
<1> QED
  BY <1>10, <1>11, <1>12, QuietStep DEF Serially

SerialHosts == Steady /\ HostInv /\ HostsInv

\* Every step of hosts, handlers and console keeps what the hosts rely on.
LEMMA SerialHostsStep == Steadily /\ SerialHosts /\ [ProvNext]_provVars => SerialHosts' /\ Onward
<1> SUFFICES ASSUME Steadily, SerialHosts, [ProvNext]_provVars PROVE SerialHosts' /\ Onward
  OBVIOUS
<1>0. Serially /\ Inv /\ SerialInv /\ TablesInv /\ HostInv /\ HostsInv
  BY DEF Steadily, SerialHosts, Steady
<1>1. [Next]_vars
  BY <1>0, ProvStepIsHandlers
<1>2. Onward /\ HostInv'
  BY <1>0, <1>1, ProvStep, SerialStep, TablesStep DEF Onward, Steady
<1>3. ASSUME Console \/ ImageChange PROVE HostsInv'
  BY <1>0, <1>2, <1>3, ConsoleHosts
<1>4. ASSUME NEW s \in Slots, HandlerStep(s) PROVE HostsInv'
  BY <1>0, <1>2, <1>4, HandlerHosts
<1>5. ASSUME NEW h \in Hosts, HostStep(h) PROVE HostsInv'
  <2>1. CASE \E s \in Slots : RegisterCall(h, s) \/ PollCall(h, s) \/ CompleteCall(h, s) \/ ReportCall(h, s)
    BY <1>0, <1>2, <2>1, RegisterCallStep, PollCallStep, CompleteCallStep, ReportCallStep
  <2>2. CASE FetchInstall(h)
    BY <1>0, <1>2, <2>2, FetchInstallStep
  <2>3. CASE \/ Boot(h) \/ Alone(h) \/ Ends(h)
             \/ OperatorReboots(h) \/ RebootFires(h) \/ PowerCut(h) \/ CallLost(h)
    BY <1>0, <1>2, <2>3, HostAloneSteps
  <2> QED
    BY <1>5, <2>1, <2>2, <2>3 DEF HostStep, Calls
<1>6. ASSUME UNCHANGED provVars PROVE HostsInv'
  <2>1. UNCHANGED <<host, disk>> /\ req' = req
    BY <1>6 DEF provVars
  <2> QED
    BY <1>0, <1>2, <2>1, QuietStep
<1> QED
  BY <1>2, <1>3, <1>4, <1>5, <1>6 DEF ProvNext, SerialHosts, Onward

LEMMA SerialHostsInvariance ==
  ASSUME Steadily
  PROVE  ProvSpec => []SerialHosts
<1>1. ProvInit => SerialHosts
  BY ProvInitInv, SerialInit, TablesInit, HostsInit DEF SerialHosts, Steady
<1>2. SerialHosts /\ [ProvNext]_provVars => SerialHosts'
  BY SerialHostsStep
<1> QED
  BY <1>1, <1>2, PTL DEF ProvSpec

\* Served one after another, a job that a host works on is not over, unless it was
\* cancelled or deleted since: whatever fails, however often the host is restarted and
\* whatever outdated form is saved, but for one that changes a MAC address.
THEOREM WorkAlwaysKnown ==
  ASSUME Steadily
  PROVE  ProvSpec => []WorkIsKnown
<1>1. SerialHosts => WorkIsKnown
  <2> SUFFICES ASSUME SerialHosts, NEW h \in Hosts, host[h].pc \in {"work", "answers"}
               PROVE  jobs[host[h].jid].status \in {"none", "pending", "running", "cancelled"}
    BY DEF WorkIsKnown
  <2>1. Own(host[h].jid, h) /\ Undone(host[h].jid)
    BY DEF SerialHosts, HostsInv, HostOK, AtWork
  <2>2. host[h].jid \in JobIds /\ jobs \in [JobIds -> JobRow]
    BY <2>1, MaxJobsIsNat DEF SerialHosts, Steady, Inv, TypeOK, StoreTypeOK, Own, JobIds
  <2>3. jobs[host[h].jid].status \in JobStatuses \cup {"none"}
    BY <2>2 DEF JobRow
  <2> QED
    BY <2>1, <2>3 DEF Undone, JobStatuses, ActiveStatuses, FinalStatuses
<1> QED
  BY <1>1, SerialHostsInvariance, PTL

\* Served one after another, an installation turns succeeded when the system it installed
\* is on the disk of its machine, come to its end there: no report stands for another job's
\* work, and none for an installation that was interrupted or whose failure was noticed,
\* whatever is lost or cut off.  The system is whole but for failures that go "unnoticed".
THEOREM SuccessAlwaysLeavesSystem ==
  ASSUME Steadily
  PROVE  ProvSpec => SuccessLeavesSystem
<1> DEFINE Left == \A j \in JobIds :
             /\ jobs[j].status # "succeeded" /\ jobs'[j].status = "succeeded"
             /\ jobs[j].type = "install"
             => \E h \in Hosts :
                  /\ machines[jobs[j].mid].mac = h
                  /\ disk[h].content \in Leaves /\ disk[h].by = j
<1>1. SerialHosts /\ [ProvNext]_provVars => [Left]_provVars
  <2> SUFFICES ASSUME SerialHosts, [ProvNext]_provVars, NEW j \in JobIds,
                      jobs[j].status # "succeeded", jobs'[j].status = "succeeded", jobs[j].type = "install"
               PROVE  \E h \in Hosts : /\ machines[jobs[j].mid].mac = h
                                       /\ disk[h].content \in Leaves /\ disk[h].by = j
    OBVIOUS
  <2>0. Serially /\ Inv /\ SerialInv /\ HostsInv /\ [Next]_vars
    BY SerialHostsStep DEF Steadily, SerialHosts, Steady, Onward
  <2>1. GetJob(j) /\ GetJob(j)'
    BY DEF GetJob, NoJob
  <2>2. PICK s \in Slots : CompleteUpdate(s) /\ req[s].jid = j /\ req[s].job.status = "succeeded"
    BY <2>0, <2>1, SerialChange DEF Outcomes
  <2>3. req[s].pc = "CompleteUpdate" /\ req[s].job.mid = jobs[j].mid /\ req[s].job.type = "install"
    BY <2>0, <2>2, FrameKnown DEF CompleteUpdate, At, FreshJob, JobHolders, JobWriters
  <2>4. PICK h \in Hosts : FinishOK(s, h)
    BY <2>0, <2>3 DEF HostsInv, Completing
  <2> QED
    BY <2>2, <2>3, <2>4 DEF FinishOK, Installed
<1> QED
  BY <1>1, SerialHostsInvariance, PTL DEF ProvSpec, SuccessLeavesSystem

-----------------------------------------------------------------------------
(* An operator who waits for a machine's job to be over, answers that      *)
(* arrive, and no edit form to be saved after it is outdated.              *)

Orderly ==
  /\ Steadily /\ OneAtATime
  /\ Requests \cap {"cancel", "delete", "edit"} = {} /\ "lost" \notin Faults

Active(j) == jobs[j].status \in ActiveStatuses
Provisioned(m) == machines[m].status = "provisioned"

\* Handlers that will take the machine out of provisioned, or its job out of the active ones.
Midway == {"CreateStatus", "CompleteBoot", "CompleteUpdate"}
Stopping == {"CancelUpdate", "JobDelete"} \cup ReleasePcs

OneOfMAC ==
  \A m, n \in MachineIds : GetMachine(m) /\ GetMachine(n) /\ machines[m].mac = machines[n].mac => m = n
OneActive ==
  \A j, k \in JobIds : Active(j) /\ Active(k) /\ jobs[j].mid = jobs[k].mid => j = k

\* What handlers are not doing, and what they found.
KeptOK(s) ==
  /\ req[s].pc \notin Stopping \cup {"EditUpsert"}
  /\ req[s].pc = "CreateInsert" => ~HasActiveJob(req[s].job.mid)
  /\ req[s].pc \in Completing => Active(req[s].jid)

\* A machine that boots its disk has no job, but for the time one handler takes.
NoWait ==
  \A m \in MachineIds : Provisioned(m) /\ HasActiveJob(m) =>
    \E s \in Slots : req[s].pc \in Midway /\ req[s].job.mid = m

\* A host works on a job that is still to be done, and not on the disk that it would boot.
OrderOK(h) ==
  /\ host[h].pc \in AtWork \cup {"complete"} => ~GetJob(host[h].jid) \/ Active(host[h].jid)
  /\ \A m \in MachineByMAC(h) : Provisioned(m) =>
       /\ disk[h].content \in Leaves
       /\ host[h].pc \in AtWork => host[h].type # "install"
  /\ host[h].os = "local" => host[h].pc = "off" /\ disk[h].content \in Leaves

OrderInv ==
  /\ OneOfMAC /\ OneActive /\ NoWait
  /\ \A s \in Slots : KeptOK(s)
  /\ \A h \in Hosts : OrderOK(h)

-----------------------------------------------------------------------------
(* Steps of the control plane, told by what they leave behind.             *)

LEMMA WhoActs ==
  ASSUME Serially, TypeOK, [Next]_vars, NEW s \in Slots
  PROVE  \/ UNCHANGED vars
         \/ HandlerActs(s)
         \/ req[s].pc = "idle" /\ (ConsoleMachine \/ ConsoleJob \/ AgentCall \/ Environment)
<1>1. \A t \in Slots : t = s
  BY DEF Serially
<1>2. (\E t \in Slots : HandlerActs(t)) => HandlerActs(s)
  BY <1>1
<1>3. req[s].pc # "idle" => ~ConsoleMachine /\ ~ConsoleJob /\ ~AgentCall /\ ~Environment
  BY BusySlot
<1>4. \/ UNCHANGED vars \/ \E t \in Slots : HandlerActs(t)
      \/ ConsoleMachine \/ ConsoleJob \/ AgentCall \/ Environment
  BY DEF Next, HandlerActs
<1> QED
  BY <1>2, <1>3, <1>4

\* Ids are handed out with the row they are for.
LEMMA NewIds ==
  ASSUME [Next]_vars
  PROVE  /\ registered' # registered => \E m \in MachineIds : \E row : NewMachine(m, row)
         /\ lastJob' # lastJob => \E s \in Slots : CreateInsert(s)
<1>1. UNCHANGED vars => registered' = registered /\ lastJob' = lastJob
  BY DEF vars
<1>2. ASSUME ConsoleMachine
      PROVE  /\ lastJob' = lastJob
             /\ registered' = registered \/ \E m \in MachineIds : \E row : NewMachine(m, row)
  <2>1. ASSUME NEW m \in MachineIds, NEW mac, NEW boot, CreateMachine(m, mac, boot)
        PROVE  lastJob' = lastJob /\ \E row : NewMachine(m, row)
    <3>1. \E row : NewMachine(m, row)
      BY <2>1 DEF CreateMachine
    <3> QED
      BY <3>1 DEF NewMachine
  <2> QED
    BY <1>2, <2>1
       DEF ConsoleMachine, RemoveMachine, SetBoot, EditLoad, EditPut, DetectRead, WriteMachines, storeVars
<1>3. ConsoleJob \/ AgentCall \/ Environment => registered' = registered /\ lastJob' = lastJob
  BY DEF ConsoleJob, CreateInstall, CreateStress, CancelRead, DeleteRead, AgentCall, Register, PollNext,
         ProgressRead, CompleteRead, Environment, ServeWinPE, DropImage, PutImage, Crash, StoreFails, storeVars
<1>4. ASSUME NEW s \in Slots, ConsoleMachineStep(s) PROVE registered' = registered /\ lastJob' = lastJob
  BY <1>4 DEF ConsoleMachineStep, EditUpsert, DetectUpsert, WriteMachines, storeVars
<1>5. ASSUME NEW s \in Slots, ConsoleJobStep(s)
      PROVE  registered' = registered /\ (lastJob' = lastJob \/ CreateInsert(s))
  BY <1>5 DEF ConsoleJobStep, CreateInsert, CreateStatus, CreateBoot, CancelUpdate, JobDelete,
              ReleaseRead, ReleaseCheck, ReleaseSet, WriteMachines, WriteJobs, storeVars
<1>6. ASSUME NEW s \in Slots, AgentStep(s)
      PROVE  /\ lastJob' = lastJob
             /\ registered' = registered \/ \E m \in MachineIds : \E row : NewMachine(m, row)
  <2>1. ASSUME NEW m \in MachineIds, RegisterInsert(s, m)
        PROVE  lastJob' = lastJob /\ \E row : NewMachine(m, row)
    <3>1. NewMachine(m, req[s].row)
      BY <2>1 DEF RegisterInsert
    <3> QED
      BY <3>1 DEF NewMachine
  <2> QED
    BY <1>6, <2>1 DEF AgentStep, RegisterTouch, RegisterReread, RegisterRename, PollImage, PollClaim,
              PollReply, ProgressUpdate, CompleteStatus, CompleteBoot, CompleteUpdate,
              WriteMachines, WriteJobs, storeVars
<1> QED
  BY <1>1, <1>2, <1>3, <1>4, <1>5, <1>6 DEF Next

\* The column mac is UNIQUE.
LEMMA OneOfMACStays ==
  ASSUME Onward, OneOfMAC
  PROVE  OneOfMAC'
<1>0. MachinesLast /\ StoreTypeOK /\ [Next]_vars
  BY DEF Onward, Lasting, Steady, Inv, TypeOK
<1>1. CASE registered' = registered
  BY <1>0, <1>1 DEF MachinesLast, OneOfMAC
<1>2. CASE registered' # registered
  <2>1. PICK n, row : n \in MachineIds /\ NewMachine(n, row)
    BY <1>0, <1>2, NewIds
  <2>2. CASE UpsertConflict(n, row)
    <3>1. machines' = machines
      BY <2>1, <2>2 DEF NewMachine, UpsertMachine
    <3> QED
      BY <3>1 DEF OneOfMAC, GetMachine
  <2>3. CASE ~UpsertConflict(n, row)
    <3>1. machines' = [machines EXCEPT ![n] = row]
      BY <2>1, <2>3 DEF NewMachine, UpsertMachine
    <3>2. \A m \in MachineIds \ {n} : GetMachine(m) => machines[m].mac # row.mac
      BY <2>3 DEF UpsertConflict, MachineByMAC
    <3>3. n \in MachineIds /\ machines'[n] = row /\ \A m \in MachineIds \ {n} : machines'[m] = machines[m]
      BY <1>0, <2>1, <3>1 DEF StoreTypeOK
    <3> QED
      BY <3>2, <3>3 DEF OneOfMAC, GetMachine
  <2> QED
    BY <2>2, <2>3
<1> QED
  BY <1>1, <1>2

\* A job that is active was active, or has just been inserted.
LEMMA NewActive ==
  ASSUME Serially, Onward, NEW j \in JobIds, Active(j)'
  PROVE  \/ j \in 1 .. lastJob /\ Active(j) /\ GetJob(j) /\ GetJob(j)' /\ jobs'[j].mid = jobs[j].mid
         \/ \E s \in Slots : CreateInsert(s) /\ j = lastJob + 1
<1>0. Steady /\ Steady' /\ Lasting /\ [Next]_vars /\ lastJob \in Nat /\ lastJob' \in Nat
  BY MaxJobsIsNat DEF Onward, Steady, Inv, TypeOK, StoreTypeOK
<1>1. GetJob(j)'
  BY DEF Active, GetJob, NoJob, ActiveStatuses
<1>2. CASE j \in 1 .. lastJob
  <2>1. GetJob(j) /\ jobs'[j].mid = jobs[j].mid
    BY <1>0, <1>1, <1>2 DEF Lasting, JobsLast
  <2>2. Active(j)
    BY <1>0, <1>1, <2>1, SerialChange DEF Steady, Active, ActiveStatuses, FinalStatuses, Outcomes
  <2> QED
    BY <1>1, <1>2, <2>1, <2>2
<1>3. CASE j \notin 1 .. lastJob
  <2>1. j > lastJob /\ j <= lastJob' /\ lastJob' # lastJob
    BY <1>0, <1>1, <1>3, MaxJobsIsNat DEF Steady, Inv, JobTableInv, JobIds
  <2>2. PICK s \in Slots : CreateInsert(s)
    BY <1>0, <2>1, NewIds
  <2>3. lastJob' = lastJob + 1
    BY <2>2 DEF CreateInsert
  <2> QED
    BY <1>0, <2>1, <2>2, <2>3, MaxJobsIsNat DEF JobIds
<1> QED
  BY <1>2, <1>3

\* What an active job becomes where nobody cancels or deletes jobs.
LEMMA StillActive ==
  ASSUME Orderly, Onward, \A s \in Slots : KeptOK(s), NEW j \in 1 .. lastJob, GetJob(j) => Active(j)
  PROVE  \/ GetJob(j)' => Active(j)'
         \/ \E s \in Slots : CompleteUpdate(s) /\ req[s].jid = j
<1>0. Steady /\ Lasting /\ [Next]_vars /\ j \in JobIds
  BY MaxJobsIsNat DEF Onward, Steady, Inv, TypeOK, StoreTypeOK, JobIds
<1>1. SUFFICES ASSUME GetJob(j)', ~\E s \in Slots : CompleteUpdate(s) /\ req[s].jid = j
               PROVE  Active(j)'
  OBVIOUS
<1>2. GetJob(j) /\ Active(j)
  BY <1>1, <1>0 DEF Lasting, JobsLast
<1>3. ASSUME NEW s \in Slots, CancelUpdate(s) PROVE FALSE
  BY <1>3 DEF KeptOK, CancelUpdate, At, Stopping
<1>4. jobs'[j].status = jobs[j].status \/ jobs'[j].status = "running"
  BY <1>0, <1>1, <1>2, <1>3, SerialChange DEF Orderly, Steadily, Steady
<1> QED
  BY <1>2, <1>4 DEF Active, ActiveStatuses

\* Only the report of an end makes a machine provisioned.
LEMMA NewProvisioned ==
  ASSUME Serially, Inv, SerialInv, [Next]_vars, \A s \in Slots : KeptOK(s),
         NEW m \in MachineIds, Provisioned(m)'
  PROVE  \/ Provisioned(m)
         \/ \E s \in Slots :
              /\ req[s].pc = "CompleteStatus" /\ Goto(s, "CompleteBoot") /\ req[s].job.mid = m
              /\ req[s].job.status = "succeeded" /\ req[s].job.type = "install"
<1> DEFINE Told == \E s \in Slots :
              /\ req[s].pc = "CompleteStatus" /\ Goto(s, "CompleteBoot") /\ req[s].job.mid = m
              /\ req[s].job.status = "succeeded" /\ req[s].job.type = "install"
<1>0. machines \in [MachineIds -> MachineRow] /\ TypeOK
  BY DEF Inv, TypeOK, StoreTypeOK
<1>1. machines' = machines => Provisioned(m)
  BY DEF Provisioned
<1>2. ASSUME NEW n, NEW row, machines' = UpsertMachine(n, row),
             n = m /\ row.status = "provisioned" => Provisioned(m)
      PROVE  Provisioned(m)
  <2>1. machines'[m] = machines[m] \/ (n = m /\ machines'[m] = row)
    BY <1>0, <1>2 DEF UpsertMachine
  <2> QED
    BY <1>2, <2>1 DEF Provisioned
<1>3. ASSUME NEW n, NEW st, machines' = SetMachineStatus(n, st), n = m => st # "provisioned"
      PROVE  Provisioned(m)
  <2>1. machines'[m] = machines[m] \/ (n = m /\ machines'[m] = [machines[m] EXCEPT !.status = st])
    BY <1>0, <1>3 DEF SetMachineStatus
  <2>2. [machines[m] EXCEPT !.status = st].status = st
    BY <1>0 DEF MachineRow
  <2> QED
    BY <1>3, <2>1, <2>2 DEF Provisioned
<1>4. ASSUME NEW n, NEW mode, machines' = SetBootMode(n, mode) PROVE Provisioned(m)
  <2>1. machines'[m] = machines[m] \/ machines'[m] = [machines[m] EXCEPT !.boot = mode]
    BY <1>0, <1>4 DEF SetBootMode
  <2>2. [machines[m] EXCEPT !.boot = mode].status = machines[m].status
    BY <1>0 DEF MachineRow
  <2> QED
    BY <2>1, <2>2 DEF Provisioned
<1>5. ASSUME NEW s \in Slots, req[s].pc \in MachineEditors, machines' = UpsertMachine(req[s].mid, req[s].row)
      PROVE  Provisioned(m)
  <2>1. PICK n, row : n = req[s].mid /\ row = req[s].row
    OBVIOUS
  <2>2. row.status = machines[n].status
    BY <1>5, <2>1, FrameKnown DEF FreshMachine, KeptOK
  <2> QED
    BY <1>2, <1>5, <2>1, <2>2 DEF Provisioned
<1>6. ASSUME NEW s \in Slots, NEW st, st # "provisioned", machines' = SetMachineStatus(req[s].job.mid, st)
      PROVE  Provisioned(m)
  <2>1. PICK n : n = req[s].job.mid
    OBVIOUS
  <2> QED
    BY <1>3, <1>6, <2>1
<1>7. ASSUME NEW s \in Slots, NEW mode, machines' = SetBootMode(req[s].job.mid, mode) PROVE Provisioned(m)
  <2>1. PICK n : n = req[s].job.mid
    OBVIOUS
  <2> QED
    BY <1>4, <1>7, <2>1
<1>8. ASSUME ConsoleMachine PROVE Provisioned(m)
  <2>1. ASSUME NEW n \in MachineIds, NEW mac, NEW boot, CreateMachine(n, mac, boot) PROVE Provisioned(m)
    BY <1>2, <2>1 DEF CreateMachine, NewMachine
  <2>2. ASSUME NEW n \in MachineIds, RemoveMachine(n) PROVE Provisioned(m)
    <3>1. machines'[m] = machines[m] \/ machines'[m] = NoMachine
      BY <1>0, <2>2 DEF RemoveMachine, DeleteMachine
    <3> QED
      BY <3>1 DEF Provisioned, NoMachine
  <2>3. ASSUME NEW n \in MachineIds, NEW mode, SetBoot(n, mode) PROVE Provisioned(m)
    BY <1>4, <2>3 DEF SetBoot, WriteMachines
  <2>4. ASSUME NEW s, NEW t, NEW n, NEW boot, EditLoad(t, n) \/ EditPut(s, t, boot) \/ DetectRead(s, n)
        PROVE  machines' = machines
    BY <2>4 DEF EditLoad, EditPut, DetectRead, storeVars
  <2> QED
    BY <1>1, <1>8, <2>1, <2>2, <2>3, <2>4 DEF ConsoleMachine
<1>9. ConsoleJob \/ AgentCall \/ Environment \/ UNCHANGED vars => machines' = machines
  BY DEF ConsoleJob, CreateInstall, CreateStress, CancelRead, DeleteRead, AgentCall, Register, PollNext,
         ProgressRead, CompleteRead, Environment, ServeWinPE, DropImage, PutImage, Crash, StoreFails,
         storeVars, vars
<1>10. ASSUME NEW s \in Slots, ConsoleMachineStep(s) PROVE Provisioned(m)
  <2>1. ~EditUpsert(s)
    BY DEF EditUpsert, At, KeptOK
  <2>2. DetectUpsert(s) =>
          \/ machines' = machines
          \/ /\ req[s].pc = "DetectUpsert" /\ req[s].pc \in MachineEditors
             /\ machines' = UpsertMachine(req[s].mid, req[s].row)
    BY DEF DetectUpsert, At, WriteMachines, storeVars, MachineEditors
  <2> QED
    BY <1>1, <1>5, <1>10, <2>1, <2>2 DEF ConsoleMachineStep
<1>11. ASSUME NEW s \in Slots, ConsoleJobStep(s) PROVE Provisioned(m)
  <2>1. CreateInsert(s) \/ CancelUpdate(s) \/ JobDelete(s) \/ ReleaseRead(s) \/ ReleaseCheck(s) => machines' = machines
    BY DEF CreateInsert, CancelUpdate, JobDelete, ReleaseRead, ReleaseCheck, WriteJobs, storeVars
  <2>2. CreateStatus(s) \/ ReleaseSet(s) =>
          \E st : st # "provisioned" /\ machines' = SetMachineStatus(req[s].job.mid, st)
    BY DEF CreateStatus, ReleaseSet, WriteMachines
  <2>3. CreateBoot(s) => machines' = SetBootMode(req[s].job.mid, "ramos")
    BY DEF CreateBoot, WriteMachines
  <2> QED
    BY <1>1, <1>6, <1>7, <1>11, <2>1, <2>2, <2>3 DEF ConsoleJobStep
<1>12. ASSUME NEW s \in Slots, AgentStep(s) PROVE Provisioned(m) \/ Told
  <2>1. ASSUME NEW n \in MachineIds, RegisterInsert(s, n) PROVE Provisioned(m)
    <3>1. req[s].row.status = "discovered"
      BY <2>1 DEF RegisterInsert, At, Inv, ProvisionedInv, ProvisionedCopyOK
    <3>2. PICK row : row = req[s].row
      OBVIOUS
    <3> QED
      BY <1>2, <2>1, <3>1, <3>2 DEF RegisterInsert, NewMachine
  <2>2. CASE RegisterTouch(s)
    <3>1. PICK n, st : n = req[s].mid /\ st = req[s].row.status
      OBVIOUS
    <3>2. st = machines[n].status
      BY <2>2, <3>1, FrameKnown DEF RegisterTouch, At, FreshMachine, MachineEditors
    <3>3. machines' = SetMachineStatus(n, st)
      BY <2>2, <3>1 DEF RegisterTouch, WriteMachines, TouchMachine
    <3> QED
      BY <1>3, <3>2, <3>3 DEF Provisioned
  <2>3. CASE RegisterRename(s)
    BY <1>5, <2>3 DEF RegisterRename, At, WriteMachines, MachineEditors
  <2>4. RegisterReread(s) \/ PollImage(s) \/ PollClaim(s) \/ PollReply(s) \/ ProgressUpdate(s) \/ CompleteUpdate(s)
          => machines' = machines
    BY DEF RegisterReread, PollImage, PollClaim, PollReply, ProgressUpdate, CompleteUpdate, WriteJobs, storeVars
  <2>5. CASE CompleteStatus(s)
    <3>1. \/ /\ req[s].pc = "CompleteStatus" /\ Goto(s, "CompleteBoot")
             /\ req[s].job.status = "succeeded" /\ req[s].job.type = "install"
             /\ machines' = SetMachineStatus(req[s].job.mid, "provisioned")
          \/ \E st : st # "provisioned" /\ machines' = SetMachineStatus(req[s].job.mid, st)
      BY <2>5 DEF CompleteStatus, At, WriteMachines
    <3>2. CASE machines' = SetMachineStatus(req[s].job.mid, "provisioned") /\ req[s].job.mid # m
      <4>1. PICK n : n = req[s].job.mid
        OBVIOUS
      <4> QED
        BY <1>3, <3>2, <4>1
    <3> QED
      BY <1>6, <3>1, <3>2
  <2>6. CompleteBoot(s) => machines' = SetBootMode(req[s].job.mid, "disk")
    BY DEF CompleteBoot, WriteMachines
  <2> HIDE DEF Told
  <2> QED
    BY <1>1, <1>7, <1>12, <2>1, <2>2, <2>3, <2>4, <2>5, <2>6 DEF AgentStep
<1> HIDE DEF Told
<1>13. Provisioned(m) \/ Told
  BY <1>1, <1>8, <1>9, <1>10, <1>11, <1>12 DEF Next
<1> QED
  BY <1>13 DEF Told

\* A handler's step, told by where it stands.
LEMMA HandlerAt ==
  ASSUME NEW s \in Slots, HandlerActs(s)
  PROVE  /\ req[s].pc = "CreateStatus" => CreateStatus(s)
         /\ req[s].pc = "CompleteStatus" => CompleteStatus(s)
         /\ req[s].pc = "CompleteBoot" => CompleteBoot(s)
         /\ req[s].pc = "CompleteUpdate" => CompleteUpdate(s)
         /\ req[s].pc = "PollReply" => PollReply(s)
BY DEF HandlerActs, ConsoleMachineStep, ConsoleJobStep, AgentStep, At, EditUpsert,
       DetectUpsert, CreateInsert, CreateStatus, CreateBoot, CancelUpdate, JobDelete,
       ReleaseRead, ReleaseCheck, ReleaseSet, RegisterInsert, RegisterTouch, RegisterReread,
       RegisterRename, PollImage, PollClaim, PollReply, ProgressUpdate, CompleteStatus, CompleteBoot,
       CompleteUpdate

-----------------------------------------------------------------------------
(* The tables and the handlers keep the order.                             *)

LEMMA OneActiveStays ==
  ASSUME Serially, Onward, OneActive, \A s \in Slots : KeptOK(s)
  PROVE  OneActive'
<1> SUFFICES ASSUME NEW j \in JobIds, NEW k \in JobIds, Active(j)', Active(k)', jobs'[j].mid = jobs'[k].mid
             PROVE  j = k
  BY DEF OneActive
<1>1. ASSUME NEW i \in JobIds, Active(i)', NEW l \in JobIds, Active(l)', jobs'[i].mid = jobs'[l].mid,
             NEW s \in Slots, CreateInsert(s), l = lastJob + 1, i # l
      PROVE  FALSE
  <2>1. GetJob(i) /\ Active(i) /\ jobs'[i].mid = jobs[i].mid
    BY <1>1, NewActive
  <2>2. jobs'[l] = req[s].job
    BY <1>1 DEF CreateInsert, InsertJob, Onward, Steady, Inv, TypeOK, StoreTypeOK
  <2>3. HasActiveJob(req[s].job.mid)
    BY <1>1, <2>1, <2>2 DEF HasActiveJob, JobsOf, Active
  <2> QED
    BY <1>1, <2>3 DEF KeptOK, CreateInsert, At
<1>2. CASE Active(j) /\ Active(k) /\ jobs'[j].mid = jobs[j].mid /\ jobs'[k].mid = jobs[k].mid
  BY <1>2 DEF OneActive
<1> QED
  BY <1>1, <1>2, NewActive

LEMMA NoWaitStays ==
  ASSUME Serially, Onward, OneActive, NoWait, \A s \in Slots : KeptOK(s)
  PROVE  NoWait'
<1>0. Inv /\ SerialInv /\ [Next]_vars /\ TypeOK /\ StoreTypeOK
  BY DEF Onward, Steady, Inv, TypeOK
<1> SUFFICES ASSUME NEW m \in MachineIds, Provisioned(m)', HasActiveJob(m)'
             PROVE  \E s \in Slots : req'[s].pc \in Midway /\ req'[s].job.mid = m
  BY DEF NoWait
<1>1. ASSUME NEW s \in Slots, NEW pc \in Midway, Goto(s, pc), req[s].job.mid = m
      PROVE  \E t \in Slots : req'[t].pc \in Midway /\ req'[t].job.mid = m
  <2>1. req'[s].pc = pc /\ req'[s].job = req[s].job
    BY <1>0, <1>1, SlotChanges
  <2> QED
    BY <1>1, <2>1
<1>2. PICK j \in JobIds : Active(j)' /\ jobs'[j].mid = m
  BY DEF HasActiveJob, JobsOf, Active
<1>3. CASE ~Provisioned(m)
  <2>1. PICK s \in Slots : Goto(s, "CompleteBoot") /\ req[s].job.mid = m
    BY <1>0, <1>3, NewProvisioned
  <2>2. "CompleteBoot" \in Midway
    BY DEF Midway
  <2> QED
    BY <1>1, <2>1, <2>2
<1>4. ASSUME NEW s \in Slots, CreateInsert(s), j = lastJob + 1
      PROVE  \E t \in Slots : req'[t].pc \in Midway /\ req'[t].job.mid = m
  <2>1. jobs'[j] = req[s].job
    BY <1>0, <1>4 DEF CreateInsert, InsertJob, StoreTypeOK
  <2> QED
    BY <1>1, <1>2, <1>4, <2>1 DEF CreateInsert, Midway
<1>5. CASE Provisioned(m) /\ Active(j) /\ GetJob(j) /\ jobs[j].mid = m
  <2>1. PICK s \in Slots : req[s].pc \in Midway /\ req[s].job.mid = m
    BY <1>5 DEF NoWait, HasActiveJob, JobsOf, Active
  <2>2. CASE UNCHANGED vars
    BY <2>1, <2>2 DEF vars
  <2>3. CASE HandlerActs(s)
    <3>1. CASE req[s].pc = "CreateStatus"
      <4>1. \E st \in {"installing", "stressing"} : machines' = SetMachineStatus(req[s].job.mid, st)
        BY <2>3, <3>1, HandlerAt DEF CreateStatus, WriteMachines
      <4>2. PICK st \in {"installing", "stressing"} : machines' = SetMachineStatus(m, st)
        BY <2>1, <4>1
      <4>3. GetMachine(m)
        BY <1>5 DEF Provisioned, GetMachine, NoMachine
      <4>4. machines'[m].status = st
        BY <1>0, <4>2, <4>3 DEF SetMachineStatus, StoreTypeOK, MachineRow
      <4> QED
        BY <4>4 DEF Provisioned
    <3>2. CASE req[s].pc = "CompleteBoot"
      <4>1. Goto(s, "CompleteUpdate")
        BY <2>3, <3>2, HandlerAt DEF CompleteBoot
      <4> QED
        BY <1>1, <2>1, <4>1 DEF Midway
    <3>3. CASE req[s].pc = "CompleteUpdate"
      <4>1. PICK k : k = req[s].jid
        OBVIOUS
      <4>2. k \in JobIds /\ GetJob(k) /\ jobs[k].mid = m /\ req[s].job.status \in FinalStatuses /\ Active(k)
        BY <1>0, <2>1, <3>3, <4>1, FrameKnown
           DEF FreshJob, JobHolders, JobWriters, Outcomes, FinalStatuses, KeptOK, Completing
      <4>3. k = j
        BY <1>5, <4>2 DEF OneActive
      <4>4. jobs' = [jobs EXCEPT ![k] = req[s].job]
        BY <2>3, <3>3, <4>1, <4>2, HandlerAt DEF CompleteUpdate, WriteJobs, UpdateJob
      <4>5. jobs'[j].status \in FinalStatuses
        BY <1>0, <4>2, <4>3, <4>4 DEF StoreTypeOK
      <4> QED
        BY <1>2, <4>5 DEF Active, ActiveStatuses, FinalStatuses
    <3> QED
      BY <2>1, <3>1, <3>2, <3>3 DEF Midway
  <2>4. req[s].pc # "idle"
    BY <2>1 DEF Midway
  <2> QED
    BY <1>0, <2>2, <2>3, <2>4, WhoActs
<1> QED
  BY <1>2, <1>3, <1>4, <1>5, NewActive

\* While a handler is under way, only it and steps that are no request can be taken.
LEMMA OnlyHandler ==
  ASSUME Serially, SerialHosts, [ProvNext]_provVars, NEW s \in Slots, req[s].pc # "idle"
  PROVE  HandlerStep(s) \/ UNCHANGED vars
<1>0. Inv /\ HostInv /\ TypeOK
  BY DEF SerialHosts, Steady, Inv
<1>1. ~ConsoleMachine /\ ~ConsoleJob /\ ~AgentCall /\ ~Environment
  BY <1>0, BusySlot
<1>2. ~Console /\ ~ImageChange
  BY <1>1 DEF Console, ImageChange, Environment
<1>3. ASSUME NEW h \in Hosts, HostStep(h) PROVE UNCHANGED vars
  <2>1. ~Calls(h) /\ ~\E t \in Slots : ReportCall(h, t)
    BY <1>0, <1>1, CallsAreHandlers DEF Calls
  <2> QED
    BY <1>3, <2>1
       DEF HostStep, Boot, Alone, Ends, FetchNothing, PollUnknown, CompleteGone, Format, FetchAnswers,
           Succeed, Fail, OperatorReboots, RebootFires, PowerCut, CallLost, ControlPlaneIdle
<1>4. UNCHANGED provVars => UNCHANGED vars
  BY DEF provVars, vars
<1>5. (\E t \in Slots : HandlerStep(t)) => HandlerStep(s)
  BY DEF Serially
<1> QED
  BY <1>2, <1>3, <1>4, <1>5 DEF ProvNext

LEMMA KeptStays ==
  ASSUME Orderly, SerialHosts, OrderInv, [ProvNext]_provVars, NEW s \in Slots
  PROVE  KeptOK(s)'
<1>0. TypeOK /\ Serially /\ KeptOK(s)
  BY DEF Orderly, Steadily, SerialHosts, Steady, Inv, OrderInv
<1>1. ASSUME UNCHANGED vars PROVE KeptOK(s)'
  BY <1>0, <1>1 DEF vars, KeptOK, HasActiveJob, JobsOf, GetJob, Active
<1>2. ASSUME req'[s].pc \notin Stopping \cup {"EditUpsert", "CreateInsert"} \cup Completing PROVE KeptOK(s)'
  BY <1>2 DEF KeptOK
<1>3. ASSUME NEW kind, Quick(kind) PROVE KeptOK(s)'
  <2>1. req'[s].pc = "idle"
    BY <1>0, <1>3 DEF Quick, Serially, Idle
  <2> QED
    BY <1>2, <2>1 DEF Stopping, ReleasePcs, Completing
<1>4. ASSUME NEW kind, NEW t \in Slots, NEW pc, NEW x, NEW y,
             Start(kind, t, WithMachine(pc, x, y)) \/ Start(kind, t, WithJob(pc, x, y))
      PROVE  /\ kind \in Requests /\ req'[s].pc = pc
             /\ pc \notin Stopping \cup {"EditUpsert", "CreateInsert"} \cup Completing => KeptOK(s)'
  <2>1. t = s
    BY <1>0 DEF Serially
  <2>2. \A f : Start(kind, t, f) => kind \in Requests /\ req'[s].pc = f.pc
    <3>1. \A f : Start(kind, s, f) => req'[s] = f
      BY <1>0, SlotChanges
    <3>2. \A f : Start(kind, s, f) => kind \in Requests
      BY DEF Start
    <3> QED
      BY <2>1, <3>1, <3>2
  <2>3. WithMachine(pc, x, y).pc = pc /\ WithJob(pc, x, y).pc = pc
    BY FrameFields
  <2>4. kind \in Requests /\ req'[s].pc = pc
    BY <1>4, <2>2, <2>3
  <2> QED
    BY <1>2, <2>4
<1>5. /\ "DetectUpsert" \notin Stopping \cup {"EditUpsert", "CreateInsert"} \cup Completing
      /\ "RegisterInsert" \notin Stopping \cup {"EditUpsert", "CreateInsert"} \cup Completing
      /\ "RegisterTouch" \notin Stopping \cup {"EditUpsert", "CreateInsert"} \cup Completing
      /\ "PollImage" \notin Stopping \cup {"EditUpsert", "CreateInsert"} \cup Completing
      /\ "ProgressUpdate" \notin Stopping \cup {"EditUpsert", "CreateInsert"} \cup Completing
  BY DEF Stopping, ReleasePcs, Completing
<1>6. ASSUME ConsoleMachine PROVE KeptOK(s)'
  <2>1. ASSUME NEW t \in Slots, NEW tab, NEW boot, EditPut(t, tab, boot) PROVE FALSE
    BY <2>1 DEF EditPut, Start, Orderly
  <2>2. ASSUME NEW t \in Slots, NEW m, DetectRead(t, m) PROVE KeptOK(s)'
    BY <1>4, <1>5, <2>2 DEF DetectRead
  <2>3. (\E m \in MachineIds : \/ \E mac \in MACs, boot \in BootModes : CreateMachine(m, mac, boot)
                               \/ RemoveMachine(m)
                               \/ \E mode \in BootModes : SetBoot(m, mode)
                               \/ \E t \in Tabs : EditLoad(t, m)) => \E kind : Quick(kind)
    BY DEF CreateMachine, RemoveMachine, SetBoot, EditLoad
  <2> QED
    BY <1>3, <1>6, <2>1, <2>2, <2>3 DEF ConsoleMachine
<1>7. ASSUME Console, ConsoleJob PROVE KeptOK(s)'
  <2>1. ASSUME NEW t \in Slots, NEW j, CancelRead(t, j) \/ DeleteRead(t, j) PROVE FALSE
    BY <2>1 DEF CancelRead, DeleteRead, Start, Orderly
  <2>2. \E t \in Slots, m \in MachineIds : CreateStress(t, m) \/ \E i \in ImageIds : CreateInstall(t, m, i)
    BY <1>7, <2>1 DEF ConsoleJob
  <2>3. req'[s].pc = "CreateInsert" /\ jobs' = jobs
    BY <1>4, <2>2 DEF CreateStress, CreateInstall, storeVars
  <2>4. ~HasActiveJob(req'[s].job.mid)
    BY <1>7, <2>3 DEF Console, Orderly
  <2>5. PICK m : m = req'[s].job.mid
    OBVIOUS
  <2>6. ~HasActiveJob(m)'
    BY <2>3, <2>4, <2>5 DEF HasActiveJob, JobsOf, GetJob
  <2>7. ~HasActiveJob(req[s].job.mid)'
    BY <2>5, <2>6 DEF HasActiveJob, JobsOf, GetJob
  <2> QED
    BY <2>3, <2>7 DEF KeptOK, Stopping, ReleasePcs, Completing
<1>8. ASSUME ImageChange PROVE KeptOK(s)'
  BY <1>3, <1>8 DEF ImageChange, PutImage, DropImage
<1>9. ASSUME NEW t \in Slots, HandlerStep(t) PROVE KeptOK(s)'
  <2>0. HandlerActs(s)
    BY <1>0, <1>9 DEF HandlerStep, HandlerActs, Serially
  <2>1. CASE req'[s].pc \in Completing
    <3>1. req[s].pc \in Completing /\ Active(req[s].jid)
      BY <1>0, <2>0, <2>1, CompletingBegan DEF KeptOK
    <3>2. req'[s] # Idle
      BY <2>1 DEF Idle, Completing
    <3>3. req'[s].jid = req[s].jid
      BY <1>0, <2>0, <2>1, <3>1, <3>2, HandlerGoesOn, CompletingGoesOn
    <3>4. ~CompleteUpdate(s)
      BY <1>0, <3>2, SlotChanges DEF CompleteUpdate
    <3>5. CompleteStatus(s) \/ CompleteBoot(s)
      BY <2>0, <3>1, <3>4, HandlerAt DEF Completing
    <3>6. jobs' = jobs
      BY <3>5 DEF CompleteStatus, CompleteBoot, WriteMachines
    <3>7. Active(req[s].jid)'
      BY <3>1, <3>3, <3>6 DEF Active
    <3> QED
      BY <2>1, <3>7 DEF KeptOK, Completing, Stopping, ReleasePcs
  <2>2. CASE req'[s].pc \notin Completing
    <3>1. Done(s) => req'[s].pc = "idle"
      BY <1>0, SlotChanges DEF Idle
    <3>2. \A pc : Goto(s, pc) => req'[s].pc = pc
      BY <1>0, SlotChanges
    <3>3. ConsoleMachineStep(s) => req'[s].pc = "idle"
      BY <3>1, <3>2 DEF ConsoleMachineStep, EditUpsert, DetectUpsert
    <3>4. ConsoleJobStep(s) => req'[s].pc \in {"idle", "CreateStatus", "CreateBoot"}
      BY <1>0, <3>1, <3>2
         DEF ConsoleJobStep, CreateInsert, CreateStatus, CreateBoot, CancelUpdate, JobDelete,
             ReleaseRead, ReleaseCheck, ReleaseSet, At, KeptOK, Stopping, ReleasePcs
    <3>5. AgentStep(s) => req'[s].pc \in {"idle"} \cup Registering \cup Polling \cup Completing
      <4>1. AgentStep(s) => req[s].pc \in Registering \cup Polling \cup Completing \cup {"ProgressUpdate"}
        BY DEF AgentStep, RegisterInsert, RegisterTouch, RegisterReread, RegisterRename, PollImage, PollClaim,
               PollReply, ProgressUpdate, CompleteStatus, CompleteBoot, CompleteUpdate, At,
               Registering, Polling, Completing
      <4>2. Idle.pc = "idle"
        BY DEF Idle
      <4> QED
        BY <1>0, <2>0, <4>1, <4>2, HandlerGoesOn DEF GoesOn
    <3>6. req'[s].pc \in {"idle", "CreateStatus", "CreateBoot"} \cup Registering \cup Polling
      BY <2>0, <2>2, <3>3, <3>4, <3>5 DEF HandlerActs
    <3> QED
      BY <1>2, <3>6 DEF Registering, Polling, Stopping, ReleasePcs, Completing
  <2> QED
    BY <2>1, <2>2
<1>10. ASSUME NEW h \in Hosts, HostStep(h) PROVE KeptOK(s)'
  <2>1. ASSUME NEW t \in Slots, RegisterCall(h, t) PROVE KeptOK(s)'
    BY <1>4, <1>5, <2>1 DEF RegisterCall, Register
  <2>2. ASSUME NEW t \in Slots, PollCall(h, t) PROVE KeptOK(s)'
    BY <1>4, <1>5, <2>2 DEF PollCall, PollNext
  <2>3. ASSUME NEW t \in Slots, ReportCall(h, t) PROVE KeptOK(s)'
    BY <1>4, <1>5, <2>3 DEF ReportCall, ProgressRead
  <2>4. ASSUME NEW t \in Slots, CompleteCall(h, t) PROVE KeptOK(s)'
    <3>1. PICK j : j = host[h].jid
      OBVIOUS
    <3>2. t = s
      BY <1>0 DEF Serially
    <3>3. req'[s].pc = "CompleteStatus" /\ req'[s].jid = j /\ jobs' = jobs /\ GetJob(j)
      BY <1>0, <2>4, <3>1, <3>2, SlotChanges, FrameFields DEF CompleteCall, CompleteRead, storeVars
    <3>4. Active(j)
      BY <2>4, <3>1, <3>3 DEF OrderInv, OrderOK, CompleteCall, Ready
    <3> QED
      BY <3>3, <3>4 DEF KeptOK, Active, Stopping, ReleasePcs
  <2>5. FetchInstall(h) => \E kind : Quick(kind)
    BY DEF FetchInstall, ServeWinPE
  <2>6. Boot(h) \/ Alone(h) \/ Ends(h) \/ OperatorReboots(h) \/ RebootFires(h) \/ PowerCut(h) \/ CallLost(h)
          => UNCHANGED vars
    BY DEF Boot, Alone, Ends, FetchNothing, PollUnknown, CompleteGone, Format, FetchAnswers,
           Succeed, Fail, OperatorReboots, RebootFires, PowerCut, CallLost, ControlPlaneIdle
  <2> QED
    BY <1>1, <1>3, <1>10, <2>1, <2>2, <2>3, <2>4, <2>5, <2>6 DEF HostStep, Calls
<1>11. UNCHANGED provVars => UNCHANGED vars
  BY DEF provVars, vars
<1> QED
  BY <1>1, <1>6, <1>7, <1>8, <1>9, <1>10, <1>11 DEF ProvNext, Console

-----------------------------------------------------------------------------
(* What may become of a host and its disk.                                 *)

\* It goes on with the work it has.
Continues(h) ==
  /\ host[h].pc \in AtWork \cup {"complete"}
  /\ host'[h].pc \in AtWork => host[h].pc \in AtWork
  /\ host'[h].jid = host[h].jid /\ host'[h].type = host[h].type

\* It takes a job of its machine that is still to be done.
Takes(h) ==
  /\ UNCHANGED <<machines, jobs>>
  /\ host'[h].pc = "work"
  /\ \E j \in JobIds :
       /\ host'[h].jid = j /\ GetJob(j) /\ Active(j) /\ machines[jobs[j].mid].mac = h
  /\ \A s \in Slots : req[s].pc \notin Midway

\* It boots its disk.
BootsDisk(h) == UNCHANGED <<machines, disk>> /\ host'[h].pc = "off" /\ Script(h) = "local"

Moved(h) ==
  /\ host'[h].pc \in AtWork \cup {"complete"} => Continues(h) \/ Takes(h)
  /\ host'[h].os = "local" =>
       \/ host'[h] = host[h]
       \/ host[h].os = "local" /\ host[h].pc # "off"
       \/ BootsDisk(h)
  /\ \/ disk'[h].content \in {disk[h].content} \cup Leaves
     \/ host[h].pc = "work" /\ host[h].type = "install"

LEMMA NotMoved ==
  ASSUME NEW h, host'[h] = host[h], disk'[h] = disk[h]
  PROVE  Moved(h)
BY DEF Moved, Continues

LEMMA AloneMoves ==
  ASSUME Orderly, HostInv, NEW h \in Hosts,
         \/ Boot(h) \/ Alone(h) \/ Ends(h)
         \/ OperatorReboots(h) \/ RebootFires(h) \/ PowerCut(h) \/ CallLost(h)
  PROVE  Moved(h)
<1>0. host[h] \in Host /\ disk[h] \in Disk /\ host \in [Hosts -> Host] /\ disk \in [Hosts -> Disk]
  BY DEF HostInv
<1>1. ASSUME Become(h, Down) PROVE Moved(h)
  <2>1. host'[h].pc = "off" /\ host'[h].os = "down" /\ disk' = disk
    BY <1>0, <1>1 DEF Become, Down
  <2> QED
    BY <2>1 DEF Moved, AtWork
<1>2. CASE Boot(h)
  <2>0. UNCHANGED <<machines, disk>>
    BY <1>2 DEF Boot, Become, ControlPlaneIdle, vars
  <2>1. CASE Script(h) = "local"
    <3>1. host' = [host EXCEPT ![h] = Booted("local", "off")]
      BY <1>2, <2>1 DEF Boot, Become
    <3>2. host'[h].pc = "off"
      BY <1>0, <3>1 DEF Booted, Down
    <3> QED
      BY <2>0, <2>1, <3>2 DEF Moved, BootsDisk, AtWork
  <2>2. ASSUME NEW os \in {"winpe", "ramos"}, NEW pc \in {"fetch", "register"}, Become(h, Booted(os, pc))
        PROVE  Moved(h)
    <3>1. host'[h].pc = pc /\ host'[h].os = os
      BY <1>0, <2>2 DEF Become, Booted, Down
    <3> QED
      BY <2>0, <2>2, <3>1 DEF Moved, AtWork
  <2>3. Script(h) \in {"local", "winpe", "ramos"}
    BY DEF Script, ScriptFor
  <2> QED
    BY <1>2, <2>1, <2>2, <2>3 DEF Boot
<1>3. CASE FetchNothing(h) \/ OperatorReboots(h) \/ RebootFires(h) \/ PowerCut(h)
  BY <1>1, <1>3 DEF FetchNothing, OperatorReboots, RebootFires, PowerCut
<1>4. ~CallLost(h)
  BY DEF CallLost, Orderly
<1>5. ASSUME NEW pc, host[h].pc # "off",
             pc \in AtWork \cup {"complete"} => host[h].pc \in AtWork \cup {"complete"},
             pc \in AtWork => host[h].pc \in AtWork,
             host'[h].pc = pc, host'[h].os = host[h].os,
             host'[h].jid = host[h].jid, host'[h].type = host[h].type,
             \/ disk'[h].content \in {disk[h].content} \cup Leaves
             \/ host[h].pc = "work" /\ host[h].type = "install"
      PROVE  Moved(h)
  BY <1>5 DEF Moved, Continues
<1>6. CASE PollUnknown(h)
  <2>1. /\ host'[h].pc = "refresh" /\ host'[h].os = host[h].os /\ host'[h].jid = host[h].jid
        /\ host'[h].type = host[h].type /\ disk' = disk /\ host[h].pc = "poll"
    BY <1>0, <1>6 DEF PollUnknown, GoOn, Become, Ready, Host
  <2> QED
    BY <1>5, <2>1 DEF AtWork
<1>7. CASE CompleteGone(h)
  <2>1. host[h].pc = "complete" /\ disk' = disk
    BY <1>7 DEF CompleteGone, Ready, Become
  <2>2. PICK pc \in {"refresh", "complete", "done"} :
          host' = [host EXCEPT ![h] = [host[h] EXCEPT !.pc = pc, !.slot = "none"]]
    BY <1>7, <2>1 DEF CompleteGone, AfterError, NextPcs, Become
  <2>3. /\ host'[h].pc = pc /\ host'[h].os = host[h].os /\ host'[h].jid = host[h].jid
        /\ host'[h].type = host[h].type
    BY <1>0, <2>2 DEF Host
  <2> QED
    BY <1>5, <2>1, <2>2, <2>3 DEF AtWork
<1>8. CASE Format(h)
  BY <1>5, <1>8 DEF Format, Ready, AtWork
<1>9. CASE FetchAnswers(h)
  <2>1. /\ host'[h].pc = "complete" /\ host'[h].os = host[h].os /\ host'[h].jid = host[h].jid
        /\ host'[h].type = host[h].type /\ host[h].pc = "answers"
    BY <1>0, <1>9 DEF FetchAnswers, Ready, Host
  <2>2. \E a : disk' = [disk EXCEPT ![h] = [disk[h] EXCEPT !.answers = a]]
    BY <1>0, <1>9 DEF FetchAnswers, Write
  <2>3. disk'[h].content = disk[h].content
    BY <1>0, <2>2 DEF Disk
  <2> QED
    BY <1>5, <2>1, <2>3 DEF AtWork
<1>10. CASE Fail(h)
  <2>1. /\ host'[h].pc = "complete" /\ host'[h].os = host[h].os /\ host'[h].jid = host[h].jid
        /\ host'[h].type = host[h].type /\ host[h].pc = "work" /\ disk' = disk
    BY <1>0, <1>10 DEF Fail, Become, Ready, Host
  <2> QED
    BY <1>5, <2>1 DEF AtWork
<1>11. CASE Succeed(h)
  <2> DEFINE pc == IF host[h].os = "winpe" THEN "answers" ELSE "complete"
             r  == Reboot /\ host[h].type = "install" /\ host[h].os = "ramos"
  <2>1. host' = [host EXCEPT ![h] = [host[h] EXCEPT !.pc = pc, !.ok = TRUE, !.reboot = r]] /\ host[h].pc = "work"
    BY <1>0, <1>11 DEF Succeed, Ready
  <2>2. pc \in {"answers", "complete"}
    OBVIOUS
  <2> HIDE DEF pc, r
  <2>3. /\ host'[h].pc = pc /\ host'[h].os = host[h].os /\ host'[h].jid = host[h].jid
        /\ host'[h].type = host[h].type
    BY <1>0, <2>1 DEF Host
  <2>4. disk' = disk \/ \E c \in Leaves : disk' = [disk EXCEPT ![h] = [disk[h] EXCEPT !.content = c]]
    BY <1>11 DEF Succeed, Write
  <2>5. disk'[h].content \in {disk[h].content} \cup Leaves
    BY <1>0, <2>4 DEF Disk
  <2> QED
    BY <1>5, <2>1, <2>2, <2>3, <2>5 DEF AtWork
<1> QED
  BY <1>2, <1>3, <1>4, <1>6, <1>7, <1>8, <1>9, <1>10, <1>11 DEF Alone, Ends

LEMMA CallMoves ==
  ASSUME Orderly, Steady, HostInv, HostsInv, NEW h \in Hosts,
         \/ FetchInstall(h)
         \/ \E s \in Slots : RegisterCall(h, s) \/ PollCall(h, s) \/ CompleteCall(h, s) \/ ReportCall(h, s)
  PROVE  Moved(h)
<1>0. host[h] \in Host /\ host \in [Hosts -> Host] /\ Serially /\ StoreTypeOK
  BY DEF HostInv, Orderly, Steadily, Steady, Inv, TypeOK
<1>1. CASE FetchInstall(h)
  <2>1. PICK m, j :
          /\ m \in MachineByMAC(h) /\ j \in WindowsInstall(m)
          /\ ServeWinPE(m)
          /\ Become(h, [host[h] EXCEPT !.pc = "work", !.jid = j, !.type = "install"])
    BY <1>1 DEF FetchInstall
  <2>2. UNCHANGED <<machines, jobs, disk>> /\ \E s \in Slots : req[s] = Idle
    BY <2>1 DEF ServeWinPE, Quick, storeVars, Become
  <2>3. host'[h].pc = "work" /\ host'[h].jid = j /\ host'[h].os = host[h].os /\ host[h].pc = "fetch"
    BY <1>0, <1>1, <2>1 DEF Become, Host, FetchInstall, Ready
  <2>4. j \in JobIds /\ GetJob(j) /\ Active(j) /\ jobs[j].mid = m
    BY <2>1 DEF WindowsInstall, WindowsJobs, ListJobs, JobsOf, Active, ActiveStatuses
  <2>5. machines[m].mac = h
    BY <2>1 DEF MachineByMAC
  <2>6. \A s \in Slots : req[s].pc \notin Midway
    BY <1>0, <2>2 DEF Serially, Idle, Midway
  <2>7. Takes(h)
    BY <2>2, <2>3, <2>4, <2>5, <2>6 DEF Takes
  <2> QED
    BY <2>2, <2>3, <2>7 DEF Moved
<1>2. ASSUME NEW s \in Slots, NEW pc, Await(h, s, pc), host[h].pc # "off",
             pc \in AtWork \cup {"complete"} => host[h].pc \in AtWork \cup {"complete"},
             pc \in AtWork => host[h].pc \in AtWork
      PROVE  Moved(h)
  <2>1. /\ host'[h].pc = pc /\ host'[h].os = host[h].os /\ host'[h].jid = host[h].jid
        /\ host'[h].type = host[h].type /\ disk' = disk
    BY <1>0, <1>2 DEF Await, Become, Host
  <2> QED
    BY <1>2, <2>1 DEF Moved, Continues
<1>3. ASSUME NEW s \in Slots, RegisterCall(h, s) PROVE Moved(h)
  BY <1>2, <1>3 DEF RegisterCall, Ready, AtWork
<1>4. ASSUME NEW s \in Slots, PollCall(h, s) PROVE Moved(h)
  BY <1>2, <1>4 DEF PollCall, Ready, AtWork
<1>5. ASSUME NEW s \in Slots, CompleteCall(h, s) \/ ReportCall(h, s) PROVE Moved(h)
  BY <1>2, <1>5 DEF CompleteCall, ReportCall, Ready, AtWork
<1> QED
  BY <1>1, <1>3, <1>4, <1>5

\* The answer of a handler moves the host that waited for it.
LEMMA AnswerMoves ==
  ASSUME Orderly, Steady, HostInv, HostsInv, NEW s \in Slots, HandlerStep(s), NEW h \in Hosts
  PROVE  Moved(h)
<1>0. host \in [Hosts -> Host] /\ disk' = disk /\ HandlerActs(s) /\ Serially
  BY DEF HostInv, Orderly, Steadily, HandlerStep, HandlerActs, Deliver
<1>1. CASE host'[h] = host[h]
  BY <1>0, <1>1, NotMoved
<1>2. CASE host'[h] # host[h]
  <2>1. PICK g \in Hosts :
          /\ host[g].slot = s
          /\ \/ Answered(s) /\ host' = [host EXCEPT ![g] = AfterReply(host[g], s)]
             \/ \E row \in AfterError(host[g]) : host' = [host EXCEPT ![g] = row]
    BY <1>2 DEF HandlerStep, Deliver
  <2>2. g = h
    BY <1>0, <1>2, <2>1
  <2>3. host[h].pc \in Awaiting /\ host[h] \in Host /\ Serving(s, h)
    BY <2>1, <2>2, NoneIsNoSlot DEF HostInv, AwaitsAnswer, HostsInv, HostOK
  <2>4. ASSUME NEW pc,
               pc \in AtWork \cup {"complete"} => host[h].pc \in AtWork \cup {"complete"},
               pc \in AtWork => host[h].pc \in AtWork,
               host'[h].pc = pc, host'[h].os = host[h].os,
               host'[h].jid = host[h].jid, host'[h].type = host[h].type
        PROVE  Moved(h)
    BY <1>0, <2>3, <2>4 DEF Moved, Continues, Awaiting
  <2>5. CASE \E row \in AfterError(host[h]) : host' = [host EXCEPT ![h] = row]
    <3>1. PICK pc \in NextPcs(host[h]) : host' = [host EXCEPT ![h] = [host[h] EXCEPT !.pc = pc, !.slot = "none"]]
      BY <2>5 DEF AfterError
    <3>2. /\ host'[h].pc = pc /\ host'[h].os = host[h].os
          /\ host'[h].jid = host[h].jid /\ host'[h].type = host[h].type
      BY <1>0, <2>3, <3>1 DEF Host
    <3>3. /\ pc \in AtWork \cup {"complete"} => host[h].pc \in AtWork \cup {"complete"}
          /\ pc \in AtWork => host[h].pc \in AtWork
      BY <2>3, <3>1 DEF NextPcs, Awaiting, AtWork
    <3> QED
      BY <2>4, <3>2, <3>3
  <2>6. CASE host' = [host EXCEPT ![h] = AfterReply(host[h], s)]
    <3>1. host'[h] = AfterReply(host[h], s)
      BY <1>0, <2>6
    <3>2. CASE host[h].pc \in {"register", "refresh"}
      <4>1. PICK id : host'[h] = [host[h] EXCEPT !.slot = "none", !.pc = "poll", !.mid = id]
        BY <3>1, <3>2 DEF AfterReply
      <4>2. /\ host'[h].pc = "poll" /\ host'[h].os = host[h].os
            /\ host'[h].jid = host[h].jid /\ host'[h].type = host[h].type
        BY <2>3, <4>1 DEF Host
      <4> QED
        BY <2>4, <4>2 DEF AtWork
    <3>3. CASE host[h].pc \in {"report", "complete"} \/ (host[h].pc = "poll" /\ req[s].pc # "PollReply")
      <4>1. PICK pc : /\ host'[h] = [host[h] EXCEPT !.slot = "none", !.pc = pc]
                      /\ (pc = "work" /\ host[h].pc = "report") \/ pc \in {"refresh", "done", "poll"}
        <5>1. host[h].pc = "report" => host'[h] = [host[h] EXCEPT !.slot = "none", !.pc = "work"]
          BY <3>1 DEF AfterReply
        <5>2. host[h].pc = "complete" =>
                \E pc \in {"refresh", "done"} : host'[h] = [host[h] EXCEPT !.slot = "none", !.pc = pc]
          BY <3>1 DEF AfterReply
        <5>3. host[h].pc = "poll" /\ req[s].pc # "PollReply" => host'[h] = [host[h] EXCEPT !.slot = "none"]
          BY <3>1 DEF AfterReply
        <5>4. host[h].pc = "poll" =>
                [host[h] EXCEPT !.slot = "none"] = [host[h] EXCEPT !.slot = "none", !.pc = "poll"]
          BY <2>3 DEF Host
        <5> QED
          BY <3>3, <5>1, <5>2, <5>3, <5>4
      <4>2. /\ host'[h].pc = pc /\ host'[h].os = host[h].os
            /\ host'[h].jid = host[h].jid /\ host'[h].type = host[h].type
        BY <2>3, <4>1 DEF Host
      <4> QED
        BY <2>4, <4>1, <4>2 DEF AtWork
    <3>4. CASE host[h].pc = "poll" /\ req[s].pc = "PollReply"
      <4>1. PICK j, t : j = req[s].jid /\ t = req[s].job.type
        OBVIOUS
      <4>2. host'[h] = [host[h] EXCEPT !.slot = "none", !.pc = "work", !.jid = j, !.type = t]
        BY <3>1, <3>4, <4>1 DEF AfterReply
      <4>3. host'[h].pc = "work" /\ host'[h].jid = j /\ host'[h].os = host[h].os
        BY <2>3, <4>2 DEF Host
      <4>4. Own(j, h) /\ jobs[j].status = "running"
        BY <2>3, <3>4, <4>1 DEF Serving, Steady, TablesInv
      <4>5. j \in JobIds /\ GetJob(j) /\ Active(j) /\ machines[jobs[j].mid].mac = h
        BY <4>4, MaxJobsIsNat DEF Own, GetJob, NoJob, Active, ActiveStatuses, Steady, Inv, TypeOK, StoreTypeOK, JobIds
      <4>6. UNCHANGED <<machines, jobs>>
        BY <1>0, <3>4, HandlerAt DEF PollReply, storeVars
      <4>7. \A t2 \in Slots : req[t2].pc \notin Midway
        BY <1>0, <3>4 DEF Serially, Midway
      <4>8. Takes(h)
        BY <4>3, <4>5, <4>6, <4>7 DEF Takes
      <4> QED
        BY <1>0, <3>4, <4>3, <4>8 DEF Moved
    <3> QED
      BY <2>3, <3>2, <3>3, <3>4 DEF Awaiting
  <2> QED
    BY <2>1, <2>2, <2>5, <2>6
<1> QED
  BY <1>1, <1>2

LEMMA HostMoves ==
  ASSUME Orderly, SerialHosts, [ProvNext]_provVars, NEW h \in Hosts
  PROVE  Moved(h)
<1>0. Steady /\ HostInv /\ HostsInv /\ host \in [Hosts -> Host] /\ disk \in [Hosts -> Disk]
  BY DEF SerialHosts, HostInv
<1>1. UNCHANGED <<host, disk>> => Moved(h)
  BY NotMoved
<1>2. ASSUME NEW g \in Hosts, HostStep(g) PROVE Moved(h)
  <2>1. CASE g = h
    BY <1>0, <1>2, <2>1, AloneMoves, CallMoves DEF HostStep, Calls
  <2>2. CASE g # h
    <3>1. (\E row : host' = [host EXCEPT ![g] = row]) \/ host' = host
      <4>1. \A row : Become(g, row) => host' = [host EXCEPT ![g] = row]
        BY DEF Become
      <4>2. \A pc, s : Await(g, s, pc) => \E row : host' = [host EXCEPT ![g] = row]
        BY DEF Await, Become
      <4>3. Boot(g) \/ Calls(g) \/ (\E s \in Slots : ReportCall(g, s)) => \E row : host' = [host EXCEPT ![g] = row]
        BY <4>1, <4>2 DEF Boot, Calls, FetchInstall, RegisterCall, PollCall, CompleteCall, ReportCall
      <4>4. FetchNothing(g) \/ PollUnknown(g) \/ CompleteGone(g) \/ Fail(g) \/ OperatorReboots(g) \/ RebootFires(g)
              \/ PowerCut(g) \/ CallLost(g) => \E row : host' = [host EXCEPT ![g] = row]
        BY <4>1 DEF FetchNothing, PollUnknown, GoOn, CompleteGone, Fail, OperatorReboots, RebootFires, PowerCut, CallLost
      <4>5. Format(g) => host' = host
        BY DEF Format
      <4>6. FetchAnswers(g) \/ Succeed(g) => \E row : host' = [host EXCEPT ![g] = row]
        BY DEF FetchAnswers, Succeed
      <4> QED
        BY <1>2, <4>3, <4>4, <4>5, <4>6 DEF HostStep, Alone, Ends
    <3>2. (\E d : disk' = [disk EXCEPT ![g] = d]) \/ disk' = disk
      BY <1>2 DEF HostStep, Boot, Calls, Alone, Ends, FetchInstall, RegisterCall, PollCall, CompleteCall, ReportCall,
                  FetchNothing, PollUnknown, GoOn, CompleteGone, Fail, OperatorReboots, RebootFires, PowerCut,
                  CallLost, Format, FetchAnswers, Succeed, Write, Become, Await
    <3>3. host'[h] = host[h] /\ disk'[h] = disk[h]
      BY <1>0, <2>2, <3>1, <3>2
    <3> QED
      BY <3>3, NotMoved
  <2> QED
    BY <2>1, <2>2
<1>3. ASSUME NEW s \in Slots, HandlerStep(s) PROVE Moved(h)
  BY <1>0, <1>3, AnswerMoves
<1> QED
  BY <1>1, <1>2, <1>3 DEF ProvNext, Console, ImageChange, provVars

-----------------------------------------------------------------------------
(* The hosts keep the order.                                               *)

\* The report of the end was answered: the host has left the job.
LEMMA EndLeaves ==
  ASSUME Orderly, SerialHosts, [ProvNext]_provVars, NEW s \in Slots, CompleteUpdate(s),
         NEW h \in Hosts, host[h].slot = s
  PROVE  host'[h].pc \notin AtWork \cup {"complete"}
<1>0. /\ Serially /\ "lost" \notin Faults /\ TypeOK /\ OneCaller /\ host[h] \in Host
      /\ host \in [Hosts -> Host] /\ HostOK(h) /\ req[s].pc = "CompleteUpdate"
  BY DEF Orderly, Steadily, SerialHosts, Steady, Inv, HostInv, HostsInv, CompleteUpdate, At
<1>1. req'[s] = Idle
  BY <1>0, SlotChanges DEF CompleteUpdate
<1>2. HandlerStep(s)
  <2>1. HandlerStep(s) \/ UNCHANGED vars
    BY <1>0, OnlyHandler
  <2>2. ~UNCHANGED vars
    BY <1>0, <1>1 DEF vars, Idle
  <2> QED
    BY <2>1, <2>2
<1>3. host[h].pc = "complete"
  BY <1>0 DEF HostOK, Serving, Registering, Polling, Completing
<1>4. Answered(s)
  BY <1>0 DEF Answered
<1>5. PICK g \in Hosts : host[g].slot = s /\ host' = [host EXCEPT ![g] = AfterReply(host[g], s)]
  BY <1>0, <1>1, <1>2, <1>4 DEF HandlerStep, Deliver
<1>6. g = h
  BY <1>0, <1>5, NoneIsNoSlot DEF OneCaller
<1>7. PICK pc \in {"refresh", "done"} : host'[h] = [host[h] EXCEPT !.slot = "none", !.pc = pc]
  BY <1>0, <1>3, <1>5, <1>6 DEF AfterReply
<1>8. host'[h].pc = pc
  BY <1>0, <1>7 DEF Host
<1> QED
  BY <1>8 DEF AtWork

\* The job of a host that works is still to be done.
LEMMA OpenStays ==
  ASSUME Orderly, SerialHosts, Onward, OrderInv, [ProvNext]_provVars, NEW h \in Hosts,
         host'[h].pc \in AtWork \cup {"complete"}, NEW j, j = host'[h].jid, GetJob(j)'
  PROVE  Active(j)'
<1>0. /\ Inv /\ SerialInv /\ HostsInv /\ HostOK(h) /\ OrderOK(h)
      /\ \A s \in Slots : KeptOK(s)
  BY DEF SerialHosts, Steady, HostsInv, OrderInv
<1>1. Continues(h) \/ Takes(h)
  BY HostMoves DEF Moved
<1>2. CASE Takes(h)
  BY <1>2 DEF Takes, Active
<1>3. CASE Continues(h)
  <2>1. host[h].pc \in AtWork \cup {"complete"} /\ host[h].jid = j
    BY <1>3 DEF Continues
  <2>2. Own(j, h) /\ (GetJob(j) => Active(j))
    BY <1>0, <2>1 DEF HostOK, OrderOK
  <2>3. j \in 1 .. lastJob
    BY <2>2 DEF Own
  <2>4. ASSUME NEW s \in Slots, CompleteUpdate(s), req[s].jid = j PROVE FALSE
    <3>1. req[s].pc = "CompleteUpdate"
      BY <2>4 DEF CompleteUpdate, At
    <3>2. GetJob(j) /\ req[s].job.mid = jobs[j].mid
      BY <1>0, <2>4, <3>1, FrameKnown DEF FreshJob, JobHolders, JobWriters, KeptOK, Completing,
             Active, GetJob, NoJob, ActiveStatuses
    <3>3. PICK g \in Hosts : FinishOK(s, g)
      BY <1>0, <3>1 DEF HostsInv, Completing
    <3>4. g = h
      BY <2>2, <3>2, <3>3 DEF FinishOK, Own
    <3>5. host[h].slot = s
      BY <2>1, <3>3, <3>4 DEF FinishOK
    <3> QED
      BY <2>4, <3>5, EndLeaves
  <2> QED
    BY <1>0, <2>2, <2>3, <2>4, StillActive
<1> QED
  BY <1>1, <1>2, <1>3

\* An installation came to its end on the disk that a machine would boot, and nobody
\* writes it.
LEMMA BootableStays ==
  ASSUME Orderly, SerialHosts, Onward, OrderInv, [ProvNext]_provVars, NEW h \in Hosts,
         NEW m \in MachineByMAC(h)', Provisioned(m)'
  PROVE  /\ disk'[h].content \in Leaves
         /\ host'[h].pc \in AtWork => host'[h].type # "install"
<1>0. /\ Inv /\ SerialInv /\ TablesInv /\ HostsInv /\ OrderOK(h) /\ Moved(h) /\ OneOfMAC /\ NoWait
      /\ MachinesLast /\ Serially /\ [Next]_vars
  BY HostMoves DEF SerialHosts, Steady, HostsInv, OrderInv, Onward, Lasting, Orderly, Steadily
<1>1. m \in MachineIds /\ GetMachine(m)' /\ machines'[m].mac = h
  BY DEF MachineByMAC, Provisioned, GetMachine, NoMachine
<1>2. CASE Provisioned(m)
  <2>1. GetMachine(m) /\ machines[m].mac = h
    BY <1>0, <1>1, <1>2 DEF TablesInv, MachinesLast, Provisioned, GetMachine, NoMachine
  <2>2. m \in MachineByMAC(h)
    BY <1>1, <2>1 DEF MachineByMAC
  <2>3. disk[h].content \in Leaves /\ (host[h].pc \in AtWork => host[h].type # "install")
    BY <1>0, <1>2, <2>2 DEF OrderOK
  <2>4. disk'[h].content \in Leaves
    BY <1>0, <2>3 DEF Moved, AtWork
  <2>5. ~Takes(h)
    <3> SUFFICES ASSUME Takes(h) PROVE FALSE
      OBVIOUS
    <3>1. PICK j \in JobIds : GetJob(j) /\ Active(j) /\ machines[jobs[j].mid].mac = h
      BY DEF Takes
    <3>2. GetMachine(jobs[j].mid)
      BY <1>0, <3>1 DEF SerialInv, JobsHaveMachine
    <3>3. PICK n \in MachineIds : n = jobs[j].mid
      BY <3>2 DEF GetMachine
    <3>4. n = m
      BY <1>0, <1>1, <2>1, <3>1, <3>2, <3>3 DEF OneOfMAC
    <3>5. HasActiveJob(m)
      BY <3>1, <3>3, <3>4 DEF HasActiveJob, JobsOf, Active
    <3>6. \E s \in Slots : req[s].pc \in Midway
      BY <1>0, <1>1, <1>2, <3>5 DEF NoWait
    <3> QED
      BY <3>6 DEF Takes
  <2> QED
    BY <1>0, <2>3, <2>4, <2>5 DEF Moved, Continues
<1>3. CASE ~Provisioned(m)
  <2>1. PICK s \in Slots : /\ req[s].pc = "CompleteStatus" /\ req[s].job.mid = m
                           /\ req[s].job.status = "succeeded" /\ req[s].job.type = "install"
    BY <1>0, <1>1, <1>3, NewProvisioned DEF OrderInv
  <2>2. PICK g \in Hosts : FinishOK(s, g)
    BY <1>0, <2>1 DEF HostsInv, Completing
  <2>3. machines[m].mac = g
    BY <2>1, <2>2 DEF FinishOK
  <2>4. GetMachine(m)
    BY <1>0, <2>1, FrameKnown DEF FreshJob, JobHolders, JobWriters, SerialInv, JobsHaveMachine
  <2>5. g = h
    BY <1>0, <1>1, <2>3, <2>4 DEF TablesInv, MachinesLast
  <2>6. disk[h].content \in Leaves /\ (host[h].pc \in AtWork \cup {"complete"} => host[h].pc = "complete")
    BY <2>1, <2>2, <2>5 DEF FinishOK, Installed
  <2>7. disk'[h].content \in Leaves
    BY <1>0, <2>6 DEF Moved, AtWork
  <2>8. ~Takes(h)
    BY <1>3 DEF Takes, Provisioned
  <2> QED
    BY <1>0, <2>6, <2>7, <2>8 DEF Moved, Continues, AtWork
<1> QED
  BY <1>2, <1>3

\* A host that runs its own system is at rest.
LEMMA LocalStays ==
  ASSUME Orderly, SerialHosts, OrderInv, [ProvNext]_provVars, NEW h \in Hosts, host'[h].os = "local"
  PROVE  host'[h].pc = "off" /\ disk'[h].content \in Leaves
<1>0. OrderOK(h) /\ Moved(h)
  BY HostMoves DEF OrderInv
<1>1. CASE host'[h] = host[h]
  BY <1>0, <1>1 DEF OrderOK, Moved
<1>2. CASE BootsDisk(h)
  <2>1. MachineByMAC(h) # {} /\ ScriptFor(CHOOSE m \in MachineByMAC(h) : TRUE) = "local"
    BY <1>2 DEF BootsDisk, Script
  <2>2. PICK m \in MachineByMAC(h) : ScriptFor(m) = "local"
    BY <2>1
  <2>3. Provisioned(m)
    BY <2>2 DEF ScriptFor, Provisioned
  <2> QED
    BY <1>0, <1>2, <2>3 DEF OrderOK, BootsDisk
<1> QED
  BY <1>0, <1>1, <1>2 DEF OrderOK, Moved

LEMMA OrderStep == Orderly /\ SerialHosts /\ OrderInv /\ [ProvNext]_provVars => OrderInv'
<1> SUFFICES ASSUME Orderly, SerialHosts, OrderInv, [ProvNext]_provVars PROVE OrderInv'
  OBVIOUS
<1>0. /\ Serially /\ Onward /\ OneOfMAC /\ OneActive /\ NoWait
      /\ \A s \in Slots : KeptOK(s)
  BY SerialHostsStep DEF Orderly, Steadily, OrderInv
<1>1. OneOfMAC' /\ OneActive' /\ NoWait'
  BY <1>0, OneOfMACStays, OneActiveStays, NoWaitStays
<1>2. ASSUME NEW s \in Slots PROVE KeptOK(s)'
  BY KeptStays
<1>3. ASSUME NEW h \in Hosts PROVE OrderOK(h)'
  <2>1. PICK j : j = host'[h].jid
    OBVIOUS
  <2>2. host'[h].pc \in AtWork \cup {"complete"} => ~GetJob(j)' \/ Active(j)'
    BY <1>0, <2>1, OpenStays
  <2>3. host'[h].pc \in AtWork \cup {"complete"} => (~GetJob(host[h].jid) \/ Active(host[h].jid))'
    BY <2>1, <2>2 DEF GetJob, Active
  <2>4. \A m \in MachineByMAC(h)' : Provisioned(m)' =>
          /\ disk'[h].content \in Leaves
          /\ host'[h].pc \in AtWork => host'[h].type # "install"
    BY <1>0, BootableStays
  <2>5. host'[h].os = "local" => host'[h].pc = "off" /\ disk'[h].content \in Leaves
    BY LocalStays
  <2> QED
    BY <2>3, <2>4, <2>5 DEF OrderOK
<1> QED
  BY <1>1, <1>2, <1>3 DEF OrderInv

LEMMA OrderInit == ProvInit => OrderInv
<1> SUFFICES ASSUME ProvInit PROVE OrderInv
  OBVIOUS
<1>1. \A m \in MachineIds : ~GetMachine(m) /\ ~Provisioned(m)
  BY DEF ProvInit, Init, StoreInit, GetMachine, Provisioned, NoMachine
<1>2. \A j \in JobIds : ~Active(j)
  BY DEF ProvInit, Init, StoreInit, Active, NoJob, ActiveStatuses
<1>3. OneOfMAC /\ OneActive /\ NoWait
  BY <1>1, <1>2 DEF OneOfMAC, OneActive, NoWait
<1>4. \A s \in Slots : KeptOK(s)
  BY DEF ProvInit, Init, KeptOK, Idle, Stopping, ReleasePcs, Completing
<1>5. ASSUME NEW h \in Hosts PROVE OrderOK(h)
  <2>1. host[h].pc = "off" /\ host[h].os = "down"
    BY DEF ProvInit, Down
  <2>2. \A m \in MachineByMAC(h) : ~Provisioned(m)
    BY <1>1 DEF MachineByMAC
  <2> QED
    BY <2>1, <2>2 DEF OrderOK, AtWork
<1> QED
  BY <1>3, <1>4, <1>5 DEF OrderInv

\* Where requests are served one after another, the operator gives a machine a job only
\* when it has none and lets it end, saves no edit form, and answers arrive, a machine that
\* boots its own disk finds there what an installation left that came to its end, never a
\* broken-off one: whatever fails, and whenever power is cut.
THEOREM DiskBootAlwaysWhole ==
  ASSUME Orderly
  PROVE  ProvSpec => []DiskBootIsWhole
<1>1. Steadily
  BY DEF Orderly
<1>2. ProvSpec => []SerialHosts
  BY <1>1, SerialHostsInvariance
<1>3. SerialHosts /\ OrderInv /\ [ProvNext]_provVars => OrderInv'
  BY OrderStep
<1>4. OrderInv => DiskBootIsWhole
  BY DEF OrderInv, OrderOK, DiskBootIsWhole
<1> QED
  BY <1>2, <1>3, <1>4, OrderInit, PTL DEF ProvSpec
=============================================================================
