# Rack-auto: specifications, model checking and proofs

Rack-auto is a bare-metal provisioner. A control plane (one Go process with a
SQLite file) answers the network boot of servers, keeps the tables of machines,
images and jobs, and hands jobs to an agent that runs in a RAM-only Linux
(RAMOS), or to a WinPE script for Windows. This directory holds TLA+ models of
it, the TLC runs that check them, and proofs checked by TLAPS.

Every definition is a translation of Go code under `src/`; `PROJECT.json`
("map") says which lines each definition stands for.

## 1. The system

| component | code | state it keeps | operations |
|---|---|---|---|
| Store | `internal/store/store.go` | SQLite tables machines, images, jobs, events, settings, templates; one mutex around every method | one method per query: `UpsertMachine`, `SetMachineStatus`, `InsertJob`, `UpdateJob`, `NextPendingJob`, `DeleteMachine`, ... |
| HTTP handlers | `internal/server/server.go` | none of their own: local copies of rows while a request runs | machines (create, edit, delete, detect, boot), jobs (create, cancel, delete), agent calls (register, poll, log, progress, complete) |
| Network boot | `internal/netboot/netboot.go`, `internal/server/windows.go` | none: reads the tables | `ScriptForBase` (what the firmware of a MAC boots), `WindowsInstall`, serving `install.cmd`, `unattend.xml`, `boot.wim` |
| DHCP service | `internal/netboot/dhcp.go`, `internal/config/dhcp.go` | configuration, the running server, the lease pool; the saved setting | `ApplyDHCP`, `StopDHCP`, `StartDHCP`, `CloseDHCP`, a server loop, `Assign` |
| Image upload | `internal/server/upload.go` | a meta file and a part file per upload | init, get, put chunk, complete, abort, clean-up of stale uploads |
| Image catalogue | `server.go`, `windows.go`, `internal/winpefix` | image rows, files under `images/`, a directory per Windows image with `boot.wim` and a marker | create, upload in one request, list, inspect, extract and borrow `boot.wim`, patch it, serve it, delete |
| Windows medium inspection | `internal/imageinspect` | none: one reading of one file | `File`, `FindWIMExtents`, `inspectWindowsISO` |
| Agent | `internal/agent` | none: a loop | register, poll, install or stress, report |
| WinPE script | `internal/provision/windows.go` | none | progress, log, complete, by `curl` |
| Growing the root | `internal/diskgrow`, `internal/agent/grow.go` | the partition table of the target disk | `PlanGrow`, `RewriteSfdiskDump`, `growDisk` |
| Installing a disk | `internal/provision/disk.go`, `internal/agent/install.go`, `efi.go` | the partitions of the target disk, mounts below `/mnt/target`, the files of the ESP | `Validate`, `SGDiskScript`, `FormatCommands`, `Fstab`, `injectConfig`, `findRootPartition`, `installBootloader`, `ensureUEFIBoot` |
| Accounts | `internal/server/auth.go` | two settings, the session table, failed sign-ins per address | `ensureWebAccount`, `login`, `logout`, `putAccount`, `sessionUser` |
| Bootstrap | `internal/bootstrap` | cached boot media on disk | `rackauto bootstrap`: resolve, download, compare, extract, pack, build agents |
| BMC drivers | `internal/bmc` | none | Redfish and IPMI calls |
| Web console | `src/web/app.js` | the lists a page has loaded | the forms that send rows back |

How they interact. Handlers, the boot decision and the DHCP server run in one
process, a goroutine per request, and share only the store (and, for DHCP, a
mutex of its own). The agent and WinPE talk HTTP to the handlers. The web console reads lists and
later sends back what it read. Nothing is transactional across two store
calls: a handler reads a row, works on its copy, and writes the copy back whole.

What is hard about it:

- **Stale copies.** `agentJob`, `agentProgress`, `agentComplete`, `cancelJob`,
  `updateMachine`, `detectMachine` and `agentRegister` all write a row read
  earlier; every one of them can undo what another request wrote.
- **Two tables, several calls.** A job and the machine it occupies are written
  one after the other; a second request, an error or a crash falls in between.
- **Who is allowed to boot what.** The boot decision reads machine, jobs and
  images, each of which changes under it.
- **Late and repeated reports.** A job id is all a client needs to report; reports
  on cancelled, finished or deleted jobs arrive.
- **Files without locks.** Requests extract, rename, patch and delete the same `boot.wim`; a
  marker file, believed by its date, says whether the patching is done.
- **A cache that trusts sizes and dates.** `rackauto bootstrap` is killed and run again; the next
  run decides what to keep by what it finds.
- **Settings one by one.** The account is two settings, read and written in separate calls
  around a password check that takes long.

## 2. Properties each part owes

- Store and handlers: a job row is whole (status, start and finish agree); a
  job's life follows the allowed edges and a deleted job stays deleted; a busy
  machine has a job; a job has a machine; a job that is over is not active again.
- Boot decision: a machine boots its own disk only after an installation on it
  was reported; a Windows job boots WinPE.
- DHCP: one address belongs to one MAC, in the pool; the running flag tells the
  truth; the server that runs serves the configuration that was applied.
- Upload: no byte is missing from a completed image; progress never exceeds
  what is on disk; an upload that ended is gone.
- Growing the root: no partition shrinks, moves without its data, or overlaps another.
- Installing: the booted system finds what was configured, and the firmware a loader.
- Inspection: which WIMs are found does not depend on where chunks end.
- Catalogue: a deleted image leaves nothing; a `boot.wim` the console calls ready is whole and patched.
- Bootstrap: what a run ends with is one release's, and whole.
- Accounts: a session does not outlive its password; passwords cannot be tried without bound.
- Agent: a job that is claimed is reported on; a pending Linux job is eventually
  run while its machine polls.

## 3. Modules

| module | models | lies on |
|---|---|---|
| `Store` | the tables machines, jobs, images and one operator per `store.go` method | |
| `JobLifecycle` | abstract: what the job table promises whoever watches it | |
| `JobControl` | the HTTP handlers that move machines and jobs, `ScriptForBase`, `WindowsInstall` | `Store`; implements `JobLifecycle` |
| `Provisioning` | firmware, agent, WinPE script and disks of the servers, composed with the handlers | `JobControl`; implements `JobControl!Spec` |
| `DiskGrow` | `PlanGrow`, `RewriteSfdiskDump`, `growDisk` | |
| `ImageUpload` | the chunked upload: console and handlers, one step per file operation | |
| `DHCPService` | `ApplyDHCP`, `StopDHCP`, `StartDHCP`, `serveDHCP`, the lease pool | |
| `Accounts` | the console's account, its sessions, the delay after failed sign-ins | |
| `OSInstall` | partitions, file systems, mounts, fstab, configuration and loader of an installation | |
| `MediaInspect` | the search for WIMs on a medium | |
| `BootMedia` | `rackauto bootstrap`, over several runs that are killed | |
| `ImageCatalogue` | rows, files and `boot.wim` of the images, with concurrent requests | |
| `DiskProofs` | the theorems about `DiskGrow` and `OSInstall` | TLAPS |
| `MediaProofs` | the theorems about `BootMedia` and `MediaInspect` | TLAPS |
| other `*Proofs` | the theorems about the module they are named after | TLAPS |
| `MCDisks`, `MCConsole` | several parts that share no state, in one run (section 4) | the modules of those parts |
| other `MC*` | the values of constants that a `.cfg` cannot write | |

An operator marked *Faulty* is a bug the code could have had. No specification
uses it; put in place of the operator it precedes, it must make a property fail
(`PROJECT.json`, "mutants"). There is one for every property of a passing run.

### Store, JobControl

State: `machines`, `jobs`, `images` are the tables; a missing row is `NoMachine`,
`NoJob` or `"absent"`. `req[s]` is the handler that runs in slot `s`, with its
program counter and its local copies of rows. `form[t]` is an edit form that is open
in the web console, with the status its machine had when the page was loaded. `issued`,
`installed` and `stale` are histories: the job ids clients were given, the machines a client
reported a success for, the machines whose status was last set by a form that was out of date.

A `Store` method holds the one mutex from its first line to its last, so it is one
step. A handler is a sequence of such steps; with two slots the steps of two
handlers interleave, with one they do not. A form occupies no slot: loading the page
(`EditLoad`) and saving the form (`EditPut`, `EditUpsert`) are two requests, with any others in
between. `"crash"` empties every slot between two Store calls and leaves the tables. With
`"storeError"` a Store call fails (`StoreFails`); `AfterFailure` says where a handler goes that
drops the error, the others end.

| code | actions |
|---|---|
| `createMachine`, `updateMachine`, `deleteMachine`, `detectMachine`, `setBoot`, `pxeInstall` | `ConsoleMachine`, `ConsoleMachineStep` |
| `createInstall`, `createStress`, `cancelJob`, `deleteJob`, `releaseMachineIfIdle` | `ConsoleJob`, `ConsoleJobStep` |
| `agentRegister`, `agentJob`, `agentProgress`, `agentComplete` | `AgentCall`, `AgentStep` |
| `ScriptForBase`, `WindowsInstall` | the operators `ScriptFor`, `WindowsInstall` |

What is abstracted: ids count up, so their order is the order of creation;
columns nothing decides on (names, logs, progress, parameters, inventory) are
left out, events too; reads of a handler between which nothing it depends on is
written are one step; of an edit form the status counts, the boot mode is chosen in it, and the
MAC address is the row's unless `"readdress"` is among the requests; an image row may appear, change
kind and vanish at any time, which covers every handler of the catalogue. A machine that is deleted does not get its id
back.

### Provisioning

`host[h]` is what runs on the server with MAC `h`: which system was booted, where its
program stands, which handler's answer it waits for. `disk[h]` is what is on its
disk. `Boot` takes what `ScriptFor` answers for it. `Alone` is what a program does
between calls, `Calls` a call it makes, `Ends` the end of its work, `RebootFires`
the goroutine of `RunInstall` that reboots after three seconds. The agent's
`Run` loop, `RunInstall`, `RunStress` and `install.cmd` are followed call by call;
what they do to the disk is one of *blank*, *partial*, *flawed*, *whole*. *Flawed* is what an
installation leaves that came to its end and was reported as a success although a step failed whose
failure nobody looks at (`Leaves`): `bcdboot`, the boot loader, the mount of root.

`Faults` is what may go wrong: `"restart"` (a server whose agent is idle is restarted),
`"power"` (it loses power, in the middle of work too), `"lost"` (a call or its answer
is lost), `"slow"` (a report takes longer than the three seconds before the
reboot), `"unnoticed"` (such a step fails). A power cut lasts longer than the handler it interrupts: with one slot
the server does not come back while its last request is still being served.
`OneAtATime` is the operator who gives a machine its next job when it has none.

### DiskGrow

A disk is a table of partitions with their start, size and type, and `place`, where
each partition's content lies, if it still is anywhere. `kernel` is the table the kernel goes by: the
new one only if `partprobe` had it read, whose failure the code ignores; writes to a partition go
where the kernel has it. `Plan`, `Backup`, `Apply`, `Restore`
and `Resize` are the commands of `growDisk`; each may fail, and the handler then goes
where the code goes. `sfdisk` is external: it refuses a table with overlaps or one
that does not fit. A sector is one unit, `Align` stands for 1 MiB, `GPTTail`
for the backup GPT.

### ImageUpload

`meta`, `tmp` and `part` are the files of an upload; `call[s]` is a request being
served, `tab[c]` the loop of the console, `stored[c]` the id in the browser's session
storage. `uploadMu` is `lock`; GET, init and the clean-up inside it do not take it.
A dropped connection leaves its handler running, as in Go. Writing the small
temporary file is one step; the names of two completed files differ, which is
what a time in seconds does unless they complete within one.

### DHCPService

`saved` is the setting, `cfg`, `srv`, `on` are the fields `dhcpMu` protects, and
`servers[i]` is a server with its socket and its goroutine. Applying is two steps, as in the
code: save, then (under the mutex) close, and start (`Enforce`). `Start` may find no
address of its own, or no socket to bind; a router it replaces is saved, or silently is not (`SaveRouted`). Addresses are numbers; `0` is
`0.0.0.0`, and `Top` is `255.255.255.255`. `alone` is a history that `SavedIsApplied` reads: no two requests
overlapped, and no save failed whose error is dropped.

### Accounts

`account` is the two settings, `sess` and `guard` what `sessMu` and `loginMu` protect, `conn[c]`
a request in flight with what it has read. Every `Setting` or `SetSetting`
call and every critical section is a step; the password check lies between `LoginHash` and
`LoginNote`. Passwords are numbered as they are chosen. `late` (of a session) and `torn`
are histories for `SessionsFollow`. `Restart` empties what is in memory.

### OSInstall

`disk` is the partitions with type, file system and the files of the ESP; `want` the list. `Check` to
`WriteRoot` are an installation from a root file system, `WriteDisk` and `FindRoot`
one from a disk image; `MountRoot` to `Seed` are `injectConfig`, `Loader` and `EnsureUEFI` the
loader. A path is a sequence of names, so that "below" is a prefix; `Resolve` says which
partition a path is on under the mounts made so far, `AtBoot` on the booted system, which starts on the root
partition and mounts its fstab, parents first. `MountRest` is one turn of the loop over the list. Any mount may fail, and so may
`sgdisk`'s marking of the ESP; the code goes on, and the history `ignored` notes it. Configuration is the
three directories it goes to. `Text` is what names are made of. How a disk image is grown is `DiskGrow`.

### MediaInspect

A medium is its length and the places of the WIM magic on it, with what follows each. `off` and `start` are
the places of the two loops of `FindWIMExtents`: `FindHit` is a turn of the inner one, which finds the next magic in
the chunk, `NextChunk` a turn of the outer one; `TakeHit` is the decision on one place, `Judge` the choice of
WinPE and installation WIM.

### BootMedia

A file is described by the releases its bytes are of and its length (`Blob`), dates by `newer`, which of
two files the ISO is newer than. `run` is the process; `Kill` ends it between any two file
operations, `Break` loses a connection, `Hand` is the operator who puts an ISO in place, takes it
away, or configures another. `doubt` and `how` are histories for the properties. Sites are external: they
list and hold releases.

### ImageCatalogue

`row`, `file`, `boot`, `spare` (`boot.wim.tmp`) and `mark` are what there is of an image;
`work[w]` is a request, one step per file operation or Store call. `listImages` inspects
all images that were never inspected, one after the other. A file that is being written follows its name when
another request renames it (`Renamed`). The marker is *fresh* or *stale* by its date against
`boot.wim`. `fate` and `older` are histories and dates. All images are Windows images: of others there is only a
row and a file. wimlib is external: it patches an index in place, and takes only a whole file.

## 4. Runs

Two kinds: a *pass* run finishes without an error; a *violation* run states
something a document of the repository says and shows a behaviour of the code that breaks it.

| run | question | answer |
|---|---|---|
| `serial` | do requests served one after another keep machines and jobs consistent? | yes: a busy machine has a job unless an outdated edit form made it busy, a job has a machine, a job that is over is never active again, and the machine is ready for its disk before the job says so |
| `racing` | what is left with two requests at the same time, failing Store calls, and crashes? | rows are whole, no resurrection and no way back to pending, no boot from a disk nothing was installed on |
| `stuck` | does the busy machine's job survive races? | no: a delete inside `createInstall` leaves the machine *installing* for good |
| `winpe` | does a Windows job always get WinPE? | no: a job queued behind another is shut out when that one succeeds |
| `agent` | is every job run, and does it end? | yes, without faults and with Linux images |
| `reboot` | does a server come back from its own disk, with whole contents? | yes, one job at a time, restarts while the agent is idle |
| `faults` | what do power cuts, lost calls, slow reports and unnoticed failures leave true? | a success is that of the job's own installation, come to its end; no outcome changes once reported; nobody works on an ended job; and the real clients use the handlers as `JobControl` says |
| `queued` | does `reboot` hold with a second job queued? | no: the reboot of the first hits the second |
| `answers` | does WinPE get the answers of its own job? | no: a job queued meanwhile wins |
| `disks` | growing: is anything lost? installing: does the system find its configuration, the firmware its loader? inspecting: is the medium read alike wherever chunks end? bootstrap: is what machines boot whole and of one release? catalogue: does a deletion leave anything, is a ready `boot.wim` patched? | nothing is lost whatever command fails but an ESP the kernel misplaces, and root fills the disk; the others hold with the exceptions their properties name (section 6) |
| `upload` | is an uploaded image whole, and does an upload end? | yes, with a lost connection, a restart and a second user |
| `console` | DHCP: one listener, what was saved, reachable router, own address? accounts: does a session outlive its password, how many passwords can be tried? | DHCP: yes, with two admins, failures and restarts; accounts: only a sign-in or a change that overlaps, or a change that fails half-way, leaves a session; attempts stay below limit plus requests in flight |

`disks` and `console` are sums: their parts share no variable and no code path, so a
behaviour of the system is, seen from one part, a behaviour of that part. The variable `focus` is chosen
once and names the part that moves; the others rest in one of their initial states. Every
invariant of a part is thus checked on exactly the reachable states of that part, without the product of
all of them.

### Bounds

- `MaxJobs` 2 (1 in `racing` and `stuck`): every hazard of the list is about one job
  and the next of the same machine; ids never come back, so a third job adds no
  new relation. `ListLimit` is the code's 40, never reached.
- One open form (`Tabs`): two forms of one machine differ in nothing but their age. Forms are in
  `serial`, whose two MAC addresses let a form change one; in `racing` they would add a slot's worth
  of states, and the theorems of section 5 cover them there.
- Otherwise one MAC and one or two machine ids: handlers of different machines share no row.
  Two ids are needed where a machine is deleted and registers again (`agent`).
- Two slots in `racing`: a lost update needs one reader and one writer. `Inv` with its `TypeOK`,
  `JobRowsWhole`, `LocalBootNeedsInstall` and `RacingLifecycle` are proved for any number.
- One slot in `serial`, without crashes and failing Store calls: the hypothesis `Serially`, under which its four
  properties are proved for any number of machines, addresses, images and jobs.
- `disks`, growing: every table of up to three partitions on an image of six
  sectors, with alignment 2, on disks from too small to more than twice as large:
  aligned and not, an ESP anywhere, a partition between root and ESP. All
  five properties are proved for all tables and sizes.
- `disks`, installing: twelve lists on a disk of ten units: default, with swap or a BIOS partition
  before root, mounts in and out of order, nested, two that take the rest, a file system the code does not know,
  no root, two roots, a root called swap; disk images with every subset of six files on the ESP.
- `disks`, inspecting: up to three magics at every place of a medium of thirteen bytes in chunks
  of five with a magic of three: each may cross an end, lie inside another's WIM, or be no WIM at all.
- `disks`, bootstrap: two releases of different length, so that one file can be the start of another's; the
  mirror has only the older; three runs, one kill, one lost connection, one change
  by hand: a mixture needs a run that is cut off, a cause to rebuild, and a run that trusts.
- `disks`, catalogue: one image with a `boot.wim` and one that borrows it and is uploaded while
  the server runs; two requests at a time, four in all, one failure, one stop. `boot.wim` has an index
  with a hive that must be there, one that may be passed over, one without. The two
  workers are interchangeable (`SYMMETRY`): no definition names one.
- `upload`: three bytes in chunks of two is one full and one short chunk; three ids
  are two attempts and an intruder's; one lost connection, one restart and one
  request of somebody else, at every point. (With two lost connections the run
  also passes; it takes two minutes.)
- `console`, accounts: two requests at a time from one address (addresses share no
  counter), a limit of two failures, one change of password (a second would need a third
  kind of session, older than old), two sessions, one restart, failing writes. Requests are interchangeable.
- `console`, DHCP: three slots are a server and two goroutines on their way out; a pool of three and
  one of one address for two clients, so that it fills; a pool of the highest
  address alone, where the search for a free one wraps; a router off the link; no subnet at all; a YAML file that nobody validated.

### Fairness

- `agent` and `reboot` (`Fairness` in `Provisioning`): handlers run to their end,
  as goroutines do; a server is powered on, its programs go on, and the
  agent's loop polls for ever. `SF` on `Calls` and `Ends`: with one slot the control
  plane is free again and again rather than always, and the agent repeats a call that
  failed, so one of them gets through. Nothing is assumed about what the console sends.
- `upload` (`UploadFair`): `SF` on the browser and on each request: a mutex whose
  holder always goes on is handed over in turn (Go's `sync.Mutex` bars
  starvation), and chunks arrive. `MaxDrops`, `MaxCrashes` and `MaxOthers` bound the
  disturbances, as any argument for an end must. `UploadEnds` leaves out one case that the model
  finds: a GET without the lock writes metadata back after the clean-up took
  the data, and the console then asks for that upload for ever.

The other parts have no liveness property: a request, a run of bootstrap or an installation is a loop-free
sequence of steps that may fail, and nothing in the code retries it.

## 5. Proofs

Constants are arbitrary in all of them; the assumptions are the named `ASSUME`s of the modules,
which TLC evaluates on every run.

- **`JobControlProofs`**: for any number of concurrent handlers, machines and jobs.
  The inductive invariant is `Inv`, itself checked by `racing`: the tables have
  their types; rows are whole and belong to an id that was handed out
  (`JobTableInv`); a copy that will be written back is whole, not pending, and
  of an id handed out (`JobCopyInv`); *provisioned* in a table, in a copy or in an open form goes back to a reported success
  (`ProvisionedInv`, `FormInv`). The copies are the point: an invariant of the tables alone
  does not survive the step that writes an old copy. From it follow
  `TypeCorrect`, `RowsAlwaysWhole`, `LocalBootIsEarned` and
  `LifecycleImplemented` (every step is a step or a stutter of `JobLifecycle`).
  Where requests are served one after another, no Store call fails and the server is not killed between two
  of them (`Serially`), `SerialInv` holds too: the copy a handler took of a row differs from the row only
  as the request means to change it (`FreshMachine`, `FreshJob`), what its
  calls have done so far is still so (`MidwayOK`), and a busy machine that no outdated form made so has a job or a
  handler about to release it (`BusyInv`). Two of the four theorems are invariants, two say what a step may
  not do: `BusyMachinesHaveJobs`, `JobsAlwaysHaveMachine`, `SuccessComesLast` and
  `SerialLifecycleImplemented`, the stricter lifecycle in which a job that is over is never pending or running
  again and one whose outcome was reported is never shown as cancelled. It is not that a final status is final:
  `agentComplete` believes every report, so a cancelled job may still end and a second report replaces the first. The hypothesis
  is needed: `stuck` shows the first of them broken by two slots.
- **`ProvisioningProofs`**: `HandlersImplemented`, `ProvSpec => Spec`, with every
  fault; so the theorems above hold of the composition (`ProvisioningInherits`).
  `HostInv` is the types of hosts and disks, and that a host whose slot is taken
  stands at one of its calls: so no handler's end meets a program that is elsewhere.
  Under `Serially`, and if no form gives a machine another MAC address (`Steadily`), hosts and tables
  agree (`SerialHosts`). `TablesInv`: a machine keeps its address and a
  job its machine and type as long as they exist. `HostsInv`: whom a host's handler serves (`Serving`); that
  the job in hand is the host's own (`Own`), of the type it takes it for (`Typed`) and not over (`Undone`); and that a host which
  is about to report success has the job's own system on its disk, come to its end (`Installed`). `FinishOK` says the same of a report that is
  being served, whoever sent it: with power cut meanwhile, the host has nothing in hand and its disk is as the report says.
  `WorkAlwaysKnown` and `SuccessAlwaysLeavesSystem` follow, with power cuts, restarts, lost calls and slow answers.
  `DiskBootAlwaysWhole` needs more of its users (`Orderly`): a job only for a machine that has none, no cancelling
  or deleting of jobs, no edit forms, and no lost answers. Then (`OrderInv`) a machine has one active job at most, a provisioned one has
  an active job only while one handler is under way (`NoWait`), and whoever works does so on an active job. `Moved` is what any
  step may do to a host, and spares the invariant's parts the thirty actions one by one.
  Each hypothesis is needed: `queued` breaks it with a second job; a job cancelled while its host writes the disk can be followed by
  another; an old form can say *provisioned* while a new job writes; and a lost answer is in section 6.
- **`DiskProofs`**: `GrowInvariant` is one fact per stage: the table on disk
  covers the image's; before `apply` the plan fits; after it, all content is in
  place but that of an ESP that is in the backup, or that the kernel misplaced; no other partition is moved
  (`Unmoved`), so for them the kernel's table is as good as the new one. `PlanGrowOK` and `RewrittenApart` are the arithmetic under it.
  `RootAlwaysFillsDisk` adds what the plan was made of (`FillInv`): it is `PlanGrow`'s of the image's table, and after
  `apply` the disk has that table as the plan rewrites it. `FillsAlone`, `FillsMoving` and `FillsUnplanned` are the
  arithmetic: rounding down twice costs less than two alignment units.
  `LoaderAlwaysFound`, for every list, image and disk: until the end the code of every file is what its name says
  (`LoaderInv`), so whatever `installEFIFallback` copies serves this machine (`FallbackServes`); the hypothesis
  `ImagesAreTrue` is that images name their files truly. `ConfigAlwaysSeen` counts lines (`ConfigInv`): after line *n* of the
  list, mounted are the root and what is kept of the first *n* lines, in their order (`MountsOK`, `NextMount`), so at the
  end the mounts are the tree that the booted system makes of its fstab (`MountsAreTree`); in a list that names no place
  after one below it no mount hides an earlier one (`NoneIsHidden`), and then the longest mount above a place is
  the same partition on both sides (`WrittenWhereFound`).
- **`DHCPServiceProofs`**: `Inv` says that only a goroutine still in `serveDHCP` has an open
  socket, that it is `dhcpSrv`'s, and that its configuration was made on-link;
  `ClosedIsShut` is the lemma that carries it: closing `dhcpSrv` closes all there is.
  `AlwaysSavedIsApplied` follows an admin from saving to starting (`SettingInv`): what is saved and not yet in force is
  what that admin holds, and if no other interfered and nothing was left unsaved it will be in force
  (`EnforceSaves`). `AlwaysAddressesOwn` is about
  the pool (`PoolInv`): two clients have one address only when the pool is used up, and what was answered lies in it.
  The proof found what no run had: a pool of a YAML file that ends before it starts is served too,
  and then every answer is its first address. `AddressesOwn` leaves that pool out, and the full pool that ends at the
  highest address, where the search wraps; no other.
- **`ImageUploadProofs`**: for any number of browsers, requests at a time, bytes and restarts. `UploadInv` follows the
  counter `received` through all its copies: none is ahead of the data file (`AheadInv`);
  all that refers to an upload id belongs to one client (`OwnerInv`); only the holder of the mutex is past its
  first line (`LockInv`), which is why the row of a completed upload cannot be written twice (`RowInv`); data
  without metadata has a request still to remove it (`CareInv`). `AlwaysImageWhole` has the hypothesis `NamesDiffer`: two uploads
  of one name within a second share a path, and then it is false. `NoneIsNobody` is its assumption.
- **`AccountsProofs`**: `AlwaysAttemptsBounded` is a counting argument (`TryInv`): a sign-in in flight that
  fails moves one from *in flight* to *counted*, and one that begins finds the counter below the
  limit or resets it. `AlwaysSessionsFollow` needs (`SessInv`) that nobody is
  served before the account exists, and that only a change that brings a password reaches the write.
- **`MediaProofs`**: `AlwaysIsoWhole`: where an ISO came from tells what it is (`OriginOK`),
  and only while it is being compared is it neither. It assumes that a nonempty list of releases has a latest.
  `AlwaysBootSetWhole` has two parts (`SetInv`): which files the later stages may rely on (`StageOK`), and that a file no older
  than the ISO is made of it, together with its companion unless a run ended between the two (`MadeOfIt`).
  `MediumAlwaysRead`, for every medium, length of the magic and size of the chunks: while chunks are read, the hits are exactly the
  magics before the place where the search goes on, in their order (`ChunkInv`; `ChunkDone` is where the overlap is needed); while
  hits are judged, those that were looked at are taken, no WIM, or inside one that was taken, and nothing taken later can
  cover them (`ExtentInv`, `HitTaken`). `MediaAreMedia` is its assumption: places and lengths are numbers, and two magics are not at
  one place.
- **`ImageCatalogueProofs`**: `AlwaysDeleteIsWhole`, for any number of images and requests. `CatInv` says what
  a request may still be once a deletion has begun: whoever had the image at that moment makes it
  *shared*, and of it nothing is promised; whoever comes later (`Harmless`) found no file, so it is not about to copy,
  and after the directory went it writes to no `boot.wim`, because the name it wrote to is gone. Lemma
  `GoesOnKeepsInv` says that once for all requests that are no deletion, and each action only has
  to show that it *leaves* such an image as it is.
  `AlwaysReadyIsPatched` is about requests that patch one image (`PatchInvariant`): a young marker tells the truth
  (`MarkedOK`); what a request has patched stays patched until the marker is written (`FixerOK`); a `boot.wim` without
  one has a request that minds it (`MindedOK`); and whoever writes over or removes a `boot.wim` in place is known to (`KnownOK`).

`SerialInv`, `HostsInv`, `OrderInv` and `PatchInvariant` were checked by TLC before they were proved.

Every invariant, action property and refinement that a passing run checks is the subject of a theorem. Only model-checked are the
four liveness properties (`JobGetsRun`, `JobIsOver`, `ProvisionedBootsDisk`, `UploadEnds`), which are out of the prover's reach,
`OutcomeStays`, and the four violation runs.

## 6. Disagreements

The four violation runs, each with the line it contradicts, are under "findings" in
`PROJECT.json`. In short: `stuck` (a delete between the two Store calls of
`createInstall`), `winpe` and `queued` (success of one job while another waits),
`answers` (downloads rendered for whatever job is pending). All need a second job
or a second request; with `OneAtATime` and one slot the same properties hold.

Beside them the models show behaviours that no document of the repository speaks of; the properties name them as
exceptions, so that whatever else breaks them is found:

- *Handlers* (`BusyMachineHasJob`, `SerialLifecycle`): the edit form sends back the status it was filled with, so one that
  was opened during an installation and saved after it makes the machine *installing* again, without a job, and one opened
  before can hide that it is being installed. A report on a job that was cancelled makes it *succeeded* or *failed*.
- *Accounts* (`SessionsFollow`, `AttemptsBounded`): a sign-in that compared the old password opens its session after a change dropped all
  others; a change whose second setting cannot be written leaves the sessions of the old password;
  concurrent sign-ins try more passwords than the limit.
- *Provisioning* (`DiskBootIsWhole`): when the answer to `install.cmd`'s report of success is lost, it is repeated with another
  tool. If the operator queued the next job for that machine meanwhile, and power is cut while the repeated report is
  served, the machine is booted for its new job and then marked provisioned under it: at the next power cut it boots the disk it was writing.
  (`SuccessLeavesSystem`): a `bcdboot` that failed three times, a boot loader that could not be installed and a root
  that could not be mounted are reported as a success.
- *Growing* (`NothingLost`, `LossIsCovered`): if `partprobe` fails, the kernel keeps the old table; the ESP's backup is then
  written to the old place and removed, `growDisk` reports no error, and the ESP the next boot finds is empty.
- *Installing* (`ConfigIsSeen`): mounts are made in the order of the list, so a place listed
  after one below it hides what was written there; an unknown file system is made as ext4 while fstab keeps its name; that root
  or another place cannot be mounted goes unnoticed, and what was meant for it is written elsewhere. A root
  line whose file system is called swap is accepted, and missing from the fstab; the
  system starts on it all the same. The console's "add partition" appends a partition that takes the
  rest behind a root that took it: sgdisk fails when the disk is already wiped. (`LoaderIsFound`):
  a loader of another architecture counts as present; `sgdisk` may fail to mark the ESP, for one in an MBR
  table, which is dropped; on BIOS a loader that cannot be installed is only logged.
- *Inspection*: every ISO's inspection names a `boot.wim` before it is extracted, so a failed extraction gives no
  warning that it is missing.
- *Catalogue* (`DeleteIsWhole`, `ReadyIsPatched`): an inspection that overlaps a deletion brings the row back, or leaves a
  `boot.wim` without a row; a marker written after another request put a new `boot.wim` in place
  says that it is patched; a `boot.wim` borrowed while it was being patched stays torn, as it is never
  borrowed again; a hive that could not be extracted this time is passed over for good.
- *DHCP* (`AddressesOwn`, `SavedIsApplied`): the YAML file's pool is not validated as the console's is; one that ends before it starts
  is served, and every client is answered its first address. A pool that ends at 255.255.255.255 and is full goes on at 0.0.0.0.
  A stop, or a router that a start replaced, that could not be saved is not reported.
- *Bootstrap* (`IsoWhole`, `BootSetWhole`): a run killed between rename and comparison leaves an ISO nobody compares again;
  one killed between two files of a pair, or an ISO with an old date, mixes releases; a complete download that was not
  yet renamed is answered with status 416 by every later run until it is removed by hand.

## 7. Not modelled

- TFTP (fixed files), BMC drivers (calls to external systems; in `JobControl` they succeed or fail), events,
  templates and logs (rows nothing depends on), generated text: cloud-init, network configuration,
  answer files, iPXE scripts, ISO and initrd formats.
- Of the image catalogue, `createImage`, whose rows have no file; `JobControl` lets image rows come and go. Of
  inspection, the reading of partition tables and file systems of other images, and a WIM's XML.
- Of the installation, boot entries in firmware variables and `mmx64.efi`.
- Text order of `created_at` (fractions without trailing zeros): ids are time. The end of `WindowsInstall`'s list of
  40 jobs. The text of a job's log, and so `UpdateJob` over `AppendJobLog`. Two uploads of
  one name within a second.

## 8. Plan

Done: all modules of section 3 and eight modules of proofs. Next, in this order:

1. An abstract catalogue (an image is there or it is not) that `ImageCatalogue` implements where no
   requests overlap, and `JobControl`'s images as its refinement.
2. A small `ListLimit` that is reached, and job logs, in `JobControl`.
3. Disk images in `OSInstall` composed with `DiskGrow`'s tables.
