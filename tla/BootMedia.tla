------------------------------- MODULE BootMedia -------------------------------
(***************************************************************************)
(* rackauto bootstrap (internal/bootstrap): it fetches the Ubuntu ISO,     *)
(* takes kernel, initrd and squashfs out of it and builds what machines    *)
(* boot from.  Files outlive the process, which may be killed between any  *)
(* two file operations and is run again by hand; a later run trusts what   *)
(* it finds by sizes and dates.  One architecture; a file is described by  *)
(* the ISO it was made from, dates by which of vmlinuz and casper.iso the  *)
(* ISO is newer than.                                                      *)
(***************************************************************************)
EXTENDS Integers, FiniteSets

CONSTANTS
  Releases,   \* Ubuntu releases, as numbers in their order
  Length,     \* release -> length of its ISO; one unit is more than 500 MB
  Sites,      \* servers that ISOs are fetched from
  Official,   \* the one of Canonical
  Holds,      \* site -> the releases it lists and has
  RunBound,   \* bound: how often bootstrap is run
  KillBound,  \* bound: how often it is killed
  BreakBound, \* bound: connections lost
  HandBound   \* bound: what the operator does to the files

ASSUME ReleasesAreNumbers == Releases \subseteq Nat
ASSUME ListsHaveALatest == \A list \in (SUBSET Releases) \ {{}} : \E r \in list : \A q \in list : q <= r
ASSUME SitesHoldReleases == Official \in Sites /\ Holds \in [Sites -> SUBSET Releases]
ASSUME LengthsArePositive == Length \in [Releases -> Nat \ {0}]

\* What an ISO holds: the releases its bytes are of, and its length.
Blob(from, len) == [from |-> from, len |-> len]
Absent == Blob({}, 0)
IsoOf(r) == Blob({r}, Length[r])
Whole(b) == \E r \in Releases : b = IsoOf(r)

VARIABLES
  iso,    \* live-server.iso
  how,    \* for IsoWhole: where it came from, and whether its checksum was compared
  part,   \* live-server.iso.tmp
  newer,  \* which of "vmlinuz" and "casper" the ISO is newer than
  files,  \* vmlinuz, stock (initrd.stock), initrd, casper (casper.iso) and layer
          \* (layerfs-path): the ISO each was made from, or Absent
  agents, \* the architectures whose agent is there
  local,  \* the ISO that ubuntu_iso names, or Absent
  run,    \* the process: where it is, what it fetches from which site, whether that
          \* has a checksum, and the files still to extract
  doubt,  \* for BootSetWhole: what a kill, a tool or a date may have mixed
  used    \* what was used of the bounds

mediaVars == <<iso, how, part, newer, files, agents, local, run, doubt, used>>

Names == {"vmlinuz", "stock", "initrd", "casper", "layer"}
Halt(at) == [at |-> at, rel |-> 0, site |-> Official, sum |-> FALSE, todo |-> {}]

MediaInit ==
  /\ iso = Absent /\ how = "none" /\ part = Absent /\ newer = {}
  /\ files = [n \in Names |-> Absent]
  /\ agents \in SUBSET {"x86_64", "aarch64"}
  /\ local \in {Absent} \cup {IsoOf(r) : r \in Releases}
  /\ run = Halt("idle")
  /\ doubt = {}
  /\ used = [runs |-> 0, kills |-> 0, breaks |-> 0, hands |-> 0]

Goto(at) == run' = [run EXCEPT !.at = at]
GiveUp == run' = Halt("error")

-----------------------------------------------------------------------------
(* The ISO.                                                                *)

Ready(b) == b.len > 0

StartRun ==
  /\ run.at \in {"idle", "error", "done"} /\ used.runs < RunBound
  /\ used' = [used EXCEPT !.runs = @ + 1]
  /\ run' = Halt("iso")
  /\ UNCHANGED <<iso, how, part, newer, files, agents, local, doubt>>

\* stageLocalISO: a configured ISO is copied, unless there is one already.
CopyTmp ==
  /\ run.at = "iso" /\ local # Absent /\ ~Ready(iso)
  /\ \E n \in 1 .. local.len : part' = Blob(local.from, n)
  /\ Goto("copy")
  /\ UNCHANGED <<iso, how, newer, files, agents, local, doubt, used>>

\* A file that is put in place is the newest there is.
Place(b, from) ==
  /\ iso' = b /\ how' = from
  /\ newer' = {"vmlinuz", "casper"}
  /\ doubt' = doubt \ {"date"}

CopyRename ==
  /\ run.at = "copy"
  /\ Place(local, "local")
  /\ part' = Absent
  /\ Goto("kernel")
  /\ UNCHANGED <<files, agents, local, used>>

Cached ==
  /\ run.at = "iso" /\ Ready(iso)
  /\ Goto("kernel")
  /\ UNCHANGED <<iso, how, part, newer, files, agents, local, doubt, used>>

\* The configured ISO is missing or too small, or there is no ISO and the run is
\* told to stay offline.
NoSource ==
  /\ run.at = "iso" /\ (local # Absent \/ ~Ready(iso))
  /\ GiveUp
  /\ UNCHANGED <<iso, how, part, newer, files, agents, local, doubt, used>>

\* Where to fetch from, and the list to compare with; no list can be read, or it has
\* nothing of this architecture, when it is empty.  A configured mirror is asked for
\* its own list.
Pinned == [site : Sites, list : {{}}] \cup {[site |-> s, list |-> Holds[s]] : s \in Sites}

\* pickFastestMirror: any site that has a list may be the fastest; the official list
\* is preferred to its own.  If none answers, the official site it is.
Fastest ==
  {[site |-> Official, list |-> {}]} \cup
  UNION {{[site |-> s, list |-> Holds[s]], [site |-> s, list |-> Holds[Official]]} :
           s \in {t \in Sites : Holds[t] # {}}}

\* parseLiveServerISO: the release asked for, else the latest that is listed.
Listed(rel, list) ==
  IF rel \in list THEN rel ELSE CHOOSE r \in list : \A q \in list : q <= r

\* resolveLiveServerISO: without a list the file is guessed by its name and has no
\* checksum.
ResolveISO ==
  /\ run.at = "iso" /\ local = Absent /\ ~Ready(iso)
  /\ \E rel \in Releases, from \in Pinned \cup Fastest :
       run' = [run EXCEPT !.at = "get", !.site = from.site, !.sum = from.list # {},
                          !.rel = IF from.list = {} THEN rel ELSE Listed(rel, from.list)]
  /\ UNCHANGED <<iso, how, part, newer, files, agents, local, doubt, used>>

\* downloadResume: what there is of the file is continued if the server can, or
\* begun again.
Get ==
  /\ run.at = "get" /\ run.rel \in Holds[run.site]
  /\ \/ part.len < Length[run.rel] /\ Goto("body") /\ UNCHANGED part
     \/ part' = Absent /\ Goto("body")
  /\ UNCHANGED <<iso, how, newer, files, agents, local, doubt, used>>

\* The site does not have the file, or none of it that is not fetched yet (status 416).
NotServed ==
  /\ run.at = "get"
  /\ run.rel \notin Holds[run.site] \/ part.len >= Length[run.rel]
  /\ GiveUp
  /\ UNCHANGED <<iso, how, part, newer, files, agents, local, doubt, used>>

Body ==
  /\ run.at = "body" /\ part.len < Length[run.rel]
  /\ part' = Blob(part.from \cup {run.rel}, part.len + 1)
  /\ UNCHANGED <<iso, how, newer, files, agents, local, run, doubt, used>>

Break ==
  /\ run.at \in {"get", "body"} /\ used.breaks < BreakBound
  /\ used' = [used EXCEPT !.breaks = @ + 1]
  /\ GiveUp
  /\ UNCHANGED <<iso, how, part, newer, files, agents, local, doubt>>

Fetched ==
  /\ run.at = "body" /\ part.len = Length[run.rel]
  /\ Place(part, "fetched")
  /\ part' = Absent
  /\ Goto("verify")
  /\ UNCHANGED <<files, agents, local, used>>

\* Faulty: a wrong checksum ends the run, and the ISO stays.
VerifyKeeps ==
  /\ run.at = "verify"
  /\ IF run.sum => iso = IsoOf(run.rel)
     THEN Goto("kernel") /\ how' = IF run.sum THEN "verified" ELSE "unknown"
     ELSE GiveUp /\ UNCHANGED how
  /\ UNCHANGED <<iso, part, newer, files, agents, local, doubt, used>>

\* verifySHA256, if a checksum is known; an ISO it does not fit is removed.
Verify ==
  /\ run.at = "verify"
  /\ IF run.sum => iso = IsoOf(run.rel)
     THEN Goto("kernel") /\ how' = (IF run.sum THEN "verified" ELSE "unknown") /\ UNCHANGED iso
     ELSE GiveUp /\ iso' = Absent /\ how' = "none"
  /\ UNCHANGED <<part, newer, files, agents, local, doubt, used>>

-----------------------------------------------------------------------------
(* Kernel and initrd.                                                      *)

There(ns) == \A n \in ns : files[n] # Absent
\* Faulty: a kernel and an initrd that are there will do.
KernelThere == There({"vmlinuz", "stock"})

KernelCached == There({"vmlinuz", "stock"}) /\ "vmlinuz" \notin newer

KernelCheck ==
  /\ run.at = "kernel"
  /\ run' = IF KernelCached THEN [run EXCEPT !.at = "casper"]
            ELSE [run EXCEPT !.at = "extract", !.todo = {"vmlinuz", "stock"}]
  /\ UNCHANGED <<iso, how, part, newer, files, agents, local, doubt, used>>

\* ExtractISOFiles: one of the two after the other, in the order of a Go map;
\* each replaces the file there was.
Extract(n) ==
  /\ run.at = "extract" /\ n \in run.todo
  /\ files' = [files EXCEPT ![n] = iso]
  /\ newer' = newer \ {n}
  /\ doubt' = IF run.todo = {n} THEN doubt \ {"kernel"} ELSE doubt
  /\ run' = [run EXCEPT !.todo = @ \ {n}, !.at = IF run.todo = {n} THEN "casper" ELSE "extract"]
  /\ UNCHANGED <<iso, how, part, agents, local, used>>

\* What is in doubt when the run ends here: the file it would have replaced is of an
\* earlier ISO, and the next run sees by its companion that all is done.
Mixed ==
  (IF run.at = "extract" /\ run.todo = {"stock"} /\ There({"stock"}) THEN {"kernel"} ELSE {})
  \cup (IF run.at = "layer" /\ There({"layer"}) THEN {"layer"} ELSE {})

\* The ISO cannot be read as ISO 9660, or misses a file: 7z or bsdtar is tried, which
\* keep the dates of the ISO and name the initrd initrd, not initrd.stock; the check
\* after it is content with an initrd.stock of an earlier run.
External ==
  /\ run.at = "extract"
  /\ \E got \in SUBSET {"vmlinuz", "initrd"} :
       /\ files' = [n \in Names |-> IF n \in got THEN iso ELSE files[n]]
       /\ newer' = newer \cup (got \cap {"vmlinuz"})
       /\ doubt' = doubt \cup Mixed \cup (IF got = {} THEN {} ELSE {"kernel"})
       /\ \/ GiveUp
          \/ /\ got = {"vmlinuz", "initrd"} /\ There({"stock"})
             /\ run' = [run EXCEPT !.at = "casper", !.todo = {}]
  /\ UNCHANGED <<iso, how, part, agents, local, used>>

-----------------------------------------------------------------------------
(* The squashfs layer, the initrd and the agents.                          *)

CasperCached == There({"casper", "layer"}) /\ "casper" \notin newer

\* The squashfs files are copied to a directory that is emptied first.
Casper ==
  /\ run.at = "casper"
  /\ \/ Goto(IF CasperCached THEN "initrd" ELSE "pack")
     \/ ~CasperCached /\ GiveUp
  /\ UNCHANGED <<iso, how, part, newer, files, agents, local, doubt, used>>

\* packCasperISO writes a temporary file and renames it.
Pack ==
  /\ run.at = "pack"
  /\ files' = [files EXCEPT !["casper"] = iso]
  /\ newer' = newer \ {"casper"}
  /\ Goto("layer")
  /\ UNCHANGED <<iso, how, part, agents, local, doubt, used>>

\* writeLayerFSPath.
Layer ==
  /\ run.at = "layer"
  /\ files' = [files EXCEPT !["layer"] = iso]
  /\ doubt' = doubt \ {"layer"}
  /\ Goto("initrd")
  /\ UNCHANGED <<iso, how, part, newer, agents, local, used>>

\* appendInitrdOverlay, in every run.
Initrd ==
  /\ run.at = "initrd"
  /\ files' = [files EXCEPT !["initrd"] = files["stock"]]
  /\ Goto("agents")
  /\ UNCHANGED <<iso, how, part, newer, agents, local, doubt, used>>

\* buildAgents: both are built, or the build fails after the first or before it;
\* without source or compiler the agents there are will do.  Run goes on after an
\* error if the agent for x86_64 is there.
Agents ==
  /\ run.at = "agents"
  /\ \/ agents' = {"x86_64", "aarch64"} /\ Goto("done")
     \/ /\ agents' \in {agents, agents \cup {"x86_64"}}
        /\ IF "x86_64" \in agents' THEN Goto("done") ELSE GiveUp
     \/ agents # {} /\ Goto("done") /\ UNCHANGED agents
  /\ UNCHANGED <<iso, how, part, newer, files, local, doubt, used>>

-----------------------------------------------------------------------------
(* Accidents, and the operator.                                            *)

\* The process is killed, or a file operation fails, which ends it as well.  The name
\* of the layer is written in place.
Kill ==
  /\ run.at \notin {"idle", "error", "done"} /\ used.kills < KillBound
  /\ used' = [used EXCEPT !.kills = @ + 1]
  /\ run' = Halt("idle")
  /\ how' = IF run.at = "verify" THEN "unknown" ELSE how
  /\ doubt' = doubt \cup Mixed
  /\ \/ UNCHANGED files
     \/ run.at = "layer" /\ files' = [files EXCEPT !["layer"] = Absent]
  /\ UNCHANGED <<iso, part, newer, agents, local>>

\* Between runs the operator puts an ISO in place, which may keep an older date,
\* removes the one there is, or configures another local ISO.
Hand ==
  /\ run.at \in {"idle", "error", "done"} /\ used.hands < HandBound
  /\ used' = [used EXCEPT !.hands = @ + 1]
  /\ run' = Halt("idle")
  /\ \/ \E r \in Releases : Place(IsoOf(r), "operator") /\ UNCHANGED local
     \/ \E r \in Releases :
          /\ iso' = IsoOf(r) /\ how' = "operator" /\ newer' = {}
          /\ doubt' = doubt \cup {"date"} /\ UNCHANGED local
     \/ iso' = Absent /\ how' = "none" /\ UNCHANGED <<newer, doubt, local>>
     \/ local' \in {Absent} \cup {IsoOf(r) : r \in Releases} /\ UNCHANGED <<iso, how, newer, doubt>>
  /\ UNCHANGED <<part, files, agents>>

MediaNext ==
  \/ StartRun \/ CopyTmp \/ CopyRename \/ Cached \/ NoSource \/ ResolveISO
  \/ Get \/ NotServed \/ Body \/ Break \/ Fetched \/ Verify
  \/ KernelCheck \/ \E n \in Names : Extract(n)
  \/ External \/ Casper \/ Pack \/ Layer \/ Initrd \/ Agents
  \/ Kill \/ Hand

MediaSpec == MediaInit /\ [][MediaNext]_mediaVars

-----------------------------------------------------------------------------
\* What a run works with, once past the ISO, is one release's ISO and the whole of it,
\* unless it was fetched without a checksum or the run that fetched it was killed
\* before it compared it (ubuntu.go: verifySHA256 after the rename; isoReady later
\* asks for the size only).
Working == run.at \in {"kernel", "extract", "casper", "pack", "layer", "initrd", "agents", "done"}
IsoWhole == Working => Whole(iso) \/ how = "unknown"

\* A run that ends well leaves files that belong together, all made from the ISO that
\* is there, whatever runs before it were killed, and there is an agent.  Three doubts
\* remain: a run that ended between the two files of the kernel, or between casper.iso
\* and layerfs-path, or went on with another tool, while files of another ISO were
\* there; and an ISO older than the files that were made before it came.
BootSetWhole ==
  run.at = "done" =>
    /\ agents # {}
    /\ files["initrd"] = files["stock"]
    /\ "date" \notin doubt =>
         /\ "kernel" \notin doubt => files["vmlinuz"] = iso /\ files["stock"] = iso
         /\ files["casper"] = iso
         /\ "layer" \notin doubt => files["layer"] = iso
===============================================================================
