------------------------------ MODULE MediaProofs ------------------------------
(***************************************************************************)
(* Proofs about the media.  A run of bootstrap works with one whole ISO,   *)
(* and the boot files it leaves belong to that ISO, for every catalogue of *)
(* releases and sites, however often it is run, killed, cut off or helped  *)
(* by hand.  And the WIMs of a Windows medium are all found, whatever is   *)
(* on the medium and wherever the chunks cut it.                           *)
(***************************************************************************)
EXTENDS BootMedia, MediaInspect, SequenceTheorems, WellFoundedInduction, TLAPS

RunFields == {"at", "rel", "site", "sum", "todo"}

\* The process knows what it fetches, and has an ISO to copy when it copies.
RunOK ==
  /\ DOMAIN run = RunFields
  /\ run.at \in {"get", "body", "verify"} => run.rel \in Releases
  /\ run.at = "copy" => local # Absent

LocalOK == local = Absent \/ Whole(local)

\* Where an ISO came from tells what it is: only while it is being verified is it not
\* known to be whole, or known not to be known.
OriginOK ==
  /\ how = "none" => iso = Absent
  /\ how \in {"local", "operator", "verified"} => Whole(iso)
  /\ how = "fetched" => run.at = "verify"
  /\ how \in {"none", "local", "operator", "verified", "fetched", "unknown"}
  /\ Working \/ run.at = "verify" => Ready(iso)

MediaInv == RunOK /\ LocalOK /\ OriginOK

-----------------------------------------------------------------------------
(* What the inventory holds.                                               *)

LEMMA WholeIsReady == ASSUME NEW b, Whole(b) PROVE Ready(b)
BY LengthsArePositive DEF Whole, IsoOf, Blob, Ready

LEMMA AbsentIsNotReady == ~Ready(Absent)
BY DEF Absent, Blob, Ready

LEMMA HaltFields == ASSUME NEW at PROVE DOMAIN Halt(at) = RunFields /\ Halt(at).at = at
BY DEF Halt, RunFields

LEMMA GotoFields ==
  ASSUME NEW at, RunOK, Goto(at)
  PROVE DOMAIN run' = RunFields /\ run'.at = at /\ run'.rel = run.rel
BY DEF Goto, RunOK, RunFields

\* parseLiveServerISO picks a release of the list.
LEMMA ListedIsListed ==
  ASSUME NEW list \in SUBSET Releases, list # {}, NEW rel PROVE Listed(rel, list) \in Releases
<1>1. \E r \in list : \A q \in list : q <= r
  BY ListsHaveALatest
<1>2. (CHOOSE r \in list : \A q \in list : q <= r) \in list
  BY <1>1
<1> QED
  BY <1>2 DEF Listed

LEMMA ListsAreOfReleases ==
  ASSUME NEW from \in Pinned \cup Fastest PROVE from.list \in SUBSET Releases
BY SitesHoldReleases DEF Pinned, Fastest

-----------------------------------------------------------------------------
(* The steps, by what they do to the ISO.                                  *)

\* The ISO stays and the process goes on with something else than fetching it.
LEMMA StillKeepsInv ==
  ASSUME MediaInv, UNCHANGED <<iso, how, local>>, DOMAIN run' = RunFields, run.at # "verify",
         run'.at \in {"get", "body"} => run'.rel \in Releases,
         run'.at = "copy" => local # Absent,
         run'.at # "verify",
         Working' => Working \/ Ready(iso)
  PROVE MediaInv'
<1>1. RunOK' /\ LocalOK'
  BY DEF MediaInv, RunOK, LocalOK, Whole
<1>2. OriginOK'
  BY DEF MediaInv, OriginOK, Ready, Whole
<1> QED
  BY <1>1, <1>2 DEF MediaInv

LEMMA GiveUpKeepsInv ==
  ASSUME MediaInv, UNCHANGED <<iso, how, local>>, GiveUp, run.at # "verify" PROVE MediaInv'
<1>1. DOMAIN run' = RunFields /\ run'.at = "error"
  BY HaltFields DEF GiveUp
<1> QED
  BY <1>1, StillKeepsInv DEF Working

\* The run is past the ISO and stays so.
LEMMA GoesOnKeepsInv ==
  ASSUME MediaInv, UNCHANGED <<iso, how, local>>, Working, DOMAIN run' = RunFields,
         run'.at \in {"kernel", "extract", "casper", "pack", "layer", "initrd", "agents", "done"}
  PROVE MediaInv'
BY StillKeepsInv DEF Working

LEMMA StartInv ==
  ASSUME MediaInv, StartRun \/ CopyTmp \/ Cached \/ NoSource \/ Get \/ NotServed \/ Body \/ Break
  PROVE MediaInv'
<1>1. UNCHANGED <<iso, how, local>>
  BY DEF StartRun, CopyTmp, Cached, NoSource, Get, NotServed, Body, Break
<1>2. CASE StartRun
  <2>1. DOMAIN run' = RunFields /\ run'.at = "iso" /\ run.at # "verify"
    BY <1>2, HaltFields DEF StartRun
  <2> QED
    BY <1>1, <2>1, StillKeepsInv DEF Working
<1>3. CASE CopyTmp
  <2>1. /\ DOMAIN run' = RunFields /\ run'.at = "copy" /\ run.at # "verify" /\ local # Absent
    BY <1>3, GotoFields DEF CopyTmp, MediaInv
  <2> QED
    BY <1>1, <2>1, StillKeepsInv DEF Working
<1>4. CASE Cached
  <2>1. DOMAIN run' = RunFields /\ run'.at = "kernel" /\ run.at # "verify" /\ Ready(iso)
    BY <1>4, GotoFields DEF Cached, MediaInv
  <2> QED
    BY <1>1, <2>1, StillKeepsInv
<1>5. CASE NoSource \/ NotServed \/ Break
  BY <1>1, <1>5, GiveUpKeepsInv DEF NoSource, NotServed, Break
<1>6. CASE Get
  <2>1. Goto("body") /\ run.at = "get"
    BY <1>6 DEF Get
  <2>2. DOMAIN run' = RunFields /\ run'.at = "body" /\ run'.rel \in Releases
    BY <2>1, GotoFields DEF MediaInv, RunOK
  <2> QED
    BY <1>1, <2>1, <2>2, StillKeepsInv DEF Working
<1>7. CASE Body
  <2>1. UNCHANGED run /\ run.at = "body"
    BY <1>7 DEF Body
  <2> QED
    BY <1>1, <2>1, StillKeepsInv DEF MediaInv, RunOK, Working
<1> QED
  BY <1>2, <1>3, <1>4, <1>5, <1>6, <1>7

LEMMA ResolveInv == ASSUME MediaInv, ResolveISO PROVE MediaInv'
<1>1. PICK rel \in Releases, from \in Pinned \cup Fastest :
        run' = [run EXCEPT !.at = "get", !.site = from.site, !.sum = from.list # {},
                           !.rel = IF from.list = {} THEN rel ELSE Listed(rel, from.list)]
  BY DEF ResolveISO
<1>2. (IF from.list = {} THEN rel ELSE Listed(rel, from.list)) \in Releases
  BY ListsAreOfReleases, ListedIsListed
<1>3. DOMAIN run' = RunFields /\ run'.at = "get" /\ run'.rel \in Releases
  BY <1>1, <1>2 DEF MediaInv, RunOK, RunFields
<1>4. UNCHANGED <<iso, how, local>> /\ run.at # "verify"
  BY DEF ResolveISO
<1> QED
  BY <1>3, <1>4, StillKeepsInv DEF Working

\* The configured ISO takes its place.
LEMMA CopyRenameInv == ASSUME MediaInv, CopyRename PROVE MediaInv'
<1>1. iso' = local /\ how' = "local" /\ local' = local /\ Whole(local)
  BY DEF CopyRename, Place, MediaInv, RunOK, LocalOK
<1>2. DOMAIN run' = RunFields /\ run'.at = "kernel"
  BY GotoFields DEF CopyRename, MediaInv
<1>3. Whole(iso)' /\ Ready(iso)'
  BY <1>1, WholeIsReady DEF Whole, Ready
<1> QED
  BY <1>1, <1>2, <1>3 DEF MediaInv, RunOK, LocalOK, OriginOK, Whole

LEMMA FetchedInv == ASSUME MediaInv, Fetched PROVE MediaInv'
<1>1. iso' = part /\ how' = "fetched" /\ local' = local /\ run.rel \in Releases
      /\ part.len = Length[run.rel]
  BY DEF Fetched, Place, MediaInv, RunOK
<1>2. DOMAIN run' = RunFields /\ run'.at = "verify" /\ run'.rel = run.rel
  BY GotoFields DEF Fetched, MediaInv
<1>3. Ready(iso)'
  BY <1>1, LengthsArePositive DEF Ready
<1> QED
  BY <1>1, <1>2, <1>3 DEF MediaInv, RunOK, LocalOK, OriginOK, Whole

\* Either the ISO is the one that is listed, or nothing is known of it, or it goes.
LEMMA VerifyInv == ASSUME MediaInv, Verify PROVE MediaInv'
<1>1. run.at = "verify" /\ run.rel \in Releases /\ local' = local /\ Ready(iso)
  BY DEF Verify, MediaInv, RunOK, OriginOK
<1>2. CASE run.sum => iso = IsoOf(run.rel)
  <2>1. Goto("kernel") /\ how' = (IF run.sum THEN "verified" ELSE "unknown") /\ iso' = iso
    BY <1>2 DEF Verify
  <2>2. DOMAIN run' = RunFields /\ run'.at = "kernel"
    BY <2>1, GotoFields DEF MediaInv
  <2>3. how' = "verified" => Whole(iso)'
    BY <1>1, <1>2, <2>1 DEF Whole
  <2> QED
    BY <1>1, <2>1, <2>2, <2>3 DEF MediaInv, RunOK, LocalOK, OriginOK, Whole, Ready
<1>3. CASE ~(run.sum => iso = IsoOf(run.rel))
  <2>1. GiveUp /\ iso' = Absent /\ how' = "none"
    BY <1>3 DEF Verify
  <2>2. DOMAIN run' = RunFields /\ run'.at = "error"
    BY <2>1, HaltFields DEF GiveUp
  <2> QED
    BY <1>1, <2>1, <2>2 DEF MediaInv, RunOK, LocalOK, OriginOK, Whole, Working
<1> QED
  BY <1>2, <1>3

\* Kernel, layer, initrd and agents leave the ISO alone.
LEMMA BuildInv ==
  ASSUME MediaInv,
         \/ KernelCheck \/ \E n \in Names : Extract(n)
         \/ External \/ Casper \/ Pack \/ Layer \/ Initrd \/ Agents
  PROVE MediaInv'
<1>1. UNCHANGED <<iso, how, local>> /\ run.at # "verify" /\ Working
  BY DEF KernelCheck, Extract, External, Casper, Pack, Layer, Initrd, Agents, Working
<1>2. DOMAIN run = RunFields
  BY DEF MediaInv, RunOK
<1>3. CASE KernelCheck
  <2>1. DOMAIN run' = RunFields /\ run'.at \in {"casper", "extract"}
    BY <1>2, <1>3 DEF KernelCheck, RunFields
  <2> QED
    BY <1>1, <2>1, GoesOnKeepsInv
<1>4. ASSUME NEW n \in Names, Extract(n) PROVE MediaInv'
  <2>1. DOMAIN run' = RunFields /\ run'.at \in {"casper", "extract"}
    BY <1>2, <1>4 DEF Extract, RunFields
  <2> QED
    BY <1>1, <2>1, GoesOnKeepsInv
<1>5. CASE External
  <2>1. GiveUp \/ run' = [run EXCEPT !.at = "casper", !.todo = {}]
    BY <1>5 DEF External
  <2>2. CASE run' = [run EXCEPT !.at = "casper", !.todo = {}]
    <3>1. DOMAIN run' = RunFields /\ run'.at = "casper"
      BY <1>2, <2>2 DEF RunFields
    <3> QED
      BY <1>1, <3>1, GoesOnKeepsInv
  <2> QED
    BY <1>1, <2>1, <2>2, GiveUpKeepsInv
<1>6. CASE Casper \/ Pack \/ Layer \/ Initrd \/ Agents
  <2>1. GiveUp \/ \E at \in {"initrd", "pack", "layer", "agents", "done"} : Goto(at)
    BY <1>6 DEF Casper, Pack, Layer, Initrd, Agents
  <2>2. CASE GiveUp
    BY <1>1, <2>2, GiveUpKeepsInv
  <2>3. ASSUME NEW at \in {"initrd", "pack", "layer", "agents", "done"}, Goto(at) PROVE MediaInv'
    <3>1. DOMAIN run' = RunFields /\ run'.at = at
      BY <2>3, GotoFields DEF MediaInv
    <3> QED
      BY <1>1, <2>3, <3>1, GoesOnKeepsInv
  <2> QED
    BY <2>1, <2>2, <2>3
<1> QED
  BY <1>3, <1>4, <1>5, <1>6

\* Killed before it compared the checksum, the next run does not know what it has.
LEMMA KillInv == ASSUME MediaInv, Kill PROVE MediaInv'
<1>1. DOMAIN run' = RunFields /\ run'.at = "idle"
  BY HaltFields DEF Kill
<1>2. UNCHANGED <<iso, local>> /\ how' = IF run.at = "verify" THEN "unknown" ELSE how
  BY DEF Kill
<1>3. how = "none" /\ run.at = "verify" => FALSE
  BY AbsentIsNotReady DEF MediaInv, OriginOK
<1>4. RunOK' /\ LocalOK'
  BY <1>1, <1>2 DEF MediaInv, RunOK, LocalOK, Whole
<1>5. OriginOK'
  BY <1>1, <1>2, <1>3 DEF MediaInv, OriginOK, Working, Whole
<1> QED
  BY <1>4, <1>5 DEF MediaInv

LEMMA HandInv == ASSUME MediaInv, Hand PROVE MediaInv'
<1>1. DOMAIN run' = RunFields /\ run'.at = "idle" /\ run.at # "verify"
  BY HaltFields DEF Hand
<1>2. \/ how' = "operator" /\ local' = local /\ \E r \in Releases : iso' = IsoOf(r)
      \/ how' = "none" /\ local' = local /\ iso' = Absent
      \/ /\ UNCHANGED <<iso, how>>
         /\ local' \in {Absent} \cup {IsoOf(r) : r \in Releases}
  BY DEF Hand, Place
<1>3. RunOK'
  BY <1>1 DEF RunOK
<1>4. LocalOK'
  BY <1>2 DEF MediaInv, LocalOK, Whole
<1>5. OriginOK'
  BY <1>1, <1>2 DEF MediaInv, OriginOK, Working, Whole
<1> QED
  BY <1>3, <1>4, <1>5 DEF MediaInv

LEMMA MediaStep == MediaInv /\ [MediaNext]_mediaVars => MediaInv'
<1> SUFFICES ASSUME MediaInv, [MediaNext]_mediaVars PROVE MediaInv'
  OBVIOUS
<1>1. CASE UNCHANGED mediaVars
  BY <1>1 DEF mediaVars, MediaInv, RunOK, LocalOK, OriginOK, Working, Ready, Whole
<1>2. CASE MediaNext
  BY <1>2, StartInv, ResolveInv, CopyRenameInv, FetchedInv, VerifyInv, BuildInv, KillInv, HandInv
  DEF MediaNext
<1> QED
  BY <1>1, <1>2

LEMMA MediaInitInv == MediaInit => MediaInv
<1> SUFFICES ASSUME MediaInit PROVE MediaInv
  OBVIOUS
<1>1. DOMAIN run = RunFields /\ run.at = "idle"
  BY HaltFields DEF MediaInit
<1> QED
  BY <1>1 DEF MediaInit, MediaInv, RunOK, LocalOK, OriginOK, Working, Whole

\* Past the ISO a run works with the whole of one, unless nobody ever compared what it is.
THEOREM AlwaysIsoWhole == MediaSpec => []IsoWhole
<1>1. MediaInv => IsoWhole
  BY AbsentIsNotReady DEF MediaInv, OriginOK, IsoWhole, Working
<1> QED
  BY <1>1, MediaInitInv, MediaStep, PTL DEF MediaSpec

-----------------------------------------------------------------------------
(* The boot set: what the files are made of, at every stage of a run and   *)
(* between the runs.                                                       *)

\* Where a stage takes what the one before it left: extraction begins only if the
\* kernel is not there or outdated, what is extracted is of the ISO that is there, and
\* past the kernel both files are there and no older than the ISO, or the kernel is in
\* doubt; so with casper.iso and the name of the layer.
StageOK ==
  /\ run.at = "extract" =>
       /\ run.todo \in {{"vmlinuz"}, {"stock"}, {"vmlinuz", "stock"}}
       /\ run.todo = {"vmlinuz", "stock"} => ~KernelCached
       /\ "vmlinuz" \notin run.todo => files["vmlinuz"] = iso /\ "vmlinuz" \notin newer
       /\ "stock" \notin run.todo => files["stock"] = iso
  /\ run.at \in {"casper", "pack", "layer", "initrd", "agents", "done"} => KernelCached \/ "kernel" \in doubt
  /\ run.at = "pack" => ~CasperCached
  /\ run.at = "layer" => files["casper"] = iso /\ "casper" \notin newer
  /\ run.at \in {"initrd", "agents", "done"} => CasperCached
  /\ run.at \in {"agents", "done"} => files["initrd"] = files["stock"]
  /\ run.at = "done" => agents # {}

\* A file that is no older than the ISO is made from it; and so is its companion,
\* outside the step that replaces the two and when no step ended between them.
MadeOfIt ==
  /\ "vmlinuz" \notin newer /\ files["vmlinuz"] # Absent => files["vmlinuz"] = iso
  /\ "kernel" \notin doubt /\ KernelCached /\ (run.at = "extract" => "stock" \notin run.todo) =>
       files["stock"] = iso
  /\ "casper" \notin newer /\ files["casper"] # Absent => files["casper"] = iso
  /\ "layer" \notin doubt /\ CasperCached /\ run.at # "layer" => files["layer"] = iso

SetInv ==
  /\ files = [n \in Names |-> files[n]]
  /\ StageOK
  /\ Ready(iso) /\ "date" \notin doubt => MadeOfIt

\* Stages that rely on nothing but the ISO.
Early == {"idle", "error", "iso", "copy", "get", "body", "verify", "kernel"}

\* The files stay, and the process is between runs or at its ISO.
LEMMA StillKeepsSet ==
  ASSUME SetInv, UNCHANGED <<iso, newer, files, doubt>>, run'.at \in Early, run.at \notin {"extract", "layer"}
  PROVE SetInv'
BY DEF SetInv, StageOK, MadeOfIt, Early, Ready, KernelCached, CasperCached, There

\* An ISO that was just put in place is newer than everything.
LEMMA PlaceKeepsSet ==
  ASSUME SetInv, UNCHANGED files, newer' = {"vmlinuz", "casper"}, run'.at \in Early
  PROVE SetInv'
BY DEF SetInv, StageOK, MadeOfIt, Early, KernelCached, CasperCached

LEMMA StartSet ==
  ASSUME MediaInv, SetInv,
         \/ StartRun \/ CopyTmp \/ Cached \/ NoSource \/ ResolveISO
         \/ Get \/ NotServed \/ Body \/ Break
  PROVE SetInv'
<1>1. UNCHANGED <<iso, newer, files, doubt>> /\ run.at \notin {"extract", "layer"}
  BY DEF StartRun, CopyTmp, Cached, NoSource, ResolveISO, Get, NotServed, Body, Break
<1>2. DOMAIN run = RunFields
  BY DEF MediaInv, RunOK
<1>3. CASE StartRun \/ NoSource \/ NotServed \/ Break
  BY <1>1, <1>3, HaltFields, StillKeepsSet DEF StartRun, NoSource, NotServed, Break, GiveUp, Early
<1>4. CASE CopyTmp \/ Cached \/ Get
  <2>1. \E at \in {"copy", "kernel", "body"} : Goto(at)
    BY <1>4 DEF CopyTmp, Cached, Get
  <2>2. run'.at \in {"copy", "kernel", "body"}
    BY <2>1, GotoFields DEF MediaInv
  <2> QED
    BY <1>1, <2>2, StillKeepsSet DEF Early
<1>5. CASE ResolveISO
  <2>1. run'.at = "get"
    BY <1>2, <1>5 DEF ResolveISO, RunFields
  <2> QED
    BY <1>1, <2>1, StillKeepsSet DEF Early
<1>6. CASE Body
  BY <1>1, <1>6, StillKeepsSet DEF Body, Early
<1> QED
  BY <1>3, <1>4, <1>5, <1>6

LEMMA PlaceSet == ASSUME MediaInv, SetInv, CopyRename \/ Fetched PROVE SetInv'
<1>1. UNCHANGED files /\ newer' = {"vmlinuz", "casper"}
  BY DEF CopyRename, Fetched, Place
<1>2. run'.at \in {"kernel", "verify"}
  BY GotoFields DEF CopyRename, Fetched, MediaInv
<1> QED
  BY <1>1, <1>2, PlaceKeepsSet DEF Early

LEMMA VerifySet == ASSUME MediaInv, SetInv, Verify PROVE SetInv'
<1>1. run.at = "verify" /\ UNCHANGED <<newer, files, doubt>>
  BY DEF Verify
<1>2. CASE run.sum => iso = IsoOf(run.rel)
  <2>1. run'.at = "kernel" /\ iso' = iso
    BY <1>2, GotoFields DEF Verify, MediaInv
  <2> QED
    BY <1>1, <2>1, StillKeepsSet DEF Early
<1>3. CASE ~(run.sum => iso = IsoOf(run.rel))
  <2>1. run'.at = "error" /\ iso' = Absent
    BY <1>3, HaltFields DEF Verify, GiveUp
  <2> QED
    BY <1>1, <2>1, AbsentIsNotReady
    DEF SetInv, StageOK, Ready
<1> QED
  BY <1>2, <1>3

LEMMA KernelCheckSet == ASSUME MediaInv, SetInv, KernelCheck PROVE SetInv'
<1>1. run.at = "kernel" /\ UNCHANGED <<iso, newer, files, agents, doubt>> /\ DOMAIN run = RunFields
  BY DEF KernelCheck, MediaInv, RunOK
<1>2. CASE KernelCached
  <2>1. run'.at = "casper"
    BY <1>1, <1>2 DEF KernelCheck, RunFields
  <2> QED
    BY <1>1, <1>2, <2>1 DEF SetInv, StageOK, MadeOfIt, Ready, KernelCached, CasperCached, There
<1>3. CASE ~KernelCached
  <2>1. run'.at = "extract" /\ run'.todo = {"vmlinuz", "stock"}
    BY <1>1, <1>3 DEF KernelCheck, RunFields
  <2> QED
    BY <1>1, <1>3, <2>1 DEF SetInv, StageOK, MadeOfIt, Ready, KernelCached, CasperCached, There
<1> QED
  BY <1>2, <1>3

\* One of the two files of the kernel: the other is of this ISO already, or the next one.
LEMMA ExtractSet == ASSUME MediaInv, SetInv, NEW n \in Names, Extract(n) PROVE SetInv'
<1>1. /\ run.at = "extract" /\ n \in run.todo /\ UNCHANGED <<iso, agents>>
      /\ files' = [files EXCEPT ![n] = iso] /\ newer' = newer \ {n}
      /\ doubt' = IF run.todo = {n} THEN doubt \ {"kernel"} ELSE doubt
      /\ DOMAIN run = RunFields
  BY DEF Extract, MediaInv, RunOK
<1>2. run'.todo = run.todo \ {n} /\ run'.at = IF run.todo = {n} THEN "casper" ELSE "extract"
  BY <1>1 DEF Extract, RunFields
<1>3. /\ files = [m \in Names |-> files[m]] /\ StageOK /\ Ready(iso)
      /\ run.todo \in {{"vmlinuz"}, {"stock"}, {"vmlinuz", "stock"}}
      /\ "date" \notin doubt => MadeOfIt
  BY <1>1 DEF SetInv, StageOK, MediaInv, OriginOK, Working
<1>4. iso # Absent
  BY <1>3, AbsentIsNotReady
<1>5. /\ files' = [m \in Names |-> files'[m]]
      /\ \A m \in Names : files'[m] = IF m = n THEN iso ELSE files[m]
  BY <1>1, <1>3
<1>6. CASE run.todo = {n}
  <2>1. /\ files'["vmlinuz"] = iso /\ files'["stock"] = iso /\ "vmlinuz" \notin newer'
        /\ run'.at = "casper"
    BY <1>1, <1>2, <1>3, <1>5, <1>6 DEF StageOK, Names
  <2>2. StageOK' /\ KernelCached'
    BY <1>1, <1>4, <2>1 DEF StageOK, KernelCached, There
  <2>3. "date" \notin doubt' => MadeOfIt'
    BY <1>1, <1>2, <1>3, <1>5, <1>6, <2>1 DEF MadeOfIt, CasperCached, There, Names
  <2> QED
    BY <1>5, <2>2, <2>3 DEF SetInv
<1>7. CASE run.todo # {n}
  <2>1. run.todo = {"vmlinuz", "stock"} /\ doubt' = doubt /\ run'.at = "extract"
    BY <1>1, <1>2, <1>3, <1>7
  <2>2. CASE n = "vmlinuz"
    BY <1>1, <1>2, <1>3, <1>5, <2>1, <2>2
    DEF SetInv, StageOK, MadeOfIt, CasperCached, KernelCached, There, Names
  <2>3. CASE n = "stock"
    BY <1>1, <1>2, <1>3, <1>5, <2>1, <2>3
    DEF SetInv, StageOK, MadeOfIt, CasperCached, KernelCached, There, Names
  <2> QED
    BY <1>1, <2>1, <2>2, <2>3
<1> QED
  BY <1>6, <1>7

\* The run ends, or goes on, at a point where a file may have been replaced and its
\* companion not: that is what Mixed puts in doubt.
LEMMA EndsKeepsSet ==
  ASSUME SetInv, UNCHANGED <<iso, newer, files>>, run'.at \in Early, doubt' = doubt \cup Mixed
  PROVE SetInv'
<1>1. StageOK'
  BY DEF StageOK, Early
<1>2. ASSUME Ready(iso), "date" \notin doubt' PROVE MadeOfIt'
  <2>1. MadeOfIt /\ StageOK
    BY <1>2 DEF SetInv
  <2>2. "kernel" \notin doubt' /\ KernelCached => files["stock"] = iso
    BY <2>1 DEF MadeOfIt, StageOK, Mixed, KernelCached, There
  <2>3. "layer" \notin doubt' /\ CasperCached => files["layer"] = iso
    BY <2>1 DEF MadeOfIt, Mixed, CasperCached, There
  <2> QED
    BY <2>1, <2>2, <2>3 DEF MadeOfIt, Early, KernelCached, CasperCached, There
<1> QED
  BY <1>1, <1>2 DEF SetInv, Ready

\* Another tool took none, one or both of the files; one it took is as old as the ISO, so
\* the next run does not believe it, and until then the kernel is in doubt.
LEMMA ExternalSet == ASSUME MediaInv, SetInv, External PROVE SetInv'
<1>1. run.at = "extract" /\ UNCHANGED <<iso, agents>> /\ DOMAIN run = RunFields
  BY DEF External, MediaInv, RunOK
<1>2. PICK got \in SUBSET {"vmlinuz", "initrd"} :
        /\ files' = [n \in Names |-> IF n \in got THEN iso ELSE files[n]]
        /\ newer' = newer \cup (got \cap {"vmlinuz"})
        /\ doubt' = doubt \cup Mixed \cup (IF got = {} THEN {} ELSE {"kernel"})
        /\ \/ GiveUp
           \/ /\ got = {"vmlinuz", "initrd"} /\ There({"stock"})
              /\ run' = [run EXCEPT !.at = "casper", !.todo = {}]
  BY DEF External
<1>3. CASE got = {}
  <2>1. files' = files /\ newer' = newer /\ doubt' = doubt \cup Mixed
    BY <1>2, <1>3 DEF SetInv
  <2>2. run'.at = "error"
    BY <1>2, <1>3, HaltFields DEF GiveUp
  <2> QED
    BY <1>1, <2>1, <2>2, EndsKeepsSet DEF Early
<1>4. CASE got # {}
  <2>1. "kernel" \in doubt' /\ doubt \subseteq doubt' /\ newer \subseteq newer'
    BY <1>2, <1>4
  <2>2. run'.at \in {"error", "casper"}
    BY <1>1, <1>2, HaltFields DEF GiveUp, RunFields
  <2>3. /\ files' = [m \in Names |-> files'[m]]
        /\ files'["vmlinuz"] = files["vmlinuz"] \/ "vmlinuz" \in newer'
        /\ \A m \in {"casper", "layer"} : files'[m] = files[m]
        /\ "casper" \in newer' <=> "casper" \in newer
    BY <1>2 DEF Names
  <2>4. StageOK'
    BY <2>1, <2>2 DEF StageOK
  <2>5. Ready(iso)' /\ "date" \notin doubt' => MadeOfIt'
    BY <1>1, <2>1, <2>2, <2>3 DEF SetInv, MadeOfIt, Ready, CasperCached, There
  <2> QED
    BY <2>3, <2>4, <2>5 DEF SetInv
<1> QED
  BY <1>3, <1>4

LEMMA CasperSet == ASSUME MediaInv, SetInv, Casper PROVE SetInv'
<1>1. run.at = "casper" /\ UNCHANGED <<iso, newer, files, agents, doubt>>
  BY DEF Casper
<1>2. CASE GiveUp
  <2>1. run'.at = "error"
    BY <1>2, HaltFields DEF GiveUp
  <2> QED
    BY <1>1, <2>1, StillKeepsSet DEF Early
<1>3. CASE Goto(IF CasperCached THEN "initrd" ELSE "pack")
  <2>1. run'.at = IF CasperCached THEN "initrd" ELSE "pack"
    BY <1>3, GotoFields DEF MediaInv
  <2> QED
    BY <1>1, <2>1 DEF SetInv, StageOK, MadeOfIt, Ready, KernelCached, CasperCached, There
<1> QED
  BY <1>2, <1>3 DEF Casper

LEMMA PackSet == ASSUME MediaInv, SetInv, Pack PROVE SetInv'
<1>1. /\ run.at = "pack" /\ run'.at = "layer" /\ UNCHANGED <<iso, agents, doubt>>
      /\ files' = [files EXCEPT !["casper"] = iso] /\ newer' = newer \ {"casper"}
  BY GotoFields DEF Pack, MediaInv
<1>2. /\ files' = [m \in Names |-> files'[m]]
      /\ \A m \in Names : files'[m] = IF m = "casper" THEN iso ELSE files[m]
  BY <1>1 DEF SetInv, Names
<1>3. /\ files'["casper"] = iso
      /\ \A m \in {"vmlinuz", "stock"} : files'[m] = files[m]
  BY <1>2 DEF Names
<1>4. StageOK'
  BY <1>1, <1>3 DEF SetInv, StageOK, KernelCached, There
<1>5. Ready(iso)' /\ "date" \notin doubt' => MadeOfIt'
  BY <1>1, <1>3 DEF SetInv, MadeOfIt, Ready, KernelCached, There
<1> QED
  BY <1>2, <1>4, <1>5 DEF SetInv

LEMMA LayerSet == ASSUME MediaInv, SetInv, Layer PROVE SetInv'
<1>1. /\ run.at = "layer" /\ run'.at = "initrd" /\ UNCHANGED <<iso, newer, agents>>
      /\ files' = [files EXCEPT !["layer"] = iso] /\ doubt' = doubt \ {"layer"}
  BY GotoFields DEF Layer, MediaInv
<1>2. Ready(iso) /\ iso # Absent
  BY <1>1, AbsentIsNotReady DEF MediaInv, OriginOK, Working
<1>3. /\ files' = [m \in Names |-> files'[m]]
      /\ files'["layer"] = iso
      /\ \A m \in {"vmlinuz", "stock", "casper"} : files'[m] = files[m]
  BY <1>1 DEF SetInv, Names
<1>4. StageOK'
  BY <1>1, <1>2, <1>3 DEF SetInv, StageOK, KernelCached, CasperCached, There
<1>5. "date" \notin doubt' => MadeOfIt'
  BY <1>1, <1>2, <1>3 DEF SetInv, MadeOfIt, KernelCached, CasperCached, There
<1> QED
  BY <1>3, <1>4, <1>5 DEF SetInv

LEMMA InitrdSet == ASSUME MediaInv, SetInv, Initrd PROVE SetInv'
<1>1. /\ run.at = "initrd" /\ run'.at = "agents" /\ UNCHANGED <<iso, newer, agents, doubt>>
      /\ files' = [files EXCEPT !["initrd"] = files["stock"]]
  BY GotoFields DEF Initrd, MediaInv
<1>2. /\ files' = [m \in Names |-> files'[m]]
      /\ files'["initrd"] = files["stock"]
      /\ \A m \in {"vmlinuz", "stock", "casper", "layer"} : files'[m] = files[m]
  BY <1>1 DEF SetInv, Names
<1>3. StageOK'
  BY <1>1, <1>2 DEF SetInv, StageOK, KernelCached, CasperCached, There
<1>4. Ready(iso)' /\ "date" \notin doubt' => MadeOfIt'
  BY <1>1, <1>2 DEF SetInv, MadeOfIt, Ready, KernelCached, CasperCached, There
<1> QED
  BY <1>2, <1>3, <1>4 DEF SetInv

LEMMA AgentsSet == ASSUME MediaInv, SetInv, Agents PROVE SetInv'
<1>1. run.at = "agents" /\ UNCHANGED <<iso, newer, files, doubt>>
  BY DEF Agents
<1>2. GiveUp \/ (Goto("done") /\ agents' # {})
  BY DEF Agents
<1>3. run'.at = "error" \/ (run'.at = "done" /\ agents' # {})
  BY <1>2, GotoFields, HaltFields DEF GiveUp, MediaInv
<1>4. CASE run'.at = "error"
  BY <1>1, <1>4, StillKeepsSet DEF Early
<1>5. CASE run'.at = "done" /\ agents' # {}
  BY <1>1, <1>5 DEF SetInv, StageOK, MadeOfIt, Ready, KernelCached, CasperCached, There
<1> QED
  BY <1>3, <1>4, <1>5

\* Killed between two files, the run leaves its doubt; killed while it wrote the name of
\* the layer, it may leave none.
LEMMA KillSet == ASSUME SetInv, Kill PROVE SetInv'
<1>1. run'.at = "idle" /\ UNCHANGED <<iso, newer>> /\ doubt' = doubt \cup Mixed
  BY HaltFields DEF Kill
<1>2. CASE UNCHANGED files
  BY <1>1, <1>2, EndsKeepsSet DEF Early
<1>3. CASE run.at = "layer" /\ files' = [files EXCEPT !["layer"] = Absent]
  <2>1. /\ files' = [m \in Names |-> files'[m]]
        /\ files'["layer"] = Absent
        /\ \A m \in {"vmlinuz", "stock", "casper"} : files'[m] = files[m]
    BY <1>3 DEF SetInv, Names
  <2>2. StageOK'
    BY <1>1 DEF StageOK
  <2>3. Ready(iso)' /\ "date" \notin doubt' => MadeOfIt'
    BY <1>1, <1>3, <2>1 DEF SetInv, MadeOfIt, Ready, KernelCached, CasperCached, There
  <2> QED
    BY <2>1, <2>2, <2>3 DEF SetInv
<1> QED
  BY <1>2, <1>3 DEF Kill

\* An ISO the operator brings is the newest file, or its date is in doubt.
LEMMA HandSet == ASSUME SetInv, Hand PROVE SetInv'
<1>1. run'.at = "idle" /\ run.at \in {"idle", "error", "done"} /\ UNCHANGED files
  BY HaltFields DEF Hand
<1>2. StageOK'
  BY <1>1 DEF StageOK
<1>3. CASE newer' = {"vmlinuz", "casper"}
  BY <1>1, <1>3, PlaceKeepsSet DEF Early
<1>4. CASE "date" \in doubt' \/ iso' = Absent
  BY <1>1, <1>2, <1>4, AbsentIsNotReady DEF SetInv, Ready
<1>5. CASE UNCHANGED <<iso, newer, doubt>>
  BY <1>1, <1>5, StillKeepsSet DEF Early
<1> QED
  BY <1>3, <1>4, <1>5 DEF Hand, Place

LEMMA SetStep == MediaInv /\ SetInv /\ [MediaNext]_mediaVars => SetInv'
<1> SUFFICES ASSUME MediaInv, SetInv, [MediaNext]_mediaVars PROVE SetInv'
  OBVIOUS
<1>1. CASE UNCHANGED mediaVars
  BY <1>1 DEF mediaVars, SetInv, StageOK, MadeOfIt, Ready, KernelCached, CasperCached, There
<1>2. CASE MediaNext
  BY <1>2, StartSet, PlaceSet, VerifySet, KernelCheckSet, ExtractSet, ExternalSet, CasperSet,
     PackSet, LayerSet, InitrdSet, AgentsSet, KillSet, HandSet
  DEF MediaNext
<1> QED
  BY <1>1, <1>2

LEMMA SetInitInv == MediaInit => SetInv
<1> SUFFICES ASSUME MediaInit PROVE SetInv
  OBVIOUS
<1>1. run.at = "idle" /\ ~Ready(iso)
  BY HaltFields, AbsentIsNotReady DEF MediaInit
<1> QED
  BY <1>1 DEF MediaInit, SetInv, StageOK

\* A run that ends well leaves files that were made from one ISO, the one that is there,
\* but for the three doubts that a kill, another tool and an old date leave
\* (bootstrap.go: the dates of vmlinuz and casper.iso tell what is to be made anew).
THEOREM AlwaysBootSetWhole == MediaSpec => []BootSetWhole
<1>1. MediaInv /\ SetInv => BootSetWhole
  <2> SUFFICES ASSUME MediaInv, SetInv, run.at = "done"
               PROVE  /\ agents # {} /\ files["initrd"] = files["stock"]
                      /\ "date" \notin doubt =>
                           /\ "kernel" \notin doubt => files["vmlinuz"] = iso /\ files["stock"] = iso
                           /\ files["casper"] = iso
                           /\ "layer" \notin doubt => files["layer"] = iso
    BY DEF BootSetWhole
  <2>1. Ready(iso) /\ CasperCached /\ (KernelCached \/ "kernel" \in doubt)
        /\ agents # {} /\ files["initrd"] = files["stock"]
    BY DEF MediaInv, OriginOK, Working, SetInv, StageOK
  <2> QED
    BY <2>1 DEF SetInv, MadeOfIt, KernelCached, CasperCached, There
<1> QED
  BY <1>1, MediaInitInv, SetInitInv, MediaStep, SetStep, PTL DEF MediaSpec

-----------------------------------------------------------------------------
(* The inspection of a Windows medium: numbers.                            *)

LEMMA MinIsThere ==
  ASSUME NEW S \in SUBSET Nat, S # {}
  PROVE  Min(S) \in S /\ \A y \in S : Min(S) <= y
<1>1. PICK a \in S : \A b \in S : <<b, a>> \notin OpToRel(<, Nat)
  BY NatLessThanWellFounded, WFMin
<1>2. \A b \in S : ~(b < a)
  BY <1>1, Zenon DEF OpToRel
<1>3. \A b \in S : a <= b
  BY <1>2
<1> QED
  BY <1>3 DEF Min

\* Of some numbers up to n one is the greatest.
LEMMA GreatestUpTo ==
  ASSUME NEW n \in Nat, NEW S \in SUBSET (0 .. n), S # {}
  PROVE  \E x \in S : \A y \in S : y <= x
<1> DEFINE T == {n - x : x \in S}
<1>1. T \in SUBSET Nat
  OBVIOUS
<1>2. T # {}
  OBVIOUS
<1> HIDE DEF T
<1>3. Min(T) \in T /\ \A b \in T : Min(T) <= b
  BY <1>1, <1>2, MinIsThere
<1> USE DEF T
<1>4. PICK x \in S : Min(T) = n - x
  BY <1>3
<1>5. ASSUME NEW y \in S PROVE y <= x
  <2>1. n - y \in T
    OBVIOUS
  <2>2. n - x <= n - y
    BY <1>3, <1>4, <2>1
  <2> QED
    BY <2>2
<1> QED
  BY <1>5

\* The size of a WIM is a number, and not more than what is left of the medium.
LEMMA SpanFits ==
  ASSUME medium \in Media, NEW w \in medium.wims, Complete(w)
  PROVE  Span(w) \in Nat /\ Span(w) <= medium.size
<1> DEFINE a == w.header
           b == w.table
           c == medium.size - w.at
           m == Max({Magic, a, b})
<1>1. a \in Nat /\ b \in Nat /\ w.at \in Nat /\ medium.size \in Nat /\ Magic \in Nat
  BY MediaAreMedia, MagicIsShort
<1>2. c \in Nat /\ c <= medium.size
  BY <1>1 DEF Complete
<1>3. m \in {Magic, a, b}
  <2> HIDE DEF a, b
  <2>1. \E x \in {Magic, a, b} : \A y \in {Magic, a, b} : x >= y
    BY <1>1
  <2> QED
    BY <2>1 DEF Max
<1>4. m \in Nat
  BY <1>1, <1>3
<1>5. Span(w) = Min({m, c})
  BY DEF Span
<1> HIDE DEF m, c
<1>6. {m, c} \in SUBSET Nat /\ {m, c} # {}
  BY <1>2, <1>4
<1>7. Min({m, c}) \in {m, c} /\ \A y \in {m, c} : Min({m, c}) <= y
  BY <1>6, MinIsThere
<1>8. Span(w) \in Nat /\ Span(w) <= c
  BY <1>2, <1>4, <1>5, <1>7
<1> QED
  BY <1>1, <1>2, <1>8

-----------------------------------------------------------------------------
(* The chunks.                                                             *)

Starts == {w.at : w \in {v \in medium.wims : Complete(v)}}
Rising(s) == \A i, j \in DOMAIN s : i < j => s[i] < s[j]

InspectTypeOK ==
  /\ medium \in Media
  /\ off \in Nat /\ start \in Nat /\ off <= start
  /\ hits \in Seq(Nat)
  /\ scan \in {"open", "chunks", "extents", "done"}

\* What was searched was searched for good: the hits are the magics before the place
\* where the search goes on, in their order.
ChunkInv ==
  /\ Rising(hits)
  /\ \A i \in DOMAIN hits : hits[i] \in Starts /\ hits[i] < start /\ hits[i] < off + Step
  /\ \A p \in Starts : p < start => \E i \in DOMAIN hits : hits[i] = p

LEMMA StartsAreNat ==
  ASSUME medium \in Media
  PROVE  /\ medium.size \in Nat /\ Starts \subseteq Nat
         /\ \A p \in Starts : p + Magic <= medium.size
         /\ \A w \in medium.wims : w.at \in Nat
BY MediaAreMedia DEF Starts, Complete

\* The end of the chunk, which the medium may cut.
LEMMA ChunkEnd ==
  ASSUME InspectTypeOK
  PROVE  /\ InChunk \in SUBSET Nat
         /\ \A p : p \in InChunk <=> p \in Starts /\ p >= start /\ p + Magic <= off + Chunk
<1> DEFINE end == Min({off + Chunk, medium.size})
<1>1. off + Chunk \in Nat /\ medium.size \in Nat /\ Magic \in Nat
  BY StartsAreNat, MagicIsShort DEF InspectTypeOK
<1>2. end \in {off + Chunk, medium.size} /\ end <= off + Chunk /\ end <= medium.size
  BY <1>1, MinIsThere
<1>3. InChunk = {w.at : w \in {v \in medium.wims : v.at >= start /\ v.at + Magic <= end}}
  BY DEF InChunk
<1> HIDE DEF end
<1>4. \A w \in medium.wims : w.at \in Nat
  BY StartsAreNat DEF InspectTypeOK
<1>5. \A n \in Nat : n + Magic <= end <=> n + Magic <= off + Chunk /\ n + Magic <= medium.size
  BY <1>1, <1>2
<1> QED
  BY <1>3, <1>4, <1>5 DEF Starts, Complete

\* One more number above all of a rising sequence.
LEMMA RisingAppend ==
  ASSUME NEW s \in Seq(Nat), Rising(s), NEW p \in Nat, \A i \in DOMAIN s : s[i] < p
  PROVE  /\ Append(s, p) \in Seq(Nat) /\ Rising(Append(s, p))
         /\ \A i \in DOMAIN Append(s, p) : Append(s, p)[i] = p \/ \E j \in DOMAIN s : Append(s, p)[i] = s[j]
         /\ \E i \in DOMAIN Append(s, p) : Append(s, p)[i] = p
         /\ \A j \in DOMAIN s : \E i \in DOMAIN Append(s, p) : Append(s, p)[i] = s[j]
<1> DEFINE t == Append(s, p)
<1>1. /\ t \in Seq(Nat) /\ Len(t) = Len(s) + 1 /\ t[Len(s) + 1] = p
      /\ \A i \in 1 .. Len(s) : t[i] = s[i]
  BY AppendProperties
<1>2. Len(s) \in Nat /\ DOMAIN s = 1 .. Len(s)
  BY LenProperties
<1>3. DOMAIN t = 1 .. Len(s) + 1
  BY <1>1, LenProperties
<1> HIDE DEF t
<1>4. ASSUME NEW i \in DOMAIN t, NEW j \in DOMAIN t, i < j PROVE t[i] < t[j]
  <2>1. i \in DOMAIN s
    BY <1>2, <1>3, <1>4
  <2>2. CASE j \in DOMAIN s
    BY <1>1, <1>2, <1>4, <2>1, <2>2 DEF Rising
  <2>3. CASE j = Len(s) + 1
    BY <1>1, <1>2, <2>1, <2>3
  <2> QED
    BY <1>2, <1>3, <2>2, <2>3
<1>5. Rising(t)
  BY <1>4 DEF Rising
<1>6. \A i \in DOMAIN t : t[i] = p \/ \E j \in DOMAIN s : t[i] = s[j]
  BY <1>1, <1>2, <1>3
<1>7. (\E i \in DOMAIN t : t[i] = p) /\ \A j \in DOMAIN s : \E i \in DOMAIN t : t[i] = s[j]
  <2>1. Len(s) + 1 \in DOMAIN t /\ DOMAIN s \subseteq DOMAIN t
    BY <1>2, <1>3
  <2> QED
    BY <1>1, <1>2, <2>1
<1> QED
  BY <1>1, <1>5, <1>6, <1>7 DEF t

LEMMA StepIsNat == Step \in Nat /\ Step = Chunk - Magic + 1 /\ Magic \in Nat /\ Chunk \in Nat /\ Magic > 0
BY MagicIsShort DEF Step

\* A hit that is found is a new one, behind all others.
LEMMA HitFound ==
  ASSUME InspectTypeOK, ChunkInv, FindHit
  PROVE  InspectTypeOK' /\ ChunkInv'
<1> DEFINE pos == Min(InChunk)
<1>1. /\ medium' = medium /\ off' = off /\ exts' = exts /\ scan' = scan /\ InChunk # {}
      /\ hits' = (IF hits = <<>> \/ Last(hits) # pos THEN Append(hits, pos) ELSE hits)
      /\ start' = pos + 1
  BY DEF FindHit
<1>2. pos \in InChunk /\ \A p \in InChunk : pos <= p
  BY <1>1, ChunkEnd, MinIsThere
<1> HIDE DEF pos
<1>3. pos \in Nat /\ pos \in Starts /\ pos >= start /\ pos + Magic <= off + Chunk
  BY <1>2, ChunkEnd
<1>4. medium \in Media /\ hits \in Seq(Nat) /\ off \in Nat /\ start \in Nat /\ off <= start
  BY DEF InspectTypeOK
<1>5. Len(hits) \in Nat /\ DOMAIN hits = 1 .. Len(hits)
  BY <1>4, LenProperties
<1>6. \A i \in DOMAIN hits : hits[i] \in Nat /\ hits[i] < pos
  BY <1>3, <1>4, <1>5, ElementOfSeq DEF ChunkInv
<1>7. hits' = Append(hits, pos)
  <2>1. hits # <<>> => Len(hits) \in DOMAIN hits
    BY <1>4, <1>5, EmptySeq
  <2> QED
    BY <1>1, <1>3, <1>6, <2>1 DEF Last
<1>8. /\ hits' \in Seq(Nat) /\ Rising(hits')
      /\ \A i \in DOMAIN hits' : hits'[i] = pos \/ \E j \in DOMAIN hits : hits'[i] = hits[j]
      /\ \E i \in DOMAIN hits' : hits'[i] = pos
      /\ \A j \in DOMAIN hits : \E i \in DOMAIN hits' : hits'[i] = hits[j]
  <2>1. Rising(hits) /\ \A i \in DOMAIN hits : hits[i] < pos
    BY <1>6 DEF ChunkInv
  <2>2. /\ Append(hits, pos) \in Seq(Nat) /\ Rising(Append(hits, pos))
        /\ \A i \in DOMAIN Append(hits, pos) :
             Append(hits, pos)[i] = pos \/ \E j \in DOMAIN hits : Append(hits, pos)[i] = hits[j]
        /\ \E i \in DOMAIN Append(hits, pos) : Append(hits, pos)[i] = pos
        /\ \A j \in DOMAIN hits : \E i \in DOMAIN Append(hits, pos) : Append(hits, pos)[i] = hits[j]
    BY <1>3, <1>4, <2>1, RisingAppend, Zenon
  <2> QED
    BY <1>7, <2>2, Zenon
<1>9. InspectTypeOK'
  BY <1>1, <1>3, <1>4, <1>8 DEF InspectTypeOK
<1>10. Starts' = Starts
  BY <1>1 DEF Starts, Complete
<1>11. ASSUME NEW i \in DOMAIN hits' PROVE hits'[i] \in Starts /\ hits'[i] < start' /\ hits'[i] < off + Step
  <2>1. pos < start' /\ pos < off + Step
    BY <1>1, <1>3, <1>4, StepIsNat
  <2>2. \A j \in DOMAIN hits : hits[j] < start' /\ hits[j] < off + Step /\ hits[j] \in Starts
    BY <1>1, <1>3, <1>6 DEF ChunkInv
  <2> QED
    BY <1>3, <1>8, <2>1, <2>2
<1>12. ASSUME NEW p \in Starts, p < start' PROVE \E i \in DOMAIN hits' : hits'[i] = p
  <2>1. p \in Nat
    BY <1>4, StartsAreNat
  <2>2. CASE p < start
    BY <1>8, <2>2 DEF ChunkInv
  <2>3. CASE p >= start
    <3>1. p + Magic <= off + Chunk
      BY <1>1, <1>3, <1>4, <1>12, <2>1, StepIsNat
    <3>2. p \in InChunk
      BY <2>3, <3>1, ChunkEnd
    <3>3. p = pos
      BY <1>1, <1>2, <1>3, <1>12, <2>1, <3>2
    <3> QED
      BY <1>8, <3>3
  <2> QED
    BY <1>4, <2>1, <2>2, <2>3
<1> QED
  BY <1>1, <1>8, <1>9, <1>10, <1>11, <1>12 DEF ChunkInv

\* What crosses the end of a chunk lies in the next one as a whole.
LEMMA ChunkDone ==
  ASSUME InspectTypeOK, ChunkInv, NextChunk
  PROVE  InspectTypeOK' /\ ChunkInv'
<1>1. /\ medium' = medium /\ hits' = hits /\ scan' = scan /\ InChunk = {}
      /\ off' = off + Step /\ start' = off + Step
  BY DEF NextChunk
<1>2. medium \in Media /\ hits \in Seq(Nat) /\ off \in Nat /\ start \in Nat /\ off <= start
  BY DEF InspectTypeOK
<1>3. InspectTypeOK'
  BY <1>1, <1>2, StepIsNat DEF InspectTypeOK
<1>4. Starts' = Starts /\ Step' = Step
  BY <1>1 DEF Starts, Complete, Step
<1>5. ASSUME NEW i \in DOMAIN hits PROVE hits[i] \in Starts /\ hits[i] < start' /\ hits[i] < off' + Step
  <2>1. hits[i] \in Starts /\ hits[i] < off + Step
    BY DEF ChunkInv
  <2>2. hits[i] \in Nat
    BY <1>2, <2>1, StartsAreNat
  <2> QED
    BY <1>1, <1>2, <2>1, <2>2, StepIsNat
<1>6. ASSUME NEW p \in Starts, p < start' PROVE \E i \in DOMAIN hits : hits[i] = p
  <2>1. p \in Nat
    BY <1>2, StartsAreNat
  <2>2. p + Magic <= off + Chunk
    BY <1>1, <1>2, <1>6, <2>1, StepIsNat
  <2>3. ~(p >= start)
    BY <1>1, <2>2, ChunkEnd
  <2> QED
    BY <1>2, <2>1, <2>3 DEF ChunkInv
<1> QED
  BY <1>1, <1>3, <1>4, <1>5, <1>6 DEF ChunkInv
-----------------------------------------------------------------------------
(* The WIMs.                                                               *)

Entire(w) == w \in medium.wims /\ Complete(w)
Taken(w) == \E i \in DOMAIN exts : exts[i] = Extent(w)
Extents == {Extent(w) : w \in {v \in medium.wims : Complete(v) /\ v.valid}}
ToCome(p) == \E i \in DOMAIN hits : hits[i] = p

ExtsOK ==
  /\ exts \in Seq(Extents)
  /\ \A i, j \in DOMAIN exts : i < j => exts[i].offset < exts[j].offset

\* Of the hits that were looked at, those that are no WIM and those inside of one are
\* passed over; all others are to come, and behind them.
ExtentInv ==
  /\ Rising(hits) /\ \A i \in DOMAIN hits : hits[i] \in Starts
  /\ ExtsOK
  /\ \A i \in DOMAIN exts, j \in DOMAIN hits : exts[i].offset < hits[j]
  /\ \A p \in Starts : ToCome(p) \/ \A j \in DOMAIN hits : p < hits[j]
  /\ \A w : Entire(w) /\ ~ToCome(w.at) => (Taken(w) <=> w.valid /\ ~Covered(w.at))

LEMMA ExtentFields ==
  ASSUME NEW w
  PROVE  Extent(w).offset = w.at /\ Extent(w).size = Span(w)
BY DEF Extent

LEMMA ExtHere ==
  ASSUME medium \in Media, exts \in Seq(Extents), NEW i \in DOMAIN exts
  PROVE  /\ \E w \in medium.wims : Complete(w) /\ w.valid /\ exts[i] = Extent(w)
         /\ exts[i].offset \in Nat /\ exts[i].size \in 0 .. medium.size
<1>1. exts[i] \in Extents
  BY LenProperties, ElementOfSeq
<1>2. PICK w \in medium.wims : Complete(w) /\ w.valid /\ exts[i] = Extent(w)
  BY <1>1 DEF Extents
<1>3. w.at \in Nat /\ Span(w) \in 0 .. medium.size
  BY <1>2, SpanFits, StartsAreNat
<1> QED
  BY <1>2, <1>3, ExtentFields

\* The chunks leave every magic of the medium to be looked at.
LEMMA ChunksDone ==
  ASSUME InspectTypeOK, ChunkInv, exts = <<>>, ChunksEnd
  PROVE  ExtentInv'
<1>1. UNCHANGED <<medium, hits, exts>> /\ off >= medium.size
  BY DEF ChunksEnd
<1>2. medium \in Media /\ off \in Nat /\ start \in Nat /\ off <= start
  BY DEF InspectTypeOK
<1>3. \A p \in Starts : ToCome(p)
  <2>1. ASSUME NEW p \in Starts PROVE p < start
    <3>1. p \in Nat /\ p + Magic <= medium.size /\ medium.size \in Nat
      BY <1>2, StartsAreNat
    <3> QED
      BY <1>1, <1>2, <3>1, StepIsNat
  <2> QED
    BY <2>1 DEF ChunkInv, ToCome
<1>4. \A w : Entire(w) => w.at \in Starts
  BY DEF Entire, Starts
<1>5. exts \in Seq(Extents) /\ DOMAIN exts = {}
  BY EmptySeq, LenProperties
<1>6. ExtentInv
  BY <1>3, <1>4, <1>5 DEF ExtentInv, ExtsOK, ChunkInv
<1>7. UNCHANGED <<Starts, Extents>> /\ \A w : Entire(w)' = Entire(w)
  BY <1>1 DEF Starts, Extents, Entire, Complete, Extent, Span
<1>8. \A w : Taken(w)' = Taken(w) /\ ToCome(w.at)' = ToCome(w.at) /\ Covered(w.at)' = Covered(w.at)
  BY <1>1 DEF Taken, ToCome, Covered, Extent, Span
<1>9. \A p : ToCome(p)' = ToCome(p)
  BY <1>1 DEF ToCome
<1> QED
  BY <1>1, <1>6, <1>7, <1>8, <1>9 DEF ExtentInv, ExtsOK

LEMMA RisingTail ==
  ASSUME NEW s \in Seq(Nat), s # <<>>, Rising(s)
  PROVE  /\ Tail(s) \in Seq(Nat) /\ Rising(Tail(s)) /\ Head(s) \in Nat
         /\ \E i \in DOMAIN s : s[i] = Head(s)
         /\ \A i \in DOMAIN Tail(s) : Head(s) < Tail(s)[i] /\ \E j \in DOMAIN s : Tail(s)[i] = s[j]
         /\ \A j \in DOMAIN s : s[j] = Head(s) \/ \E i \in DOMAIN Tail(s) : Tail(s)[i] = s[j]
<1> DEFINE t == Tail(s)
<1>1. /\ t \in Seq(Nat) /\ Len(t) = Len(s) - 1 /\ Head(s) = s[1] /\ Head(s) \in Nat
      /\ \A i \in 1 .. Len(t) : t[i] = s[i + 1]
  BY HeadTailProperties
<1>2. Len(s) \in Nat /\ Len(s) > 0 /\ DOMAIN s = 1 .. Len(s) /\ DOMAIN t = 1 .. Len(t)
  BY <1>1, LenProperties, EmptySeq
<1> HIDE DEF t
<1>3. ASSUME NEW i \in DOMAIN t
      PROVE  i + 1 \in DOMAIN s /\ t[i] = s[i + 1] /\ Head(s) < t[i]
  <2>1. i \in 1 .. Len(t) /\ t[i] = s[i + 1]
    BY <1>1, <1>2
  <2>2. Len(s) \in Nat /\ Len(s) > 0 /\ Len(t) = Len(s) - 1
    BY <1>1, <1>2
  <2>3. i + 1 \in 1 .. Len(s) /\ 1 \in 1 .. Len(s) /\ 1 < i + 1
    BY <2>1, <2>2
  <2>4. i + 1 \in DOMAIN s /\ 1 \in DOMAIN s
    BY <1>2, <2>3
  <2>5. s[1] < s[i + 1]
    BY <2>3, <2>4 DEF Rising
  <2> QED
    BY <1>1, <2>1, <2>4, <2>5
<1>4. Rising(t)
  <2>1. ASSUME NEW i \in DOMAIN t, NEW j \in DOMAIN t, i < j PROVE t[i] < t[j]
    <3>1. i + 1 < j + 1
      BY <1>2, <2>1
    <3> QED
      BY <1>3, <3>1 DEF Rising
  <2> QED
    BY <2>1 DEF Rising
<1>5. ASSUME NEW j \in DOMAIN s PROVE s[j] = Head(s) \/ \E i \in DOMAIN t : t[i] = s[j]
  <2>1. CASE j = 1
    BY <1>1, <2>1
  <2>2. CASE j > 1
    <3>1. Len(s) \in Nat /\ Len(t) = Len(s) - 1 /\ j \in 1 .. Len(s)
      BY <1>1, <1>2
    <3>2. j - 1 \in 1 .. Len(t) /\ (j - 1) + 1 = j
      BY <2>2, <3>1
    <3>3. j - 1 \in DOMAIN t
      BY <1>2, <3>2
    <3>4. t[j - 1] = s[(j - 1) + 1]
      BY <1>1, <3>2
    <3> QED
      BY <3>2, <3>3, <3>4
  <2>3. j \in 1 .. Len(s) /\ Len(s) \in Nat
    BY <1>2
  <2> QED
    BY <2>1, <2>2, <2>3
<1>6. \E i \in DOMAIN s : s[i] = Head(s)
  <2>1. 1 \in 1 .. Len(s)
    BY <1>2
  <2>2. 1 \in DOMAIN s
    BY <1>2, <2>1
  <2> QED
    BY <1>1, <2>2
<1> QED
  BY <1>1, <1>3, <1>4, <1>5, <1>6 DEF t

\* A hit is taken or passed over for good: what comes later cannot cover it.
LEMMA HitTaken ==
  ASSUME InspectTypeOK, ExtentInv, TakeHit
  PROVE  ExtentInv'
<1> DEFINE pos == Head(hits)
           w == CHOOSE v \in medium.wims : v.at = pos
           takes == ~Covered(pos) /\ w.valid
<1>1. /\ UNCHANGED medium /\ hits # <<>> /\ hits' = Tail(hits)
      /\ exts' = IF takes THEN Append(exts, Extent(w)) ELSE exts
  BY DEF TakeHit
<1>2. medium \in Media /\ hits \in Seq(Nat)
  BY DEF InspectTypeOK
<1>3. /\ hits' \in Seq(Nat) /\ Rising(hits') /\ pos \in Nat
      /\ \E i \in DOMAIN hits : hits[i] = pos
      /\ \A i \in DOMAIN hits' : pos < hits'[i] /\ \E j \in DOMAIN hits : hits'[i] = hits[j]
      /\ \A j \in DOMAIN hits : hits[j] = pos \/ \E i \in DOMAIN hits' : hits'[i] = hits[j]
  BY <1>1, <1>2, RisingTail, Zenon DEF ExtentInv
<1>4. pos \in Starts /\ \A i \in DOMAIN exts : exts[i].offset < pos
  BY <1>3 DEF ExtentInv
<1>5. w \in medium.wims /\ w.at = pos /\ \A v \in medium.wims : v.at = pos => v = w
  <2>1. \E v \in medium.wims : v.at = pos
    BY <1>4 DEF Starts
  <2>2. w \in medium.wims /\ w.at = pos
    BY <2>1
  <2> QED
    BY <1>2, <2>2, MediaAreMedia
<1> HIDE DEF pos, w
<1>6. Complete(w)
  BY <1>4, <1>5 DEF Starts
<1>7. /\ UNCHANGED <<Starts, Extents>> /\ \A v : Entire(v)' = Entire(v)
      /\ \A v : Extent(v)' = Extent(v)
  BY <1>1 DEF Starts, Extents, Entire, Complete, Extent, Span
<1>8. ExtsOK /\ DOMAIN exts = 1 .. Len(exts) /\ Len(exts) \in Nat
  BY LenProperties DEF ExtentInv, ExtsOK
<1>9. takes => Extent(w) \in Extents
  BY <1>5, <1>6 DEF Extents
<1>10. takes =>
         /\ exts' \in Seq(Extents) /\ DOMAIN exts' = 1 .. Len(exts) + 1
         /\ exts'[Len(exts) + 1] = Extent(w)
         /\ \A i \in DOMAIN exts : exts'[i] = exts[i]
  <2>1. ASSUME takes
        PROVE  /\ exts' \in Seq(Extents) /\ Len(exts') = Len(exts) + 1
               /\ exts'[Len(exts) + 1] = Extent(w)
               /\ \A i \in DOMAIN exts : exts'[i] = exts[i]
    BY <1>1, <1>8, <1>9, <2>1, AppendProperties DEF ExtsOK
  <2> QED
    BY <2>1, LenProperties
<1>11. Extent(w).offset = pos
  BY <1>5, ExtentFields
\* What is taken afterwards, and where.
<1>12. \A e : (\E i \in DOMAIN exts' : exts'[i] = e) <=>
              (\E i \in DOMAIN exts : exts[i] = e) \/ (takes /\ e = Extent(w))
  <2>1. CASE takes
    <3>1. DOMAIN exts \subseteq DOMAIN exts' /\ Len(exts) + 1 \in DOMAIN exts'
      BY <1>8, <1>10, <2>1
    <3>2. \A i \in DOMAIN exts' : i \in DOMAIN exts \/ i = Len(exts) + 1
      BY <1>8, <1>10, <2>1
    <3> HIDE DEF takes
    <3> QED
      BY <1>10, <2>1, <3>1, <3>2
  <2>2. CASE ~takes
    BY <1>1, <2>2
  <2> QED
    BY <2>1, <2>2
<1>13. ExtsOK'
  <2>1. CASE takes
    <3>1. ASSUME NEW i \in DOMAIN exts', NEW j \in DOMAIN exts', i < j
          PROVE  exts'[i].offset < exts'[j].offset
      <4>1. i \in DOMAIN exts
        BY <1>8, <1>10, <2>1, <3>1
      <4>2. CASE j \in DOMAIN exts
        BY <1>8, <1>10, <2>1, <3>1, <4>1, <4>2 DEF ExtsOK
      <4>3. CASE j = Len(exts) + 1
        BY <1>4, <1>10, <1>11, <2>1, <4>1, <4>3
      <4> QED
        BY <1>8, <1>10, <2>1, <4>2, <4>3
    <3> HIDE DEF takes
    <3> QED
      BY <1>7, <1>10, <2>1, <3>1 DEF ExtsOK
  <2>2. CASE ~takes
    BY <1>1, <1>7, <1>8, <2>2 DEF ExtsOK
  <2> QED
    BY <2>1, <2>2
<1> HIDE DEF takes
<1>14. ASSUME NEW i \in DOMAIN exts' PROVE exts'[i].offset \in Nat /\ exts'[i].offset <= pos
  <2>1. (\E k \in DOMAIN exts : exts[k] = exts'[i]) \/ exts'[i] = Extent(w)
    BY <1>12
  <2>2. \A k \in DOMAIN exts : exts[k].offset \in Nat /\ exts[k].offset <= pos
    BY <1>2, <1>3, <1>4, <1>8, ExtHere DEF ExtsOK
  <2> QED
    BY <1>3, <1>11, <2>1, <2>2
<1>15. \A i \in DOMAIN exts', j \in DOMAIN hits' : exts'[i].offset < hits'[j]
  <2>1. \A j \in DOMAIN hits' : hits'[j] \in Nat
    BY <1>3, LenProperties, ElementOfSeq
  <2> QED
    BY <1>3, <1>14, <2>1
<1>16. \A p : p # pos /\ ToCome(p) => ToCome(p)'
  BY <1>3 DEF ToCome
<1>17. \A p : ToCome(p)' => ToCome(p) /\ p # pos
  BY <1>3 DEF ToCome
<1>18. \A p \in Starts : ToCome(p)' \/ \A j \in DOMAIN hits' : p < hits'[j]
  <2>1. \A p \in Starts : ToCome(p) \/ \A j \in DOMAIN hits : p < hits[j]
    BY DEF ExtentInv
  <2> QED
    BY <1>3, <1>16, <2>1
<1>19. ASSUME NEW p \in Nat, p <= pos PROVE Covered(p)' <=> Covered(p)
  <2>1. \A e : (takes /\ e = Extent(w)) => ~(e.offset < p)
    BY <1>3, <1>11, <1>19
  <2>2. Covered(p)' <=> \E e : (\E i \in DOMAIN exts' : exts'[i] = e) /\ e.offset < p /\ p < e.offset + e.size
    BY DEF Covered
  <2>3. Covered(p) <=> \E e : (\E i \in DOMAIN exts : exts[i] = e) /\ e.offset < p /\ p < e.offset + e.size
    BY DEF Covered
  <2> QED
    BY <1>12, <2>1, <2>2, <2>3, Zenon
<1>20. ASSUME NEW v, Entire(v), ~ToCome(v.at)' PROVE Taken(v)' <=> v.valid /\ ~Covered(v.at)'
  <2>1. v \in medium.wims /\ v.at \in Nat /\ v.at \in Starts
    BY <1>2, <1>20, StartsAreNat DEF Entire, Starts
  <2>2. Taken(v)' <=> Taken(v) \/ (takes /\ Extent(v) = Extent(w))
    BY <1>7, <1>12 DEF Taken
  <2>3. CASE v.at = pos
    <3>1. v = w
      BY <1>5, <2>1, <2>3
    <3>2. ~Taken(v)
      BY <1>3, <1>4, <2>3, ExtentFields DEF Taken
    <3>3. Covered(v.at)' <=> Covered(pos)
      BY <1>3, <1>19, <2>3
    <3> QED
      BY <2>2, <3>1, <3>2, <3>3 DEF takes
  <2>4. CASE v.at # pos
    <3>1. ~ToCome(v.at)
      BY <1>16, <1>20, <2>4
    <3>2. Taken(v) <=> v.valid /\ ~Covered(v.at)
      BY <1>20, <3>1 DEF ExtentInv
    <3>3. v.at < pos
      BY <1>3, <2>1, <3>1 DEF ExtentInv
    <3>4. Covered(v.at)' <=> Covered(v.at)
      BY <1>3, <1>19, <2>1, <3>3
    <3>5. Extent(v) # Extent(w)
      BY <1>5, <2>4, ExtentFields
    <3> QED
      BY <2>2, <3>2, <3>4, <3>5
  <2> QED
    BY <2>3, <2>4
<1>21. \A i \in DOMAIN hits' : hits'[i] \in Starts
  BY <1>3 DEF ExtentInv
<1> QED
  BY <1>3, <1>7, <1>13, <1>15, <1>18, <1>20, <1>21 DEF ExtentInv
-----------------------------------------------------------------------------
(* The choice.                                                             *)

\* The first WIM that holds WinPE, if there is one.
LEMMA BootIsOne ==
  ASSUME exts \in Seq(Extents)
  PROVE  /\ Boot \subseteq DOMAIN exts
         /\ \A i, j \in Boot : i = j
<1> DEFINE B == Places(IsBootWIM)
<1>1. B \subseteq DOMAIN exts
  BY DEF Places
<1>2. DOMAIN exts \subseteq Nat
  BY LenProperties
<1>3. Boot = IF B = {} THEN {} ELSE {Min(B)}
  BY DEF Boot
<1> HIDE DEF B
<1>4. B # {} => Min(B) \in B
  BY <1>1, <1>2, MinIsThere
<1> QED
  BY <1>1, <1>3, <1>4

\* None but WinPE is larger than what is installed.
LEMMA InstallIsLargest ==
  ASSUME medium \in Media, ExtsOK, exts # <<>>, NEW k \in Install
  PROVE  /\ k \in DOMAIN exts
         /\ \A i \in DOMAIN exts : i \in Boot \/ exts[i].size <= exts[k].size
         /\ k \in Boot => Len(exts) = 1
<1>1. exts \in Seq(Extents) /\ DOMAIN exts = 1 .. Len(exts) /\ Len(exts) \in Nat /\ Len(exts) > 0
  BY LenProperties, EmptySeq DEF ExtsOK
<1>2. Boot \subseteq DOMAIN exts /\ \A i, j \in Boot : i = j
  BY <1>1, BootIsOne
<1>3. medium.size \in Nat /\ \A i \in DOMAIN exts : exts[i].size \in 0 .. medium.size
  BY <1>1, ExtHere, StartsAreNat
<1> DEFINE rest == DOMAIN exts \ Boot
           largest == {i \in rest : \A j \in rest : exts[j].size <= exts[i].size}
<1>4. Install = IF rest = {} THEN {Len(exts)} ELSE {Min(largest)}
  BY Zenon DEF Install
<1>5. CASE rest = {}
  <2>1. k = Len(exts) /\ DOMAIN exts = Boot
    BY <1>2, <1>4, <1>5
  <2>2. 1 \in Boot /\ Len(exts) \in Boot
    BY <1>1, <2>1
  <2>3. Len(exts) = 1
    BY <1>2, <2>2
  <2> QED
    BY <1>1, <2>1, <2>2, <2>3
<1>6. CASE rest # {}
  <2> DEFINE sizes == {exts[i].size : i \in rest}
  <2>1. sizes \in SUBSET (0 .. medium.size)
    BY <1>3
  <2>2. sizes # {}
    BY <1>6
  <2>3. PICK x \in sizes : \A y \in sizes : y <= x
    <3> HIDE DEF sizes
    <3> QED
      BY <1>3, <2>1, <2>2, GreatestUpTo
  <2>4. largest # {}
    BY <2>3
  <2>5. largest \in SUBSET Nat
    BY <1>1
  <2>6. k = Min(largest)
    BY <1>4, <1>6
  <2>7. k \in largest
    <3> HIDE DEF largest
    <3> QED
      BY <2>4, <2>5, <2>6, MinIsThere
  <2> QED
    BY <2>7
<1> QED
  BY <1>5, <1>6

LEMMA MediumJudged ==
  ASSUME InspectTypeOK, ExtentInv, Judge
  PROVE  MediumIsRead'
<1>1. /\ UNCHANGED <<medium, exts>> /\ hits = <<>>
      /\ pick' = IF Windows
                 THEN [format |-> "iso", boot |-> {exts[i] : i \in Boot}, install |-> {exts[i] : i \in Install}]
                 ELSE [NoPick EXCEPT !.format = "disk"]
  BY DEF Judge
<1>2. medium \in Media /\ ExtsOK /\ exts \in Seq(Extents)
  BY DEF InspectTypeOK, ExtentInv, ExtsOK
<1>3. \A w : Entire(w) => (Taken(w) <=> w.valid /\ ~Covered(w.at))
  <2>1. DOMAIN hits = {}
    BY <1>1, EmptySeq, LenProperties
  <2> QED
    BY <2>1 DEF ExtentInv, ToCome
<1> DEFINE Clear == {v \in medium.wims : v.valid /\ Complete(v) /\ ~Covered(v.at)}
           Left == {Extent(w) : w \in Clear}
<1>4. ToSet(exts) = Left
  <2>1. ASSUME NEW i \in DOMAIN exts PROVE exts[i] \in Left
    <3>1. PICK w \in medium.wims : Complete(w) /\ exts[i] = Extent(w)
      BY <1>2, ExtHere
    <3>2. w \in Clear
      BY <1>3, <3>1 DEF Entire, Taken
    <3> QED
      BY <3>1, <3>2
  <2>2. ASSUME NEW w \in Clear PROVE \E i \in DOMAIN exts : exts[i] = Extent(w)
    BY <1>3 DEF Entire, Taken
  <2> HIDE DEF Clear
  <2> QED
    BY <2>1, <2>2 DEF ToSet
<1>5. ASSUME NEW e \in pick'.install
      PROVE  /\ e \in pick'.boot => Len(exts) = 1
             /\ \A i \in DOMAIN exts : exts[i] \in pick'.boot \/ exts[i].size <= e.size
  <2>1. CASE Windows
    <3>1. /\ pick'.boot = {exts[i] : i \in Boot} /\ pick'.install = {exts[i] : i \in Install}
          /\ exts # <<>>
      BY <1>1, <2>1 DEF Windows
    <3>2. PICK k \in Install : e = exts[k]
      BY <1>5, <3>1
    <3>3. /\ k \in DOMAIN exts /\ (k \in Boot => Len(exts) = 1)
          /\ \A i \in DOMAIN exts : i \in Boot \/ exts[i].size <= exts[k].size
      BY <1>2, <3>1, InstallIsLargest
    <3>4. ASSUME NEW b \in Boot, exts[b] = exts[k] PROVE b = k
      <4>1. b \in DOMAIN exts /\ DOMAIN exts = 1 .. Len(exts) /\ Len(exts) \in Nat
        BY <1>2, BootIsOne, LenProperties
      <4>2. exts[b].offset \in Nat
        BY <1>2, <4>1, ExtHere
      <4>3. ~(b < k) /\ ~(k < b)
        BY <1>2, <3>3, <3>4, <4>1, <4>2 DEF ExtsOK
      <4> QED
        BY <3>3, <4>1, <4>3
    <3>5. e \in pick'.boot => k \in Boot
      BY <3>1, <3>2, <3>4
    <3> QED
      BY <3>1, <3>2, <3>3, <3>5
  <2>2. CASE ~Windows
    <3>1. pick'.install = {}
      BY <1>1, <2>2 DEF NoPick
    <3> QED
      BY <1>5, <3>1
  <2> QED
    BY <2>1, <2>2
<1>6. /\ \A v : Extent(v)' = Extent(v)
      /\ \A v : Complete(v)' <=> Complete(v)
      /\ \A p : Covered(p)' <=> Covered(p)
  BY <1>1 DEF Complete, Extent, Span, Covered
<1>7. ToSet(exts)' = {Extent(w) : w \in {v \in medium.wims : v.valid /\ Complete(v) /\ ~Covered(v.at)}}'
  BY <1>1, <1>4, <1>6
<1>8. \A i, j \in DOMAIN exts' : i < j => exts'[i].offset < exts'[j].offset
  BY <1>1, <1>2 DEF ExtsOK
<1> HIDE DEF Left, Clear
<1> QED
  BY <1>1, <1>5, <1>7, <1>8 DEF MediumIsRead

MediumInv ==
  /\ InspectTypeOK
  /\ scan = "open" => hits = <<>> /\ exts = <<>> /\ start = 0
  /\ scan = "chunks" => exts = <<>> /\ ChunkInv
  /\ scan = "extents" => ExtentInv
  /\ MediumIsRead

LEMMA MediumStep ==
  ASSUME MediumInv, [InspectNext]_inspectVars
  PROVE  MediumInv'
<1>1. InspectTypeOK
  BY DEF MediumInv
<1>2. medium \in Media /\ hits \in Seq(Nat)
  BY <1>1 DEF InspectTypeOK
<1>4. CASE Open
  <2>1. /\ UNCHANGED <<medium, off, start, hits, exts>> /\ scan = "open"
        /\ hits = <<>> /\ exts = <<>> /\ start = 0
        /\ scan' \in {"done", "chunks"} /\ (scan' = "done" /\ medium.iso => pick'.format = "wim")
    BY <1>4 DEF Open, MediumInv
  <2>2. InspectTypeOK'
    BY <1>1, <2>1 DEF InspectTypeOK
  <2>3. DOMAIN hits = {} /\ Starts \subseteq Nat
    BY <1>2, <2>1, EmptySeq, LenProperties, StartsAreNat
  <2>4. Starts' = Starts
    BY <2>1 DEF Starts, Complete
  <2>5. ChunkInv'
    BY <2>1, <2>3, <2>4 DEF ChunkInv, Rising
  <2>6. MediumIsRead'
    BY <2>1 DEF MediumIsRead
  <2> QED
    BY <2>1, <2>2, <2>5, <2>6 DEF MediumInv
<1>5. CASE FindHit
  <2>1. scan = "chunks" /\ scan' = "chunks" /\ UNCHANGED exts
    BY <1>5 DEF FindHit
  <2>2. InspectTypeOK' /\ ChunkInv'
    BY <1>1, <1>5, <2>1, HitFound DEF MediumInv
  <2> QED
    BY <2>1, <2>2 DEF MediumInv, MediumIsRead
<1>6. CASE NextChunk
  <2>1. scan = "chunks" /\ scan' = "chunks" /\ UNCHANGED exts
    BY <1>6 DEF NextChunk
  <2>2. InspectTypeOK' /\ ChunkInv'
    BY <1>1, <1>6, <2>1, ChunkDone DEF MediumInv
  <2> QED
    BY <2>1, <2>2 DEF MediumInv, MediumIsRead
<1>7. CASE ChunksEnd
  <2>1. scan = "chunks" /\ scan' = "extents" /\ UNCHANGED <<medium, off, start, hits, exts>>
    BY <1>7 DEF ChunksEnd
  <2>2. InspectTypeOK' /\ ExtentInv'
    BY <1>1, <1>7, <2>1, ChunksDone DEF MediumInv, InspectTypeOK
  <2> QED
    BY <2>1, <2>2 DEF MediumInv, MediumIsRead
<1>8. CASE TakeHit
  <2>1. scan = "extents" /\ scan' = scan /\ UNCHANGED <<medium, off, start>> /\ hits # <<>> /\ hits' = Tail(hits)
    BY <1>8 DEF TakeHit
  <2>2. hits' \in Seq(Nat)
    BY <1>2, <2>1, HeadTailProperties
  <2>3. ExtentInv'
    BY <1>1, <1>8, <2>1, HitTaken DEF MediumInv
  <2> QED
    BY <1>1, <2>1, <2>2, <2>3 DEF MediumInv, MediumIsRead, InspectTypeOK
<1>9. CASE Judge
  <2>1. scan = "extents" /\ scan' = "done" /\ UNCHANGED <<medium, off, start, hits>>
    BY <1>9 DEF Judge
  <2>2. MediumIsRead'
    BY <1>1, <1>9, <2>1, MediumJudged DEF MediumInv
  <2> QED
    BY <1>1, <2>1, <2>2 DEF MediumInv, InspectTypeOK
<1>10. CASE UNCHANGED inspectVars
  <2>1. UNCHANGED <<medium, off, start, hits, exts, pick, scan>>
    BY <1>10 DEF inspectVars
  <2>2. InspectTypeOK' /\ (ChunkInv => ChunkInv')
    BY <1>1, <2>1 DEF InspectTypeOK, ChunkInv, Starts, Complete, Step
  <2>3. ExtentInv => ExtentInv'
    <3>1. /\ UNCHANGED <<Starts, Extents>> /\ \A w : Entire(w)' = Entire(w)
          /\ \A w : Taken(w)' = Taken(w) /\ ToCome(w.at)' = ToCome(w.at) /\ Covered(w.at)' = Covered(w.at)
          /\ \A p : ToCome(p)' = ToCome(p)
      BY <2>1 DEF Starts, Extents, Entire, Taken, ToCome, Covered, Complete, Extent, Span
    <3>2. ExtsOK' = ExtsOK
      BY <2>1, <3>1 DEF ExtsOK
    <3> QED
      BY <2>1, <3>1, <3>2 DEF ExtentInv
  <2>4. MediumIsRead => MediumIsRead'
    BY <2>1 DEF MediumIsRead, Covered, Extent, Span, Complete
  <2> QED
    BY <2>1, <2>2, <2>3, <2>4 DEF MediumInv
<1> QED
  BY <1>4, <1>5, <1>6, <1>7, <1>8, <1>9, <1>10 DEF InspectNext

\* An ISO's WIMs are found once each and in their order, and the one to install is none
\* smaller than any other but WinPE, for every medium and size of the chunks.
THEOREM MediumAlwaysRead == InspectSpec => []MediumIsRead
<1>1. InspectInit => MediumInv
  BY EmptySeq DEF InspectInit, MediumInv, InspectTypeOK, MediumIsRead
<1>2. MediumInv => MediumIsRead
  BY DEF MediumInv
<1> QED
  BY <1>1, <1>2, MediumStep, PTL DEF InspectSpec
===============================================================================
