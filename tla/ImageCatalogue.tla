---------------------------- MODULE ImageCatalogue -----------------------------
(***************************************************************************)
(* The images that rackauto keeps (server.go, server/windows.go,           *)
(* internal/winpefix): the row of an image, its file, and what is made of  *)
(* a Windows image, the boot.wim that machines start WinPE from.  Requests *)
(* hold no lock over their file operations, so they meet in every order;   *)
(* wimlib patches boot.wim where it lies, and a marker file that is not    *)
(* older than boot.wim says that it is patched.  All images are Windows    *)
(* images; of the others only row and file are kept.                       *)
(***************************************************************************)
EXTENDS Integers, FiniteSets

CONSTANTS
  Catalogue, \* images
  ISOs,      \* those with a boot.wim of their own; the others borrow one
  Uploaded,  \* those that are not there yet
  PE,        \* indexes of boot.wim with a SOFTWARE hive
  Count,     \* number of indexes of boot.wim
  Workers,   \* requests at a time
  WorkBound, \* bound: requests
  FailBound, \* bound: failures of tools and of the disk
  StopBound  \* bound: restarts of the server

ASSUME CatalogueSets == ISOs \subseteq Catalogue /\ Uploaded \subseteq Catalogue
ASSUME IndexesAreNumbers == Count \in Nat \ {0} /\ PE \subseteq 1 .. Count

\* A WIM file: whether it is whole, and the indexes that still have Setup's paths.
NoWim == [there |-> FALSE, whole |-> FALSE, raw |-> {}]
TornWim == [there |-> TRUE, whole |-> FALSE, raw |-> PE]
RawWim == [there |-> TRUE, whole |-> TRUE, raw |-> PE]

VARIABLES
  row,   \* image -> "none", "bare" (never inspected), or what the inspection says of
         \* boot.wim: "" (nothing), "named" (it is in the ISO), "here" (it lies there)
  file,  \* image -> its file: "none", "part" or "whole"
  boot,  \* image -> boot.wim
  spare, \* image -> boot.wim.tmp
  mark,  \* image -> the marker: "none", "stale" (older than boot.wim) or "fresh"
  older, \* image -> the marker was written after boot.wim.tmp
  work,  \* worker -> the request it serves
  fate,  \* image -> for the properties: what has happened to it
  cost   \* what was used of the bounds

catalogueVars == <<row, file, boot, spare, mark, older, work, fate, cost>>

\* A request: what it is, where it is, its image and those that follow, the row it will
\* write, the WIM it copies from whom, the index it is at, and the file it writes, by the
\* name that file has by now.
Rest == [op |-> "none", at |-> "rest", img |-> "", todo |-> {}, row |-> "", data |-> NoWim,
         from |-> "", idx |-> 1, on |-> "gone"]

CatalogueInit ==
  /\ row \in [Catalogue -> {"none", "bare"}]
  /\ \A i \in Catalogue : row[i] = "none" <=> i \in Uploaded
  /\ file = [i \in Catalogue |-> IF i \in Uploaded THEN "none" ELSE "whole"]
  /\ boot = [i \in Catalogue |-> NoWim] /\ spare = boot
  /\ mark = [i \in Catalogue |-> "none"]
  /\ older = [i \in Catalogue |-> FALSE]
  /\ work = [w \in Workers |-> Rest]
  /\ fate = [i \in Catalogue |-> IF i \in Uploaded THEN {} ELSE {"known"}]
  /\ cost = [works |-> 0, fails |-> 0, stops |-> 0]

Has(w, i) == work[w].op # "none" /\ i \in {work[w].img} \cup work[w].todo
Quiet(i) == \A w \in Workers : ~Has(w, i)
Alone(w, i) == \A v \in Workers \ {w} : ~Has(v, i)
Is(w, at) == work[w].at = at
Move(w, at) == work' = [work EXCEPT ![w].at = at]
Note(i, what) == fate' = [fate EXCEPT ![i] = @ \cup what]
Fails == cost.fails < FailBound /\ cost' = [cost EXCEPT !.fails = @ + 1]

\* A written file is younger than the marker.
Stale(i) == IF mark[i] = "none" THEN "none" ELSE "stale"

Start(w, op, at, i, todo) ==
  /\ Is(w, "rest") /\ cost.works < WorkBound
  /\ cost' = [cost EXCEPT !.works = @ + 1]
  /\ work' = [work EXCEPT ![w] = [Rest EXCEPT !.op = op, !.at = at, !.img = i, !.todo = todo]]

-----------------------------------------------------------------------------
(* The requests that read or write a row.                                  *)

\* uploadImage writes the file under its name and takes it away when the client breaks
\* off; the row has no identity yet that a second request could name.
Upload(w, i) ==
  /\ row[i] = "none" /\ file[i] = "none" /\ fate[i] = {} /\ Quiet(i)
  /\ Start(w, "upload", "receive", i, {})
  /\ file' = [file EXCEPT ![i] = "part"]
  /\ UNCHANGED <<row, boot, spare, mark, older, fate>>

Received(w) ==
  /\ Is(w, "receive")
  /\ \/ file' = [file EXCEPT ![work[w].img] = "whole"] /\ Move(w, "fill") /\ UNCHANGED cost
     \/ file' = [file EXCEPT ![work[w].img] = "none"] /\ work' = [work EXCEPT ![w] = Rest] /\ Fails
  /\ UNCHANGED <<row, boot, spare, mark, older, fate>>

\* inspectImage: a copy of the row.
Inspect(w, i) ==
  /\ row[i] # "none"
  /\ Start(w, "inspect", "fill", i, {})
  /\ UNCHANGED <<row, file, boot, spare, mark, older, fate>>

\* listImages inspects, one after the other, the images that were never inspected when it
\* read the list.
List(w) ==
  \E i \in Catalogue :
    LET bare == {j \in Catalogue : row[j] = "bare"} IN
    /\ i \in bare
    /\ Start(w, "list", "fill", i, bare \ {i})
    /\ UNCHANGED <<row, file, boot, spare, mark, older, fate>>

\* fillImageInspect: an image without a file is skipped; the ISO's inspection names its
\* boot.wim before anything is extracted.
Fill(w) ==
  LET i == work[w].img IN
  /\ Is(w, "fill")
  /\ work' = [work EXCEPT ![w].row = IF file[i] # "none" /\ i \in ISOs THEN "named" ELSE "",
                          ![w].at = CASE file[i] = "none" -> "store"
                                      [] file[i] # "none" /\ i \in ISOs -> "extract"
                                      [] OTHER -> "borrow"]
  /\ UNCHANGED <<row, file, boot, spare, mark, older, fate, cost>>

\* UpsertImage writes the row whether or not there still is one.
Store(w) ==
  LET i == work[w].img IN
  /\ Is(w, "store")
  /\ row' = [row EXCEPT ![i] = work[w].row]
  /\ Note(i, {"known"})
  /\ IF work[w].todo = {}
     THEN work' = [work EXCEPT ![w] = Rest]
     ELSE \E j \in work[w].todo :
            work' = [work EXCEPT ![w] = [Rest EXCEPT !.op = "list", !.at = "fill", !.img = j,
                                                     !.todo = work[w].todo \ {j}]]
  /\ UNCHANGED <<file, boot, spare, mark, older, cost>>

-----------------------------------------------------------------------------
(* materializeWindows: boot.wim is written as boot.wim.tmp and renamed.    *)

\* A file that is being written keeps its content when its name goes to another or goes.
Renamed(w, i, names) ==
  [v \in Workers |->
     IF v # w /\ work[v].img = i /\ work[v].on \in DOMAIN names
     THEN [work[v] EXCEPT !.on = names[@]] ELSE work[v]]
Moved == [tmp |-> "boot", boot |-> "gone"]
NoTmp == [tmp |-> "gone"]
Neither == [tmp |-> "gone", boot |-> "gone"]

\* os.Create empties a boot.wim.tmp that somebody else may still be writing.
BeginCopy(w, i, data, from) ==
  /\ spare' = [spare EXCEPT ![i] = TornWim]
  /\ older' = [older EXCEPT ![i] = FALSE]
  /\ work' = [work EXCEPT ![w].at = "copy", ![w].data = data, ![w].from = from, ![w].on = "tmp"]

ExtractBoot(w) ==
  /\ Is(w, "extract")
  /\ \/ BeginCopy(w, work[w].img, RawWim, work[w].img) /\ UNCHANGED cost
     \/ Move(w, "look") /\ Fails /\ UNCHANGED <<spare, older>>
  /\ UNCHANGED <<row, file, boot, mark, fate>>

\* borrowBootWIM: only for an image that has none, from one whose row speaks of one.
Lenders(i) == {j \in Catalogue \ {i} : row[j] \in {"named", "here"} /\ boot[j].there}
Borrow(w) ==
  LET i == work[w].img IN
  /\ Is(w, "borrow")
  /\ \/ /\ ~boot[i].there
        /\ \E j \in Lenders(i) : BeginCopy(w, i, boot[j], j)
     \/ /\ boot[i].there \/ Lenders(i) = {}
        /\ Move(w, "look") /\ UNCHANGED <<spare, older>>
  /\ UNCHANGED <<row, file, boot, mark, fate, cost>>

\* What was copied: the lender's WIM as it was or as it is now.
CopiedWim(w) ==
  {work[w].data} \cup {boot[j] : j \in {work[w].from} \cap {j \in Catalogue \ {work[w].img} : boot[j].there}}

Copy(w) ==
  LET i == work[w].img IN
  /\ Is(w, "copy")
  /\ \E d \in CopiedWim(w) :
       \/ /\ work[w].on = "tmp"
          /\ spare' = [spare EXCEPT ![i] = d] /\ older' = [older EXCEPT ![i] = FALSE]
          /\ UNCHANGED <<boot, mark>>
       \/ /\ work[w].on = "boot"   \* over the bytes of another, patched or not
          /\ \E raw \in {d.raw, boot[i].raw} : boot' = [boot EXCEPT ![i] = [d EXCEPT !.raw = raw]]
          /\ mark' = [mark EXCEPT ![i] = Stale(i)]
          /\ UNCHANGED <<spare, older>>
       \/ work[w].on = "gone" /\ UNCHANGED <<boot, spare, mark, older>>
  /\ Move(w, "rename")
  /\ UNCHANGED <<row, file, fate, cost>>

CopyFails(w) ==
  /\ Is(w, "copy") /\ Fails
  /\ spare' = [spare EXCEPT ![work[w].img] = NoWim]
  /\ work' = [Renamed(w, work[w].img, NoTmp) EXCEPT ![w].at = "look", ![w].on = "gone"]
  /\ UNCHANGED <<row, file, boot, mark, older, fate>>

\* Somebody else is patching the image, marking it, or writing the same file.
Meets(w, i) ==
  \E v \in Workers \ {w} : work[v].img = i /\ work[v].at \in {"hive", "patch", "patched", "mark", "copy", "rename"}

Rename(w) ==
  LET i == work[w].img IN
  /\ Is(w, "rename")
  /\ IF spare[i].there
     THEN /\ boot' = [boot EXCEPT ![i] = spare[i]] /\ spare' = [spare EXCEPT ![i] = NoWim]
          /\ mark' = [mark EXCEPT ![i] = IF @ # "none" /\ older[i] THEN "fresh" ELSE Stale(i)]
          /\ older' = [older EXCEPT ![i] = FALSE]
          /\ fate' = [fate EXCEPT ![i] = (@ \ {"raced", "skipped", "failed"})
                                         \cup IF Meets(w, i) \/ older[i] THEN {"raced"} ELSE {}]
          /\ work' = [Renamed(w, i, Moved) EXCEPT ![w].at = "look", ![w].on = "gone"]
     ELSE /\ work' = [work EXCEPT ![w].at = "look", ![w].on = "gone"]
          /\ UNCHANGED <<boot, spare, mark, older, fate>>
  /\ UNCHANGED <<row, file, cost>>

\* The row says boot.wim is here when it lies there, and only then is it patched.
LooksHere(i) == boot[i].there
Look(w) ==
  /\ Is(w, "look")
  /\ work' = IF LooksHere(work[w].img)
             THEN [work EXCEPT ![w].row = "here", ![w].at = "fix"]
             ELSE [work EXCEPT ![w].at = "store"]
  /\ UNCHANGED <<row, file, boot, spare, mark, older, fate, cost>>

-----------------------------------------------------------------------------
(* FixBootWIM.                                                             *)

\* serveWinPayload: whoever asks for boot.wim has it patched first, and is given it even
\* when that fails.
GetBoot(w, i) ==
  /\ row[i] # "none" /\ boot[i].there
  /\ Start(w, "get", "fix", i, {})
  /\ UNCHANGED <<row, file, boot, spare, mark, older, fate>>

Fixed(w) == IF work[w].op = "get" THEN [work EXCEPT ![w] = Rest] ELSE [work EXCEPT ![w].at = "store", ![w].on = "gone"]
FixFails(w) == Note(work[w].img, {"failed"}) /\ work' = Fixed(w)

\* Faulty: a marker of any age is believed.
PatchedAnyDate(i) == mark[i] # "none"

\* bootWIMPatched: the marker is not older than boot.wim.
Patched(i) == mark[i] = "fresh"

Fix(w) ==
  LET i == work[w].img IN
  /\ Is(w, "fix")
  /\ \/ /\ boot[i].there /\ Patched(i)
        /\ work' = Fixed(w) /\ UNCHANGED <<fate, cost>>
     \/ /\ boot[i].there /\ ~Patched(i) /\ boot[i].whole
        /\ work' = [work EXCEPT ![w].at = "hive", ![w].idx = 1] /\ UNCHANGED <<fate, cost>>
     \/ /\ boot[i].there => ~Patched(i) /\ ~boot[i].whole
        /\ FixFails(w) /\ UNCHANGED cost
     \/ /\ boot[i].there /\ ~Patched(i)   \* no wimlib-imagex
        /\ FixFails(w) /\ Fails
  /\ UNCHANGED <<row, file, boot, spare, mark, older>>

NextIndex(w) ==
  work' = [work EXCEPT ![w].at = IF work[w].idx = Count THEN "mark" ELSE "hive",
                       ![w].idx = IF @ = Count THEN @ ELSE @ + 1, ![w].on = "gone"]

\* The hive of an index is extracted and looked at.
Hive(w) ==
  LET i == work[w].img  n == work[w].idx IN
  /\ Is(w, "hive") /\ boot[i].whole /\ n \in PE
  /\ IF n \in boot[i].raw THEN Move(w, "patch") ELSE NextIndex(w)
  /\ UNCHANGED <<row, file, boot, spare, mark, older, fate, cost>>

\* Without the hive of the first index nothing is marked; any other index is passed over,
\* whether it has none or wimlib could not read it this time.
HiveFails(w) ==
  LET i == work[w].img  n == work[w].idx IN
  /\ Is(w, "hive")
  /\ IF boot[i].whole /\ n \in PE THEN Fails ELSE UNCHANGED cost
  /\ \/ n = 1 /\ FixFails(w)
     \/ n # 1 /\ NextIndex(w) /\ Note(i, IF n \in PE THEN {"skipped"} ELSE {})
  /\ UNCHANGED <<row, file, boot, spare, mark, older>>

\* wimlib-imagex update works in the file and takes only a whole one.
Patch(w) ==
  LET i == work[w].img IN
  /\ Is(w, "patch") /\ boot[i].whole
  /\ boot' = [boot EXCEPT ![i].whole = FALSE]
  /\ mark' = [mark EXCEPT ![i] = Stale(i)]
  /\ work' = [work EXCEPT ![w].at = "patched", ![w].on = "boot"]
  /\ UNCHANGED <<row, file, spare, older, fate, cost>>

PatchFails(w) ==
  /\ Is(w, "patch") /\ FixFails(w)
  /\ IF boot[work[w].img].whole THEN Fails ELSE UNCHANGED cost
  /\ UNCHANGED <<row, file, boot, spare, mark, older>>

Patches(w) ==
  LET i == work[w].img IN
  /\ Is(w, "patched")
  /\ IF work[w].on = "boot"
     THEN /\ boot' = [boot EXCEPT ![i].whole = TRUE, ![i].raw = @ \ {work[w].idx}]
          /\ mark' = [mark EXCEPT ![i] = Stale(i)]
     ELSE UNCHANGED <<boot, mark>>
  /\ NextIndex(w)
  /\ UNCHANGED <<row, file, spare, older, fate, cost>>

\* The marker is written next to whatever boot.wim is there by now.
Mark(w) ==
  LET i == work[w].img IN
  /\ Is(w, "mark")
  /\ IF boot[i].there \/ spare[i].there
     THEN /\ mark' = [mark EXCEPT ![i] = "fresh"] /\ older' = [older EXCEPT ![i] = spare[i].there]
          /\ fate' = [fate EXCEPT ![i] = @ \ {"failed"}] /\ work' = Fixed(w)
     ELSE FixFails(w) /\ UNCHANGED <<mark, older>>
  /\ UNCHANGED <<row, file, boot, spare, cost>>

-----------------------------------------------------------------------------
(* deleteImage: the file, then the directory of boot.wim, then the row.    *)

Shared(w, i) == IF Alone(w, i) THEN {} ELSE {"shared"}

\* Faulty: the row goes first, as the answer needs no more.
DeleteRowFirst(w, i) ==
  /\ row[i] # "none"
  /\ Start(w, "delete", "wipe", i, {})
  /\ row' = [row EXCEPT ![i] = "none"]
  /\ file' = [file EXCEPT ![i] = "none"]
  /\ Note(i, {"doomed"} \cup Shared(w, i))
  /\ UNCHANGED <<boot, spare, mark, older>>

Delete(w, i) ==
  /\ row[i] # "none"
  /\ Start(w, "delete", "wipe", i, {})
  /\ file' = [file EXCEPT ![i] = "none"]
  /\ Note(i, {"doomed"} \cup Shared(w, i))
  /\ UNCHANGED <<row, boot, spare, mark, older>>

\* removeWindowsPayload
Wipe(w) ==
  LET i == work[w].img IN
  /\ Is(w, "wipe")
  /\ boot' = [boot EXCEPT ![i] = NoWim] /\ spare' = [spare EXCEPT ![i] = NoWim]
  /\ mark' = [mark EXCEPT ![i] = "none"]
  /\ work' = [Renamed(w, i, Neither) EXCEPT ![w].at = "drop"]
  /\ UNCHANGED <<row, file, older, fate, cost>>

Drop(w) ==
  LET i == work[w].img IN
  /\ Is(w, "drop")
  /\ row' = [row EXCEPT ![i] = "none"]
  /\ Note(i, Shared(w, i))
  /\ work' = [work EXCEPT ![w] = Rest]
  /\ UNCHANGED <<file, boot, spare, mark, older, cost>>

\* The server stops; its files stay as they are, an update of wimlib half done among them.
StopServer ==
  /\ cost.stops < StopBound /\ \E w \in Workers : work[w].op # "none"
  /\ cost' = [cost EXCEPT !.stops = @ + 1]
  /\ fate' = [i \in Catalogue |-> IF Quiet(i) THEN fate[i] ELSE fate[i] \cup {"cut"}]
  /\ work' = [w \in Workers |-> Rest]
  /\ UNCHANGED <<row, file, boot, spare, mark, older>>

CatalogueNext ==
  \/ \E w \in Workers :
       \/ \E i \in Catalogue : Upload(w, i) \/ Inspect(w, i) \/ GetBoot(w, i) \/ Delete(w, i)
       \/ List(w) \/ Received(w) \/ Fill(w) \/ Store(w)
       \/ ExtractBoot(w) \/ Borrow(w) \/ Copy(w) \/ CopyFails(w) \/ Rename(w) \/ Look(w)
       \/ Fix(w) \/ Hive(w) \/ HiveFails(w) \/ Patch(w) \/ PatchFails(w) \/ Patches(w) \/ Mark(w)
       \/ Wipe(w) \/ Drop(w)
  \/ StopServer

CatalogueSpec == CatalogueInit /\ [][CatalogueNext]_catalogueVars

-----------------------------------------------------------------------------
(* Properties.                                                             *)

\* A deleted image leaves nothing behind, whatever the server was stopped at: the row, by
\* which an operator could delete it again, is the last to go.  Only a request that had the
\* image in its hands while it was deleted can bring something back, row included.
DeleteIsWhole ==
  \A i \in Catalogue :
    row[i] = "none" /\ "known" \in fate[i] /\ "shared" \notin fate[i]
      => file[i] = "none" /\ ~boot[i].there /\ ~spare[i].there /\ mark[i] = "none"

\* When nobody works on an image and its row says boot.wim is here, it is here, whole, and
\* patched in every index with a hive, also after it was extracted over an older one: the
\* marker is believed only when it is younger.  This does not hold when an extraction met
\* another request that was patching, when wimlib could not read a later index, when the last
\* patching failed or was cut off by a stop, nor once a deletion has begun.
ReadyIsPatched ==
  \A i \in Catalogue :
    row[i] = "here" /\ Quiet(i) /\ fate[i] \cap {"raced", "skipped", "failed", "cut", "doomed"} = {}
      => boot[i].there /\ boot[i].whole /\ boot[i].raw = {}
===============================================================================
