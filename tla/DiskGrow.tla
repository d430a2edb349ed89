------------------------------- MODULE DiskGrow -------------------------------
(***************************************************************************)
(* A disk image was written to a disk that is larger than the image: the   *)
(* agent plans how to extend the root partition over the rest of it        *)
(* (internal/diskgrow/plan.go), rewrites the partition table, and puts the *)
(* EFI system partition, moved out of the way, back from a backup          *)
(* (internal/agent/grow.go).  Sizes and places are in sectors of   *)
(* 512 bytes, like those of the kernel and of sfdisk.                      *)
(***************************************************************************)
EXTENDS Integers, FiniteSets

CONSTANTS
  Align,    \* 1 MiB: 2048 sectors in the code
  GPTTail,     \* sectors at the end kept for the backup GPT: 34 in the code
  Layouts,  \* partition tables an image may bring
  Sizes     \* sizes of disks

ASSUME AlignIsPositive == Align \in Nat \ {0}
ASSUME TailIsNat == GPTTail \in Nat

\* What collectGrowParts finds of a partition: a FAT file system makes it "esp",
\* ext4, xfs or btrfs "linux", neither and less than 2 MiB "bios".
Part == [num : Nat \ {0}, start : Nat, size : Nat \ {0}, type : {"esp", "linux", "bios", "other"}]

End(p) == p.start + p.size
Apart(p, q) == End(p) <= q.start \/ End(q) <= p.start

\* A table as an image has it: numbers are unique, partitions do not overlap.
IsTable(T) ==
  /\ T \subseteq Part
  /\ \A p, q \in T : p # q => p.num # q.num /\ Apart(p, q)

ASSUME LayoutsAreTables == \A T \in Layouts : IsTable(T)
ASSUME SizesAreNat == Sizes \subseteq Nat

-----------------------------------------------------------------------------
(* PlanGrow.                                                               *)

AlignDown(n) == n - (n % Align)
LastUsable(size) == size - GPTTail

Candidates(T) == {p \in T : p.type \notin {"esp", "bios"}}

\* The partition with the number of the hint if it can be root, else the largest
\* one that can.
PickRoot(T, hint) ==
  LET hinted == {p \in Candidates(T) : p.num = hint}
  IN  IF hinted # {} THEN hinted
      ELSE {p \in Candidates(T) : \A q \in Candidates(T) : q.size <= p.size}

\* Nothing is planned on a tiny disk, or one that is as good as full.
Slack(T, size) ==
  /\ size >= 2 * Align
  /\ \A p \in T : End(p) + Align <= LastUsable(size)

\* A plan: the ESP with its new place, and the root partition with its new size;
\* the number is 0 when there is none.
MovePlan(esp, start) == [esp |-> esp, espStart |-> start, root |-> 0, rootSize |-> 0]
NoPlan == MovePlan(0, 0)
IsLast(T, p) == \A q \in T : End(q) <= End(p)

\* Faulty: the sectors of the backup GPT are used.
ESPAtEnd(esp, size) == AlignDown(size - esp.size)
\* Where the ESP goes.
NewESP(esp, size) == AlignDown(LastUsable(size) - esp.size)

\* Faulty: it need not be the last partition.
MovesAnyESP(T, size, root, esp) ==
  root.start < esp.start /\ NewESP(esp, size) > esp.start + Align

\* The ESP moves when it stands between the root partition and the free space.
MovesESP(T, size, root, esp) ==
  /\ IsLast(T, esp)
  /\ root.start < esp.start
  /\ NewESP(esp, size) > esp.start + Align

\* Faulty: a plan that moves the ESP leaves root as it is.
ExtendedUnlessMoved(plan, root, newSize) ==
  IF plan = NoPlan /\ newSize > root.size + Align
  THEN [plan EXCEPT !.root = root.num, !.rootSize = newSize] ELSE plan

\* Root is extended to the new size if that gains more than one alignment unit.
Extended(plan, root, newSize) ==
  IF newSize > root.size + Align THEN [plan EXCEPT !.root = root.num, !.rootSize = newSize] ELSE plan

\* Of several FAT partitions the one listed last counts.  They are listed by name
\* (1, 10, 2), which says nothing of where they lie on the disk.
LastListed(S) == IF S = {} THEN {{}} ELSE {{e} : e \in S}

\* E: the FAT partition that counts, if there is one.
PlanGrow(T, size, root, E) ==
  LET moved == {e \in E : MovesESP(T, size, root, e)}
      esp   == CHOOSE e \in moved : TRUE
  IN  IF ~Slack(T, size) THEN NoPlan
      ELSE IF moved # {}
      THEN Extended(MovePlan(esp.num, NewESP(esp, size)), root, NewESP(esp, size) - root.start)
      ELSE IF IsLast(T, root)
      THEN Extended(NoPlan, root, AlignDown(LastUsable(size) - root.start))
      ELSE NoPlan

\* RewriteSfdiskDump: the table with the numbers of the plan written into it.
Rewritten(p, plan) ==
  IF p.num = plan.esp THEN [p EXCEPT !.start = plan.espStart]
  ELSE IF p.num = plan.root THEN [p EXCEPT !.size = plan.rootSize]
  ELSE p
Rewrite(T, plan) == {Rewritten(p, plan) : p \in T}

-----------------------------------------------------------------------------
(* growDisk, as RunInstall calls it.                                       *)

VARIABLES
  size,     \* size of the disk
  image,    \* the partition table the image brought
  table,    \* the partition table on the disk
  kernel,   \* the partition table the kernel goes by
  place,    \* partition number -> the sector its content begins at, or Lost
  root,     \* number of the partition PlanGrow takes for root, 0: none
  plan,     \* what is to be done
  saved,    \* whether the content of the ESP is in the backup file
  pc        \* where the agent stands

growVars == <<size, image, table, kernel, place, root, plan, saved, pc>>

Lost == -1
Sound(p) == place[p.num] = p.start

GrowInit ==
  /\ size \in Sizes
  /\ image \in {T \in Layouts : \A p \in T : End(p) <= LastUsable(size)}
  /\ table = image
  /\ kernel = image
  /\ place = [n \in {p.num : p \in image} |-> (CHOOSE p \in image : p.num = n).start]
  /\ root = 0
  /\ plan = NoPlan
  /\ saved = FALSE
  /\ pc = "plan"

Go(p) == pc' = p
KeepDisk == UNCHANGED <<size, image, table, kernel, place>>

\* The plan; no partition that can be root makes it empty.
Plan ==
  /\ pc = "plan"
  /\ \E hint \in 0 .. Cardinality(image) :
       \/ /\ PickRoot(table, hint) = {}
          /\ UNCHANGED <<root, plan>>
       \/ \E r \in PickRoot(table, hint), E \in LastListed({p \in table : p.type = "esp"}) :
            /\ root' = r.num
            /\ plan' = PlanGrow(table, size, r, E)
  /\ Go(IF plan' = NoPlan THEN "grown" ELSE IF plan'.esp # 0 THEN "backup" ELSE "apply")
  /\ KeepDisk /\ UNCHANGED saved

\* Faulty: a backup that failed is used.
BackupIgnored ==
  /\ pc = "backup"
  /\ saved' \in BOOLEAN
  /\ Go("apply")
  /\ KeepDisk /\ UNCHANGED <<root, plan>>

\* Any step may fail; RunInstall then logs a warning and goes on.
Fail ==
  /\ pc \in {"backup", "apply"}
  /\ Go("warned")
  /\ KeepDisk /\ UNCHANGED <<root, plan, saved>>

Backup ==
  /\ pc = "backup"
  /\ \A p \in table : p.num = plan.esp => Sound(p)
  /\ saved' = TRUE
  /\ Go("apply")
  /\ KeepDisk /\ UNCHANGED <<root, plan>>

\* sfdisk writes the whole table or nothing, and refuses partitions that overlap
\* or reach into the backup GPT.
Fits(T) ==
  /\ \A p \in T : End(p) <= LastUsable(size)
  /\ \A p, q \in T : p # q => Apart(p, q)

\* sfdisk does not have the kernel read the new table; partprobe does, and its
\* failure is ignored.
Apply ==
  /\ pc = "apply"
  /\ Fits(Rewrite(table, plan))
  /\ table' = Rewrite(table, plan)
  /\ kernel' \in {kernel, table'}
  /\ Go(IF plan.esp # 0 THEN "restore" ELSE "resize")
  /\ UNCHANGED <<size, image, place, root, plan, saved>>

\* What a write into the sectors of p leaves of the content of the others.
Overwritten(p) ==
  [n \in DOMAIN place |->
     IF \E q \in image : /\ q.num = n /\ n # p.num /\ place[n] # Lost
                         /\ ~Apart(p, [q EXCEPT !.start = place[n]])
     THEN Lost ELSE place[n]]

\* Faulty: the error of the copy is dropped.
RestoreIgnored ==
  /\ pc = "restore"
  /\ \E esp \in kernel, whole \in BOOLEAN :
       /\ esp.num = plan.esp
       /\ place' = [Overwritten(esp) EXCEPT ![esp.num] = IF whole THEN esp.start ELSE Lost]
       /\ saved' = ~whole
  /\ Go("resize")
  /\ UNCHANGED <<size, image, table, kernel, root, plan>>

\* The backup is copied to where the kernel has the ESP, and removed; a copy that
\* fails on the way leaves half a file system, and the backup.
Restore ==
  /\ pc = "restore"
  /\ \E esp \in kernel, whole \in BOOLEAN :
       /\ esp.num = plan.esp
       /\ place' = [Overwritten(esp) EXCEPT ![esp.num] = IF whole THEN esp.start ELSE Lost]
       /\ saved' = ~whole
       /\ Go(IF whole THEN "resize" ELSE "warned")
  /\ UNCHANGED <<size, image, table, kernel, root, plan>>

\* The file system of root spreads over all the kernel has of its partition: ext4 by resize2fs at
\* the end of growDisk, xfs and btrfs in injectConfig, which runs after a warning too.
Resize ==
  /\ pc \in {"resize", "warned"}
  /\ \/ (\A r \in kernel : r.num # root) /\ UNCHANGED place
     \/ \E r \in kernel : r.num = root /\ place' = Overwritten(r)
  /\ Go(IF pc = "resize" THEN "grown" ELSE "ended")
  /\ UNCHANGED <<size, image, table, kernel, root, plan, saved>>

GrowNext == Plan \/ Fail \/ Backup \/ Apply \/ Restore \/ Resize

GrowSpec == GrowInit /\ [][GrowNext]_growVars

-----------------------------------------------------------------------------
\* A planned table keeps clear of the backup GPT at the end of the disk.
PlanFitsDisk ==
  pc = "apply" => \A p \in Rewrite(table, plan) : End(p) <= LastUsable(size)

\* Partitions that start behind root r and before the trailing ESP e.
Between(T, r, e) == {p \in T : r.start < p.start /\ p.start < e.start}

\* A planned table has no overlaps, unless a partition stands between root and
\* the ESP: PlanGrow does not look for one and lets root run over it.
PlanKeepsApart ==
  pc = "apply" =>
    \/ Fits(Rewrite(table, plan))
    \/ \E r, e \in table : r.num = plan.root /\ e.num = plan.esp /\ Between(table, r, e) # {}

\* The plan moved p and the kernel still has it at its old place: growDisk then writes
\* the backup there, removes it and reports no error, and the ESP the disk has after
\* the next start is empty.
Misplaced(p) == p.num = plan.esp /\ kernel # table

\* Where growDisk reports no error, every partition of the image still has its
\* content, wherever it is now (docs/deploy.md:429: the image keeps its own
\* partitions), but for an ESP that partprobe's ignored failure left misplaced.
NothingLost ==
  pc = "grown" => \A p \in table : Sound(p) \/ Misplaced(p)

\* However growDisk fails, no content is lost but that of an ESP the plan moves, and
\* that one is still in the backup, unless partprobe's ignored failure left it
\* misplaced.
LossIsCovered ==
  \A p \in table : Sound(p) \/ (p.type = "esp" /\ p.num = plan.esp /\ (saved \/ Misplaced(p)))

\* Where the partition taken for root is the last one, or only the disk's one ESP
\* follows it, growDisk leaves it less than two alignment units short of the disk's
\* end or of the ESP's new place (docs/deploy.md:429: root is extended over the
\* whole disk).
RootFillsDisk ==
  pc = "grown" =>
    \A r \in table : r.num = root =>
      LET following == {p \in table : r.start < p.start} IN
      /\ following = {} => LastUsable(size) - End(r) < 2 * Align
      /\ \A e \in following :
           following = {e} /\ {p \in table : p.type = "esp"} = {e} =>
             /\ LastUsable(size) - End(e) < 2 * Align
             /\ e \notin image => End(r) = e.start
=============================================================================
