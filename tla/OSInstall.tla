------------------------------- MODULE OSInstall -------------------------------
(***************************************************************************)
(* What an installation does to the disk (internal/agent/install.go): a    *)
(* root file system goes onto partitions the agent makes from a list the   *)
(* operator may write (internal/provision/disk.go), a disk image brings    *)
(* its own; then configuration is written through mounts, and a loader is  *)
(* put where firmware looks for it (internal/agent/efi.go).  Partitions    *)
(* are numbered from 1, as in the list; a path is the sequence of its      *)
(* names.  How a disk image is grown is in DiskGrow.                       *)
(***************************************************************************)
EXTENDS Integers, SequencesExt

CONSTANTS
  Text,    \* what names are made of: STRING
  Lists,   \* partition lists the operator writes
  RootFS,  \* file systems a root image may hold
  Disk,    \* size of the disk
  Images   \* disk images: partitions, and the files on each FAT one

Root == <<>>
NoMount == <<"none">>

\* A file on the EFI system partition: whether it is in EFI/BOOT, what its name says
\* it is, and whether its name and its code are of this machine's architecture.
FileT == [in : BOOLEAN, kind : Text, own : BOOLEAN, code : BOOLEAN]
PartitionT == [size : Nat, type : Text, fs : Text, efi : SUBSET FileT]
Path == Seq(Text)
LineT == [size : Nat, fs : Text, mount : Path, flag : Text]

ASSUME TextIsThere ==
  /\ {"", "none", "boot", "efi", "etc", "var", "lib", "cloud", "home"} \subseteq Text
  /\ {"vfat", "ext4", "xfs", "swap", "biosboot", "esp", "bios"} \subseteq Text
  /\ {"ef00", "ef02", "8200", "8300", "grub", "shim"} \subseteq Text
ASSUME ListsAreLines == Lists \subseteq Seq(LineT) /\ RootFS \subseteq Text

\* The files of an image hold what their names say.
ASSUME ImagesAreTrue ==
  /\ Images \subseteq Seq(PartitionT)
  /\ \A image \in Images : \A i \in DOMAIN image : \A f \in image[i].efi : f.own = f.code

\* A line of the list: size 0 asks for the rest; esp and bios are the flags.
Line(size, fs, mount, flag) == [size |-> size, fs |-> fs, mount |-> mount, flag |-> flag]

\* DefaultPartitions.
Default(fw, fs) ==
  IF fw = "bios"
  THEN <<Line(1, "biosboot", NoMount, "bios"), Line(0, fs, Root, "")>>
  ELSE <<Line(2, "vfat", <<"boot", "efi">>, "esp"), Line(0, fs, Root, "")>>

\* Validate.
Accepted(list) == Cardinality({i \in DOMAIN list : list[i].mount = Root}) = 1

VARIABLES
  want,   \* the partition list
  fw,     \* firmware of the machine: "uefi" or "bios"
  disk,   \* the partitions on the disk: size, type, file system, and files of the ESP
  step,   \* what the agent does next, and the number of the line it does it for
  mnt,    \* the mounts below /mnt/target, in the order they were made
  fstab,  \* what /etc/fstab says: partition, place and file system
  wrote,  \* place -> where the partition that what is configured there was written to
  ignored \* history: commands of which a failure was ignored

installVars == <<want, fw, disk, step, mnt, fstab, wrote, ignored>>

\* Places configuration is written to: host name, users, network; the cloud-init
\* seed; the SSH keys of a user.
Dirs == {<<"etc">>, <<"var", "lib", "cloud">>, <<"home">>}
Nowhere == [d \in Dirs |-> 0]

On(do, i) == [do |-> do, i |-> i]
Then(do) == step' = On(do, 0)

InstallInit ==
  /\ fw \in {"uefi", "bios"}
  /\ want \in Lists \cup {<<>>}
  /\ disk = <<>>
  /\ step = On("check", 0)
  /\ mnt = <<>> /\ fstab = {} /\ wrote = Nowhere /\ ignored = {}

-----------------------------------------------------------------------------
(* Partitions made from the list.                                          *)

\* createInstall and install: an empty list is the default one.
Check ==
  /\ step.do = "check"
  /\ \E fs \in RootFS : want' = IF want = <<>> THEN Default(fw, fs) ELSE want
  /\ Then(IF Accepted(want') THEN "make" ELSE "error")
  /\ UNCHANGED <<fw, disk, mnt, fstab, wrote, ignored>>

SizeOf(p) == p.size
Free == Disk - FoldLeft(LAMBDA n, p : n + p.size, 0, disk)

\* SGDiskScript.
TypeCode(line) ==
  CASE line.flag = "esp" \/ (line.fs = "vfat" /\ line.mount = <<"boot", "efi">>) -> "ef00"
    [] line.flag = "bios" \/ line.fs = "biosboot" -> "ef02"
    [] line.fs = "swap" -> "8200"
    [] OTHER -> "8300"

\* sgdisk makes partition i, in what is free behind those before it; the disk was
\* wiped first.
MakePartition ==
  LET i == Len(disk) + 1
      size == IF want[i].size > 0 THEN want[i].size ELSE Free
  IN
  /\ step.do = "make"
  /\ IF i > Len(want) THEN step' = On("format", 1) /\ UNCHANGED disk
     ELSE IF size \in 1 .. Free
     THEN /\ disk' = Append(disk, [size |-> size, type |-> TypeCode(want[i]), fs |-> "", efi |-> {}])
          /\ UNCHANGED step
     ELSE Then("error") /\ UNCHANGED disk
  /\ UNCHANGED <<want, fw, mnt, fstab, wrote, ignored>>

\* FormatCommands: what the code does not know becomes ext4.
Formatted(fs) ==
  CASE fs \in {"vfat", "fat32"} -> "vfat"
    [] fs \in {"ext4", "xfs", "swap"} -> fs
    [] fs \in {"biosboot", ""} -> ""
    [] OTHER -> "ext4"

\* mkfs fails, for one, when the partition is too small.
Format ==
  /\ step.do = "format"
  /\ IF step.i > Len(want) THEN Then("root") /\ UNCHANGED disk
     ELSE \/ /\ disk' = [disk EXCEPT ![step.i].fs = Formatted(want[step.i].fs)]
             /\ step' = On("format", step.i + 1)
          \/ Then("error") /\ UNCHANGED disk
  /\ UNCHANGED <<want, fw, mnt, fstab, wrote, ignored>>

RootIndex == CHOOSE i \in DOMAIN want : want[i].mount = Root

\* The image is downloaded, compared and written over the root partition.
WriteRoot ==
  /\ step.do = "root"
  /\ \/ \E fs \in RootFS : disk' = [disk EXCEPT ![RootIndex].fs = fs] /\ step' = On("mount", RootIndex)
     \/ Then("error") /\ UNCHANGED disk
  /\ UNCHANGED <<want, fw, mnt, fstab, wrote, ignored>>

-----------------------------------------------------------------------------
(* A disk image.                                                           *)

WriteDisk ==
  /\ step.do = "check"
  /\ \/ \E image \in Images : disk' = image /\ want' = <<>> /\ Then("find")
     \/ Then("error") /\ UNCHANGED <<want, disk>>
  /\ UNCHANGED <<fw, mnt, fstab, wrote, ignored>>

Linux == {"ext4", "xfs", "btrfs"}

\* findRootPartition: the hint of the inspection; else the largest Linux one; else the
\* largest that is neither FAT nor swap; else the largest.
RootFound(hint) ==
  LET largest(S) == {i \in S : \A j \in S : disk[j].size <= disk[i].size}
      linux == {i \in DOMAIN disk : disk[i].fs \in Linux}
      other == {i \in DOMAIN disk : disk[i].fs \notin {"vfat", "swap"}}
  IN  IF hint \in DOMAIN disk /\ disk[hint].fs \in Linux \cup {""} THEN {hint}
      ELSE IF linux # {} THEN largest(linux)
      ELSE IF other # {} THEN largest(other)
      ELSE largest(DOMAIN disk)

FindRoot ==
  /\ step.do = "find"
  /\ \E hint \in {0} \cup DOMAIN disk : \E i \in RootFound(hint) : step' = On("mount", i)
  /\ UNCHANGED <<want, fw, disk, mnt, fstab, wrote, ignored>>

-----------------------------------------------------------------------------
(* injectConfig.                                                           *)

Mountable == Linux \cup {"vfat"}
Mounted(ms, path, i) == IF disk[i].fs \in Mountable THEN Append(ms, [path |-> path, part |-> i]) ELSE ms

\* A mount hides those made before it at its place or below.
Visible(ms) ==
  {k \in DOMAIN ms : \A j \in DOMAIN ms : j > k => ~IsPrefix(ms[j].path, ms[k].path)}

\* The partition a path is on: that of the longest visible mount above it, and 0,
\* the memory of RAMOS, without one.
Resolve(ms, path) ==
  LET above == {k \in Visible(ms) : IsPrefix(ms[k].path, path)}
      deepest == {k \in above : \A j \in above : Len(ms[j].path) <= Len(ms[k].path)}
  IN  IF above = {} THEN 0 ELSE ms[CHOOSE k \in deepest : TRUE].part

\* A mount that fails, for whatever reason, is passed over.
Mount(ms, path, i) ==
  /\ mnt' \in {Mounted(ms, path, i), ms}
  /\ ignored' = IF mnt' = Mounted(ms, path, i) THEN ignored ELSE ignored \cup {"mount"}

\* That the root partition cannot be mounted is not noticed.
MountRoot ==
  /\ step.do = "mount"
  /\ Mount(<<>>, Root, step.i)
  /\ step' = IF want = <<>> THEN On("seed", step.i) ELSE On("rest", 1)
  /\ UNCHANGED <<want, fw, disk, fstab, wrote>>

\* Faulty: swap and what has no place are not counted.
FstabPacked ==
  LET kept == SelectSeq(want, LAMBDA l : l.mount # NoMount \/ l.fs = "swap")
  IN {[part |-> i, path |-> kept[i].mount, fs |-> kept[i].fs] :
        i \in {j \in DOMAIN kept : kept[j].fs # "swap"}}

\* Fstab, without its lines for swap.
Fstab ==
  {[part |-> i, path |-> want[i].mount, fs |-> IF want[i].fs = "fat32" THEN "vfat" ELSE want[i].fs] :
     i \in {j \in DOMAIN want : want[j].mount # NoMount /\ want[j].fs # "swap"}}

Kept(line) == line.mount \notin {NoMount, Root} /\ line.fs \notin {"swap", "biosboot"}

\* The other partitions are mounted in the order of the list.
MountRest ==
  /\ step.do = "rest"
  /\ IF step.i > Len(want)
     THEN fstab' = Fstab /\ step' = On("seed", RootIndex) /\ UNCHANGED <<mnt, ignored>>
     ELSE /\ IF Kept(want[step.i]) THEN Mount(mnt, want[step.i].mount, step.i)
             ELSE UNCHANGED <<mnt, ignored>>
          /\ step' = On("rest", step.i + 1)
          /\ UNCHANGED fstab
  /\ UNCHANGED <<want, fw, disk, wrote>>

\* ApplyNetwork may fail; all that was mounted is unmounted.
Seed ==
  /\ step.do = "seed"
  /\ wrote' = [d \in Dirs |-> Resolve(mnt, d)]
  /\ mnt' = <<>>
  /\ \/ step' = On(IF want = <<>> THEN "esp" ELSE "loader", step.i)
     \/ Then("error")
  /\ UNCHANGED <<want, fw, disk, fstab, ignored>>

-----------------------------------------------------------------------------
(* The loader.                                                             *)

File(in, kind, own, code) == [in |-> in, kind |-> kind, own |-> own, code |-> code]

\* findESP: the smallest FAT partition that is not too large.
BigFAT == 4
ESPs ==
  LET fat == {i \in DOMAIN disk : disk[i].fs = "vfat" /\ disk[i].size <= BigFAT}
  IN  {i \in fat : \A j \in fat : disk[i].size <= disk[j].size}

\* installBootloader: its failure is only logged.  It mounts root and the ESP, not
\* what else the list names.
Loader ==
  /\ step.do = "loader"
  /\ \/ UNCHANGED disk
     \/ \E i \in ESPs :
          /\ fw = "uefi" /\ disk[step.i].fs \in Mountable
          /\ disk' = [disk EXCEPT ![i].efi = @ \cup {File(TRUE, "boot", TRUE, TRUE)}]
  /\ Then("esp")
  /\ UNCHANGED <<want, fw, mnt, fstab, wrote, ignored>>

\* scanEFIFiles: one outside of EFI/BOOT is preferred to one in it, but for the
\* fallback loader, which must be in it.
Found(files, kind) ==
  LET all == {f \in files : f.kind = kind}
      out == {f \in all : ~f.in}
  IN  IF out # {} THEN out ELSE all

\* Faulty: a loader anywhere will do.
BootAnywhere(files) == {f \in files : f.kind = "boot"}
BootFound(files) == {f \in files : f.kind = "boot" /\ f.in}

\* installEFIFallback: what the files of the ESP become.
Copied(files, from, kind) ==
  {f \in files : ~(f.in /\ f.own /\ f.kind = kind)} \cup {File(TRUE, kind, TRUE, from.code)}
Sources(files) == IF Found(files, "shim") # {} THEN Found(files, "shim") ELSE Found(files, "grub")
WithBoot(files) ==
  IF BootFound(files) # {} THEN {files} ELSE {Copied(files, f, "boot") : f \in Sources(files)}
WithCopy(files, old, kind) ==
  IF Found(old, kind) = {} THEN {files} ELSE {Copied(files, f, kind) : f \in Found(old, kind)}
Fallback(files) == UNION {WithCopy(g, files, "grub") : g \in WithBoot(files)}

\* ensureUEFIBoot, which may fail in other ways as well.  That sgdisk cannot mark the
\* partition, for one in an MBR table, is not noticed.
EnsureUEFI ==
  /\ step.do = "esp"
  /\ \/ Then(IF fw = "uefi" THEN "error" ELSE "done") /\ UNCHANGED <<disk, ignored>>
     \/ \E i \in ESPs : \E files \in Fallback(disk[i].efi), type \in {"ef00", disk[i].type} :
          /\ disk' = [disk EXCEPT ![i].type = type, ![i].efi = files]
          /\ ignored' = IF type = "ef00" THEN ignored ELSE ignored \cup {"sgdisk"}
          /\ Then("done")
  /\ UNCHANGED <<want, fw, mnt, fstab, wrote>>

InstallNext ==
  \/ Check \/ MakePartition \/ Format \/ WriteRoot
  \/ WriteDisk \/ FindRoot
  \/ MountRoot \/ MountRest \/ Seed
  \/ Loader \/ EnsureUEFI

InstallSpec == InstallInit /\ [][InstallNext]_installVars

-----------------------------------------------------------------------------
\* Lists that the mounts of the agent cannot serve as the booted system does: a place
\* listed after one below it, and a file system the code does not make.
Shadowed(list) ==
  \E i, j \in DOMAIN list : i < j /\ list[j].mount \notin {NoMount, Root}
                                 /\ IsPrefix(list[j].mount, list[i].mount)
Unmade(list) ==
  \E i \in DOMAIN list :
    list[i].mount \notin {NoMount, Root} /\ list[i].fs \notin {"ext4", "xfs", "vfat", "fat32", "swap"}

\* Where the installed system finds a place: it starts on the root partition and
\* mounts its fstab, parents first.
Tree == {<<RootIndex, Root>>} \cup {<<e.part, e.path>> : e \in fstab}
AtBoot(path) ==
  LET above == {e \in Tree : IsPrefix(e[2], path)}
  IN  (CHOOSE e \in above : \A f \in above : Len(f[2]) <= Len(e[2]))[1]

\* What was configured is there when the installed system boots: every place was
\* written on the partition that fstab mounts at it, and fstab names the file systems
\* that were made, whatever partitions precede, lie below or have no place, if the list
\* names no place after one below it and no file system that is not made, and if no
\* mount failed (install.go:408 and 428 go on after one).
ConfigIsSeen ==
  (step.do \in {"esp", "done"} /\ want # <<>> /\ disk[RootIndex].fs \in Mountable
     /\ "mount" \notin ignored)
    => \/ Shadowed(want) \/ Unmade(want)
       \/ /\ \A d \in Dirs : wrote[d] = AtBoot(d)
          /\ \A e \in fstab : e.path # Root => e.fs = disk[e.part].fs

\* A UEFI machine whose installation ends well has a FAT partition with a loader for it
\* where firmware looks without a boot entry (efi.go: ensureUEFIBoot), unless there was
\* a loader of another architecture on it.  The partition is marked as an EFI system
\* partition, unless sgdisk failed to do so (efi.go:29 drops its error).
LoaderIsFound ==
  (step.do = "done" /\ fw = "uefi") =>
    \E i \in DOMAIN disk :
      /\ disk[i].fs = "vfat"
      /\ disk[i].type = "ef00" \/ "sgdisk" \in ignored
      /\ \/ File(TRUE, "boot", TRUE, TRUE) \in disk[i].efi
         \/ \E f \in disk[i].efi : ~f.own
===============================================================================
