------------------------------- MODULE MCDisks --------------------------------
(***************************************************************************)
(* Five parts that work on media and disks and share no state, checked in  *)
(* one run: a behaviour is one of the growing of a root partition, of the  *)
(* installation of a disk, of the inspection of a Windows medium, of the   *)
(* image catalogue or of rackauto bootstrap, and the others stay as they   *)
(* start.                                                                  *)
(***************************************************************************)
EXTENDS MCDiskGrow, OSInstall, MediaInspect, BootMedia, ImageCatalogue, TLC

VARIABLE focus  \* which of the five runs

mcVars == <<growVars, installVars, inspectVars, mediaVars, catalogueVars, focus>>

-----------------------------------------------------------------------------
(* Partition lists and disk images on a disk of ten units.                 *)

MCDisk == 10
MCText == STRING
esp == Line(2, "vfat", <<"boot", "efi">>, "esp")
grub == Line(1, "biosboot", NoMount, "bios")
swap == Line(1, "swap", NoMount, "")
slash(n) == Line(n, "ext4", Root, "")
var(n) == Line(n, "xfs", <<"var">>, "")
lib(n) == Line(n, "ext4", <<"var", "lib">>, "")
home(n, fs) == Line(n, fs, <<"home">>, "")

\* Lists in and out of order, with more than one partition that takes the rest, with a
\* file system the code does not know, with none, with a root called swap, without a
\* root and with two.
MCLists ==
  {<<esp, slash(0)>>, <<slash(4), esp>>, <<esp, slash(4), home(0, "ext4")>>,
   <<esp, slash(0), home(0, "ext4")>>, <<swap, esp, slash(4), var(2), lib(0)>>,
   <<grub, slash(3), lib(2), var(0)>>, <<grub, swap, slash(3), home(0, "btrfs")>>,
   <<esp, slash(3), home(2, "")>>, <<Line(1, "fat32", NoMount, ""), esp, slash(0)>>,
   <<esp, Line(4, "swap", Root, ""), var(0)>>, <<esp, var(0)>>, <<slash(3), slash(3)>>}

Partition(units, type, fs, efi) == [size |-> units, type |-> type, fs |-> fs, efi |-> efi]
EFIFiles ==
  {File(TRUE, "boot", TRUE, TRUE), File(TRUE, "boot", FALSE, FALSE), File(TRUE, "grub", FALSE, FALSE),
   File(FALSE, "boot", TRUE, TRUE), File(FALSE, "shim", TRUE, TRUE), File(FALSE, "grub", TRUE, TRUE)}

MCImages ==
  {<<Partition(2, t, "vfat", efi), Partition(5, "8300", fs, {}), Partition(3, "8300", "", {})>> :
     t \in {"ef00", "8300"}, efi \in SUBSET EFIFiles, fs \in {"ext4", "swap"}}
  \cup {<<Partition(1, "ef02", "", {}), Partition(6, "8300", "xfs", {}), Partition(7, "8300", "btrfs", {})>>,
        <<Partition(5, "ef00", "vfat", {}), Partition(2, "8200", "swap", {})>>}

-----------------------------------------------------------------------------
(* Media of at most three magics at every place of them, in chunks of five *)
(* bytes: a WinPE, a server WIM that is longer than its header says, a     *)
(* magic without a WIM, and a WIM that says nothing.                       *)

Spread(n) == {p \in [1 .. n -> 0 .. 11] : \A i \in 1 .. n - 1 : p[i] + 3 <= p[i + 1]}
Magics(at) ==
  {Wim(at, TRUE, 4, 0, "boot"), Wim(at, TRUE, 3, 7, "server"), Wim(at, FALSE, 9, 0, "other"),
   Wim(at, TRUE, 5, 0, "other")}

Filled(n, bytes, cd) ==
  UNION {{[size |-> bytes, iso |-> cd, wims |-> {k[i] : i \in 1 .. n}] :
            k \in {w \in [1 .. n -> UNION {Magics(p[i]) : i \in 1 .. n}] : \A i \in 1 .. n : w[i].at = p[i]}} :
         p \in Spread(n)}
MCMedia == UNION {Filled(n, 13, TRUE) : n \in 0 .. 3} \cup Filled(1, 4, TRUE) \cup Filled(1, 13, FALSE)

-----------------------------------------------------------------------------
(* Two releases; the mirror has only the first.                            *)

MCLength == [r \in Releases |-> r + 1]
MCHolds == [s \in Sites |-> IF s = Official THEN Releases ELSE {1}]

-----------------------------------------------------------------------------
(* A part that rests is in one of its initial states.                      *)

GrowRests ==
  /\ size = 16 /\ image = {[num |-> 1, start |-> 1, size |-> 1, type |-> "linux"]}
  /\ table = image /\ kernel = image /\ place = <<1>>
  /\ root = 0 /\ plan = NoPlan /\ saved = FALSE /\ pc = "plan"
InstallRests == want = <<>> /\ fw = "uefi" /\ InstallInit
InspectRests == medium = (CHOOSE m \in Media : TRUE) /\ InspectInit
MediaRests == local = Absent /\ agents = {} /\ MediaInit

WorkerSymmetry == Permutations(Workers)

MCInit ==
  \/ focus = "grow" /\ InstallRests /\ InspectRests /\ MediaRests /\ CatalogueInit /\ GrowInit
  \/ focus = "install" /\ GrowRests /\ InspectRests /\ MediaRests /\ CatalogueInit /\ InstallInit
  \/ focus = "inspect" /\ GrowRests /\ InstallRests /\ MediaRests /\ CatalogueInit /\ InspectInit
  \/ focus = "bootstrap" /\ GrowRests /\ InstallRests /\ InspectRests /\ CatalogueInit /\ MediaInit
  \/ focus = "catalogue" /\ GrowRests /\ InstallRests /\ InspectRests /\ MediaRests /\ CatalogueInit

MCNext ==
  \/ focus = "grow" /\ GrowNext
     /\ UNCHANGED <<installVars, inspectVars, mediaVars, catalogueVars, focus>>
  \/ focus = "install" /\ InstallNext
     /\ UNCHANGED <<growVars, inspectVars, mediaVars, catalogueVars, focus>>
  \/ focus = "inspect" /\ InspectNext
     /\ UNCHANGED <<growVars, installVars, mediaVars, catalogueVars, focus>>
  \/ focus = "bootstrap" /\ MediaNext
     /\ UNCHANGED <<growVars, installVars, inspectVars, catalogueVars, focus>>
  \/ focus = "catalogue" /\ CatalogueNext
     /\ UNCHANGED <<growVars, installVars, inspectVars, mediaVars, focus>>

MCSpec == MCInit /\ [][MCNext]_mcVars
===============================================================================
