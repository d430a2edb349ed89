------------------------------ MODULE DiskProofs ------------------------------
(***************************************************************************)
(* What DiskGrow and OSInstall promise, for every alignment, tail, table,  *)
(* disk, partition list and image: the plan to grow root fits the disk and *)
(* keeps partitions apart, and whatever step fails, no content is lost but *)
(* an ESP's that is still in its backup; what an installation configures   *)
(* is there when the installed system boots, and so is its loader.         *)
(***************************************************************************)
EXTENDS DiskGrow, OSInstall, SequenceTheorems, FiniteSetTheorems, WellFoundedInduction, TLAPS

-----------------------------------------------------------------------------
(* The plan.                                                               *)

DiskOK(T, sz) == sz \in Nat /\ IsTable(T) /\ \A p \in T : End(p) <= LastUsable(sz)

\* What a plan says of the ESP it moves and of the root it extends.
MovedOK(T, sz, pl, e) ==
  /\ e.num = pl.esp /\ e.type = "esp" /\ IsLast(T, e)
  /\ pl.espStart \in Nat
  /\ pl.espStart > e.start
  /\ pl.espStart + e.size <= LastUsable(sz)

GrownOK(T, sz, pl, r) ==
  /\ r.num = pl.root /\ r.type # "esp"
  /\ pl.rootSize \in Nat
  /\ pl.rootSize > r.size
  /\ r.start + pl.rootSize <= LastUsable(sz)
  /\ pl.esp = 0 => IsLast(T, r)
  /\ pl.esp # 0 => r.start + pl.rootSize = pl.espStart

PlanOK(T, sz, pl) ==
  /\ pl.esp # 0 => \E e \in T : MovedOK(T, sz, pl, e)
  /\ pl.root # 0 => \E r \in T : GrownOK(T, sz, pl, r)
  /\ pl.esp # 0 /\ pl.root # 0 =>
       \A r, e \in T : r.num = pl.root /\ e.num = pl.esp => r.start < e.start

\* Cutting a number down to an alignment unit loses less than one unit.
LEMMA AlignDownBounds ==
  ASSUME NEW n \in Int
  PROVE  AlignDown(n) \in Int /\ AlignDown(n) <= n /\ n < AlignDown(n) + Align
<1>1. n % Align \in 0 .. (Align - 1)
  BY AlignIsPositive
<1> QED
  BY <1>1, AlignIsPositive DEF AlignDown

\* The fields of a partition are numbers.
LEMMA PartFields ==
  ASSUME NEW T, IsTable(T), NEW p \in T
  PROVE  /\ p.num \in Nat \ {0} /\ p.start \in Nat /\ p.size \in Nat \ {0}
         /\ End(p) \in Nat /\ End(p) = p.start + p.size /\ p.start < End(p)
<1>1. p \in Part
  BY DEF IsTable
<1> QED
  BY <1>1 DEF Part, End

\* A plan that only extends root.
LEMMA ExtendedAlone ==
  ASSUME NEW T, NEW sz, DiskOK(T, sz), NEW r \in T, r.type # "esp", IsLast(T, r)
  PROVE  PlanOK(T, sz, Extended(NoPlan, r, AlignDown(LastUsable(sz) - r.start)))
<1> DEFINE n == AlignDown(LastUsable(sz) - r.start)
           pl == Extended(NoPlan, r, n)
<1>1. r.num \in Nat \ {0} /\ r.start \in Nat /\ r.size \in Nat \ {0}
  BY PartFields DEF DiskOK
<1>2. LastUsable(sz) \in Int
  BY TailIsNat DEF DiskOK, LastUsable
<1>3. n \in Int /\ n <= LastUsable(sz) - r.start
  BY <1>1, <1>2, AlignDownBounds
<1> HIDE DEF n
<1>4. CASE n > r.size + Align
  <2>1. pl = [esp |-> 0, espStart |-> 0, root |-> r.num, rootSize |-> n]
    BY <1>4 DEF Extended, NoPlan, MovePlan
  <2>2. n \in Nat /\ n > r.size /\ r.start + n <= LastUsable(sz)
    BY <1>1, <1>2, <1>3, <1>4, AlignIsPositive
  <2>3. GrownOK(T, sz, pl, r)
    BY <2>1, <2>2 DEF GrownOK
  <2> HIDE DEF pl
  <2> QED
    BY <2>1, <2>3 DEF PlanOK, n, pl
<1>5. CASE ~(n > r.size + Align)
  <2>1. pl = NoPlan
    BY <1>5 DEF Extended
  <2> QED
    BY <2>1 DEF PlanOK, NoPlan, MovePlan, n
<1> QED
  BY <1>4, <1>5

\* A plan that moves the ESP.
LEMMA ExtendedMoving ==
  ASSUME NEW T, NEW sz, DiskOK(T, sz), NEW r \in T, r.type # "esp",
         NEW e \in T, e.type = "esp", MovesESP(T, sz, r, e)
  PROVE  PlanOK(T, sz, Extended(MovePlan(e.num, NewESP(e, sz)),
                                r, NewESP(e, sz) - r.start))
<1> DEFINE s == NewESP(e, sz)
           moved == MovePlan(e.num, s)
           pl == Extended(moved, r, s - r.start)
<1>1. /\ r.num \in Nat \ {0} /\ r.start \in Nat /\ r.size \in Nat \ {0}
      /\ e.num \in Nat \ {0} /\ e.start \in Nat /\ e.size \in Nat \ {0}
  BY PartFields DEF DiskOK
<1>2. LastUsable(sz) \in Int
  BY TailIsNat DEF DiskOK, LastUsable
<1>3. s \in Int /\ s + e.size <= LastUsable(sz)
  <2>1. LastUsable(sz) - e.size \in Int
    BY <1>1, <1>2
  <2> QED
    BY <1>1, <1>2, <2>1, AlignDownBounds DEF NewESP
<1>4. IsLast(T, e) /\ r.start < e.start /\ s > e.start + Align
  BY DEF MovesESP
<1>5. s \in Nat /\ s > e.start
  BY <1>1, <1>3, <1>4, AlignIsPositive
<1> HIDE DEF s, pl
<1>6. moved = [esp |-> e.num, espStart |-> s, root |-> 0, rootSize |-> 0]
  BY DEF MovePlan
<1>7. \A x, y \in T : x.num = y.num => x = y
  BY DEF DiskOK, IsTable
<1> HIDE DEF moved
<1> USE DEF pl
<1>8. CASE s - r.start > r.size + Align
  <2>1. pl = [esp |-> e.num, espStart |-> s, root |-> r.num, rootSize |-> s - r.start]
    BY <1>6, <1>8 DEF Extended
  <2>2. /\ s - r.start \in Nat /\ s - r.start > r.size
        /\ r.start + (s - r.start) <= LastUsable(sz)
        /\ r.start + (s - r.start) = s
    BY <1>1, <1>2, <1>3, <1>5, <1>8, AlignIsPositive
  <2>3. GrownOK(T, sz, pl, r)
    BY <1>1, <2>1, <2>2 DEF GrownOK
  <2>4. MovedOK(T, sz, pl, e)
    BY <1>3, <1>4, <1>5, <2>1 DEF MovedOK
  <2>5. \A x, y \in T : x.num = pl.root /\ y.num = pl.esp => x.start < y.start
    BY <1>4, <1>7, <2>1
  <2> HIDE DEF pl
  <2>6. PlanOK(T, sz, pl)
    BY <2>3, <2>4, <2>5 DEF PlanOK
  <2> QED
    BY <2>6 DEF pl, moved, s
<1>9. CASE ~(s - r.start > r.size + Align)
  <2>1. pl = [esp |-> e.num, espStart |-> s, root |-> 0, rootSize |-> 0]
    BY <1>6, <1>9 DEF Extended
  <2>2. MovedOK(T, sz, pl, e)
    BY <1>3, <1>4, <1>5, <2>1 DEF MovedOK
  <2> HIDE DEF pl
  <2>3. PlanOK(T, sz, pl)
    BY <2>1, <2>2 DEF PlanOK
  <2> QED
    BY <2>3 DEF pl, moved, s
<1> QED
  BY <1>8, <1>9

\* Every plan of PlanGrow is one.
LEMMA PlanGrowOK ==
  ASSUME NEW T, NEW sz, DiskOK(T, sz), NEW r \in T, r.type # "esp",
         NEW E, \A e \in E : e \in T /\ e.type = "esp"
  PROVE  PlanOK(T, sz, PlanGrow(T, sz, r, E))
<1> DEFINE moved == {e \in E : MovesESP(T, sz, r, e)}
           e0 == CHOOSE e \in moved : TRUE
<1>0. PlanOK(T, sz, NoPlan)
  BY DEF PlanOK, NoPlan, MovePlan
<1>1. CASE ~Slack(T, sz)
  BY <1>0, <1>1 DEF PlanGrow
<1>2. CASE Slack(T, sz) /\ moved # {}
  <2>1. e0 \in moved
    BY <1>2
  <2>2. e0 \in T /\ e0.type = "esp" /\ MovesESP(T, sz, r, e0)
    BY <2>1
  <2>3. PlanGrow(T, sz, r, E)
          = Extended(MovePlan(e0.num, NewESP(e0, sz)),
                     r, NewESP(e0, sz) - r.start)
    BY <1>2 DEF PlanGrow
  <2> HIDE DEF e0
  <2> QED
    BY <2>2, <2>3, ExtendedMoving
<1>3. CASE Slack(T, sz) /\ moved = {} /\ IsLast(T, r)
  <2>1. PlanGrow(T, sz, r, E) = Extended(NoPlan, r, AlignDown(LastUsable(sz) - r.start))
    BY <1>3 DEF PlanGrow
  <2> QED
    BY <1>3, <2>1, ExtendedAlone
<1>4. CASE Slack(T, sz) /\ moved = {} /\ ~IsLast(T, r)
  BY <1>0, <1>4 DEF PlanGrow
<1> QED
  BY <1>1, <1>2, <1>3, <1>4

-----------------------------------------------------------------------------
(* The table the plan is written into.                                     *)

\* A rewritten partition keeps number and type and does not shrink; only the ESP
\* of the plan starts elsewhere.
LEMMA RewrittenPart ==
  ASSUME NEW T, NEW sz, DiskOK(T, sz), NEW pl, PlanOK(T, sz, pl), NEW p \in T
  PROVE  /\ Rewritten(p, pl) \in Part
         /\ Rewritten(p, pl).num = p.num
         /\ Rewritten(p, pl).type = p.type
         /\ Rewritten(p, pl).size >= p.size
         /\ p.num # pl.esp => Rewritten(p, pl).start = p.start
         /\ End(Rewritten(p, pl)) <= LastUsable(sz)
<1>1. p \in Part /\ End(p) <= LastUsable(sz) /\ LastUsable(sz) \in Int
  BY TailIsNat DEF DiskOK, IsTable, LastUsable
<1>2. \A q \in T : q.num = p.num => q = p
  BY DEF DiskOK, IsTable
<1>3. p.num \in Nat \ {0} /\ p.start \in Nat /\ p.size \in Nat \ {0}
  BY <1>1 DEF Part
<1>4. CASE p.num = pl.esp
  <2>1. MovedOK(T, sz, pl, p)
    BY <1>2, <1>3, <1>4 DEF PlanOK, MovedOK
  <2>2. pl.espStart \in Nat /\ pl.espStart + p.size <= LastUsable(sz)
    BY <2>1 DEF MovedOK
  <2>3. Rewritten(p, pl) = [p EXCEPT !.start = pl.espStart]
    BY <1>4 DEF Rewritten
  <2> QED
    BY <1>1, <1>3, <1>4, <2>2, <2>3 DEF Part, End
<1>5. CASE p.num # pl.esp /\ p.num = pl.root
  <2>1. GrownOK(T, sz, pl, p)
    BY <1>2, <1>3, <1>5 DEF PlanOK, GrownOK
  <2>2. pl.rootSize \in Nat /\ pl.rootSize > p.size /\ p.start + pl.rootSize <= LastUsable(sz)
    BY <2>1 DEF GrownOK
  <2>3. Rewritten(p, pl) = [p EXCEPT !.size = pl.rootSize]
    BY <1>5 DEF Rewritten
  <2> QED
    BY <1>1, <1>3, <1>5, <2>2, <2>3 DEF Part, End
<1>6. CASE p.num # pl.esp /\ p.num # pl.root
  BY <1>1, <1>3, <1>6 DEF Rewritten
<1> QED
  BY <1>4, <1>5, <1>6

\* Of two partitions of a table, the one that begins first ends before the other.
LEMMA InOrder ==
  ASSUME NEW T, IsTable(T), NEW p \in T, NEW q \in T, p # q, p.start <= q.start
  PROVE  End(p) <= q.start
<1>1. Apart(p, q)
  BY DEF IsTable
<1>2. p.start \in Nat /\ q.start \in Nat /\ End(q) \in Nat /\ q.start < End(q)
  BY PartFields
<1>3. End(p) <= q.start \/ End(q) <= p.start
  BY <1>1 DEF Apart
<1> QED
  BY <1>2, <1>3

\* All the others end before the last partition begins.
LEMMA LastInOrder ==
  ASSUME NEW T, IsTable(T), NEW p \in T, NEW q \in T, p # q, IsLast(T, q)
  PROVE  End(p) <= q.start
<1>1. Apart(p, q) /\ End(p) <= End(q)
  BY DEF IsTable, IsLast
<1>2. p.start \in Nat /\ End(p) \in Nat /\ p.start < End(p) /\ End(q) \in Nat
  BY PartFields
<1>3. End(p) <= q.start \/ End(q) <= p.start
  BY <1>1 DEF Apart
<1> QED
  BY <1>1, <1>2, <1>3

\* The partitions beside the extended root and the moved ESP end before root.
LEMMA BeforeRoot ==
  ASSUME NEW T, NEW sz, DiskOK(T, sz), NEW pl, PlanOK(T, sz, pl),
         \A r, e \in T : r.num = pl.root /\ e.num = pl.esp => Between(T, r, e) = {},
         NEW p \in T, p.num = pl.root, NEW q \in T, q # p, q.num # pl.esp
  PROVE  End(q) <= p.start
<1>0. IsTable(T) /\ \A x, y \in T : x.num = y.num => x = y
  BY DEF DiskOK, IsTable
<1>1. /\ p.num \in Nat \ {0} /\ p.start \in Nat
      /\ q.start \in Nat /\ End(q) \in Nat /\ q.start < End(q)
  BY <1>0, PartFields
<1>2. GrownOK(T, sz, pl, p)
  BY <1>0, <1>1 DEF PlanOK, GrownOK
<1>3. CASE pl.esp = 0
  BY <1>0, <1>2, <1>3, LastInOrder DEF GrownOK
<1>4. CASE pl.esp # 0
  <2>1. PICK e \in T : MovedOK(T, sz, pl, e)
    BY <1>4 DEF PlanOK
  <2>2. e.num = pl.esp /\ IsLast(T, e) /\ e # q
    BY <2>1 DEF MovedOK
  <2>3. e.start \in Nat /\ End(q) <= e.start
    BY <1>0, <2>2, PartFields, LastInOrder
  <2>4. ~(p.start < q.start /\ q.start < e.start)
    BY <2>2 DEF Between
  <2>5. q.start <= p.start
    BY <1>1, <2>3, <2>4
  <2> QED
    BY <1>0, <2>5, InOrder
<1> QED
  BY <1>3, <1>4

\* Partitions stay apart when nothing stands between the root that is extended
\* and the ESP that is moved.
LEMMA RewrittenApart ==
  ASSUME NEW T, NEW sz, DiskOK(T, sz), NEW pl, PlanOK(T, sz, pl),
         \A r, e \in T : r.num = pl.root /\ e.num = pl.esp => Between(T, r, e) = {},
         NEW p \in T, NEW q \in T, p # q, p.num # pl.esp
  PROVE  Apart(Rewritten(p, pl), Rewritten(q, pl))
<1> DEFINE p1 == Rewritten(p, pl)
           q1 == Rewritten(q, pl)
<1>0. IsTable(T) /\ \A x, y \in T : x.num = y.num => x = y
  BY DEF DiskOK, IsTable
<1>1. /\ p.num \in Nat \ {0} /\ p.start \in Nat /\ p.size \in Nat \ {0}
      /\ End(p) \in Nat /\ End(p) = p.start + p.size
      /\ q.num \in Nat \ {0} /\ q.start \in Nat /\ q.size \in Nat \ {0}
      /\ End(q) \in Nat /\ End(q) = q.start + q.size
  BY <1>0, PartFields
<1>2. p \in Part /\ q \in Part
  BY <1>0 DEF IsTable
<1>3. p1.start = p.start /\ (p.num # pl.root => p1 = p)
  BY <1>2 DEF Rewritten, Part
<1>4. CASE q.num = pl.esp
  <2>1. MovedOK(T, sz, pl, q)
    BY <1>0, <1>1, <1>4 DEF PlanOK, MovedOK
  <2>2. pl.espStart \in Nat /\ pl.espStart > q.start /\ End(p) <= q.start
    BY <1>0, <2>1, LastInOrder DEF MovedOK
  <2>3. q1.start = pl.espStart
    BY <1>2, <1>4 DEF Rewritten, Part
  <2>4. CASE p.num = pl.root
    <3>1. GrownOK(T, sz, pl, p)
      BY <1>0, <1>1, <2>4 DEF PlanOK, GrownOK
    <3>2. p.start + pl.rootSize = pl.espStart
      BY <1>1, <1>4, <3>1 DEF GrownOK
    <3>3. p1.size = pl.rootSize
      BY <1>2, <2>4 DEF Rewritten, Part
    <3> QED
      BY <1>3, <2>2, <2>3, <3>2, <3>3 DEF Apart, End
  <2>5. CASE p.num # pl.root
    BY <1>1, <1>3, <2>2, <2>3, <2>5 DEF Apart
  <2> QED
    BY <2>4, <2>5
<1>5. CASE q.num # pl.esp
  <2>1. q1.start = q.start /\ (q.num # pl.root => q1 = q)
    BY <1>2, <1>5 DEF Rewritten, Part
  <2>2. CASE p.num = pl.root
    <3>1. End(q) <= p.start
      BY <1>5, <2>2, BeforeRoot
    <3>2. q1 = q
      BY <1>0, <2>1, <2>2
    <3> QED
      BY <1>3, <3>1, <3>2 DEF Apart
  <2>3. CASE q.num = pl.root
    <3>1. End(p) <= q.start
      BY <2>3, BeforeRoot
    <3>2. p1 = p
      BY <1>0, <1>3, <2>3
    <3> QED
      BY <2>1, <3>1, <3>2 DEF Apart
  <2>4. CASE p.num # pl.root /\ q.num # pl.root
    BY <1>0, <1>3, <2>1, <2>4 DEF Apart, IsTable
  <2> QED
    BY <2>2, <2>3, <2>4
<1> QED
  BY <1>4, <1>5

-----------------------------------------------------------------------------
(* The steps of growDisk.                                                  *)

\* Each partition is one of the image's, no smaller than it was there.
Covers == \A q \in table : \E i \in image : i.num = q.num /\ i.type = q.type /\ i.size <= q.size

\* All but the ESP of the plan begin where the image has them.
Unmoved == \A q \in table, i \in image : i.num = q.num /\ q.num # plan.esp => i.start = q.start

TableOK ==
  /\ DiskOK(image, size)
  /\ table \subseteq Part
  /\ \A p, q \in table : p.num = q.num => p = q
  /\ Fits(table)
  /\ Covers
  /\ kernel \in {image, table}
  /\ Unmoved
  /\ DOMAIN place = {p.num : p \in image}
  /\ PlanOK(image, size, plan)

\* What each stage may rely on; LossIsCovered is the part that holds at all of them.
GrowInv ==
  /\ TableOK
  /\ pc \in {"plan", "backup", "apply"} => table = image /\ kernel = table /\ \A p \in table : Sound(p)
  /\ pc = "apply" /\ plan.esp # 0 => saved
  /\ pc = "restore" => plan.esp # 0 /\ saved /\ \A p \in table : p.num # plan.esp => Sound(p)
  /\ pc \in {"resize", "grown"} => \A p \in table : Sound(p) \/ Misplaced(p)
  /\ LossIsCovered

LEMMA GrowInvInit == GrowInit => GrowInv
<1> SUFFICES ASSUME GrowInit PROVE GrowInv
  OBVIOUS
<1>1. DiskOK(image, size) /\ table = image /\ kernel = image
  BY LayoutsAreTables, SizesAreNat DEF GrowInit, DiskOK
<1>2. \A p, q \in image : p.num = q.num => p = q
  BY <1>1 DEF DiskOK, IsTable
<1>3. DOMAIN place = {p.num : p \in image}
  BY DEF GrowInit
<1>4. ASSUME NEW p \in table PROVE Sound(p)
  <2>1. \A q \in image : q.num = p.num => q = p
    BY <1>1, <1>2, <1>4
  <2>2. (CHOOSE q \in image : q.num = p.num) = p
    BY <1>1, <1>4, <2>1
  <2>3. place[p.num] = (CHOOSE q \in image : q.num = p.num).start
    BY <1>1, <1>4 DEF GrowInit
  <2> QED
    BY <2>2, <2>3 DEF Sound
<1>5. Fits(table) /\ table \subseteq Part
  BY <1>1 DEF Fits, DiskOK, IsTable
<1>6. Covers
  <2> SUFFICES ASSUME NEW q \in table
               PROVE  q \in image /\ q.num = q.num /\ q.type = q.type /\ q.size <= q.size
    BY DEF Covers
  <2> QED
    BY <1>1, PartFields DEF DiskOK
<1>7. PlanOK(image, size, plan)
  BY DEF GrowInit, PlanOK, NoPlan, MovePlan
<1>8. Unmoved
  BY <1>1, <1>2 DEF Unmoved
<1> QED
  BY <1>1, <1>2, <1>3, <1>4, <1>5, <1>6, <1>7, <1>8 DEF GrowInv, TableOK, GrowInit, LossIsCovered

\* The one partition a plan moves is an ESP.
LEMMA MovedIsESP ==
  ASSUME TableOK, NEW q \in table, q.num = plan.esp
  PROVE  q.type = "esp"
<1>1. PICK i \in image : i.num = q.num /\ i.type = q.type
  BY DEF TableOK, Covers
<1>2. q.num # 0
  BY DEF TableOK, Part
<1>3. PICK e \in image : e.num = plan.esp /\ e.type = "esp"
  BY <1>2 DEF TableOK, PlanOK, MovedOK
<1> QED
  BY <1>1, <1>3 DEF TableOK, DiskOK, IsTable

\* Writing a partition, where the kernel has it, leaves the content of all the others;
\* but where that is not its place on the disk, the ESP of the plan may be hit.
LEMMA OverwrittenKeeps ==
  ASSUME TableOK, NEW p \in kernel, NEW q \in table, q.num # p.num, Sound(q), ~Misplaced(q)
  PROVE  q.num \in DOMAIN place /\ Overwritten(p)[q.num] = q.start
<1>1. PICK i \in image : i.num = q.num /\ i.size <= q.size
  BY DEF TableOK, Covers
<1>2. q.num \in DOMAIN place
  BY <1>1 DEF TableOK
<1>3. p \in Part /\ q \in Part /\ i \in Part /\ Apart(p, [q EXCEPT !.size = i.size])
  <2>1. q \in Part /\ i \in Part /\ q.start \in Nat /\ q.size \in Nat /\ i.size \in Nat
    BY DEF TableOK, DiskOK, IsTable, Part
  <2>2. /\ [q EXCEPT !.size = i.size].start = q.start
        /\ [q EXCEPT !.size = i.size].size = i.size
    BY <2>1 DEF Part
  <2>3. CASE kernel = table
    <3>1. p \in Part /\ Apart(p, q) /\ p.start \in Nat /\ p.size \in Nat
      BY <2>3 DEF TableOK, Fits, Part
    <3> QED
      BY <1>1, <2>1, <2>2, <3>1 DEF Apart, End
  <2>4. CASE kernel # table
    <3>1. kernel = image /\ i.start = q.start
      BY <1>1, <2>4 DEF TableOK, Unmoved, Misplaced
    <3>2. p \in Part /\ Apart(p, i) /\ p.start \in Nat /\ p.size \in Nat
      BY <1>1, <3>1 DEF TableOK, DiskOK, IsTable, Part
    <3> QED
      BY <2>1, <2>2, <3>1, <3>2 DEF Apart, End
  <2> QED
    BY <2>3, <2>4
<1>4. ASSUME NEW j \in image, j.num = q.num
      PROVE  Apart(p, [j EXCEPT !.start = place[q.num]])
  <2>1. j = i /\ j \in Part
    BY <1>1, <1>4 DEF TableOK, DiskOK, IsTable
  <2>2. /\ p \in Part /\ q \in Part /\ place[q.num] = q.start
        /\ Apart(p, [q EXCEPT !.size = i.size])
    BY <1>3 DEF Sound
  <2>3. /\ [j EXCEPT !.start = place[q.num]].start = q.start
        /\ [j EXCEPT !.start = place[q.num]].size = j.size
        /\ [q EXCEPT !.size = i.size].start = q.start
        /\ [q EXCEPT !.size = i.size].size = j.size
    BY <2>1, <2>2 DEF Part
  <2> QED
    BY <2>2, <2>3 DEF Apart, End
<1> QED
  BY <1>2, <1>4 DEF Overwritten, Sound

LEMMA PlanKeeps == GrowInv /\ Plan => GrowInv'
<1> SUFFICES ASSUME GrowInv, Plan PROVE GrowInv'
  OBVIOUS
<1>1. /\ table = image /\ (\A p \in table : Sound(p)) /\ TableOK
      /\ UNCHANGED <<size, image, table, kernel, place, saved>> /\ kernel = table
      /\ pc' \in {"grown", "backup", "apply"} /\ (pc' = "apply" => plan'.esp = 0)
  BY DEF GrowInv, Plan, KeepDisk, Go
<1>2. PlanOK(image, size, plan')
  <2>1. CASE UNCHANGED plan
    BY <1>1, <2>1 DEF TableOK
  <2>2. CASE \E hint \in 0 .. Cardinality(image) :
               \E r \in PickRoot(table, hint), E \in LastListed({p \in table : p.type = "esp"}) :
                 plan' = PlanGrow(table, size, r, E)
    <3>1. PICK hint \in 0 .. Cardinality(image) :
            \E r \in PickRoot(table, hint), E \in LastListed({p \in table : p.type = "esp"}) :
              plan' = PlanGrow(table, size, r, E)
      BY <2>2
    <3>2. PICK r \in PickRoot(table, hint), E \in LastListed({p \in table : p.type = "esp"}) :
            plan' = PlanGrow(table, size, r, E)
      BY <3>1
    <3>3. r \in table /\ r.type # "esp"
      BY DEF PickRoot, Candidates
    <3>4. \A e \in E : e \in table /\ e.type = "esp"
      BY DEF LastListed
    <3>5. DiskOK(table, size)
      BY <1>1 DEF TableOK
    <3> QED
      BY <1>1, <3>2, <3>3, <3>4, <3>5, PlanGrowOK
  <2> QED
    BY <2>1, <2>2 DEF Plan
<1>3. \A p \in table : Sound(p)'
  BY <1>1 DEF Sound
<1>4. TableOK'
  BY <1>1, <1>2 DEF TableOK, Fits, Covers, Unmoved, DiskOK, IsTable
<1> QED
  BY <1>1, <1>3, <1>4 DEF GrowInv, LossIsCovered

LEMMA FailKeeps == GrowInv /\ Fail => GrowInv'
<1> SUFFICES ASSUME GrowInv, Fail PROVE GrowInv'
  OBVIOUS
<1>1. UNCHANGED <<size, image, table, kernel, place, plan, saved>> /\ pc' = "warned"
  BY DEF Fail, KeepDisk, Go
<1>2. TableOK' /\ LossIsCovered'
  BY <1>1 DEF GrowInv, TableOK, Fits, Covers, Unmoved, LossIsCovered, Sound, Misplaced
<1> QED
  BY <1>1, <1>2 DEF GrowInv

LEMMA BackupKeeps == GrowInv /\ Backup => GrowInv'
<1> SUFFICES ASSUME GrowInv, Backup PROVE GrowInv'
  OBVIOUS
<1>1. /\ UNCHANGED <<size, image, table, kernel, place, plan>> /\ saved' /\ pc' = "apply"
      /\ table = image /\ kernel = table /\ \A p \in table : Sound(p)
  BY DEF GrowInv, Backup, KeepDisk, Go
<1>2. TableOK'
  BY <1>1 DEF GrowInv, TableOK, Fits, Covers, Unmoved
<1>3. \A p \in table : Sound(p)'
  BY <1>1 DEF Sound
<1> QED
  BY <1>1, <1>2, <1>3 DEF GrowInv, LossIsCovered

\* sfdisk refuses what would overlap, so the new table is as good as the old one.
LEMMA ApplyKeeps == GrowInv /\ Apply => GrowInv'
<1> SUFFICES ASSUME GrowInv, Apply PROVE GrowInv'
  OBVIOUS
<1>1. /\ UNCHANGED <<size, image, place, plan, saved>>
      /\ table' = Rewrite(image, plan) /\ Fits(table') /\ kernel' \in {image', table'}
      /\ pc' = IF plan.esp # 0 THEN "restore" ELSE "resize"
  BY DEF GrowInv, Apply, Go
<1>2. /\ DiskOK(image, size) /\ PlanOK(image, size, plan)
      /\ \A i \in image : place[i.num] = i.start
      /\ plan.esp # 0 => saved
  BY DEF GrowInv, TableOK, Apply, Sound
<1>3. \A i \in image : i.num # 0
  BY <1>2, PartFields DEF DiskOK
<1>4. ASSUME NEW q \in table'
      PROVE  \E i \in image : q = Rewritten(i, plan)
  BY <1>1 DEF Rewrite
<1>5. ASSUME NEW q \in table'
      PROVE  q \in Part /\ \E i \in image :
               /\ q = Rewritten(i, plan)
               /\ i.num = q.num /\ i.type = q.type /\ i.size <= q.size
               /\ q.num # plan.esp => place[q.num] = q.start /\ i.start = q.start
  <2>1. PICK i \in image : q = Rewritten(i, plan)
    BY <1>4
  <2>2. i.size \in Nat
    BY <1>2, PartFields DEF DiskOK
  <2> QED
    BY <1>2, <2>1, <2>2, RewrittenPart DEF Part
<1>6. \A p, q \in table' : p.num = q.num => p = q
  BY <1>2, <1>5 DEF DiskOK, IsTable
<1>11. Unmoved'
  BY <1>1, <1>2, <1>5 DEF Unmoved, DiskOK, IsTable
<1>7. TableOK'
  BY <1>1, <1>2, <1>5, <1>6, <1>11 DEF GrowInv, TableOK, Fits, Covers
<1>8. \A q \in table' : q.num # plan.esp => place'[q.num] = q.start
  BY <1>1, <1>5
<1>9. \A q \in table' : q.num = plan.esp => q.type = "esp"
  <2> SUFFICES ASSUME NEW q \in table', q.num = plan.esp PROVE q.type = "esp"
    OBVIOUS
  <2>1. PICK i \in image : i.num = q.num /\ i.type = q.type
    BY <1>5
  <2>2. PICK e \in image : e.num = plan.esp /\ e.type = "esp"
    BY <1>2, <1>3, <2>1 DEF PlanOK, MovedOK
  <2> QED
    BY <1>2, <2>1, <2>2 DEF DiskOK, IsTable
<1>10. \A q \in table' : q.num # 0
  BY <1>3, <1>5
<1> QED
  BY <1>1, <1>2, <1>7, <1>8, <1>9, <1>10 DEF GrowInv, LossIsCovered, Sound

\* Only the ESP of the plan loses its content, and only when the backup stays.
LEMMA RestoreKeeps == GrowInv /\ Restore => GrowInv'
<1> SUFFICES ASSUME GrowInv, Restore PROVE GrowInv'
  OBVIOUS
<1>1. /\ UNCHANGED <<size, image, table, kernel, plan>> /\ TableOK /\ plan.esp # 0
      /\ \A p \in table : p.num # plan.esp => Sound(p)
  BY DEF GrowInv, Restore
<1>2. PICK esp \in kernel, whole \in BOOLEAN :
        /\ esp.num = plan.esp
        /\ place' = [Overwritten(esp) EXCEPT ![esp.num] = IF whole THEN esp.start ELSE Lost]
        /\ saved' = ~whole
        /\ pc' = IF whole THEN "resize" ELSE "warned"
  BY DEF Restore, Go
<1>3. esp.num \in DOMAIN place
  BY <1>1 DEF TableOK, Covers
<1>4. DOMAIN Overwritten(esp) = DOMAIN place /\ DOMAIN place' = DOMAIN place
  BY <1>2 DEF Overwritten
<1>5. TableOK'
  BY <1>1, <1>4 DEF TableOK, Fits, Covers, Unmoved
<1>6. ASSUME NEW q \in table, q.num # plan.esp PROVE Sound(q)'
  <2>1. q.num # esp.num /\ Sound(q) /\ ~Misplaced(q)
    BY <1>1, <1>2, <1>6 DEF Misplaced
  <2>2. q.num \in DOMAIN place /\ Overwritten(esp)[q.num] = q.start
    BY <1>1, <1>6, <2>1, OverwrittenKeeps
  <2> QED
    BY <1>2, <1>4, <2>1, <2>2 DEF Sound
<1>7. ASSUME NEW q \in table, q.num = plan.esp, whole, kernel = table PROVE Sound(q)'
  <2>1. q = esp
    BY <1>1, <1>2, <1>7 DEF TableOK
  <2> QED
    BY <1>2, <1>3, <1>4, <1>7, <2>1 DEF Sound
<1>8. \A q \in table : q.num = plan.esp => q.type = "esp" /\ (Sound(q)' \/ saved' \/ Misplaced(q)')
  BY <1>1, <1>2, <1>7, MovedIsESP DEF Misplaced
<1>9. LossIsCovered'
  BY <1>1, <1>6, <1>8 DEF LossIsCovered
<1>10. whole => \A q \in table : Sound(q)' \/ Misplaced(q)'
  BY <1>1, <1>6, <1>7 DEF Misplaced
<1> QED
  BY <1>1, <1>2, <1>5, <1>9, <1>10 DEF GrowInv

LEMMA ResizeKeeps == GrowInv /\ Resize => GrowInv'
<1> SUFFICES ASSUME GrowInv, Resize PROVE GrowInv'
  OBVIOUS
<1>1. /\ UNCHANGED <<size, image, table, kernel, plan, saved>> /\ TableOK
      /\ pc' = IF pc = "resize" THEN "grown" ELSE "ended"
      /\ place' = place \/ \E r \in kernel : place' = Overwritten(r)
  BY DEF GrowInv, Resize, Go
<1>2. DOMAIN place' = DOMAIN place
  BY <1>1 DEF Overwritten
<1>3. TableOK'
  BY <1>1, <1>2 DEF TableOK, Fits, Covers, Unmoved
<1>4. ASSUME NEW q \in table, Sound(q), ~Misplaced(q) PROVE Sound(q)'
  <2>1. CASE place' = place
    BY <1>4, <2>1 DEF Sound
  <2>2. CASE \E r \in kernel : place' = Overwritten(r)
    <3>1. PICK r \in kernel : place' = Overwritten(r)
      BY <2>2
    <3>2. CASE q.num # r.num
      BY <1>1, <1>4, <3>1, <3>2, OverwrittenKeeps DEF Sound
    <3>3. CASE q.num = r.num
      <4>1. q.num \in DOMAIN place
        BY <1>1 DEF TableOK, Covers
      <4>2. \A i \in image : ~(i.num = q.num /\ i.num # r.num)
        BY <3>3
      <4>3. Overwritten(r)[q.num] = place[q.num]
        BY <3>3, <4>1, <4>2 DEF Overwritten
      <4> QED
        BY <1>4, <3>1, <4>3 DEF Sound
    <3> QED
      BY <3>2, <3>3
  <2> QED
    BY <1>1, <2>1, <2>2
<1>5. \A q \in table : Misplaced(q) => Misplaced(q)' /\ q.type = "esp" /\ q.num = plan.esp
  BY <1>1, MovedIsESP DEF Misplaced
<1>6. LossIsCovered'
  BY <1>1, <1>4, <1>5 DEF GrowInv, LossIsCovered
<1> QED
  BY <1>1, <1>3, <1>4, <1>5, <1>6 DEF GrowInv

\* The invariant of growDisk, for every table and disk.
THEOREM GrowInvariant == GrowSpec => []GrowInv
<1>1. GrowInv /\ [GrowNext]_growVars => GrowInv'
  <2> SUFFICES ASSUME GrowInv, [GrowNext]_growVars PROVE GrowInv'
    OBVIOUS
  <2>1. CASE UNCHANGED growVars
    BY <2>1 DEF growVars, GrowInv, TableOK, Fits, Covers, Unmoved, LossIsCovered, Sound, Misplaced
  <2> QED
    BY <2>1, PlanKeeps, FailKeeps, BackupKeeps, ApplyKeeps, RestoreKeeps, ResizeKeeps DEF GrowNext
<1> QED
  BY <1>1, GrowInvInit, PTL DEF GrowSpec

-----------------------------------------------------------------------------
\* However growDisk fails, at whichever step, the disk holds all that the image
\* brought but the content of an ESP that is still in the backup file, or that was
\* written by the old table because partprobe failed.
THEOREM LossIsAlwaysCovered == GrowSpec => []LossIsCovered
<1>1. GrowInv => LossIsCovered
  BY DEF GrowInv
<1> QED
  BY <1>1, GrowInvariant, PTL

\* Where growDisk reports no error, nothing is lost but an ESP that was written by
\* the old table because partprobe failed.
THEOREM GrowLosesNothing == GrowSpec => []NothingLost
<1>1. GrowInv => NothingLost
  BY DEF GrowInv, NothingLost
<1> QED
  BY <1>1, GrowInvariant, PTL

\* The table sfdisk is given keeps clear of the backup GPT.
THEOREM PlansFitDisk == GrowSpec => []PlanFitsDisk
<1>1. GrowInv => PlanFitsDisk
  BY RewrittenPart DEF GrowInv, TableOK, PlanFitsDisk, Rewrite
<1> QED
  BY <1>1, GrowInvariant, PTL

\* The table sfdisk is given has no overlaps where nothing stands between root
\* and the ESP.
THEOREM PlansKeepApart == GrowSpec => []PlanKeepsApart
<1>1. GrowInv => PlanKeepsApart
  <2> SUFFICES ASSUME GrowInv, pc = "apply",
                      \A r, e \in table : r.num = plan.root /\ e.num = plan.esp => Between(table, r, e) = {}
               PROVE  Fits(Rewrite(table, plan))
    BY DEF PlanKeepsApart
  <2>1. table = image /\ DiskOK(table, size) /\ PlanOK(table, size, plan)
    BY DEF GrowInv, TableOK
  <2>2. \A p \in Rewrite(table, plan) : End(p) <= LastUsable(size)
    BY <2>1, RewrittenPart DEF Rewrite
  <2>3. ASSUME NEW p \in table, NEW q \in table, p # q
        PROVE  Apart(Rewritten(p, plan), Rewritten(q, plan))
    <3>1. p.num # plan.esp \/ q.num # plan.esp
      BY <2>1, <2>3 DEF DiskOK, IsTable
    <3>2. CASE p.num # plan.esp
      BY <2>1, <2>3, <3>2, RewrittenApart
    <3>3. CASE q.num # plan.esp
      <4>1. Apart(Rewritten(q, plan), Rewritten(p, plan))
        BY <2>1, <2>3, <3>3, RewrittenApart
      <4> QED
        BY <4>1 DEF Apart
    <3> QED
      BY <3>1, <3>2, <3>3
  <2> QED
    BY <2>2, <2>3 DEF Fits, Rewrite
<1> QED
  BY <1>1, GrowInvariant, PTL

-----------------------------------------------------------------------------
(* What the plan leaves free.                                              *)

\* What RootFillsDisk says of a table T, made of the image im, and the number n of root.
Fills(T, im, sz, n) ==
  \A r \in T : r.num = n =>
    LET following == {p \in T : r.start < p.start} IN
    /\ following = {} => LastUsable(sz) - End(r) < 2 * Align
    /\ \A e \in following :
         following = {e} /\ {p \in T : p.type = "esp"} = {e} =>
           /\ LastUsable(sz) - End(e) < 2 * Align
           /\ e \notin im => End(r) = e.start

\* An empty plan leaves the table as it is.
LEMMA NothingRewritten ==
  ASSUME NEW T, IsTable(T)
  PROVE  Rewrite(T, NoPlan) = T
<1>1. ASSUME NEW p \in T PROVE Rewritten(p, NoPlan) = p
  BY PartFields DEF Rewritten, NoPlan, MovePlan
<1> QED
  BY <1>1 DEF Rewrite

\* A partition that no other begins behind, but those that begin behind r, is the last.
LEMMA NoneBehind ==
  ASSUME NEW T, IsTable(T), NEW p \in T, \A q \in T : q # p => q.start <= p.start
  PROVE  IsLast(T, p)
<1> SUFFICES ASSUME NEW q \in T PROVE End(q) <= End(p)
  BY DEF IsLast
<1>1. /\ p.start \in Nat /\ End(p) \in Nat /\ p.start < End(p)
      /\ q.start \in Nat /\ End(q) \in Nat
  BY PartFields
<1>2. CASE q = p
  BY <1>1, <1>2
<1>3. CASE q # p
  BY <1>1, <1>3, InOrder
<1> QED
  BY <1>2, <1>3

\* On a disk that counts as full, little lies behind the last partition.
LEMMA LittleSlack ==
  ASSUME NEW T, NEW sz, DiskOK(T, sz), NEW p \in T, IsLast(T, p), ~Slack(T, sz)
  PROVE  LastUsable(sz) - End(p) < 2 * Align
<1>1. End(p) \in Nat /\ LastUsable(sz) = sz - GPTTail /\ sz \in Nat
  BY PartFields DEF DiskOK, LastUsable
<1>2. CASE ~(sz >= 2 * Align)
  BY <1>1, <1>2, TailIsNat, AlignIsPositive
<1>3. CASE \E q \in T : ~(End(q) + Align <= LastUsable(sz))
  <2>1. PICK q \in T : ~(End(q) + Align <= LastUsable(sz))
    BY <1>3
  <2>2. End(q) \in Nat /\ End(q) <= End(p)
    BY PartFields DEF DiskOK, IsLast
  <2> QED
    BY <1>1, <2>1, <2>2, TailIsNat, AlignIsPositive
<1> QED
  BY <1>2, <1>3 DEF Slack

\* A table for which nothing is planned is as good as full behind root, or behind
\* the ESP that follows it.
LEMMA FillsUnplanned ==
  ASSUME NEW T, NEW sz, DiskOK(T, sz), NEW r \in T,
         NEW E, E \in LastListed({p \in T : p.type = "esp"}),
         Slack(T, sz) =>
           /\ \A e \in E : ~MovesESP(T, sz, r, e)
           /\ IsLast(T, r) => ~(AlignDown(LastUsable(sz) - r.start) > r.size + Align)
  PROVE  Fills(T, T, sz, r.num)
<1> DEFINE F == {p \in T : r.start < p.start}
<1>0. IsTable(T) /\ (\A x, y \in T : x.num = y.num => x = y) /\ LastUsable(sz) \in Int
  BY TailIsNat DEF DiskOK, IsTable, LastUsable
<1>1. \A p \in T : /\ p.start \in Nat /\ p.size \in Nat
                   /\ End(p) \in Nat /\ End(p) = p.start + p.size
  BY <1>0, PartFields
<1>2. ASSUME F = {} PROVE LastUsable(sz) - End(r) < 2 * Align
  <2>1. IsLast(T, r)
    BY <1>0, <1>1, <1>2, NoneBehind
  <2>2. CASE ~Slack(T, sz)
    BY <2>1, <2>2, LittleSlack
  <2>3. CASE Slack(T, sz)
    <3>1. ~(AlignDown(LastUsable(sz) - r.start) > r.size + Align)
      BY <2>1, <2>3
    <3>2. LastUsable(sz) - r.start \in Int
      BY <1>0, <1>1
    <3> DEFINE n == AlignDown(LastUsable(sz) - r.start)
    <3>3. n \in Int /\ LastUsable(sz) - r.start < n + Align /\ ~(n > r.size + Align)
      BY <3>1, <3>2, AlignDownBounds
    <3> HIDE DEF n
    <3> QED
      BY <1>0, <1>1, <3>3, AlignIsPositive
  <2> QED
    BY <2>2, <2>3
<1>3. ASSUME NEW e \in F, F = {e}, {p \in T : p.type = "esp"} = {e}
      PROVE  LastUsable(sz) - End(e) < 2 * Align
  <2>1. e \in T /\ r.start < e.start
    OBVIOUS
  <2>2. \A q \in T : q # e => q.start <= e.start
    BY <1>1, <1>3, <2>1
  <2>3. IsLast(T, e)
    BY <1>0, <2>1, <2>2, NoneBehind
  <2>4. CASE ~Slack(T, sz)
    BY <2>1, <2>3, <2>4, LittleSlack
  <2>5. CASE Slack(T, sz)
    <3>1. e \in E
      BY <1>3 DEF LastListed
    <3>2. ~(NewESP(e, sz) > e.start + Align)
      BY <2>1, <2>3, <2>5, <3>1 DEF MovesESP
    <3>3. LastUsable(sz) - e.size \in Int
      BY <1>0, <1>1, <2>1
    <3> DEFINE s == AlignDown(LastUsable(sz) - e.size)
    <3>4. s \in Int /\ LastUsable(sz) - e.size < s + Align /\ ~(s > e.start + Align)
      BY <3>2, <3>3, AlignDownBounds DEF NewESP
    <3> HIDE DEF s
    <3> QED
      BY <1>0, <1>1, <2>1, <3>4, AlignIsPositive
  <2> QED
    BY <2>4, <2>5
<1> QED
  BY <1>0, <1>2, <1>3 DEF Fills

\* Root, extended to the end of the disk.
LEMMA FillsAlone ==
  ASSUME NEW T, NEW sz, DiskOK(T, sz), NEW r \in T, IsLast(T, r), NEW n, NEW pl,
         n = AlignDown(LastUsable(sz) - r.start),
         pl = [esp |-> 0, espStart |-> 0, root |-> r.num, rootSize |-> n]
  PROVE  Fills(Rewrite(T, pl), T, sz, r.num)
<1>0. IsTable(T) /\ (\A x, y \in T : x.num = y.num => x = y) /\ LastUsable(sz) \in Int
  BY TailIsNat DEF DiskOK, IsTable, LastUsable
<1>1. \A p \in T : /\ p.num # 0 /\ p.start \in Nat /\ p.size \in Nat
                   /\ p.start < End(p) /\ End(p) \in Nat
  BY <1>0, PartFields
<1>2. r \in Part
  BY <1>0 DEF IsTable
<1>3. \A p \in T : p # r => Rewritten(p, pl) = p
  BY <1>0, <1>1 DEF Rewritten
<1>4. Rewritten(r, pl) = [r EXCEPT !.size = n]
  BY <1>1 DEF Rewritten
<1>5. n \in Int /\ LastUsable(sz) - r.start < n + Align
  BY <1>0, <1>1, AlignDownBounds
<1>6. ASSUME NEW x \in Rewrite(T, pl), x.num = r.num
      PROVE  /\ LastUsable(sz) - End(x) < 2 * Align
             /\ \A p \in Rewrite(T, pl) : ~(x.start < p.start)
  <2>1. PICK y \in T : x = Rewritten(y, pl)
    BY DEF Rewrite
  <2>2. y = r
    BY <1>0, <1>3, <1>6, <2>1
  <2>3. x.start = r.start /\ x.size = n
    BY <1>2, <1>4, <2>1, <2>2 DEF Part
  <2>4. ASSUME NEW p \in Rewrite(T, pl) PROVE ~(x.start < p.start)
    <3>1. PICK q \in T : p = Rewritten(q, pl)
      BY DEF Rewrite
    <3>2. CASE q = r
      <4>1. p = x
        BY <2>1, <2>2, <3>1, <3>2
      <4> QED
        BY <1>1, <2>3, <4>1
    <3>3. CASE q # r
      <4>1. p = q /\ End(q) <= r.start
        BY <1>0, <1>3, <3>1, <3>3, LastInOrder
      <4> QED
        BY <1>1, <2>3, <4>1
    <3> QED
      BY <3>2, <3>3
  <2>5. LastUsable(sz) - End(x) < 2 * Align
    BY <1>0, <1>1, <1>5, <2>3, AlignIsPositive DEF End
  <2> QED
    BY <2>4, <2>5
<1> QED
  BY <1>6 DEF Fills

\* The ESP at the end of the disk, and root up to it.
LEMMA FillsMoving ==
  ASSUME NEW T, NEW sz, DiskOK(T, sz), NEW r \in T, NEW e \in T, MovesESP(T, sz, r, e),
         NEW s, NEW pl, s = NewESP(e, sz),
         pl = [esp |-> e.num, espStart |-> s, root |-> r.num, rootSize |-> s - r.start]
  PROVE  Fills(Rewrite(T, pl), T, sz, r.num)
<1>0. IsTable(T) /\ (\A x, y \in T : x.num = y.num => x = y) /\ LastUsable(sz) \in Int
  BY TailIsNat DEF DiskOK, IsTable, LastUsable
<1>1. \A p \in T : p.start \in Nat /\ p.size \in Nat
  BY <1>0, PartFields
<1>2. e \in Part /\ r \in Part
  BY <1>0 DEF IsTable
<1>3. /\ r.start < e.start /\ r # e /\ s > e.start + Align
  BY <1>1 DEF MovesESP
<1>4. s \in Int /\ LastUsable(sz) - e.size < s + Align
  <2>1. LastUsable(sz) - e.size \in Int
    BY <1>0, <1>1
  <2> QED
    BY <2>1, AlignDownBounds DEF NewESP
<1>5. Rewritten(e, pl) = [e EXCEPT !.start = s]
  BY DEF Rewritten
<1>6. Rewritten(r, pl) = [r EXCEPT !.size = s - r.start]
  BY <1>0, <1>3 DEF Rewritten
<1>7. \A p \in T : p # e /\ p # r => Rewritten(p, pl) = p
  BY <1>0 DEF Rewritten
<1>8. ASSUME NEW x \in Rewrite(T, pl), x.num = r.num
      PROVE  /\ x.start = r.start /\ End(x) = s
  <2>1. PICK y \in T : x = Rewritten(y, pl)
    BY DEF Rewrite
  <2>2. y # e
    BY <1>0, <1>2, <1>3, <1>5, <1>8, <2>1 DEF Part
  <2>3. y = r
    BY <1>0, <1>7, <1>8, <2>1, <2>2
  <2>4. x.start = r.start /\ x.size = s - r.start
    BY <1>2, <1>6, <2>1, <2>3 DEF Part
  <2> QED
    BY <1>1, <1>4, <2>4 DEF End
<1> DEFINE moved == Rewritten(e, pl)
<1>9. moved \in Rewrite(T, pl) /\ moved.start = s /\ moved.size = e.size
  BY <1>2, <1>5 DEF Rewrite, Part
<1>10. r.start < moved.start /\ LastUsable(sz) - End(moved) < 2 * Align
  BY <1>0, <1>1, <1>3, <1>4, <1>9, AlignIsPositive DEF End
<1> HIDE DEF moved
<1> QED
  BY <1>8, <1>9, <1>10 DEF Fills

\* Whatever PlanGrow plans leaves less than two units free.
LEMMA PlanFills ==
  ASSUME NEW T, NEW sz, DiskOK(T, sz), NEW r \in T,
         NEW E, E \in LastListed({p \in T : p.type = "esp"})
  PROVE  Fills(Rewrite(T, PlanGrow(T, sz, r, E)), T, sz, r.num)
<1> DEFINE moved == {e \in E : MovesESP(T, sz, r, e)}
           e0 == CHOOSE e \in moved : TRUE
           n == AlignDown(LastUsable(sz) - r.start)
<1>0. IsTable(T) /\ \A e \in E : e \in T
  BY DEF DiskOK, LastListed
<1>1. CASE Slack(T, sz) /\ moved # {}
  <2>1. e0 \in moved
    BY <1>1
  <2>2. e0 \in T /\ MovesESP(T, sz, r, e0)
    BY <1>0, <2>1
  <2> DEFINE s == NewESP(e0, sz)
  <2>3. PlanGrow(T, sz, r, E) = Extended(MovePlan(e0.num, s), r, s - r.start)
    BY <1>1 DEF PlanGrow
  <2>4. s - r.start > r.size + Align
    <3>1. IsLast(T, e0) /\ r.start < e0.start /\ s > e0.start + Align
      BY <2>2 DEF MovesESP
    <3>2. /\ r.start \in Nat /\ r.size \in Nat /\ End(r) = r.start + r.size
          /\ e0.start \in Nat /\ e0.size \in Nat
      BY <1>0, <2>2, PartFields
    <3>3. End(r) <= e0.start
      BY <1>0, <2>2, <3>1, <3>2, LastInOrder
    <3>4. s \in Int
      <4>1. LastUsable(sz) - e0.size \in Int
        BY <3>2, TailIsNat DEF DiskOK, LastUsable
      <4> QED
        BY <4>1, AlignDownBounds DEF NewESP
    <3> HIDE DEF s, e0
    <3> QED
      BY <3>1, <3>2, <3>3, <3>4, AlignIsPositive
  <2>5. PlanGrow(T, sz, r, E)
          = [esp |-> e0.num, espStart |-> s, root |-> r.num, rootSize |-> s - r.start]
    <3> HIDE DEF s, e0
    <3> QED
      BY <2>3, <2>4 DEF Extended, MovePlan
  <2> HIDE DEF e0
  <2> QED
    BY <2>2, <2>5, FillsMoving
<1>2. CASE Slack(T, sz) /\ moved = {} /\ IsLast(T, r) /\ n > r.size + Align
  <2>1. PlanGrow(T, sz, r, E) = Extended(NoPlan, r, n)
    BY <1>2 DEF PlanGrow
  <2>2. PlanGrow(T, sz, r, E) = [esp |-> 0, espStart |-> 0, root |-> r.num, rootSize |-> n]
    <3> HIDE DEF n
    <3> QED
      BY <1>2, <2>1 DEF Extended, NoPlan, MovePlan
  <2> QED
    BY <1>2, <2>2, FillsAlone
<1>3. CASE ~Slack(T, sz) \/ (moved = {} /\ ~(IsLast(T, r) /\ n > r.size + Align))
  <2>1. PlanGrow(T, sz, r, E) = NoPlan
    BY <1>3 DEF PlanGrow, Extended
  <2>2. Fills(T, T, sz, r.num)
    BY <1>3, FillsUnplanned
  <2> QED
    BY <1>0, <2>1, <2>2, NothingRewritten
<1> QED
  BY <1>1, <1>2, <1>3

\* Which partition was planned for, and which table stands on the disk at each stage.
FillInv ==
  /\ pc = "plan" => plan = NoPlan
  /\ \/ root = 0 /\ plan = NoPlan
     \/ \E r \in image, E \in LastListed({p \in image : p.type = "esp"}) :
          root = r.num /\ plan = PlanGrow(image, size, r, E)
  /\ pc \in {"plan", "backup", "apply"} => table = image
  /\ pc \in {"restore", "resize", "grown"} => table = Rewrite(image, plan)

LEMMA FillInvKept == GrowInv /\ FillInv /\ [GrowNext]_growVars => FillInv'
<1> SUFFICES ASSUME GrowInv, FillInv, [GrowNext]_growVars PROVE FillInv'
  OBVIOUS
<1>1. CASE Plan
  <2>1. table = image /\ plan = NoPlan /\ IsTable(image)
    BY <1>1 DEF Plan, FillInv, GrowInv, TableOK, DiskOK
  <2>2. UNCHANGED <<size, image, table>>
    BY <1>1 DEF Plan, KeepDisk
  <2>3. pc' = IF plan' = NoPlan THEN "grown" ELSE IF plan'.esp # 0 THEN "backup" ELSE "apply"
    BY <1>1 DEF Plan, Go
  <2>4. \/ root' = root /\ plan' = plan
        \/ \E r \in image, E \in LastListed({p \in image : p.type = "esp"}) :
             root' = r.num /\ plan' = PlanGrow(image, size, r, E)
    <3>1. \A hint : PickRoot(table, hint) \subseteq image
      BY <2>1 DEF PickRoot, Candidates
    <3> QED
      BY <1>1, <2>1, <3>1 DEF Plan
  <2>5. plan' = NoPlan => table' = Rewrite(image', plan')
    BY <2>1, <2>2, NothingRewritten
  <2> QED
    BY <2>1, <2>2, <2>3, <2>4, <2>5 DEF FillInv
<1>2. CASE Fail
  BY <1>2 DEF Fail, FillInv, KeepDisk, Go
<1>3. CASE Backup
  BY <1>3 DEF Backup, FillInv, KeepDisk, Go
<1>4. CASE Apply
  BY <1>4 DEF Apply, FillInv, Go
<1>5. CASE Restore
  BY <1>5 DEF Restore, FillInv, Go
<1>6. CASE Resize
  BY <1>6 DEF Resize, FillInv, Go
<1>7. CASE UNCHANGED growVars
  BY <1>7 DEF growVars, FillInv
<1> QED
  BY <1>1, <1>2, <1>3, <1>4, <1>5, <1>6, <1>7 DEF GrowNext

\* For every alignment, tail, table and disk: where growDisk reports no error, root, or
\* the one ESP behind it, ends less than two alignment units before the end of the disk.
THEOREM RootAlwaysFillsDisk == GrowSpec => []RootFillsDisk
<1>1. GrowInit => FillInv
  BY DEF GrowInit, FillInv
<1>2. GrowInv /\ FillInv => RootFillsDisk
  <2> SUFFICES ASSUME GrowInv, FillInv, pc = "grown" PROVE Fills(table, image, size, root)
    BY DEF RootFillsDisk, Fills
  <2>1. DiskOK(image, size) /\ table = Rewrite(image, plan)
    BY DEF GrowInv, TableOK, FillInv
  <2>2. CASE root = 0 /\ plan = NoPlan
    <3>1. table = image
      BY <2>1, <2>2, NothingRewritten DEF DiskOK
    <3>2. \A p \in table : p.num # 0
      BY <2>1, <3>1, PartFields DEF DiskOK
    <3> QED
      BY <2>2, <3>2 DEF Fills
  <2>3. CASE \E r \in image, E \in LastListed({p \in image : p.type = "esp"}) :
               root = r.num /\ plan = PlanGrow(image, size, r, E)
    BY <2>1, <2>3, PlanFills
  <2> QED
    BY <2>2, <2>3 DEF FillInv
<1> QED
  BY <1>1, <1>2, FillInvKept, GrowInvariant, PTL DEF GrowSpec
-----------------------------------------------------------------------------
(* Places.                                                                 *)

LEMMA ShortSeq ==
  ASSUME NEW T
  PROVE  /\ \A a \in T : <<a>> \in Seq(T)
         /\ \A a, b \in T : <<a, b>> \in Seq(T) /\ Len(<<a, b>>) = 2
         /\ \A a, b, c \in T : <<a, b, c>> \in Seq(T)
OBVIOUS

\* A prefix is given by its length.
LEMMA PrefixByLength ==
  ASSUME NEW p \in Path, NEW q \in Path, NEW path \in Path,
         IsPrefix(p, path), IsPrefix(q, path), Len(p) = Len(q)
  PROVE  p = q
<1>1. SubSeq(p, 1, Len(p)) = SubSeq(path, 1, Len(p)) /\ SubSeq(q, 1, Len(q)) = SubSeq(path, 1, Len(q))
  BY DEF IsPrefix
<1>2. SubSeq(p, 1, Len(p)) = p /\ SubSeq(q, 1, Len(q)) = q
  BY SubSeqFull DEF Path
<1> QED
  BY <1>1, <1>2

\* The root directory is above every place, and nothing else is above it.
LEMMA RootIsAbove ==
  ASSUME NEW p \in Path
  PROVE  IsPrefix(Root, p) /\ (IsPrefix(p, Root) => p = Root) /\ IsPrefix(p, p)
<1>1. Len(p) \in Nat /\ Len(Root) = 0 /\ Root \in Path
  BY LenProperties, EmptySeq DEF Path, Root
<1>2. SubSeq(Root, 1, 0) = <<>> /\ SubSeq(p, 1, 0) = <<>>
  BY SubSeqEmpty
<1>3. IsPrefix(Root, p) /\ IsPrefix(p, p)
  BY <1>1, <1>2 DEF IsPrefix
<1>4. ASSUME IsPrefix(p, Root) PROVE p = Root
  <2>1. Len(p) <= 0
    BY <1>1, <1>4 DEF IsPrefix
  <2> QED
    BY <1>1, <2>1, EmptySeq DEF Path, Root
<1> QED
  BY <1>3, <1>4

\* Of some numbers up to n one is the greatest.
LEMMA GreatestIsThere ==
  ASSUME NEW n \in Nat, NEW S \in SUBSET (0 .. n), S # {}
  PROVE  \E x \in S : \A y \in S : y <= x
<1> DEFINE T == {n - x : x \in S}
<1>1. T \in SUBSET Nat
  OBVIOUS
<1>2. T # {}
  OBVIOUS
<1> HIDE DEF T
<1>3. PICK a \in T : \A b \in T : <<b, a>> \notin OpToRel(<, Nat)
  BY <1>1, <1>2, NatLessThanWellFounded, WFMin
<1>4. \A b \in T : ~(b < a)
  BY <1>1, <1>3, Zenon DEF OpToRel
<1> USE DEF T
<1>5. PICK x \in S : a = n - x
  BY <1>3
<1>6. ASSUME NEW y \in S PROVE y <= x
  <2>1. n - y \in T
    OBVIOUS
  <2>2. ~(n - y < n - x)
    BY <1>4, <1>5, <2>1
  <2> QED
    BY <2>2
<1> QED
  BY <1>6

\* The list has one line for the root partition.
LEMMA OneRoot ==
  ASSUME NEW list \in Seq(LineT), Accepted(list)
  PROVE  \E r \in DOMAIN list :
           /\ list[r].mount = Root
           /\ \A i \in DOMAIN list : list[i].mount = Root => i = r
<1> DEFINE S == {i \in DOMAIN list : list[i].mount = Root}
<1>1. Len(list) \in Nat /\ DOMAIN list = 1 .. Len(list)
  BY LenProperties
<1>2. IsFiniteSet(S)
  <2>1. S \subseteq 1 .. Len(list)
    BY <1>1
  <2>2. IsFiniteSet(1 .. Len(list))
    BY <1>1, FS_Interval
  <2> QED
    BY <2>1, <2>2, FS_Subset
<1>3. Cardinality(S) = 1
  BY DEF Accepted
<1>4. PICK r : S = {r}
  BY <1>2, <1>3, FS_Singleton
<1> QED
  BY <1>4

LEMMA RootIsListed ==
  ASSUME want \in Seq(LineT), Accepted(want)
  PROVE  /\ RootIndex \in DOMAIN want /\ want[RootIndex].mount = Root
         /\ \A i \in DOMAIN want : want[i].mount = Root => i = RootIndex
<1>1. PICK r \in DOMAIN want :
        want[r].mount = Root /\ \A i \in DOMAIN want : want[i].mount = Root => i = r
  BY OneRoot
<1> QED
  BY <1>1 DEF RootIndex

-----------------------------------------------------------------------------
(* What an installation relies on, stage by stage.                         *)

Stages == {"check", "make", "format", "root", "find", "mount", "rest", "seed", "loader", "esp", "done", "error"}

InstallTypeOK ==
  /\ want \in Seq(LineT)
  /\ fw \in {"uefi", "bios"}
  /\ disk \in Seq(PartitionT)
  /\ step \in [do : Stages, i : Nat]
  /\ step.do = "format" => step.i > 0
  /\ step.do \in {"make", "format", "root", "rest"} => want # <<>>
  /\ step.do = "find" => want = <<>>
  /\ want # <<>> /\ step.do \notin {"check", "error"} => Accepted(want)

\* Until a loader was copied, its name tells the code.
NamesAreTrue == \A i \in DOMAIN disk : \A f \in disk[i].efi : f.own = f.code

LoaderInv ==
  /\ InstallTypeOK
  /\ step.do # "done" => NamesAreTrue
  /\ LoaderIsFound

LEMMA DiskChanged ==
  ASSUME NEW d \in Seq(PartitionT), NEW i, NEW p, i \in DOMAIN d => p \in PartitionT
  PROVE  /\ [d EXCEPT ![i] = p] \in Seq(PartitionT)
         /\ Len([d EXCEPT ![i] = p]) = Len(d)
         /\ DOMAIN [d EXCEPT ![i] = p] = DOMAIN d
         /\ \A j \in DOMAIN d : [d EXCEPT ![i] = p][j] = IF j = i THEN p ELSE d[j]
<1>1. Len(d) \in Nat /\ d \in [1 .. Len(d) -> PartitionT] /\ DOMAIN d = 1 .. Len(d)
  BY LenProperties
<1>2. [d EXCEPT ![i] = p] \in [1 .. Len(d) -> PartitionT]
  BY <1>1
<1> QED
  BY <1>1, <1>2, SeqDef, LenProperties

LEMMA PartitionHere ==
  ASSUME NEW d \in Seq(PartitionT), NEW i \in DOMAIN d
  PROVE  d[i] \in PartitionT
BY LenProperties, ElementOfSeq

LEMMA LineHere ==
  ASSUME NEW list \in Seq(LineT), NEW i \in DOMAIN list
  PROVE  list[i] \in LineT /\ list[i].fs \in Text /\ list[i].mount \in Path
<1>1. list[i] \in LineT
  BY LenProperties, ElementOfSeq
<1> QED
  BY <1>1 DEF LineT

\* A partition gets another file system.
LEMMA Reformatted ==
  ASSUME NEW d \in Seq(PartitionT), NEW i, NEW x \in Text
  PROVE  LET e == [d EXCEPT ![i].fs = x] IN
         /\ e \in Seq(PartitionT) /\ Len(e) = Len(d) /\ DOMAIN e = DOMAIN d
         /\ \A j \in DOMAIN d : e[j].efi = d[j].efi /\ e[j].fs = IF j = i THEN x ELSE d[j].fs
<1> DEFINE p == [d[i] EXCEPT !.fs = x]
           e == [d EXCEPT ![i].fs = x]
<1>1. e = [d EXCEPT ![i] = p]
  OBVIOUS
<1>2. ASSUME i \in DOMAIN d PROVE p \in PartitionT /\ p.fs = x /\ p.efi = d[i].efi
  BY <1>2, PartitionHere DEF PartitionT
<1> HIDE DEF p, e
<1>3. /\ e \in Seq(PartitionT) /\ Len(e) = Len(d) /\ DOMAIN e = DOMAIN d
      /\ \A j \in DOMAIN d : e[j] = IF j = i THEN p ELSE d[j]
  BY <1>1, <1>2, DiskChanged
<1>4. \A j \in DOMAIN d : e[j].efi = d[j].efi /\ e[j].fs = IF j = i THEN x ELSE d[j].fs
  BY <1>2, <1>3
<1> QED
  BY <1>3, <1>4 DEF e

LEMMA DefaultLines ==
  ASSUME NEW fs \in Text
  PROVE  Default(fw, fs) \in Seq(LineT) /\ Default(fw, fs) # <<>>
<1> DEFINE a == Line(1, "biosboot", NoMount, "bios")
           b == Line(0, fs, Root, "")
           c == Line(2, "vfat", <<"boot", "efi">>, "esp")
<1>1. Root \in Path /\ NoMount \in Path /\ <<"boot", "efi">> \in Path
  BY TextIsThere, ShortSeq, EmptySeq DEF Root, NoMount, Path
<1>2. a \in LineT /\ b \in LineT /\ c \in LineT
  BY <1>1, TextIsThere DEF Line, LineT
<1>3. Default(fw, fs) = <<a, b>> \/ Default(fw, fs) = <<c, b>>
  BY Zenon DEF Default
<1>4. <<a, b>> # <<>> /\ <<c, b>> # <<>>
  OBVIOUS
<1> HIDE DEF a, b, c
<1>5. <<a, b>> \in Seq(LineT) /\ <<c, b>> \in Seq(LineT)
  BY <1>2, ShortSeq
<1> QED
  BY <1>3, <1>4, <1>5
LEMMA FormattedText ==
  ASSUME NEW fs \in Text
  PROVE  Formatted(fs) \in Text
BY TextIsThere DEF Formatted

LEMMA CodeText ==
  ASSUME NEW line
  PROVE  TypeCode(line) \in Text
BY TextIsThere DEF TypeCode

LEMMA UpToIsNat ==
  ASSUME NEW y, NEW x \in 1 .. y
  PROVE  x \in Nat
OBVIOUS

\* sgdisk makes a partition without files and file system.
LEMMA PartitionMade ==
  ASSUME InstallTypeOK, MakePartition
  PROVE  /\ UNCHANGED <<want, fw, mnt, fstab, wrote>>
         /\ \/ /\ UNCHANGED disk
               /\ \/ Len(disk) + 1 > Len(want) /\ step' = On("format", 1)
                  \/ step' = On("error", 0)
            \/ \E p \in PartitionT :
                 /\ p.efi = {} /\ disk' = Append(disk, p) /\ step' = step
                 /\ ~(Len(disk) + 1 > Len(want))
<1> DEFINE i == Len(disk) + 1
           bytes == IF want[i].size > 0 THEN want[i].size ELSE Free
           t == TypeCode(want[i])
           p == [size |-> bytes, type |-> t, fs |-> "", efi |-> {}]
<1>1. UNCHANGED <<want, fw, mnt, fstab, wrote>>
  BY DEF MakePartition
<1>2. \/ UNCHANGED disk /\ i > Len(want) /\ step' = On("format", 1)
      \/ UNCHANGED disk /\ step' = On("error", 0)
      \/ bytes \in 1 .. Free /\ disk' = Append(disk, p) /\ step' = step /\ ~(i > Len(want))
  BY Zenon DEF MakePartition, Then
<1>3. t \in Text
  BY CodeText
<1>4. bytes \in 1 .. Free => p \in PartitionT /\ p.efi = {}
  <2> HIDE DEF bytes, t
  <2> QED
    BY <1>3, UpToIsNat, TextIsThere DEF PartitionT
<1> HIDE DEF bytes, p
<1> QED
  BY <1>1, <1>2, <1>4

LEMMA RootIsPartition ==
  ASSUME NEW hint
  PROVE  RootFound(hint) \subseteq DOMAIN disk
BY DEF RootFound

\* grub-install adds a loader to an ESP, and changes nothing else.
LEMMA LoaderAdded ==
  ASSUME InstallTypeOK, Loader
  PROVE  /\ disk' \in Seq(PartitionT) /\ Len(disk') = Len(disk) /\ DOMAIN disk' = DOMAIN disk
         /\ \A j \in DOMAIN disk :
              /\ disk'[j].fs = disk[j].fs
              /\ disk'[j].efi \subseteq disk[j].efi \cup {File(TRUE, "boot", TRUE, TRUE)}
<1>1. disk \in Seq(PartitionT)
  BY DEF InstallTypeOK
<1> DEFINE New == File(TRUE, "boot", TRUE, TRUE)
           Res(e) == /\ e \in Seq(PartitionT) /\ Len(e) = Len(disk) /\ DOMAIN e = DOMAIN disk
                     /\ \A j \in DOMAIN disk :
                          e[j].fs = disk[j].fs /\ e[j].efi \subseteq disk[j].efi \cup {New}
<1>2. CASE UNCHANGED disk
  BY <1>1, <1>2
<1>3. ASSUME NEW i \in ESPs, disk' = [disk EXCEPT ![i].efi = @ \cup {New}]
      PROVE  Res(disk')
  <2>1. i \in DOMAIN disk
    BY DEF ESPs
  <2>2. disk[i] \in PartitionT
    BY <1>1, <2>1, PartitionHere
  <2>3. New \in FileT
    BY TextIsThere DEF File, FileT
  <2> DEFINE F == disk[i].efi \cup {New}
             p == [disk[i] EXCEPT !.efi = F]
  <2>4. F \in SUBSET FileT
    BY <2>2, <2>3 DEF PartitionT
  <2>5. disk' = [disk EXCEPT ![i] = p]
    BY <1>3
  <2> HIDE DEF F
  <2>6. p \in PartitionT /\ p.fs = disk[i].fs /\ p.efi = F
    BY <2>2, <2>4 DEF PartitionT
  <2> HIDE DEF p
  <2>7. /\ disk' \in Seq(PartitionT) /\ Len(disk') = Len(disk) /\ DOMAIN disk' = DOMAIN disk
        /\ \A j \in DOMAIN disk : disk'[j] = IF j = i THEN p ELSE disk[j]
    BY <1>1, <2>5, <2>6, DiskChanged
  <2>8. \A j \in DOMAIN disk : disk'[j].fs = disk[j].fs /\ disk'[j].efi \subseteq disk[j].efi \cup {New}
    BY <2>6, <2>7 DEF F
  <2> QED
    BY <2>7, <2>8
<1> QED
  BY <1>2, <1>3 DEF Loader

LEMMA FallbackFiles ==
  ASSUME NEW files \in SUBSET FileT
  PROVE  Fallback(files) \subseteq SUBSET FileT
<1>1. ASSUME NEW F \in SUBSET FileT, NEW f \in FileT, NEW kind \in {"boot", "grub"}
      PROVE  Copied(F, f, kind) \in SUBSET FileT
  <2>1. File(TRUE, kind, TRUE, f.code) \in FileT
    BY TextIsThere DEF File, FileT
  <2> QED
    BY <2>1 DEF Copied
<1>2. \A kind : Found(files, kind) \subseteq FileT
  BY DEF Found
<1>3. WithBoot(files) \subseteq SUBSET FileT
  BY <1>1, <1>2 DEF WithBoot, Sources
<1>4. \A F \in SUBSET FileT : WithCopy(F, files, "grub") \subseteq SUBSET FileT
  BY <1>1, <1>2 DEF WithCopy
<1> QED
  BY <1>3, <1>4 DEF Fallback

\* What is on the disk where ensureUEFIBoot succeeds.
LEMMA FallbackMade ==
  ASSUME InstallTypeOK, EnsureUEFI
  PROVE  \/ UNCHANGED disk /\ step' = On(IF fw = "uefi" THEN "error" ELSE "done", 0)
         \/ \E i \in ESPs : \E files \in Fallback(disk[i].efi) :
              /\ disk' \in Seq(PartitionT) /\ Len(disk') = Len(disk) /\ DOMAIN disk' = DOMAIN disk
              /\ \A j \in DOMAIN disk : disk'[j].fs = disk[j].fs
              /\ disk'[i].efi = files /\ (disk'[i].type = "ef00" \/ "sgdisk" \in ignored')
              /\ step' = On("done", 0)
<1>1. disk \in Seq(PartitionT)
  BY DEF InstallTypeOK
<1>2. ASSUME NEW i \in ESPs, NEW files \in Fallback(disk[i].efi), NEW type \in {"ef00", disk[i].type},
             disk' = [disk EXCEPT ![i].type = type, ![i].efi = files]
      PROVE  /\ disk' \in Seq(PartitionT) /\ Len(disk') = Len(disk) /\ DOMAIN disk' = DOMAIN disk
             /\ \A j \in DOMAIN disk : disk'[j].fs = disk[j].fs
             /\ disk'[i].efi = files /\ disk'[i].type = type
  <2>1. i \in DOMAIN disk
    BY DEF ESPs
  <2>2. disk[i] \in PartitionT
    BY <1>1, <2>1, PartitionHere
  <2>3. disk[i].efi \in SUBSET FileT
    BY <2>2 DEF PartitionT
  <2>4. files \in SUBSET FileT
    BY <2>3, FallbackFiles
  <2> DEFINE p == [[disk[i] EXCEPT !.type = type] EXCEPT !.efi = files]
  <2>5. disk' = [disk EXCEPT ![i] = p]
    <3>1. disk' = [[disk EXCEPT ![i].type = type] EXCEPT ![i].efi = files]
      BY <1>2
    <3>2. disk \in [DOMAIN disk -> PartitionT]
      BY <1>1, LenProperties
    <3> QED
      BY <2>1, <3>1, <3>2
  <2>6. p \in PartitionT /\ p.fs = disk[i].fs /\ p.efi = files /\ p.type = type
    BY <2>2, <2>4, TextIsThere DEF PartitionT
  <2> HIDE DEF p
  <2>7. /\ disk' \in Seq(PartitionT) /\ Len(disk') = Len(disk) /\ DOMAIN disk' = DOMAIN disk
        /\ \A j \in DOMAIN disk : disk'[j] = IF j = i THEN p ELSE disk[j]
    BY <1>1, <2>5, <2>6, DiskChanged
  <2> QED
    BY <2>1, <2>6, <2>7
<1>3. CASE UNCHANGED disk /\ step' = On(IF fw = "uefi" THEN "error" ELSE "done", 0)
  BY <1>3
<1>4. ASSUME NEW i \in ESPs, NEW files \in Fallback(disk[i].efi), NEW type \in {"ef00", disk[i].type},
             disk' = [disk EXCEPT ![i].type = type, ![i].efi = files],
             ignored' = IF type = "ef00" THEN ignored ELSE ignored \cup {"sgdisk"},
             step' = On("done", 0)
      PROVE  /\ disk' \in Seq(PartitionT) /\ Len(disk') = Len(disk) /\ DOMAIN disk' = DOMAIN disk
             /\ \A j \in DOMAIN disk : disk'[j].fs = disk[j].fs
             /\ disk'[i].efi = files /\ (disk'[i].type = "ef00" \/ "sgdisk" \in ignored')
             /\ step' = On("done", 0)
  <2>1. disk'[i].type = type /\ (type = "ef00" \/ "sgdisk" \in ignored')
    BY <1>2, <1>4
  <2> QED
    BY <1>2, <1>4, <2>1
<1>5. \/ UNCHANGED disk /\ step' = On(IF fw = "uefi" THEN "error" ELSE "done", 0)
      \/ \E i \in ESPs : \E files \in Fallback(disk[i].efi), type \in {"ef00", disk[i].type} :
           /\ disk' = [disk EXCEPT ![i].type = type, ![i].efi = files]
           /\ ignored' = IF type = "ef00" THEN ignored ELSE ignored \cup {"sgdisk"}
           /\ step' = On("done", 0)
  BY Zenon DEF EnsureUEFI, Then
<1>6. CASE \E i \in ESPs : \E files \in Fallback(disk[i].efi), type \in {"ef00", disk[i].type} :
             /\ disk' = [disk EXCEPT ![i].type = type, ![i].efi = files]
             /\ ignored' = IF type = "ef00" THEN ignored ELSE ignored \cup {"sgdisk"}
             /\ step' = On("done", 0)
  <2>1. PICK i \in ESPs : \E files \in Fallback(disk[i].efi), type \in {"ef00", disk[i].type} :
             /\ disk' = [disk EXCEPT ![i].type = type, ![i].efi = files]
             /\ ignored' = IF type = "ef00" THEN ignored ELSE ignored \cup {"sgdisk"}
             /\ step' = On("done", 0)
    BY <1>6
  <2>2. PICK files \in Fallback(disk[i].efi), type \in {"ef00", disk[i].type} :
             /\ disk' = [disk EXCEPT ![i].type = type, ![i].efi = files]
             /\ ignored' = IF type = "ef00" THEN ignored ELSE ignored \cup {"sgdisk"}
             /\ step' = On("done", 0)
    BY <2>1
  <2>3. /\ disk' \in Seq(PartitionT) /\ Len(disk') = Len(disk) /\ DOMAIN disk' = DOMAIN disk
        /\ \A j \in DOMAIN disk : disk'[j].fs = disk[j].fs
        /\ disk'[i].efi = files /\ (disk'[i].type = "ef00" \/ "sgdisk" \in ignored')
        /\ step' = On("done", 0)
    BY <2>2, <1>4, Zenon
  <2> QED
    BY <2>3, Zenon
<1> QED
  BY <1>3, <1>5, <1>6, Zenon

\* The types hold in every step.
LEMMA InstallTypeStep ==
  ASSUME InstallTypeOK, [InstallNext]_installVars
  PROVE  InstallTypeOK'
<1> DEFINE StepOK(s, list) ==
             /\ s \in [do : Stages, i : Nat] /\ (s.do = "format" => s.i > 0)
             /\ s.do \in {"make", "format", "root", "rest"} => list # <<>>
             /\ s.do = "find" => list = <<>>
             /\ list # <<>> /\ s.do \notin {"check", "error"} => Accepted(list)
<1>1. /\ want \in Seq(LineT) /\ fw \in {"uefi", "bios"} /\ disk \in Seq(PartitionT)
      /\ step \in [do : Stages, i : Nat] /\ (step.do = "format" => step.i > 0)
      /\ step.do \in {"make", "format", "root", "rest"} => want # <<>>
      /\ step.do = "find" => want = <<>>
      /\ want # <<>> /\ step.do \notin {"check", "error"} => Accepted(want)
  BY DEF InstallTypeOK
<1>2. \A do \in Stages, n \in Nat : On(do, n) \in [do : Stages, i : Nat] /\ On(do, n).do = do /\ On(do, n).i = n
  BY DEF On
<1>3. \A list : StepOK(On("error", 0), list)
  BY <1>2 DEF Stages
<1>4. SUFFICES /\ want' \in Seq(LineT) /\ fw' \in {"uefi", "bios"} /\ disk' \in Seq(PartitionT)
               /\ StepOK(step', want')
  BY DEF InstallTypeOK
<1>5. StepOK(step, want)
  BY <1>1
<1>6. ASSUME NEW do \in Stages, NEW n \in Nat, UNCHANGED want, step' = On(do, n),
             step.do \notin {"check", "error"}, do # "find", do = "format" => n > 0,
             do \in {"make", "format", "root", "rest"} => want # <<>>
      PROVE  StepOK(step', want')
  BY <1>1, <1>2, <1>6
<1>7. Accepted(want) => RootIndex \in Nat
  BY <1>1, RootIsListed, LenProperties
<1> HIDE DEF StepOK
<1>8. CASE Check
  <2> DEFINE do == IF Accepted(want') THEN "make" ELSE "error"
  <2>1. want' \in Seq(LineT) /\ want' # <<>>
    BY <1>1, <1>8, DefaultLines, ListsAreLines DEF Check
  <2>2. step' = On(do, 0) /\ do \in Stages
    BY <1>8 DEF Check, Then, Stages
  <2>3. step'.do = do /\ step'.i = 0 /\ step' \in [do : Stages, i : Nat]
    BY <1>2, <2>2
  <2>4. StepOK(step', want')
    <3>1. do \in {"make", "error"} /\ (do # "error" => Accepted(want'))
      OBVIOUS
    <3> HIDE DEF do
    <3> QED
      BY <2>1, <2>3, <3>1 DEF StepOK
  <2>5. fw' = fw /\ disk' = disk
    BY <1>8 DEF Check
  <2>6. fw' \in {"uefi", "bios"} /\ disk' \in Seq(PartitionT)
    BY <1>1, <2>5
  <2> HIDE DEF do
  <2> QED
    BY <2>1, <2>4, <2>6, Zenon
<1>9. CASE MakePartition
  <2>1. /\ want' = want /\ fw' = fw
        /\ \/ UNCHANGED disk /\ (step' = On("format", 1) \/ step' = On("error", 0))
           \/ \E p \in PartitionT : disk' = Append(disk, p) /\ step' = step
    BY <1>9, PartitionMade, Zenon
  <2>2. \A p \in PartitionT : Append(disk, p) \in Seq(PartitionT)
    BY <1>1, AppendProperties
  <2>3. disk' \in Seq(PartitionT)
    BY <1>1, <2>1, <2>2, Zenon
  <2>4. step.do = "make"
    BY <1>9 DEF MakePartition
  <2>5. step' = On("format", 1) => StepOK(step', want')
    BY <1>1, <1>6, <2>1, <2>4 DEF Stages
  <2>6. StepOK(step', want')
    BY <1>3, <1>5, <2>1, <2>5, Zenon
  <2>7. want' \in Seq(LineT) /\ fw' \in {"uefi", "bios"}
    BY <1>1, <2>1
  <2> QED
    BY <2>3, <2>6, <2>7, Zenon
<1>10. CASE Format
  <2>1. UNCHANGED <<want, fw>> /\ step.do = "format" /\ want # <<>> /\ step.i \in Nat
    BY <1>1, <1>10 DEF Format
  <2>2. \/ UNCHANGED disk /\ (step' = On("root", 0) \/ step' = On("error", 0))
        \/ /\ disk' = [disk EXCEPT ![step.i].fs = Formatted(want[step.i].fs)]
           /\ step.i <= Len(want) /\ step' = On("format", step.i + 1)
    BY <1>1, <1>10, LenProperties DEF Format, Then
  <2>3. step.i <= Len(want) => Formatted(want[step.i].fs) \in Text
    <3>1. step.i <= Len(want) => step.i \in DOMAIN want
      BY <1>1, <2>1, LenProperties
    <3> QED
      BY <1>1, <3>1, LineHere, FormattedText
  <2>4. disk' \in Seq(PartitionT)
    BY <1>1, <2>2, <2>3, Reformatted
  <2>5. StepOK(step', want')
    BY <1>3, <1>6, <2>1, <2>2 DEF Stages
  <2> QED
    BY <1>1, <2>1, <2>4, <2>5
<1>11. CASE WriteRoot
  <2>1. UNCHANGED <<want, fw>> /\ step.do = "root" /\ want # <<>> /\ RootIndex \in Nat
    BY <1>1, <1>7, <1>11 DEF WriteRoot
  <2>2. disk' \in Seq(PartitionT)
    BY <1>1, <1>11, Reformatted, ListsAreLines DEF WriteRoot
  <2>3. step' = On("mount", RootIndex) \/ step' = On("error", 0)
    BY <1>11 DEF WriteRoot, Then
  <2>4. StepOK(step', want')
    BY <1>3, <1>6, <2>1, <2>3 DEF Stages
  <2> QED
    BY <1>1, <2>1, <2>2, <2>4
<1>12. CASE WriteDisk
  <2>1. fw' = fw /\ step.do = "check"
    BY <1>12 DEF WriteDisk
  <2>2. want' \in Seq(LineT) /\ disk' \in Seq(PartitionT)
    BY <1>1, <1>12, ImagesAreTrue, EmptySeq DEF WriteDisk
  <2>3. (want' = <<>> /\ step' = On("find", 0)) \/ step' = On("error", 0)
    BY <1>12 DEF WriteDisk, Then
  <2>4. StepOK(On("find", 0), <<>>)
    BY <1>2 DEF StepOK, Stages
  <2> QED
    BY <1>1, <1>3, <2>1, <2>2, <2>3, <2>4
<1>13. CASE FindRoot
  <2>1. UNCHANGED <<want, fw, disk>> /\ step.do = "find"
    BY <1>13 DEF FindRoot
  <2>2. PICK hint \in {0} \cup DOMAIN disk : \E i \in RootFound(hint) : step' = On("mount", i)
    BY <1>13 DEF FindRoot
  <2>3. \A i \in RootFound(hint) : i \in Nat
    BY <1>1, LenProperties, RootIsPartition
  <2>4. StepOK(step', want')
    BY <1>6, <2>1, <2>2, <2>3 DEF Stages
  <2> QED
    BY <1>1, <2>1, <2>4
<1>14. CASE MountRoot
  <2>1. UNCHANGED <<want, fw, disk>> /\ step.do = "mount" /\ step.i \in Nat
    BY <1>1, <1>14 DEF MountRoot
  <2>2. (want # <<>> /\ step' = On("rest", 1)) \/ step' = On("seed", step.i)
    BY <1>14 DEF MountRoot
  <2>3. StepOK(step', want')
    BY <1>6, <2>1, <2>2 DEF Stages
  <2> QED
    BY <1>1, <2>1, <2>3
<1>15. CASE MountRest
  <2>1. UNCHANGED <<want, fw, disk>> /\ step.do = "rest" /\ step.i \in Nat /\ want # <<>> /\ RootIndex \in Nat
    BY <1>1, <1>7, <1>15 DEF MountRest
  <2>2. step' = On("rest", step.i + 1) \/ step' = On("seed", RootIndex)
    BY <1>15 DEF MountRest
  <2>3. StepOK(step', want')
    BY <1>6, <2>1, <2>2 DEF Stages
  <2> QED
    BY <1>1, <2>1, <2>3
<1>16. CASE Seed
  <2>1. UNCHANGED <<want, fw, disk>> /\ step.do = "seed" /\ step.i \in Nat
    BY <1>1, <1>16 DEF Seed
  <2>2. step' = On("esp", step.i) \/ step' = On("loader", step.i) \/ step' = On("error", 0)
    BY <1>16 DEF Seed, Then
  <2>3. StepOK(step', want')
    BY <1>3, <1>6, <2>1, <2>2 DEF Stages
  <2> QED
    BY <1>1, <2>1, <2>3
<1>17. CASE Loader
  <2>1. UNCHANGED <<want, fw>> /\ step.do = "loader" /\ step' = On("esp", 0)
    BY <1>17 DEF Loader, Then
  <2>2. StepOK(step', want')
    BY <1>6, <2>1 DEF Stages
  <2> QED
    BY <1>1, <1>17, <2>1, <2>2, LoaderAdded
<1>18. CASE EnsureUEFI
  <2>1. UNCHANGED <<want, fw>> /\ step.do = "esp" /\ (step' = On("done", 0) \/ step' = On("error", 0))
    BY <1>18 DEF EnsureUEFI, Then
  <2>2. StepOK(step', want')
    BY <1>3, <1>6, <2>1 DEF Stages
  <2> QED
    BY <1>1, <1>18, <2>1, <2>2, FallbackMade
<1>19. CASE UNCHANGED installVars
  BY <1>1, <1>5, <1>19 DEF installVars
<1> QED
  BY <1>8, <1>9, <1>10, <1>11, <1>12, <1>13, <1>14, <1>15, <1>16, <1>17, <1>18, <1>19 DEF InstallNext
-----------------------------------------------------------------------------
(* The loader.                                                             *)

Served(files) == File(TRUE, "boot", TRUE, TRUE) \in files \/ \E f \in files : ~f.own

\* installEFIFallback leaves a loader for this machine where firmware looks, or one
\* that by its name is for another one.
LEMMA FallbackServes ==
  ASSUME NEW files \in SUBSET FileT, \A f \in files : f.own = f.code, NEW g \in Fallback(files)
  PROVE  Served(g)
<1>1. ASSUME NEW h \in WithBoot(files) PROVE Served(h)
  <2>1. CASE BootFound(files) # {}
    <3>1. PICK f \in files : f.kind = "boot" /\ f.in
      BY <2>1 DEF BootFound
    <3>2. f.own => f = File(TRUE, "boot", TRUE, TRUE)
      BY <3>1 DEF File, FileT
    <3>3. h = files
      BY <2>1 DEF WithBoot
    <3> QED
      BY <3>2, <3>3 DEF Served
  <2>2. CASE BootFound(files) = {}
    <3>1. PICK f \in Sources(files) : h = Copied(files, f, "boot")
      BY <2>2 DEF WithBoot
    <3>2. f \in files
      BY DEF Sources, Found
    <3>3. CASE f.own
      <4>1. f.code = TRUE
        BY <3>2, <3>3 DEF FileT
      <4> QED
        BY <3>1, <4>1 DEF Copied, Served
    <3>4. CASE ~f.own
      BY <3>1, <3>2, <3>4 DEF Copied, Served
    <3> QED
      BY <3>3, <3>4
  <2> QED
    BY <2>1, <2>2
<1>2. ASSUME NEW h, NEW f, Served(h) PROVE Served(Copied(h, f, "grub"))
  <2>1. CASE File(TRUE, "boot", TRUE, TRUE) \in h
    BY <2>1 DEF Copied, Served, File
  <2>2. CASE \E e \in h : ~e.own
    BY <2>2 DEF Copied, Served
  <2> QED
    BY <1>2, <2>1, <2>2 DEF Served
<1>3. PICK h \in WithBoot(files) : g \in WithCopy(h, files, "grub")
  BY DEF Fallback
<1> QED
  BY <1>1, <1>2, <1>3 DEF WithCopy

LEMMA LoaderStep ==
  ASSUME LoaderInv, [InstallNext]_installVars
  PROVE  LoaderInv'
<1>1. InstallTypeOK /\ InstallTypeOK'
  BY InstallTypeStep DEF LoaderInv
<1>2. disk \in Seq(PartitionT)
  BY <1>1 DEF InstallTypeOK
<1>3. step.do # "done" => NamesAreTrue
  BY DEF LoaderInv
<1>4. step'.do # "done" => LoaderIsFound'
  BY DEF LoaderIsFound
<1>5. ASSUME UNCHANGED disk, step'.do # "done", step.do # "done" PROVE LoaderInv'
  BY <1>1, <1>3, <1>4, <1>5 DEF LoaderInv, NamesAreTrue
<1> USE DEF On
<1>6. CASE Check
  <2>1. UNCHANGED disk /\ step'.do # "done" /\ step.do # "done"
    BY <1>6 DEF Check, Then
  <2> QED
    BY <1>5, <2>1
<1>7. CASE MakePartition
  <2>1. step.do = "make"
    BY <1>7 DEF MakePartition
  <2>2. CASE UNCHANGED disk
    <3>1. step'.do # "done"
      BY <1>1, <1>7, <2>1, PartitionMade
    <3> QED
      BY <1>5, <2>1, <2>2, <3>1
  <2>3. ASSUME NEW p \in PartitionT, p.efi = {}, disk' = Append(disk, p), step' = step
        PROVE  LoaderInv'
    <3>1. /\ DOMAIN disk = 1 .. Len(disk) /\ Len(disk) \in Nat
          /\ DOMAIN disk' = 1 .. Len(disk) + 1
          /\ \A i \in 1 .. Len(disk) : disk'[i] = disk[i]
          /\ disk'[Len(disk) + 1] = p
      BY <1>2, <2>3, AppendProperties, LenProperties
    <3>2. NamesAreTrue'
      BY <1>3, <2>1, <2>3, <3>1 DEF NamesAreTrue
    <3> QED
      BY <1>1, <1>4, <2>1, <2>3, <3>2 DEF LoaderInv
  <2> QED
    BY <1>1, <1>7, <2>2, <2>3, PartitionMade
<1>8. ASSUME NEW i, NEW x \in Text, disk' = [disk EXCEPT ![i].fs = x], step.do # "done", step'.do # "done"
      PROVE  LoaderInv'
  <2>1. DOMAIN disk' = DOMAIN disk /\ \A j \in DOMAIN disk : disk'[j].efi = disk[j].efi
    BY <1>2, <1>8, Reformatted
  <2>2. NamesAreTrue'
    BY <1>3, <1>8, <2>1 DEF NamesAreTrue
  <2> QED
    BY <1>1, <1>4, <1>8, <2>2 DEF LoaderInv
<1>9. CASE Format
  <2>1. step.do = "format" /\ step'.do # "done"
    BY <1>9 DEF Format, Then
  <2>2. \/ UNCHANGED disk
        \/ /\ disk' = [disk EXCEPT ![step.i].fs = Formatted(want[step.i].fs)]
           /\ ~(step.i > Len(want))
    BY <1>9 DEF Format
  <2>3. ~(step.i > Len(want)) => Formatted(want[step.i].fs) \in Text
    <3>1. want \in Seq(LineT) /\ (~(step.i > Len(want)) => step.i \in DOMAIN want)
      BY <1>1, <2>1, LenProperties DEF InstallTypeOK
    <3> QED
      BY <3>1, LineHere, FormattedText
  <2> QED
    BY <1>5, <1>8, <2>1, <2>2, <2>3
<1>10. CASE WriteRoot
  <2>1. step.do = "root" /\ step'.do # "done"
    BY <1>10 DEF WriteRoot, Then
  <2> QED
    BY <1>5, <1>8, <1>10, <2>1, ListsAreLines DEF WriteRoot
<1>11. CASE WriteDisk
  <2>1. step.do = "check" /\ step'.do # "done"
    BY <1>11 DEF WriteDisk, Then
  <2>2. NamesAreTrue'
    BY <1>3, <1>11, <2>1, ImagesAreTrue DEF WriteDisk, NamesAreTrue
  <2> QED
    BY <1>1, <1>4, <2>1, <2>2 DEF LoaderInv
<1>12. CASE FindRoot \/ MountRoot \/ MountRest \/ Seed
  <2>1. UNCHANGED disk /\ step'.do # "done" /\ step.do # "done"
    BY <1>12 DEF FindRoot, MountRoot, MountRest, Seed, Then
  <2> QED
    BY <1>5, <2>1
<1>13. CASE Loader
  <2>1. step.do = "loader" /\ step'.do # "done"
    BY <1>13 DEF Loader, Then
  <2>2. File(TRUE, "boot", TRUE, TRUE).own = File(TRUE, "boot", TRUE, TRUE).code
    BY DEF File
  <2>3. /\ DOMAIN disk' = DOMAIN disk
        /\ \A j \in DOMAIN disk : disk'[j].efi \subseteq disk[j].efi \cup {File(TRUE, "boot", TRUE, TRUE)}
    BY <1>1, <1>13, LoaderAdded, Zenon
  <2>4. NamesAreTrue
    BY <1>3, <2>1
  <2>5. ASSUME NEW j \in DOMAIN disk', NEW f \in disk'[j].efi PROVE f.own = f.code
    <3>1. f \in disk[j].efi \/ f = File(TRUE, "boot", TRUE, TRUE)
      BY <2>3, <2>5
    <3> QED
      BY <2>2, <2>3, <2>4, <2>5, <3>1 DEF NamesAreTrue
  <2>6. NamesAreTrue'
    BY <2>5 DEF NamesAreTrue
  <2> QED
    BY <1>1, <1>4, <2>1, <2>6 DEF LoaderInv
<1>14. CASE EnsureUEFI
  <2>1. step.do = "esp" /\ fw' = fw
    BY <1>14 DEF EnsureUEFI
  <2>2. CASE UNCHANGED disk /\ step' = On(IF fw = "uefi" THEN "error" ELSE "done", 0)
    BY <1>1, <1>3, <2>1, <2>2 DEF LoaderInv, LoaderIsFound, NamesAreTrue
  <2>3. ASSUME NEW i \in ESPs, NEW files \in Fallback(disk[i].efi),
               DOMAIN disk' = DOMAIN disk, \A j \in DOMAIN disk : disk'[j].fs = disk[j].fs,
               disk'[i].efi = files, disk'[i].type = "ef00" \/ "sgdisk" \in ignored', step' = On("done", 0)
        PROVE  LoaderInv'
    <3>1. i \in DOMAIN disk /\ disk[i].fs = "vfat"
      BY DEF ESPs
    <3>2. disk[i].efi \in SUBSET FileT /\ \A f \in disk[i].efi : f.own = f.code
      BY <1>2, <1>3, <2>1, <3>1, PartitionHere DEF PartitionT, NamesAreTrue
    <3>3. Served(disk'[i].efi)
      BY <2>3, <3>2, FallbackServes
    <3>4. LoaderIsFound'
      BY <2>3, <3>1, <3>3 DEF LoaderIsFound, Served
    <3> QED
      BY <1>1, <2>3, <3>4 DEF LoaderInv
  <2> QED
    BY <1>1, <1>14, <2>2, <2>3, FallbackMade
<1>15. CASE UNCHANGED installVars
  BY <1>1, <1>15 DEF installVars, LoaderInv, NamesAreTrue, LoaderIsFound
<1> QED
  BY <1>6, <1>7, <1>9, <1>10, <1>11, <1>12, <1>13, <1>14, <1>15 DEF InstallNext

LEMMA LoaderInit ==
  ASSUME InstallInit
  PROVE  LoaderInv
<1>1. want \in Seq(LineT) /\ disk \in Seq(PartitionT)
  BY ListsAreLines, EmptySeq DEF InstallInit
<1>2. disk = <<>> /\ DOMAIN disk = {}
  BY EmptySeq, LenProperties DEF InstallInit
<1> QED
  BY <1>1, <1>2 DEF InstallInit, LoaderInv, InstallTypeOK, NamesAreTrue, LoaderIsFound, On, Stages

\* A UEFI machine whose installation ends well has a loader where firmware looks for
\* it, whatever the disk held, on a partition marked as an ESP unless sgdisk failed.
THEOREM LoaderAlwaysFound == InstallSpec => []LoaderIsFound
<1>1. LoaderInv => LoaderIsFound
  BY DEF LoaderInv
<1> QED
  BY <1>1, LoaderInit, LoaderStep, PTL DEF InstallSpec
-----------------------------------------------------------------------------
(* The configuration.                                                      *)

\* The list asks for nothing the agent's mounts cannot serve, and they did not fail.
Fit == disk[RootIndex].fs \in Mountable /\ ~Shadowed(want) /\ ~Unmade(want) /\ "mount" \notin ignored

FormattedUpTo(n) ==
  /\ Len(disk) = Len(want)
  /\ \A j \in DOMAIN want : j < n => disk[j].fs = Formatted(want[j].fs)

OthersFormatted ==
  /\ Len(disk) = Len(want)
  /\ \A j \in DOMAIN want : j # RootIndex => disk[j].fs = Formatted(want[j].fs)

MountT == [path : Path, part : Nat]

\* Root is mounted first, and then what is kept of the first lines of the list, in order.
MountsOK(ms, n) ==
  /\ ms \in Seq(MountT) /\ ms # <<>>
  /\ ms[1].path = Root /\ ms[1].part = RootIndex
  /\ \A k \in DOMAIN ms : k > 1 =>
       /\ ms[k].part \in DOMAIN want /\ ms[k].part < n
       /\ Kept(want[ms[k].part]) /\ ms[k].path = want[ms[k].part].mount
  /\ \A j, k \in DOMAIN ms : 1 < j /\ j < k => ms[j].part < ms[k].part
  /\ \A i \in DOMAIN want : i < n /\ Kept(want[i]) => \E k \in DOMAIN ms : k > 1 /\ ms[k].part = i

Configured ==
  /\ \A d \in Dirs : wrote[d] = AtBoot(d)
  /\ \A e \in fstab : e.path # Root => e.fs = disk[e.part].fs

StageOK ==
  /\ step.do = "make" => Len(disk) <= Len(want)
  /\ step.do = "format" => FormattedUpTo(step.i)
  /\ step.do = "root" => FormattedUpTo(Len(want) + 1)
  /\ step.do \in {"mount", "rest", "seed", "loader", "esp", "done"} => OthersFormatted
  /\ step.do = "mount" => step.i = RootIndex
  /\ step.do = "rest" => step.i <= Len(want) + 1 /\ step.i > 0 /\ (Fit => MountsOK(mnt, step.i))
  /\ step.do = "seed" => (Fit => MountsOK(mnt, Len(want) + 1))
  /\ step.do \in {"seed", "loader", "esp", "done"} => fstab = Fstab
  /\ step.do \in {"loader", "esp", "done"} => (Fit => Configured)

ConfigInv ==
  /\ InstallTypeOK
  /\ step.do = "check" => disk = <<>>
  /\ want # <<>> => StageOK

\* What is kept of a list that asks for no other file systems is made as it is asked for.
LEMMA KeptIsMade ==
  ASSUME InstallTypeOK, OthersFormatted, Fit, Accepted(want), NEW i \in DOMAIN want,
         want[i].mount \notin {NoMount, Root}, want[i].fs # "swap"
  PROVE  /\ Kept(want[i]) /\ disk[i].fs \in Mountable
         /\ disk[i].fs = (IF want[i].fs = "fat32" THEN "vfat" ELSE want[i].fs)
<1>1. want[i].fs \in {"ext4", "xfs", "vfat", "fat32"}
  BY DEF Fit, Unmade
<1>2. i # RootIndex
  BY RootIsListed DEF InstallTypeOK
<1>3. disk[i].fs = Formatted(want[i].fs)
  BY <1>2 DEF OthersFormatted
<1> QED
  BY <1>1, <1>3 DEF Kept, Mountable, Linux, Formatted

\* No mount of such a list hides another one.
LEMMA NoneIsHidden ==
  ASSUME InstallTypeOK, Accepted(want), Fit, NEW n, MountsOK(mnt, n),
         NEW j \in DOMAIN mnt, NEW k \in DOMAIN mnt, k < j
  PROVE  ~IsPrefix(mnt[j].path, mnt[k].path)
<1>1. DOMAIN mnt = 1 .. Len(mnt) /\ Len(mnt) \in Nat /\ mnt[j] \in MountT /\ mnt[k] \in MountT
  BY LenProperties, ElementOfSeq DEF MountsOK
<1>2. j > 1
  BY <1>1
<1>3. mnt[j].part \in DOMAIN want /\ mnt[j].path = want[mnt[j].part].mount /\ mnt[j].path \notin {NoMount, Root}
  BY <1>2 DEF MountsOK, Kept
<1>4. CASE k = 1
  BY <1>1, <1>3, <1>4, RootIsAbove DEF MountsOK, MountT
<1>5. CASE k > 1
  <2>1. /\ mnt[k].part \in DOMAIN want /\ mnt[k].path = want[mnt[k].part].mount
        /\ mnt[k].part < mnt[j].part
    BY <1>5 DEF MountsOK
  <2> QED
    BY <1>3, <2>1 DEF Fit, Shadowed
<1> QED
  BY <1>1, <1>4, <1>5

\* The mounts are those of the installed system.
LEMMA MountsAreTree ==
  ASSUME InstallTypeOK, Accepted(want), Fit, OthersFormatted, MountsOK(mnt, Len(want) + 1), fstab = Fstab
  PROVE  /\ \A k \in DOMAIN mnt : <<mnt[k].part, mnt[k].path>> \in Tree
         /\ \A t \in Tree : \E k \in DOMAIN mnt : t = <<mnt[k].part, mnt[k].path>>
<1>1. /\ RootIndex \in DOMAIN want /\ want[RootIndex].mount = Root
      /\ \A i \in DOMAIN want : want[i].mount = Root => i = RootIndex
  BY RootIsListed DEF InstallTypeOK
<1>2. DOMAIN mnt = 1 .. Len(mnt) /\ Len(mnt) \in Nat /\ 1 \in DOMAIN mnt
  BY LenProperties, EmptySeq DEF MountsOK
<1>3. DOMAIN want = 1 .. Len(want) /\ Len(want) \in Nat
  BY LenProperties DEF InstallTypeOK
<1>4. ASSUME NEW k \in DOMAIN mnt PROVE <<mnt[k].part, mnt[k].path>> \in Tree
  <2>1. CASE k = 1
    BY <2>1 DEF MountsOK, Tree
  <2>2. CASE k > 1
    <3> DEFINE i == mnt[k].part
    <3>1. i \in DOMAIN want /\ Kept(want[i]) /\ mnt[k].path = want[i].mount
      BY <2>2 DEF MountsOK
    <3> HIDE DEF i
    <3>2. \E e \in Fstab : e.part = i /\ e.path = want[i].mount
      <4> DEFINE e == [part |-> i, path |-> want[i].mount,
                       fs |-> IF want[i].fs = "fat32" THEN "vfat" ELSE want[i].fs]
      <4>1. e \in Fstab
        BY <3>1 DEF Fstab, Kept
      <4> QED
        BY <4>1
    <3>3. \E e \in fstab : e.part = i /\ e.path = mnt[k].path
      BY <3>1, <3>2
    <3> QED
      BY <3>3 DEF Tree, i
  <2> QED
    BY <1>2, <2>1, <2>2
<1>5. ASSUME NEW t \in Tree PROVE \E k \in DOMAIN mnt : t = <<mnt[k].part, mnt[k].path>>
  <2>1. CASE t = <<RootIndex, Root>>
    BY <1>2, <2>1 DEF MountsOK
  <2>2. ASSUME NEW e \in fstab, t = <<e.part, e.path>>
        PROVE  \E k \in DOMAIN mnt : t = <<mnt[k].part, mnt[k].path>>
    <3>1. PICK i \in DOMAIN want : /\ want[i].mount # NoMount /\ want[i].fs # "swap"
                                   /\ e.part = i /\ e.path = want[i].mount
      BY <2>2 DEF Fstab
    <3>2. CASE want[i].mount = Root
      BY <1>1, <1>2, <2>2, <3>1, <3>2 DEF MountsOK
    <3>3. CASE want[i].mount # Root
      <4>1. Kept(want[i])
        BY <3>1, <3>3, KeptIsMade
      <4>2. PICK k \in DOMAIN mnt : k > 1 /\ mnt[k].part = i
        BY <1>3, <4>1 DEF MountsOK
      <4>3. mnt[k].path = want[i].mount
        BY <4>2 DEF MountsOK
      <4> QED
        BY <2>2, <3>1, <4>2, <4>3
    <3> QED
      BY <3>2, <3>3
  <2> QED
    BY <2>1, <2>2 DEF Tree
<1> QED
  BY <1>4, <1>5

\* What is written to a place goes where the installed system finds it.
LEMMA WrittenWhereFound ==
  ASSUME InstallTypeOK, Accepted(want), Fit, OthersFormatted, MountsOK(mnt, Len(want) + 1), fstab = Fstab,
         NEW d \in Path
  PROVE  Resolve(mnt, d) = AtBoot(d)
<1>1. DOMAIN mnt = 1 .. Len(mnt) /\ Len(mnt) \in Nat /\ 1 \in DOMAIN mnt
  BY LenProperties, EmptySeq DEF MountsOK
<1>2. \A k \in DOMAIN mnt : mnt[k].path \in Path /\ Len(mnt[k].path) \in Nat
  <2>1. \A k \in DOMAIN mnt : mnt[k] \in MountT
    BY <1>1, ElementOfSeq DEF MountsOK
  <2> QED
    BY <2>1, LenProperties DEF MountT, Path
<1>3. Visible(mnt) = DOMAIN mnt
  <2>1. \A k, j \in DOMAIN mnt : j > k => ~IsPrefix(mnt[j].path, mnt[k].path)
    BY <1>1, NoneIsHidden
  <2> QED
    BY <2>1 DEF Visible
<1>4. \A j, k \in DOMAIN mnt : mnt[j].path = mnt[k].path => j = k
  <2>1. \A j, k \in DOMAIN mnt : k < j => mnt[j].path # mnt[k].path
    BY <1>2, NoneIsHidden, RootIsAbove
  <2> QED
    BY <1>1, <2>1
<1> DEFINE Above == {k \in DOMAIN mnt : IsPrefix(mnt[k].path, d)}
           Lens == {Len(mnt[k].path) : k \in Above}
<1>5. Len(d) \in Nat /\ Lens \in SUBSET (0 .. Len(d)) /\ Lens # {}
  <2>1. Len(d) \in Nat
    BY LenProperties DEF Path
  <2>2. 1 \in Above
    BY <1>1, RootIsAbove DEF MountsOK
  <2>3. \A k \in Above : Len(mnt[k].path) \in 0 .. Len(d)
    BY <1>2, <2>1 DEF IsPrefix
  <2> QED
    BY <2>1, <2>2, <2>3
<1>6. PICK l \in Above : \A j \in Above : Len(mnt[j].path) <= Len(mnt[l].path)
  <2>1. PICK x \in Lens : \A y \in Lens : y <= x
    <3> HIDE DEF Lens
    <3> QED
      BY <1>5, GreatestIsThere
  <2> QED
    BY <2>1
<1>7. ASSUME NEW k \in Above, \A j \in Above : Len(mnt[j].path) <= Len(mnt[k].path)
      PROVE  k = l
  <2>1. Len(mnt[k].path) = Len(mnt[l].path)
    BY <1>2, <1>6, <1>7
  <2>2. mnt[k].path = mnt[l].path
    BY <1>2, <2>1, PrefixByLength
  <2> QED
    BY <1>4, <2>2
<1>8. Resolve(mnt, d) = mnt[l].part
  <2> DEFINE deepest == {k \in Above : \A j \in Above : Len(mnt[j].path) <= Len(mnt[k].path)}
  <2>1. deepest = {l}
    BY <1>6, <1>7
  <2>2. Above # {}
    BY <1>6
  <2>3. Resolve(mnt, d) = IF Above = {} THEN 0 ELSE mnt[CHOOSE k \in deepest : TRUE].part
    <3> DEFINE above == {k \in Visible(mnt) : IsPrefix(mnt[k].path, d)}
    <3>1. Resolve(mnt, d) = IF above = {} THEN 0
                            ELSE mnt[CHOOSE k \in {k \in above : \A j \in above :
                                       Len(mnt[j].path) <= Len(mnt[k].path)} : TRUE].part
      BY Zenon DEF Resolve
    <3>2. above = Above
      BY <1>3
    <3> HIDE DEF above, Above
    <3> QED
      BY <3>1, <3>2
  <2> HIDE DEF Above, deepest
  <2>4. (CHOOSE k \in deepest : TRUE) = l
    BY <2>1
  <2> QED
    BY <2>2, <2>3, <2>4
<1>9. AtBoot(d) = mnt[l].part
  <2> DEFINE above == {e \in Tree : IsPrefix(e[2], d)}
             Lowest(e) == \A f \in above : Len(f[2]) <= Len(e[2])
             t == <<mnt[l].part, mnt[l].path>>
  <2>1. /\ \A k \in DOMAIN mnt : <<mnt[k].part, mnt[k].path>> \in Tree
        /\ \A e \in Tree : \E k \in DOMAIN mnt : e = <<mnt[k].part, mnt[k].path>>
    BY MountsAreTree
  <2>2. t \in above /\ Lowest(t)
    BY <1>6, <2>1
  <2>3. ASSUME NEW e \in above, Lowest(e) PROVE e = t
    <3>1. PICK k \in DOMAIN mnt : e = <<mnt[k].part, mnt[k].path>>
      BY <2>1
    <3>2. k \in Above
      BY <3>1
    <3>3. ASSUME NEW j \in Above PROVE Len(mnt[j].path) <= Len(mnt[k].path)
      <4>1. <<mnt[j].part, mnt[j].path>> \in above
        BY <2>1
      <4> QED
        BY <2>3, <3>1, <4>1
    <3> QED
      BY <1>7, <3>1, <3>2, <3>3
  <2>4. AtBoot(d) = (CHOOSE e \in above : Lowest(e))[1]
    BY Zenon DEF AtBoot
  <2> DEFINE c == CHOOSE e \in above : Lowest(e)
  <2>5. c \in above /\ Lowest(c)
    <3> HIDE DEF above, Lowest, t
    <3> QED
      BY <2>2, Zenon
  <2>6. c = t
    <3> HIDE DEF above, Lowest, t, c
    <3> QED
      BY <2>3, <2>5
  <2>7. t[1] = mnt[l].part
    OBVIOUS
  <2> HIDE DEF c, t
  <2> QED
    BY <2>4, <2>6, <2>7 DEF c
<1> QED
  BY <1>8, <1>9
LEMMA FirstMount ==
  ASSUME InstallTypeOK, Accepted(want), Fit
  PROVE  MountsOK(Mounted(<<>>, Root, RootIndex), 1)
<1>1. RootIndex \in DOMAIN want /\ DOMAIN want = 1 .. Len(want) /\ Len(want) \in Nat
  BY RootIsListed, LenProperties DEF InstallTypeOK
<1> DEFINE m == [path |-> Root, part |-> RootIndex]
           ms == Append(<<>>, m)
<1>2. Mounted(<<>>, Root, RootIndex) = ms
  BY DEF Mounted, Fit
<1>3. m \in MountT /\ m.path = Root /\ m.part = RootIndex
  BY <1>1, EmptySeq DEF MountT, Path, Root
<1> HIDE DEF m
<1>4. <<>> \in Seq(MountT) /\ Len(<<>>) = 0
  BY EmptySeq
<1>5. ms \in Seq(MountT) /\ ms # <<>> /\ Len(ms) = 1 /\ ms[1] = m
  BY <1>3, <1>4, AppendProperties
<1>6. DOMAIN ms = 1 .. 1
  BY <1>5, LenProperties
<1> HIDE DEF ms
<1>7. \A i \in DOMAIN want : ~(i < 1)
  BY <1>1
<1> QED
  BY <1>2, <1>3, <1>5, <1>6, <1>7 DEF MountsOK

LEMMA NextMount ==
  ASSUME InstallTypeOK, Accepted(want), Fit, OthersFormatted, NEW n \in DOMAIN want, MountsOK(mnt, n)
  PROVE  MountsOK(IF Kept(want[n]) THEN Mounted(mnt, want[n].mount, n) ELSE mnt, n + 1)
<1>1. n \in Nat /\ DOMAIN want \subseteq Nat
  BY LenProperties DEF InstallTypeOK
<1>2. /\ mnt \in Seq(MountT) /\ mnt # <<>> /\ mnt[1].path = Root /\ mnt[1].part = RootIndex
      /\ Len(mnt) \in Nat /\ DOMAIN mnt = 1 .. Len(mnt) /\ Len(mnt) > 0
  BY LenProperties, EmptySeq DEF MountsOK
<1>3. /\ \A k \in DOMAIN mnt : k > 1 =>
           /\ mnt[k].part \in DOMAIN want /\ mnt[k].part < n
           /\ Kept(want[mnt[k].part]) /\ mnt[k].path = want[mnt[k].part].mount
      /\ \A j, k \in DOMAIN mnt : 1 < j /\ j < k => mnt[j].part < mnt[k].part
      /\ \A i \in DOMAIN want : i < n /\ Kept(want[i]) => \E k \in DOMAIN mnt : k > 1 /\ mnt[k].part = i
  BY DEF MountsOK
<1>4. CASE ~Kept(want[n])
  <2>1. \A k \in DOMAIN mnt : k > 1 => mnt[k].part < n + 1
    BY <1>1, <1>3
  <2>2. \A i \in DOMAIN want : i < n + 1 /\ Kept(want[i]) => \E k \in DOMAIN mnt : k > 1 /\ mnt[k].part = i
    BY <1>1, <1>3, <1>4
  <2> QED
    BY <1>2, <1>3, <1>4, <2>1, <2>2 DEF MountsOK
<1>5. CASE Kept(want[n])
  <2> DEFINE m == [path |-> want[n].mount, part |-> n]
             ms == Append(mnt, m)
  <2>1. disk[n].fs \in Mountable
    BY <1>5, KeptIsMade DEF Kept
  <2>2. Mounted(mnt, want[n].mount, n) = ms
    BY <2>1 DEF Mounted
  <2>3. m \in MountT /\ m.path = want[n].mount /\ m.part = n
    BY <1>1, LineHere DEF MountT, InstallTypeOK
  <2> HIDE DEF m
  <2>4. /\ ms \in Seq(MountT) /\ ms # <<>> /\ Len(ms) = Len(mnt) + 1
        /\ \A k \in DOMAIN mnt : ms[k] = mnt[k]
        /\ ms[Len(mnt) + 1] = m
    BY <1>2, <2>3, AppendProperties
  <2>5. DOMAIN ms = 1 .. Len(mnt) + 1
    BY <2>4, LenProperties
  <2> HIDE DEF ms
  <2>6. ms[1].path = Root /\ ms[1].part = RootIndex
    BY <1>2, <2>4
  <2>7. ASSUME NEW k \in DOMAIN ms, k > 1
        PROVE  /\ ms[k].part \in DOMAIN want /\ ms[k].part < n + 1
               /\ Kept(want[ms[k].part]) /\ ms[k].path = want[ms[k].part].mount
    <3>1. CASE k \in DOMAIN mnt
      BY <1>1, <1>3, <2>4, <2>7, <3>1
    <3>2. CASE k = Len(mnt) + 1
      BY <1>1, <1>5, <2>3, <2>4, <3>2
    <3> QED
      BY <1>2, <2>5, <3>1, <3>2
  <2>8. ASSUME NEW j \in DOMAIN ms, NEW k \in DOMAIN ms, 1 < j, j < k
        PROVE  ms[j].part < ms[k].part
    <3>1. j \in DOMAIN mnt
      BY <1>2, <2>5, <2>8
    <3>2. CASE k \in DOMAIN mnt
      BY <1>3, <2>4, <2>8, <3>1, <3>2
    <3>3. CASE k = Len(mnt) + 1
      BY <1>3, <2>3, <2>4, <2>8, <3>1, <3>3
    <3> QED
      BY <1>2, <2>5, <3>2, <3>3
  <2>9. ASSUME NEW i \in DOMAIN want, i < n + 1, Kept(want[i])
        PROVE  \E k \in DOMAIN ms : k > 1 /\ ms[k].part = i
    <3>1. CASE i = n
      <4>1. Len(mnt) + 1 \in DOMAIN ms /\ Len(mnt) + 1 > 1
        BY <1>2, <2>5
      <4> QED
        BY <2>3, <2>4, <3>1, <4>1
    <3>2. CASE i < n
      <4>1. PICK k \in DOMAIN mnt : k > 1 /\ mnt[k].part = i
        BY <1>3, <2>9, <3>2
      <4>2. k \in DOMAIN ms
        BY <1>2, <2>5
      <4> QED
        BY <2>4, <4>1, <4>2
    <3> QED
      BY <1>1, <2>9, <3>1, <3>2
  <2>10. MountsOK(ms, n + 1)
    BY <2>4, <2>6, <2>7, <2>8, <2>9 DEF MountsOK
  <2> QED
    BY <1>5, <2>2, <2>10
<1> QED
  BY <1>4, <1>5

\* What is configured stays, as long as no file system changes.
LEMMA ConfigurationStays ==
  ASSUME InstallTypeOK, Accepted(want), OthersFormatted, fstab = Fstab, Fit => Configured,
         UNCHANGED <<want, fstab, wrote>>, ignored \subseteq ignored',
         Len(disk') = Len(disk), DOMAIN disk' = DOMAIN disk,
         \A j \in DOMAIN disk : disk'[j].fs = disk[j].fs
  PROVE  OthersFormatted' /\ fstab' = Fstab' /\ (Fit' => Configured')
<1>1. RootIndex \in DOMAIN want /\ DOMAIN want = DOMAIN disk
  BY RootIsListed, LenProperties DEF InstallTypeOK, OthersFormatted
<1>2. RootIndex' = RootIndex /\ Fstab' = Fstab
  BY DEF RootIndex, Fstab
<1>3. OthersFormatted'
  BY <1>1, <1>2 DEF OthersFormatted
<1>4. Fit' => Fit
  BY <1>1, <1>2 DEF Fit, Shadowed, Unmade
<1>5. \A e \in fstab : e.part \in DOMAIN disk
  BY <1>1 DEF Fstab
<1>6. Tree' = Tree
  BY <1>2 DEF Tree
<1>7. \A d : AtBoot(d)' = AtBoot(d)
  BY <1>6 DEF AtBoot
<1>8. Configured => Configured'
  BY <1>5, <1>7 DEF Configured
<1> QED
  BY <1>2, <1>3, <1>4, <1>8
LEMMA ConfigStep ==
  ASSUME ConfigInv, [InstallNext]_installVars
  PROVE  ConfigInv'
<1>1. InstallTypeOK /\ InstallTypeOK'
  BY InstallTypeStep DEF ConfigInv
<1>2. want \in Seq(LineT) /\ disk \in Seq(PartitionT) /\ DOMAIN want = 1 .. Len(want) /\ Len(want) \in Nat
  BY <1>1, LenProperties DEF InstallTypeOK
<1>3. /\ want # <<>> => StageOK
      /\ step.do = "check" => disk = <<>>
      /\ step.do \in {"make", "format", "root", "rest"} => want # <<>>
      /\ step.do = "find" => want = <<>>
      /\ want # <<>> /\ step.do \notin {"check", "error"} => Accepted(want)
      /\ step \in [do : Stages, i : Nat] /\ (step.do = "format" => step.i > 0)
  BY DEF ConfigInv, InstallTypeOK
<1> DEFINE Others == {"mount", "rest", "seed", "loader", "esp", "done"}
<1>4. \A do, n : On(do, n).do = do /\ On(do, n).i = n
  BY DEF On
<1>5. step' = On("error", 0) => ConfigInv'
  BY <1>1, <1>4 DEF ConfigInv, StageOK
<1>6. (step'.do # "check" /\ (want' # <<>> => StageOK')) => ConfigInv'
  BY <1>1 DEF ConfigInv
<1>7. UNCHANGED want => RootIndex' = RootIndex /\ Fstab' = Fstab
  BY DEF RootIndex, Fstab
<1>8. UNCHANGED <<want, disk>> =>
        /\ OthersFormatted' = OthersFormatted
        /\ ignored \subseteq ignored' => (Fit' => Fit)
        /\ \A n : FormattedUpTo(n)' = FormattedUpTo(n)
        /\ \A ms, n : MountsOK(ms, n)' = MountsOK(ms, n)
  BY <1>7 DEF OthersFormatted, Fit, FormattedUpTo, MountsOK, Shadowed, Unmade
<1>9. CASE Check
  <2>1. /\ UNCHANGED disk /\ step.do = "check"
        /\ step' = On("make", 0) \/ step' = On("error", 0)
    BY <1>9 DEF Check, Then
  <2>2. want' \in Seq(LineT) /\ Len(disk) = 0
    BY <1>1, <1>3, <2>1 DEF InstallTypeOK
  <2>3. Len(disk') <= Len(want')
    BY <2>1, <2>2, LenProperties
  <2>4. step' = On("make", 0) => StageOK'
    BY <1>4, <2>3 DEF StageOK
  <2> QED
    BY <1>4, <1>5, <1>6, <2>1, <2>4
<1>10. CASE MakePartition
  <2>1. step.do = "make" /\ want # <<>> /\ Len(disk) <= Len(want) /\ UNCHANGED want /\ Len(disk) \in Nat
    BY <1>2, <1>3, <1>10, LenProperties DEF MakePartition, StageOK
  <2>2. CASE UNCHANGED disk /\ Len(disk) + 1 > Len(want) /\ step' = On("format", 1)
    <3>1. FormattedUpTo(1)'
      BY <1>2, <2>1, <2>2 DEF FormattedUpTo
    <3>2. StageOK'
      BY <1>4, <2>2, <3>1 DEF StageOK
    <3> QED
      BY <1>4, <1>6, <2>2, <3>2
  <2>3. ASSUME NEW p \in PartitionT, disk' = Append(disk, p), step' = step, ~(Len(disk) + 1 > Len(want))
        PROVE  ConfigInv'
    <3>1. Len(disk') = Len(disk) + 1
      BY <1>2, <2>3, AppendProperties
    <3>2. StageOK'
      BY <1>2, <2>1, <2>3, <3>1 DEF StageOK
    <3> QED
      BY <1>6, <2>1, <2>3, <3>2
  <2> QED
    BY <1>1, <1>5, <1>10, <2>2, <2>3, PartitionMade
<1>11. CASE Format
  <2>1. /\ step.do = "format" /\ want # <<>> /\ UNCHANGED want /\ FormattedUpTo(step.i) /\ step.i \in Nat
        /\ step.i > 0
    BY <1>3, <1>11 DEF Format, StageOK
  <2>2. CASE UNCHANGED disk /\ step.i > Len(want) /\ step' = On("root", 0)
    <3>1. FormattedUpTo(Len(want) + 1)
      BY <1>2, <2>1, <2>2 DEF FormattedUpTo
    <3>2. FormattedUpTo(Len(want) + 1)'
      BY <2>1, <2>2, <3>1 DEF FormattedUpTo
    <3>3. StageOK'
      BY <1>4, <2>2, <3>2 DEF StageOK
    <3> QED
      BY <1>4, <1>6, <2>2, <3>3
  <2>3. CASE /\ ~(step.i > Len(want)) /\ step' = On("format", step.i + 1)
             /\ disk' = [disk EXCEPT ![step.i].fs = Formatted(want[step.i].fs)]
    <3>1. step.i \in DOMAIN want /\ Formatted(want[step.i].fs) \in Text
      BY <1>2, <2>1, <2>3, LineHere, FormattedText
    <3>2. /\ Len(disk') = Len(disk)
          /\ \A j \in DOMAIN disk : disk'[j].fs = IF j = step.i THEN Formatted(want[step.i].fs) ELSE disk[j].fs
      BY <1>2, <2>3, <3>1, Reformatted
    <3>3. DOMAIN disk = DOMAIN want /\ Len(disk) = Len(want)
      BY <1>2, <2>1, LenProperties DEF FormattedUpTo
    <3>4. \A j \in DOMAIN want : j < step.i + 1 => disk'[j].fs = Formatted(want[j].fs)
      BY <1>2, <2>1, <3>2, <3>3 DEF FormattedUpTo
    <3>5. StageOK'
      BY <1>4, <2>1, <2>3, <3>2, <3>3, <3>4 DEF StageOK, FormattedUpTo
    <3> QED
      BY <1>4, <1>6, <2>3, <3>5
  <2> QED
    BY <1>5, <1>11, <2>2, <2>3 DEF Format, Then
<1>12. CASE WriteRoot
  <2>1. step.do = "root" /\ want # <<>> /\ UNCHANGED want /\ FormattedUpTo(Len(want) + 1)
    BY <1>3, <1>12 DEF WriteRoot, StageOK
  <2>2. ASSUME NEW fs \in RootFS, disk' = [disk EXCEPT ![RootIndex].fs = fs], step' = On("mount", RootIndex)
        PROVE  ConfigInv'
    <3>1. /\ Len(disk') = Len(disk)
          /\ \A j \in DOMAIN disk : j # RootIndex => disk'[j].fs = disk[j].fs
      BY <1>2, <2>2, Reformatted, ListsAreLines
    <3>2. DOMAIN disk = DOMAIN want /\ Len(disk) = Len(want)
      BY <1>2, <2>1, LenProperties DEF FormattedUpTo
    <3>3. \A j \in DOMAIN want : j # RootIndex => disk'[j].fs = Formatted(want[j].fs)
      BY <1>2, <2>1, <3>1, <3>2 DEF FormattedUpTo
    <3>4. OthersFormatted'
      BY <1>7, <2>1, <3>1, <3>2, <3>3 DEF OthersFormatted
    <3>5. StageOK'
      BY <1>4, <1>7, <2>1, <2>2, <3>4 DEF StageOK
    <3> QED
      BY <1>4, <1>6, <2>2, <3>5
  <2> QED
    BY <1>5, <1>12, <2>2 DEF WriteRoot, Then
<1>13. CASE WriteDisk
  <2>1. (want' = <<>> /\ step' = On("find", 0)) \/ step' = On("error", 0)
    BY <1>13 DEF WriteDisk, Then
  <2> QED
    BY <1>4, <1>5, <1>6, <2>1
<1>14. CASE FindRoot
  <2>1. want' = <<>> /\ step'.do # "check"
    BY <1>3, <1>4, <1>14 DEF FindRoot
  <2> QED
    BY <1>6, <2>1
<1>15. CASE MountRoot
  <2>1. /\ UNCHANGED <<want, disk, fstab>> /\ step.do = "mount" /\ ignored \subseteq ignored'
        /\ "mount" \notin ignored' => mnt' = Mounted(<<>>, Root, step.i)
        /\ step' = IF want = <<>> THEN On("seed", step.i) ELSE On("rest", 1)
    BY <1>15 DEF MountRoot, Mount
  <2>2. ASSUME want # <<>> PROVE StageOK'
    <3>1. OthersFormatted /\ step.i = RootIndex /\ Accepted(want)
      BY <1>3, <2>1, <2>2 DEF StageOK
    <3>2. Fit /\ Fit' => MountsOK(mnt', 1)
      <4>1. Fit' => "mount" \notin ignored'
        BY DEF Fit
      <4> QED
        BY <1>1, <2>1, <3>1, <4>1, FirstMount
    <3>3. MountsOK(mnt', 1) => MountsOK(mnt, 1)'
      BY <1>7, <2>1 DEF MountsOK
    <3>4. OthersFormatted' /\ (Fit' => MountsOK(mnt, 1)')
      BY <1>8, <2>1, <3>1, <3>2, <3>3
    <3>5. step'.do = "rest" /\ step'.i = 1
      BY <1>4, <2>1, <2>2
    <3>6. 1 <= Len(want') + 1 /\ MountsOK(mnt, step.i)' = MountsOK(mnt, 1)'
      BY <1>2, <2>1, <3>5
    <3> QED
      BY <3>4, <3>5, <3>6 DEF StageOK
  <2> QED
    BY <1>4, <1>6, <2>1, <2>2
<1>16. CASE MountRest
  <2>1. /\ UNCHANGED <<want, disk>> /\ step.do = "rest" /\ want # <<>> /\ OthersFormatted /\ Accepted(want)
        /\ step.i \in Nat /\ step.i > 0 /\ step.i <= Len(want) + 1 /\ (Fit => MountsOK(mnt, step.i))
        /\ ignored \subseteq ignored'
    BY <1>3, <1>16 DEF MountRest, Mount, StageOK
  <2>2. CASE step.i > Len(want)
    <3>1. fstab' = Fstab /\ step' = On("seed", RootIndex) /\ UNCHANGED mnt
      BY <1>16, <2>2 DEF MountRest
    <3>2. step.i = Len(want) + 1
      BY <1>2, <2>1, <2>2
    <3>3. OthersFormatted' /\ (Fit' => MountsOK(mnt, Len(want) + 1)') /\ fstab' = Fstab'
      BY <1>7, <1>8, <2>1, <3>1, <3>2 DEF MountsOK
    <3>4. StageOK'
      BY <1>4, <3>1, <3>3 DEF StageOK
    <3> QED
      BY <1>4, <1>6, <3>1, <3>4
  <2>3. CASE ~(step.i > Len(want))
    <3>1. /\ "mount" \notin ignored' =>
               mnt' = (IF Kept(want[step.i]) THEN Mounted(mnt, want[step.i].mount, step.i) ELSE mnt)
          /\ step' = On("rest", step.i + 1)
      BY <1>16, <2>3 DEF MountRest, Mount
    <3>2. step.i \in DOMAIN want
      BY <1>2, <2>1, <2>3
    <3>3. Fit /\ Fit' => MountsOK(mnt', step.i + 1)
      <4>1. Fit' => "mount" \notin ignored'
        BY DEF Fit
      <4> QED
        BY <1>1, <2>1, <3>1, <3>2, <4>1, NextMount
    <3>4. OthersFormatted' /\ (Fit' => MountsOK(mnt', step.i + 1))
      BY <1>8, <2>1, <3>3
    <3>5. \A n : MountsOK(mnt', n) => MountsOK(mnt, n)'
      BY <1>7, <2>1 DEF MountsOK
    <3>6. step'.do = "rest" /\ step'.i = step.i + 1
      BY <1>4, <3>1
    <3>7. Fit' => MountsOK(mnt, step.i)'
      BY <3>4, <3>6, <1>7, <2>1 DEF MountsOK
    <3>8. step'.i <= Len(want') + 1 /\ step'.i > 0
      BY <1>2, <2>1, <2>3, <3>6
    <3>9. StageOK'
      BY <3>4, <3>6, <3>7, <3>8 DEF StageOK
    <3> QED
      BY <1>6, <3>6, <3>9
  <2> QED
    BY <2>2, <2>3
<1>17. CASE Seed
  <2>1. /\ UNCHANGED <<want, disk, fstab, ignored>> /\ step.do = "seed" /\ wrote' = [d \in Dirs |-> Resolve(mnt, d)]
        /\ step' = On(IF want = <<>> THEN "esp" ELSE "loader", step.i) \/ step' = On("error", 0)
    BY <1>17 DEF Seed, Then
  <2>2. ASSUME want # <<>> PROVE OthersFormatted' /\ fstab' = Fstab' /\ (Fit' => Configured')
    <3>1. OthersFormatted /\ fstab = Fstab /\ Accepted(want) /\ (Fit => MountsOK(mnt, Len(want) + 1))
      BY <1>3, <2>1, <2>2 DEF StageOK
    <3>2. OthersFormatted' /\ fstab' = Fstab'
      BY <1>7, <1>8, <2>1, <3>1
    <3>3. ASSUME Fit PROVE Configured'
      <4>1. \A d \in Dirs : d \in Path
        <5>1. <<"etc">> \in Path /\ <<"var", "lib", "cloud">> \in Path /\ <<"home">> \in Path
          BY TextIsThere, ShortSeq DEF Path
        <5> QED
          BY <5>1 DEF Dirs
      <4>2. \A d \in Dirs : Resolve(mnt, d) = AtBoot(d)
        BY <1>1, <3>1, <3>3, <4>1, WrittenWhereFound
      <4>3. \A d : AtBoot(d)' = AtBoot(d)
        BY <1>7, <2>1 DEF AtBoot, Tree
      <4>4. \A e \in fstab : e.path # Root => e.fs = disk[e.part].fs
        <5> SUFFICES ASSUME NEW e \in fstab, e.path # Root PROVE e.fs = disk[e.part].fs
          OBVIOUS
        <5>1. PICK i \in DOMAIN want : /\ want[i].mount # NoMount /\ want[i].fs # "swap"
                                       /\ e.part = i /\ e.path = want[i].mount
                                       /\ e.fs = IF want[i].fs = "fat32" THEN "vfat" ELSE want[i].fs
          BY <3>1 DEF Fstab
        <5> QED
          BY <1>1, <3>1, <3>3, <5>1, KeptIsMade
      <4> QED
        BY <2>1, <4>2, <4>3, <4>4 DEF Configured
    <3> QED
      BY <1>8, <2>1, <3>2, <3>3
  <2>3. want # <<>> /\ step' = On("loader", step.i) => StageOK'
    BY <1>4, <2>2 DEF StageOK
  <2> QED
    BY <1>4, <1>5, <1>6, <2>1, <2>3
<1>18. ASSUME step.do \in {"loader", "esp"}, step'.do \in {"esp", "done"}, UNCHANGED <<want, fstab, wrote>>,
              ignored \subseteq ignored',
              Len(disk') = Len(disk), DOMAIN disk' = DOMAIN disk,
              \A j \in DOMAIN disk : disk'[j].fs = disk[j].fs
       PROVE  ConfigInv'
  <2>1. ASSUME want # <<>> PROVE StageOK'
    <3>1. OthersFormatted /\ fstab = Fstab /\ Accepted(want) /\ (Fit => Configured)
      BY <1>3, <1>18, <2>1 DEF StageOK
    <3>2. OthersFormatted' /\ fstab' = Fstab' /\ (Fit' => Configured')
      BY <1>1, <1>18, <3>1, ConfigurationStays
    <3> QED
      BY <1>18, <3>2 DEF StageOK
  <2> QED
    BY <1>6, <1>18, <2>1
<1>19. CASE Loader
  <2>1. step.do = "loader" /\ step'.do = "esp" /\ UNCHANGED <<want, fstab, wrote, ignored>>
    BY <1>4, <1>19 DEF Loader, Then
  <2> QED
    BY <1>1, <1>18, <1>19, <2>1, LoaderAdded
<1>20. CASE EnsureUEFI
  <2>1. step.do = "esp" /\ UNCHANGED <<want, fstab, wrote>> /\ ignored \subseteq ignored'
    BY <1>20 DEF EnsureUEFI
  <2>2. step' = On("done", 0) => step'.do = "done"
    BY <1>4
  <2> QED
    BY <1>1, <1>5, <1>18, <1>20, <2>1, <2>2, FallbackMade
<1>21. CASE UNCHANGED installVars
  <2>1. UNCHANGED <<want, fw, disk, step, mnt, fstab, wrote, ignored>>
    BY <1>21 DEF installVars
  <2>2. UNCHANGED <<StageOK>>
    BY <2>1 DEF StageOK, FormattedUpTo, OthersFormatted, Fit, MountsOK, Configured, AtBoot, Tree, RootIndex,
                Fstab, Shadowed, Unmade
  <2> QED
    BY <1>1, <1>3, <2>1, <2>2 DEF ConfigInv
<1> QED
  BY <1>9, <1>10, <1>11, <1>12, <1>13, <1>14, <1>15, <1>16, <1>17, <1>19, <1>20, <1>21 DEF InstallNext

LEMMA ConfigInit ==
  ASSUME InstallInit
  PROVE  ConfigInv
<1>1. InstallTypeOK
  BY LoaderInit DEF LoaderInv
<1>2. step.do = "check" /\ disk = <<>>
  BY DEF InstallInit, On
<1> QED
  BY <1>1, <1>2 DEF ConfigInv, StageOK

\* What was configured is there when the installed system boots, for every list of
\* partitions but the two kinds ConfigIsSeen names, where no mount failed.
THEOREM ConfigAlwaysSeen == InstallSpec => []ConfigIsSeen
<1>1. ConfigInv => ConfigIsSeen
  BY DEF ConfigInv, StageOK, ConfigIsSeen, Fit, Configured
<1> QED
  BY <1>1, ConfigInit, ConfigStep, PTL DEF InstallSpec
===============================================================================
