------------------------------ MODULE MCDiskGrow ------------------------------
(***************************************************************************)
(* Instances of DiskGrow: every table of at most three partitions on an    *)
(* image of six sectors.                                                   *)
(***************************************************************************)
EXTENDS DiskGrow

Types == {"linux", "esp", "other"}

Nth(S, k) == CHOOSE x \in S : Cardinality({y \in S : y <= x}) = k

\* The ends of n partitions that lie one after the other on the sectors 1 to 6; the
\* end of one may be the start of the next.
Cuts(n) ==
  {[k \in 1 .. 2 * n |-> Nth(S, k) - (k - 1) \div 2] :
     S \in {T \in SUBSET (1 .. n + 6) : Cardinality(T) = 2 * n}}

\* Tables of n partitions numbered in the order they lie on the disk.
Tables(n) ==
  {{[num |-> i, start |-> c[2 * i - 1], size |-> c[2 * i] - c[2 * i - 1], type |-> t[i]] :
      i \in 1 .. n} : c \in Cuts(n), t \in [1 .. n -> Types]}

MCLayouts == Tables(1) \cup Tables(2) \cup Tables(3)
MCSizes == {3, 8, 11, 12, 13, 16}
===============================================================================
