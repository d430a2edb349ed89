----------------------------- MODULE MCJobControl -----------------------------
(***************************************************************************)
(* Instances of JobControl.  Nothing tells two slots apart.                *)
(***************************************************************************)
EXTENDS JobControl, TLC
SlotSymmetry == Permutations(Slots)
===============================================================================
