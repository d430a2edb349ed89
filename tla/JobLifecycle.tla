----------------------------- MODULE JobLifecycle -----------------------------
(***************************************************************************)
(* What the job table promises whoever watches it: a job is created        *)
(* pending, moves along the allowed edges, may be deleted at any time (a   *)
(* machine takes all its jobs along), and a deleted job never comes back.  *)
(* Edges is a relation between statuses; no edge leads back to pending.     *)
(***************************************************************************)
CONSTANTS Jobs, Edges

Statuses == {"pending", "running", "succeeded", "failed", "cancelled"}

VARIABLE life

Init == life = [j \in Jobs |-> "unborn"]

Create(j) ==
  /\ life[j] = "unborn"
  /\ life' = [life EXCEPT ![j] = "pending"]

Move(j, st) ==
  /\ st # "pending"
  /\ <<life[j], st>> \in Edges
  /\ life' = [life EXCEPT ![j] = st]

Delete(J) ==
  /\ \A j \in J : life[j] \in Statuses
  /\ life' = [j \in Jobs |-> IF j \in J THEN "deleted" ELSE life[j]]

Next ==
  \/ \E j \in Jobs : Create(j) \/ \E st \in Statuses : Move(j, st)
  \/ \E J \in SUBSET Jobs : Delete(J)

Spec == Init /\ [][Next]_life
=============================================================================
