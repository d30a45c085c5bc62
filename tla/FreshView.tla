----------------------------- MODULE FreshView -----------------------------
(***************************************************************************)
(* What the watchers of package k8s promise to the controller: an observer *)
(* has a view of a world that changes by itself; while nothing is pending  *)
(* the view is the world.  Every change of the world makes an observation  *)
(* pending, the view changes only while one is pending, and an observation *)
(* that leaves none pending has seen the world as it is.                   *)
(***************************************************************************)
CONSTANT Worlds

VARIABLES world, view, pending

vars == <<world, view, pending>>

Init == world \in Worlds /\ view = world /\ pending = FALSE

Change ==
  /\ world' \in Worlds
  /\ pending' = TRUE
  /\ UNCHANGED view

Observe ==
  /\ pending
  /\ view' \in Worlds
  /\ pending' \in BOOLEAN
  /\ ~pending' => view' = world
  /\ UNCHANGED world

Next == Change \/ Observe

Spec == Init /\ [][Next]_vars
=============================================================================
