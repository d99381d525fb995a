-------------------------- MODULE MCActivityQueue --------------------------
(***************************************************************************)
(* ActivityQueue for TLC.                                                  *)
(***************************************************************************)
EXTENDS ActivityQueue, TLC

Symmetry == Permutations(Tasks)

\* Everything has come to its end: the queue is shut down, both dispatchers
\* are gone, and no task is under way.  Any other state without a successor
\* is a deadlock.
Quiet ==
    /\ handle.at = "returned"
    /\ \A p \in Pools : phase[p] = "done"
    /\ \A t \in Tasks : pc[t] \in {"new"} \cup Final
    /\ UNCHANGED vars

MCSpec == Init /\ [][Next \/ Quiet]_vars
=============================================================================
