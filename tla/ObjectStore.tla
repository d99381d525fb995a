---------------------------- MODULE ObjectStore ----------------------------
(***************************************************************************)
(* What dereferencing promises of the application's database: objects of   *)
(* this instance are never written, others are stored and marked as        *)
(* deleted, and no object disappears.                                      *)
(***************************************************************************)
CONSTANTS
    Ids,        \* ids of objects
    LocalIds    \* those of this instance

VARIABLE db

Init == db \in [Ids -> {"absent", "stored"}]

Store(u) == db' = [db EXCEPT ![u] = "stored"]

\* Only what is there can be deleted.
MarkDeleted(u) ==
    /\ db[u] # "absent"
    /\ db' = [db EXCEPT ![u] = "deleted"]

Next == \E u \in Ids \ LocalIds : Store(u) \/ MarkDeleted(u)

SafeSpec == Init /\ [][Next]_db
=============================================================================
