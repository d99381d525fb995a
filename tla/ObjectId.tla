------------------------------ MODULE ObjectId ------------------------------
(***************************************************************************)
(* Dereferencing an id (fetch/object_id.rs): from the application's        *)
(* database if the object is there and recent, else from the server it     *)
(* names, with the module Fetch underneath.  Several futures do so at once *)
(* over one Data, and what one of them writes another may have read        *)
(* before: every read and write of the database is an await.               *)
(*                                                                         *)
(* The database and the functions read_from_id, delete, verify and         *)
(* from_json are the application's; they are modelled as their             *)
(* documentation in traits/mod.rs asks for.  from_json may dereference an  *)
(* object that the fetched one refers to, with the same Data, before it    *)
(* writes (as examples/live_federation does), and so on from there: each   *)
(* caller has a stack of dereferences.                                     *)
(***************************************************************************)
EXTENDS Fetch, Sequences

VARIABLES
    db,         \* the application's database
    outdated,   \* ids whose object was refreshed too long ago
    stack,      \* the dereferences each caller is in, innermost first
    outcome     \* what the last dereference of each caller returned

vars == <<fetchVars, db, outdated, stack, outcome>>

Stored == {"stored", "deleted"}

Operations == {"dereference", "forced", "local"}

(***************************************************************************)
(*   read     dereference_from_db is awaited                               *)
(*   begin    dereference_from_http is entered                             *)
(*   fetch    fetch_object_http is awaited                                 *)
(*   delete   delete of the object that was read is awaited                *)
(*   verify   Kind::verify is awaited                                      *)
(*   convert  from_json has begun                                          *)
(*   write    from_json is about to write                                  *)
(* held is the object read before the fetch, at the id it is stored under; *)
(* the object fetched has the id found.                                    *)
(***************************************************************************)
Dereferences ==
    [op : Operations, id : Urls, held : Stored \cup {"none"}, found : Urls,
     at : {"read", "begin", "fetch", "delete", "verify", "convert", "write"}]

Outcomes == {"none", "Ok", "NotFound", "ObjectDeleted", "Error"}

Init ==
    /\ FetchInit
    /\ db \in [Urls -> {"absent", "stored"}]
    /\ outdated = {}
    /\ stack = [c \in Callers |-> <<>>]
    /\ outcome = [c \in Callers |-> [op |-> "local", id |-> CHOOSE u \in Urls : TRUE,
                                     result |-> "none"]]

Top(c) == Head(stack[c])

At(c, place) == stack[c] # <<>> /\ Top(c).at = place

SetTop(c, frame) == stack' = [stack EXCEPT ![c][1] = frame]

\* The innermost dereference returns.
Return(c, result) ==
    /\ stack' = [stack EXCEPT ![c] = Tail(@)]
    /\ outcome' = [outcome EXCEPT ![c] =
                      [op |-> Top(c).op, id |-> Top(c).id, result |-> result]]

----------------------------------------------------------------------------
(* dereference, dereference_forced and dereference_local.                  *)

\* A forced dereference reads only local objects, and holds none otherwise.
Enter(op, u) ==
    [op |-> op, id |-> u, held |-> "none", found |-> u,
     at |-> IF op = "forced" /\ ~ IsLocalUrl(u) THEN "begin" ELSE "read"]

Call(c) ==
    /\ stack[c] = <<>>
    /\ outcome[c].result = "none"
    /\ \E op \in Operations, u \in Urls :
          stack' = [stack EXCEPT ![c] = <<Enter(op, u)>>]
    /\ UNCHANGED <<fetchVars, db, outdated, outcome>>

\* Slip: an outdated object is refetched even if it is local.
ReadRefetchesLocal(c) ==
    /\ At(c, "read")
    /\ LET d == Top(c)
           present == db[d.id] \in Stored
       IN  \/ Return(c, "Error")
           \/ /\ d.op \in {"local", "forced"}
              /\ Return(c, IF present THEN "Ok" ELSE "NotFound")
           \/ /\ d.op = "dereference"
              /\ present /\ d.id \notin outdated
              /\ Return(c, "Ok")
           \/ /\ d.op = "dereference"
              /\ present => d.id \in outdated
              /\ SetTop(c, [d EXCEPT !.at = "begin",
                                     !.held = IF present THEN db[d.id] ELSE "none"])
              /\ UNCHANGED outcome
    /\ UNCHANGED <<fetchVars, db, outdated>>

\* read_from_id, like every function of the application, may fail.
Read(c) ==
    /\ At(c, "read")
    /\ LET d == Top(c)
           present == db[d.id] \in Stored
       IN  \/ Return(c, "Error")
           \/ /\ d.op \in {"local", "forced"}
              /\ Return(c, IF present THEN "Ok" ELSE "NotFound")
           \/ /\ d.op = "dereference"
              /\ present /\ (IsLocalUrl(d.id) \/ d.id \notin outdated)
              /\ Return(c, "Ok")
           \/ /\ d.op = "dereference"
              /\ present => ~ IsLocalUrl(d.id) /\ d.id \in outdated
              /\ SetTop(c, [d EXCEPT !.at = "begin",
                                     !.held = IF present THEN db[d.id] ELSE "none"])
              /\ UNCHANGED outcome
    /\ UNCHANGED <<fetchVars, db, outdated>>

----------------------------------------------------------------------------
(* dereference_from_http.                                                  *)

BeginFetch(c) ==
    /\ At(c, "begin")
    /\ Begin(c, Top(c).id, "object", FALSE)
    /\ SetTop(c, [Top(c) EXCEPT !.at = "fetch"])
    /\ UNCHANGED <<db, outdated, outcome>>

AwaitFetch(c) ==
    /\ At(c, "fetch")
    /\ FetchStep(c)
    /\ UNCHANGED <<db, outdated, stack, outcome>>

\* Slip: a held object goes through verify and from_json again.
FetchFailedConverting(c) ==
    IF Top(c).held # "none"
    THEN SetTop(c, [Top(c) EXCEPT !.at = "verify", !.found = Top(c).id]) /\ UNCHANGED outcome
    ELSE Return(c, IF fetch[c].result = "NotFound" THEN "NotFound" ELSE "Error")

FetchFailed(c) ==
    Return(c, IF Top(c).held # "none" THEN "Ok"
              ELSE IF fetch[c].result = "NotFound" THEN "NotFound" ELSE "Error")

\* The held object is the answer to every failure; Gone has it deleted first.
\* What was fetched from this instance is not converted but read from the
\* database (by the id asked for).
Fetched(c) ==
    /\ At(c, "fetch")
    /\ fetch[c].at = "done"
    /\ Set(c, Idle)
    /\ LET d == Top(c)
           result == fetch[c].result
       IN  \/ /\ result = "Object"
              /\ SetTop(c, [d EXCEPT !.at = "verify", !.found = fetch[c].url])
              /\ UNCHANGED outcome
           \/ /\ result = "Gone" /\ d.held # "none"
              /\ SetTop(c, [d EXCEPT !.at = "delete"])
              /\ UNCHANGED outcome
           \/ /\ result = "Gone" /\ d.held = "none"
              /\ Return(c, "ObjectDeleted")
           \/ /\ result \in Failures
              /\ FetchFailed(c)
    /\ UNCHANGED <<counter, sent, db, outdated>>

\* Marks the object as deleted in the database.
Delete(c) ==
    /\ At(c, "delete")
    /\ \/ /\ db' = [db EXCEPT ![Top(c).id] = "deleted"]
          /\ Return(c, "Ok")
       \/ /\ Return(c, "Error")
          /\ UNCHANGED db
    /\ UNCHANGED <<fetchVars, outdated>>

\* The application's verify, and then from_json, may refuse the object.
VerifyObject(c) ==
    /\ At(c, "verify")
    /\ \/ SetTop(c, [Top(c) EXCEPT !.at = "convert"]) /\ UNCHANGED outcome
       \/ Return(c, "Error")
    /\ UNCHANGED <<fetchVars, db, outdated>>

\* from_json dereferences another object, goes on without, or fails.
Convert(c) ==
    /\ At(c, "convert")
    /\ LET writing == [Top(c) EXCEPT !.at = "write"]
       IN  \/ SetTop(c, writing) /\ UNCHANGED outcome
           \/ /\ \E u \in Urls :
                    stack' = [stack EXCEPT ![c] =
                                 <<Enter("dereference", u)>> \o [@ EXCEPT ![1] = writing]]
              /\ UNCHANGED outcome
           \/ Return(c, "Error")
    /\ UNCHANGED <<fetchVars, db, outdated>>

\* The upsert, by which the object is also refreshed; not if the nested
\* dereference failed and from_json passes the error on.
Write(c) ==
    /\ At(c, "write")
    /\ LET u == Top(c).found
       IN  \/ /\ db' = [db EXCEPT ![u] = "stored"]
              /\ outdated' = outdated \ {u}
              /\ Return(c, "Ok")
           \/ /\ outcome[c].result \notin {"none", "Ok"}
              /\ Return(c, "Error")
              /\ UNCHANGED <<db, outdated>>
    /\ UNCHANGED fetchVars

----------------------------------------------------------------------------
(* What happens meanwhile.                                                 *)

\* should_refetch_object becomes true of a stored object.
Age(u) ==
    /\ db[u] \in Stored /\ u \notin outdated
    /\ outdated' = outdated \cup {u}
    /\ UNCHANGED <<fetchVars, db, stack, outcome>>

\* A Delete activity for a remote object is received.
ReceiveDelete(u) ==
    /\ db[u] = "stored" /\ ~ IsLocalUrl(u)
    /\ db' = [db EXCEPT ![u] = "deleted"]
    /\ UNCHANGED <<fetchVars, outdated, stack, outcome>>

----------------------------------------------------------------------------
Step(c) == \/ Read(c) \/ BeginFetch(c) \/ AwaitFetch(c) \/ Fetched(c)
           \/ Delete(c) \/ VerifyObject(c) \/ Convert(c) \/ Write(c)

Next == \/ \E c \in Callers : Call(c) \/ Step(c)
        \/ \E u \in Urls : Age(u) \/ ReceiveDelete(u)

SafeSpec == Init /\ [][Next]_vars

----------------------------------------------------------------------------
(* Properties.                                                             *)

TypeOK ==
    /\ FetchTypeOK
    /\ db \in [Urls -> {"absent"} \cup Stored]
    /\ outdated \subseteq Urls
    /\ stack \in [Callers -> Seq(Dereferences)]
    /\ outcome \in [Callers -> [op : Operations, id : Urls, result : Outcomes]]

\* Objects that refer to each other in a circle make from_json recurse, for
\* none of them is stored before the others.  The shared counter bounds that
\* recursion: the dereferences that await another one, of all callers
\* together, have each used up a request.
Enclosing == UNION {{c} \X (2 .. Len(stack[c])) : c \in Callers}

RecursionPaidFor == Cardinality(Enclosing) <= sent

\* Whatever servers answer and however dereferences, ageing and Delete
\* activities interleave, no object of this instance is overwritten or marked
\* as deleted ("Prevent overwriting local object", object_id.rs:179), and a
\* deletion is of an object that is there.
Store == INSTANCE ObjectStore WITH
    Ids      <- Urls,
    LocalIds <- {u \in Urls : IsLocalUrl(u)}

StoreKept == Store!SafeSpec

----------------------------------------------------------------------------
(* A claim of the documentation that the code does not keep.               *)

Returned(c) == stack[c] = <<>>

\* traits/mod.rs:137: delete is called "if fetch returns a Tombstone object".
TombstoneDeletes ==
    \A c \in Callers :
        Returned(c) /\ outcome[c].result = "ObjectDeleted" =>
            db[outcome[c].id] # "stored"
=============================================================================
