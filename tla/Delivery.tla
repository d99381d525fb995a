------------------------------ MODULE Delivery ------------------------------
(***************************************************************************)
(* What the activity queue promises for each activity handed to it, with   *)
(* no channel, worker, counter or timer in sight: the activity is          *)
(* attempted once and retried up to three times while attempts fail        *)
(* (docs/09_sending_activities.md), never attempted again once an attempt  *)
(* was answered, and in the end it is completed or dead.                   *)
(***************************************************************************)
EXTENDS Integers

CONSTANTS Tasks,        \* one activity for one inbox
          MaxAttempts   \* the first attempt and its retries

VARIABLES
    status,     \* what has become of the task
    attempts,   \* attempts made so far
    answered    \* the last attempt needs no retry

vars == <<status, attempts, answered>>

Statuses == {"new", "accepted", "completed", "dead"}

TypeOK ==
    /\ status \in [Tasks -> Statuses]
    /\ attempts \in [Tasks -> 0 .. MaxAttempts]
    /\ answered \in [Tasks -> BOOLEAN]

Init ==
    /\ status = [t \in Tasks |-> "new"]
    /\ attempts = [t \in Tasks |-> 0]
    /\ answered = [t \in Tasks |-> FALSE]

Accept(t) ==
    /\ status[t] = "new"
    /\ status' = [status EXCEPT ![t] = "accepted"]
    /\ UNCHANGED <<attempts, answered>>

Attempt(t) ==
    /\ status[t] = "accepted"
    /\ ~ answered[t]
    /\ attempts[t] < MaxAttempts
    /\ attempts' = [attempts EXCEPT ![t] = @ + 1]
    /\ \E a \in BOOLEAN : answered' = [answered EXCEPT ![t] = a]
    /\ UNCHANGED status

Complete(t) ==
    /\ status[t] = "accepted"
    /\ answered[t]
    /\ status' = [status EXCEPT ![t] = "completed"]
    /\ UNCHANGED <<attempts, answered>>

GiveUp(t) ==
    /\ status[t] = "accepted"
    /\ ~ answered[t]
    /\ attempts[t] = MaxAttempts
    /\ status' = [status EXCEPT ![t] = "dead"]
    /\ UNCHANGED <<attempts, answered>>

Progress(t) == Attempt(t) \/ Complete(t) \/ GiveUp(t)

Next == \E t \in Tasks : Accept(t) \/ Progress(t)

SafeSpec == Init /\ [][Next]_vars

Spec == SafeSpec /\ \A t \in Tasks : WF_vars(Progress(t))
=============================================================================
