----------------------------- MODULE QueueDrain -----------------------------
(***************************************************************************)
(* Watching the queue: Stats::snapshot and wait_for_activity_queue_idle    *)
(* (config.rs), run against the queue.  A snapshot loads the counters one  *)
(* by one while the workers move between them.  The loads are Relaxed and  *)
(* of different atomics, so they may be made in any order; each returns    *)
(* the counter's value at that moment.                                     *)
(***************************************************************************)
EXTENDS ActivityQueue

VARIABLES
    wait,       \* the call of wait_for_activity_queue_idle
    expired,    \* its deadline has passed
    rested,     \* history: the last sleep lasted the whole polling interval
    settled,    \* history: tasks under one same counter since the snapshot began
    wasIdle,    \* history: the queue was without work at some moment of the call
    streak      \* history: idle snapshots in a row, up to 2

watchVars == <<wait, expired, rested, settled, wasIdle, streak>>
drainVars == <<vars, watchVars>>

\* Slip: work that waits for its retry does not count as work.
FieldsWithoutRetries == {"pending", "running"}

\* The fields is_idle looks at; the other two do not matter here.
Fields == {"pending", "running", "retries"}

Outstanding == {t \in Tasks : pc[t] \notin {"new"} \cup Final}

CounterOf(t) ==
    CASE t \in PendingTasks -> "pending"
      [] t \in RunningTasks -> "running"
      [] t \in RetryTasks   -> "retries"
      [] OTHER              -> "none"

Counted == {t \in Tasks : CounterOf(t) # "none"}

Outcome == {"Idle", "DeadlineExceeded"}

DrainInit ==
    /\ Init
    /\ wait = [at |-> "call", unread |-> Fields, busy |-> FALSE, idleObserved |-> FALSE]
    /\ expired = FALSE
    /\ rested = FALSE
    /\ settled = {}
    /\ wasIdle = FALSE
    /\ streak = 0

\* The call is under way.
Waiter == wait.at \notin {"call"} \cup Outcome

\* Taking a snapshot: from its first load to its last.
BeginSnapshot(from) ==
    /\ wait.at = from
    /\ wait' = [wait EXCEPT !.at = "load", !.unread = Fields, !.busy = FALSE]
    /\ settled' = Counted

Load ==
    /\ wait.at = "load"
    /\ \E f \in wait.unread :
          LET busy == wait.busy \/ stats[f] # 0
              rest == wait.unread \ {f}
          IN  /\ wait' = [wait EXCEPT !.unread = rest, !.busy = busy,
                                      !.at = IF rest = {} THEN "check" ELSE "load"]
              /\ streak' = CASE rest # {}  -> streak
                             [] rest = {} /\ busy -> 0
                             [] OTHER -> IF streak < 2 THEN streak + 1 ELSE 2
    /\ UNCHANGED <<vars, expired, rested, settled, wasIdle>>

Call ==
    /\ BeginSnapshot("call")
    /\ wasIdle' = (Outstanding = {})
    /\ UNCHANGED <<vars, expired, rested, streak>>

\* Slips: the deadline is looked at only when the queue is not yet idle, or
\* only when it seems idle.
CheckIdleFirst ==
    /\ wait.at = "check"
    /\ wait' = IF ~ wait.busy /\ wait.idleObserved THEN [wait EXCEPT !.at = "Idle"]
               ELSE IF expired THEN [wait EXCEPT !.at = "DeadlineExceeded"]
               ELSE [wait EXCEPT !.at = "sleep", !.idleObserved = ~ wait.busy]
    /\ settled' = {}
    /\ UNCHANGED <<vars, expired, rested, wasIdle, streak>>

CheckBusyFirst ==
    /\ wait.at = "check"
    /\ wait' = IF wait.busy THEN [wait EXCEPT !.at = "sleep", !.idleObserved = FALSE]
               ELSE IF expired THEN [wait EXCEPT !.at = "DeadlineExceeded"]
               ELSE IF wait.idleObserved THEN [wait EXCEPT !.at = "Idle"]
               ELSE [wait EXCEPT !.at = "sleep", !.idleObserved = TRUE]
    /\ settled' = {}
    /\ UNCHANGED <<vars, expired, rested, wasIdle, streak>>

\* One turn of the loop, up to the sleep: the deadline is looked at first.
Check ==
    /\ wait.at = "check"
    /\ wait' = IF expired THEN [wait EXCEPT !.at = "DeadlineExceeded"]
               ELSE IF wait.busy THEN [wait EXCEPT !.at = "sleep", !.idleObserved = FALSE]
               ELSE IF wait.idleObserved THEN [wait EXCEPT !.at = "Idle"]
               ELSE [wait EXCEPT !.at = "sleep", !.idleObserved = TRUE]
    /\ settled' = {}
    /\ UNCHANGED <<vars, expired, rested, wasIdle, streak>>

\* sleep_until(min(now + 25ms, deadline)) returns: after the whole polling
\* interval, or sooner because the deadline has come.
Poll ==
    /\ BeginSnapshot("sleep")
    /\ \E whole \in BOOLEAN : rested' = whole /\ (whole \/ expired)
    /\ UNCHANGED <<vars, expired, wasIdle, streak>>

Expire ==
    /\ Waiter
    /\ ~ expired
    /\ expired' = TRUE
    /\ UNCHANGED <<vars, wait, rested, settled, wasIdle, streak>>

\* A step of the queue.  The caller's Data holds the queue, so it is not shut
\* down under the call; what happens after the call is of no interest.
QueueStep ==
    /\ Next
    /\ wait.at \notin Outcome
    /\ UNCHANGED handle
    /\ settled' = {t \in settled : CounterOf(t)' = CounterOf(t)}
    /\ wasIdle' = (wasIdle \/ (Waiter /\ Outstanding' = {}))
    /\ UNCHANGED <<wait, expired, rested, streak>>

WaitStep == Load \/ Call \/ Check \/ Poll

DrainNext == WaitStep \/ Expire \/ QueueStep

DrainSafeSpec == DrainInit /\ [][DrainNext]_drainVars

\* The waiting task is polled and its deadline comes, whatever the queue does.
DrainSpec == DrainSafeSpec /\ WF_drainVars(Load \/ Check \/ Poll) /\ WF_drainVars(Expire)

----------------------------------------------------------------------------
\* A snapshot that reads zero everywhere can miss only work that changed
\* counters while it was taken: a task that waits, runs or sleeps out its
\* backoff under one counter for the whole snapshot is always seen, although
\* the fields are loaded one by one, in no fixed order.
IdleSnapshotMissesNoSettledWork ==
    wait.at = "check" /\ ~ wait.busy => settled = {}

\* The deadline takes priority over idle state: Idle is returned only by a turn
\* of the loop that found the deadline still ahead, after two idle snapshots
\* with none between them that saw work and a whole polling interval from one
\* to the other, never one that the deadline cut short.
IdleIsConfirmed == wait.at = "Idle" => streak = 2 /\ rested /\ ~ expired

\* The wait is bounded by its deadline even while work goes on for days.
WaitReturns == Waiter ~> wait.at \in Outcome

\* activity_queue.rs:60, "The queue became idle before the deadline": at some
\* moment of the call no accepted task was unfinished.
IdleWasIdle == wait.at = "Idle" => wasIdle
=============================================================================
