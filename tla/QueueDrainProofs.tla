-------------------------- MODULE QueueDrainProofs --------------------------
(***************************************************************************)
(* Proofs about QueueDrain: what an idle snapshot of the counters cannot   *)
(* miss, and what it takes for the wait to return Idle.  They rest on what *)
(* is proved of the queue, which goes on as if nobody looked.              *)
(***************************************************************************)
EXTENDS QueueDrain, ActivityQueueProofs

\* Watching changes nothing about the queue.
THEOREM WatchingIsSilent == DrainSafeSpec => SafeSpec
<1>1. DrainInit => Init
  BY DEF DrainInit
<1>2. [DrainNext]_drainVars => [Next]_vars
  BY DEF drainVars, DrainNext, WaitStep, Load, Call, Check, Poll, Expire, QueueStep
<1> QED
  BY <1>1, <1>2, PTL DEF DrainSafeSpec, SafeSpec

(***************************************************************************)
(* What the loop over snapshots remembers.  A task that has been under one *)
(* counter since the snapshot began has that counter still to be read,     *)
(* unless the snapshot has seen work already; and idleObserved stands for  *)
(* an idle snapshot that none with work has followed.  A sleep that was    *)
(* cut short was so by the deadline, which then has passed for good.       *)
(***************************************************************************)
WaitTyped ==
    /\ wait \in [at : {"call", "load", "check", "sleep"} \cup Outcome,
                 unread : SUBSET Fields, busy : BOOLEAN, idleObserved : BOOLEAN]
    /\ streak \in 0 .. 2
    /\ expired \in BOOLEAN /\ rested \in BOOLEAN

SnapshotOK ==
    /\ settled \subseteq Counted
    /\ wait.at \in {"load", "check"} /\ ~ wait.busy =>
          \A t \in settled : CounterOf(t) \in wait.unread
    /\ wait.at = "check" => wait.unread = {}

StreakOK ==
    /\ wait.at = "call" => ~ wait.idleObserved
    /\ wait.at \in {"load", "sleep"} /\ wait.idleObserved => streak >= 1
    /\ wait.at = "check" /\ ~ wait.busy => streak >= 1 /\ (wait.idleObserved => streak = 2)
    /\ wait.at = "Idle" => streak = 2

\* Between the first snapshot and the second the loop has slept, for the whole
\* interval unless the deadline came.
RestOK ==
    /\ wait.at \in {"load", "check"} /\ wait.idleObserved => rested \/ expired
    /\ wait.at = "Idle" => rested /\ ~ expired

DrainInv == WaitTyped /\ SnapshotOK /\ StreakOK /\ RestOK

----------------------------------------------------------------------------
\* A counter that reads zero stands for no task.
LEMMA CounterOfWork ==
    /\ \A t \in Tasks : CounterOf(t) \in Fields \cup {"none"}
    /\ CountersMatchWork =>
          \A t \in Counted : CounterOf(t) \in Fields /\ stats[CounterOf(t)] # 0
<1>1. ASSUME NEW t \in Tasks
      PROVE  \/ CounterOf(t) = "pending" /\ t \in PendingTasks
             \/ CounterOf(t) = "running" /\ t \in RunningTasks
             \/ CounterOf(t) = "retries" /\ t \in RetryTasks
             \/ CounterOf(t) = "none"
  BY DEF CounterOf
<1>2. ASSUME NEW S, S \subseteq Tasks, NEW t \in S PROVE Cardinality(S) # 0
  <2>1. IsFiniteSet(S)
    BY <1>2, TasksAssumption, FS_Subset
  <2> QED
    BY <1>2, <2>1, FS_EmptySet
<1>3. PendingTasks \subseteq Tasks /\ RunningTasks \subseteq Tasks /\ RetryTasks \subseteq Tasks
  BY DEF PendingTasks, RunningTasks, RetryTasks
<1>4. ASSUME CountersMatchWork, NEW t \in Counted
      PROVE  CounterOf(t) \in Fields /\ stats[CounterOf(t)] # 0
  <2>1. t \in Tasks /\ CounterOf(t) # "none"
    BY DEF Counted
  <2>2. CASE CounterOf(t) = "pending" /\ t \in PendingTasks
    BY <1>2, <1>3, <1>4, <2>2 DEF CountersMatchWork, Fields
  <2>3. CASE CounterOf(t) = "running" /\ t \in RunningTasks
    BY <1>2, <1>3, <1>4, <2>3 DEF CountersMatchWork, Fields
  <2>4. CASE CounterOf(t) = "retries" /\ t \in RetryTasks
    BY <1>2, <1>3, <1>4, <2>4 DEF CountersMatchWork, Fields
  <2> QED
    BY <1>1, <2>1, <2>2, <2>3, <2>4
<1> QED
  BY <1>1, <1>4 DEF Fields

LEMMA DrainInitOK == DrainInit => DrainInv
<1> SUFFICES ASSUME DrainInit PROVE DrainInv
  OBVIOUS
<1>1. wait = [at |-> "call", unread |-> Fields, busy |-> FALSE, idleObserved |-> FALSE]
  BY DEF DrainInit
<1>2. WaitTyped
  <2>1. wait \in [at : {"call", "load", "check", "sleep"} \cup Outcome,
                  unread : SUBSET Fields, busy : BOOLEAN, idleObserved : BOOLEAN]
    BY <1>1
  <2>2. streak \in 0 .. 2
    BY DEF DrainInit
  <2>3. expired \in BOOLEAN /\ rested \in BOOLEAN
    BY DEF DrainInit
  <2> QED
    BY <2>1, <2>2, <2>3 DEF WaitTyped
<1>3. SnapshotOK
  BY <1>1 DEF DrainInit, SnapshotOK
<1>4. StreakOK /\ RestOK
  BY <1>1 DEF StreakOK, RestOK
<1> QED
  BY <1>2, <1>3, <1>4 DEF DrainInv

\* A snapshot begins with all counters to be read.
LEMMA BeginSnapshotKeeps ==
    ASSUME DrainInv, NEW from \in {"call", "sleep"}, BeginSnapshot(from),
           UNCHANGED <<vars, expired, streak>>, rested' \in BOOLEAN,
           from = "call" \/ rested' \/ expired
    PROVE  DrainInv'
<1>1. wait' = [wait EXCEPT !.at = "load", !.unread = Fields, !.busy = FALSE]
  BY DEF BeginSnapshot
<1>2. WaitTyped'
  BY <1>1 DEF DrainInv, WaitTyped, Fields
<1>3. settled' = Counted /\ Counted' = Counted /\ \A t \in Tasks : CounterOf(t)' = CounterOf(t)
  BY DEF BeginSnapshot, Counted, CounterOf, PendingTasks, RunningTasks, RetryTasks, vars, taskVars
<1>4. \A t \in Counted : CounterOf(t) \in Fields
  BY CounterOfWork DEF Counted
<1>5. SnapshotOK'
  BY <1>1, <1>3, <1>4 DEF DrainInv, WaitTyped, SnapshotOK, Counted
<1>6. StreakOK'
  BY <1>1 DEF DrainInv, WaitTyped, StreakOK, BeginSnapshot
<1>7. RestOK'
  BY <1>1 DEF DrainInv, WaitTyped, StreakOK, RestOK, BeginSnapshot
<1> QED
  BY <1>2, <1>5, <1>6, <1>7 DEF DrainInv

\* The counter that is read is zero, and then stands for no task, or the
\* snapshot is busy from here on.
LEMMA LoadKeeps ==
    ASSUME DrainInv, CountersMatchWork, Load
    PROVE  DrainInv'
<1>1. PICK f \in wait.unread :
          LET busy == wait.busy \/ stats[f] # 0
              rest == wait.unread \ {f}
          IN  /\ wait' = [wait EXCEPT !.unread = rest, !.busy = busy,
                                      !.at = IF rest = {} THEN "check" ELSE "load"]
              /\ streak' = CASE rest # {}  -> streak
                             [] rest = {} /\ busy -> 0
                             [] OTHER -> IF streak < 2 THEN streak + 1 ELSE 2
  BY DEF Load
<1> DEFINE busy == wait.busy \/ stats[f] # 0
           rest == wait.unread \ {f}
<1>2. /\ wait' = [wait EXCEPT !.unread = rest, !.busy = busy,
                              !.at = IF rest = {} THEN "check" ELSE "load"]
      /\ rest # {} => streak' = streak
      /\ rest = {} /\ busy => streak' = 0
      /\ rest = {} /\ ~ busy => streak' = IF streak < 2 THEN streak + 1 ELSE 2
  BY <1>1
<1>3. /\ wait.at = "load" /\ UNCHANGED <<vars, settled, expired, rested>>
      /\ WaitTyped /\ SnapshotOK /\ StreakOK /\ RestOK /\ busy \in BOOLEAN /\ rest \in SUBSET Fields
  BY DEF Load, DrainInv, WaitTyped
<1>4. Counted' = Counted /\ \A t \in Tasks : CounterOf(t)' = CounterOf(t)
  BY <1>3 DEF Counted, CounterOf, PendingTasks, RunningTasks, RetryTasks, vars, taskVars
<1>5. ASSUME ~ busy, NEW t \in settled PROVE CounterOf(t) \in rest
  BY <1>3, <1>5, CounterOfWork DEF SnapshotOK
<1> HIDE DEF busy, rest
<1>6. wait' = [at |-> IF rest = {} THEN "check" ELSE "load", unread |-> rest, busy |-> busy,
               idleObserved |-> wait.idleObserved]
  BY <1>2, <1>3 DEF WaitTyped
<1>7. WaitTyped'
  <2>1. wait.idleObserved \in BOOLEAN
    BY <1>3 DEF WaitTyped
  <2>2. wait' \in [at : {"call", "load", "check", "sleep"} \cup Outcome,
                   unread : SUBSET Fields, busy : BOOLEAN, idleObserved : BOOLEAN]
    BY <1>3, <1>6, <2>1
  <2>3. streak' \in 0 .. 2
    BY <1>2, <1>3 DEF WaitTyped
  <2> QED
    BY <1>3, <2>2, <2>3 DEF WaitTyped
<1>8. SnapshotOK'
  BY <1>3, <1>4, <1>5, <1>6 DEF SnapshotOK, Counted
<1>9. StreakOK'
  BY <1>2, <1>3, <1>6 DEF WaitTyped, StreakOK
<1>10. RestOK'
  BY <1>3, <1>6 DEF WaitTyped, RestOK
<1> QED
  BY <1>7, <1>8, <1>9, <1>10 DEF DrainInv

LEMMA CheckKeeps ==
    ASSUME DrainInv, Check
    PROVE  DrainInv'
<1>1. /\ WaitTyped /\ StreakOK /\ RestOK /\ wait.at = "check"
      /\ UNCHANGED <<vars, expired, rested, streak>> /\ settled' = {}
  BY DEF DrainInv, Check
<1>2. \/ wait' = [wait EXCEPT !.at = "DeadlineExceeded"]
      \/ wait.busy /\ wait' = [wait EXCEPT !.at = "sleep", !.idleObserved = FALSE]
      \/ ~ expired /\ ~ wait.busy /\ wait.idleObserved /\ wait' = [wait EXCEPT !.at = "Idle"]
      \/ ~ wait.busy /\ wait' = [wait EXCEPT !.at = "sleep", !.idleObserved = TRUE]
  BY DEF Check
<1>3. WaitTyped'
  BY <1>1, <1>2 DEF WaitTyped, Outcome
<1>4. SnapshotOK'
  <2>1. wait'.at \in {"DeadlineExceeded", "sleep", "Idle"}
    BY <1>1, <1>2 DEF WaitTyped
  <2>2. settled' = {}
    BY <1>1
  <2> QED
    BY <2>1, <2>2 DEF SnapshotOK
<1>5. StreakOK'
  BY <1>1, <1>2 DEF WaitTyped, StreakOK
<1>6. RestOK'
  <2>1. wait'.at \in {"DeadlineExceeded", "sleep", "Idle"}
    BY <1>1, <1>2 DEF WaitTyped
  <2>2. ASSUME wait'.at = "Idle" PROVE wait.idleObserved /\ ~ expired
    BY <1>1, <1>2, <2>2 DEF WaitTyped
  <2>3. wait'.at = "Idle" => rested /\ ~ expired
    BY <1>1, <2>2 DEF RestOK
  <2> QED
    BY <1>1, <2>1, <2>3 DEF RestOK
<1> QED
  BY <1>3, <1>4, <1>5, <1>6 DEF DrainInv

\* The queue moves on: what has changed its counter is not settled any more.
LEMMA QueueStepKeeps ==
    ASSUME DrainInv, QueueStep
    PROVE  DrainInv'
<1>1. \A t \in settled' : t \in settled /\ CounterOf(t)' = CounterOf(t)
  BY DEF QueueStep
<1>2. UNCHANGED <<wait, expired, rested, streak>>
  BY DEF QueueStep
<1>3. SnapshotOK'
  BY <1>1, <1>2 DEF DrainInv, SnapshotOK, Counted
<1> QED
  BY <1>2, <1>3 DEF DrainInv, WaitTyped, StreakOK, RestOK

LEMMA SameView ==
    ASSUME DrainInv, UNCHANGED <<vars, wait, rested, settled, streak>>,
           UNCHANGED expired \/ (expired' = TRUE /\ Waiter)
    PROVE  DrainInv'
<1>1. Counted' = Counted /\ \A t \in Tasks : CounterOf(t)' = CounterOf(t)
  BY DEF Counted, CounterOf, PendingTasks, RunningTasks, RetryTasks, vars, taskVars
<1>2. expired' \in BOOLEAN /\ (UNCHANGED expired \/ (expired' /\ wait.at # "Idle"))
  BY DEF DrainInv, WaitTyped, Waiter, Outcome
<1>3. WaitTyped'
  BY <1>2 DEF DrainInv, WaitTyped
<1>4. SnapshotOK' /\ StreakOK'
  BY <1>1 DEF DrainInv, SnapshotOK, StreakOK, Counted
<1>5. RestOK'
  BY <1>2 DEF DrainInv, RestOK
<1> QED
  BY <1>3, <1>4, <1>5 DEF DrainInv

----------------------------------------------------------------------------
\* The inductive invariant of QueueDrain.
THEOREM DrainInvariant == DrainSafeSpec => []DrainInv
<1>1. DrainInv /\ CountersMatchWork /\ [DrainNext]_drainVars => DrainInv'
  <2> SUFFICES ASSUME DrainInv, CountersMatchWork, [DrainNext]_drainVars PROVE DrainInv'
    OBVIOUS
  <2>1. CASE UNCHANGED drainVars
    BY <2>1, SameView DEF drainVars, watchVars
  <2>2. CASE Load
    BY <2>2, LoadKeeps
  <2>3. CASE Call
    <3>1. rested' \in BOOLEAN
      BY <2>3 DEF Call, DrainInv, WaitTyped
    <3> QED
      BY <2>3, <3>1, BeginSnapshotKeeps DEF Call
  <2>7. CASE Poll
    <3>1. rested' \in BOOLEAN /\ (rested' \/ expired')
      BY <2>7 DEF Poll
    <3> QED
      BY <2>7, <3>1, BeginSnapshotKeeps DEF Poll
  <2>4. CASE Check
    BY <2>4, CheckKeeps
  <2>5. CASE Expire
    BY <2>5, SameView DEF Expire
  <2>6. CASE QueueStep
    BY <2>6, QueueStepKeeps
  <2> QED
    BY <2>1, <2>2, <2>3, <2>4, <2>5, <2>6, <2>7 DEF DrainNext, WaitStep
<1>2. DrainSafeSpec => []CountersMatchWork
  BY WatchingIsSilent, CountersExact, PTL
<1> QED
  BY <1>1, <1>2, DrainInitOK, PTL DEF DrainSafeSpec

\* The counters of Stats::snapshot (activity_queue.rs) are loaded one by one
\* while workers move between them; still an idle snapshot misses no task
\* that stayed where it was.
THEOREM SettledWorkSeen == DrainSafeSpec => []IdleSnapshotMissesNoSettledWork
<1>1. DrainInv => IdleSnapshotMissesNoSettledWork
  BY DEF DrainInv, SnapshotOK, IdleSnapshotMissesNoSettledWork
<1> QED
  BY <1>1, DrainInvariant, PTL

\* wait_for_activity_queue_idle (config.rs) returns Idle only before its
\* deadline and after two idle snapshots in a row, a polling interval apart,
\* however the queue moves meanwhile.
THEOREM IdleTakesTwo == DrainSafeSpec => []IdleIsConfirmed
<1>1. DrainInv => IdleIsConfirmed
  BY DEF DrainInv, StreakOK, RestOK, IdleIsConfirmed
<1> QED
  BY <1>1, DrainInvariant, PTL
=============================================================================
