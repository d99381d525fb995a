--------------------------- MODULE ActivityQueue ---------------------------
(***************************************************************************)
(* The outgoing activity queue (activity_queue.rs): an unbounded channel   *)
(* read by the dispatcher sender_task, which spawns a worker per message;  *)
(* a second unbounded channel read by retry_sender_task, which spawns a    *)
(* retry_worker per message that the first worker gave up on; five atomic  *)
(* counters that all of them update one at a time; and shutdown.           *)
(*                                                                         *)
(* The two dispatchers are the same loop, so both are written once over    *)
(* Pools: "send" is sender_task with its workers, "retry" is               *)
(* retry_sender_task with its retry workers.  The same holds of the        *)
(* function retry, which both kinds of worker run with a strategy of their *)
(* own.                                                                    *)
(*                                                                         *)
(* A step is what runs between two points where another tokio task or      *)
(* thread may be seen: one atomic counter operation, one channel           *)
(* operation, or one await.                                                *)
(***************************************************************************)
EXTENDS SendOutcome, SequencesExt, FiniteSets

CONSTANTS
    Tasks,          \* the SendActivityTasks handed to queue(), one call each
    WorkerCount,    \* worker_count; 0 is no limit
    RetryCount,     \* retry_count; 0 is no limit
    Backoff,        \* seconds; create_activity_queue passes 60
    Answers,        \* what a remote inbox may answer to an attempt
    MaxHours        \* bound: how often the hourly reset runs

ASSUME TasksAssumption   == IsFiniteSet(Tasks)
ASSUME CountsAssumption  == WorkerCount \in Nat /\ RetryCount \in Nat
ASSUME BackoffAssumption == Backoff \in Nat \ {0}
ASSUME AnswersAssumption == Answers \subseteq Int \cup {NoResponse}
ASSUME HoursAssumption   == MaxHours \in Nat

Pools == {"send", "retry"}

Limit(p) == IF p = "send" THEN WorkerCount ELSE RetryCount

VARIABLES
    channel,    \* the messages in each unbounded channel
    joinset,    \* the spawned futures each dispatcher has not joined yet
    phase,      \* where each dispatcher task is
    pc,         \* where each task is
    pool,       \* the dispatcher or worker kind it is with
    count,      \* the local variable count of function retry
    nap,        \* seconds of the sleep before the attempt
    attempts,   \* attempts made so far
    last,       \* answer to the last attempt
    stats,      \* struct Stats
    hourly,     \* the hourly reset task: resets begun, and whether one is half done
    handle      \* the owner of the ActivityQueue, from use to shutdown

taskVars  == <<pc, pool, count, nap, attempts, last>>
queueVars == <<channel, joinset, phase>>
vars == <<queueVars, taskVars, stats, hourly, handle>>

(***************************************************************************)
(* The places a task passes through.                                       *)
(*   new         not handed to queue() yet                                 *)
(*   counted     queue() has added it to pending, not sent it              *)
(*   queued      in the channel of its pool                                *)
(*   held        received by the dispatcher, which waits for a free slot   *)
(*   spawned     its worker is spawned and has done nothing yet            *)
(*   begun       worker has subtracted pending, not added running          *)
(*   sleep, try  in function retry: sleeping, or about to attempt          *)
(*   Ok, Err     retry returned; running or retries not subtracted yet     *)
(*   settleOk, settleErr  subtracted; the next counter not added yet       *)
(*   handoff     worker has added retries, not sent to the retry channel   *)
(*   completed, dead      final                                            *)
(*   lost        the retry channel was closed when the worker sent to it   *)
(***************************************************************************)
Waiting  == {"counted", "queued", "held", "spawned"}
Retrying == {"sleep", "try", "Ok", "Err"}
Final    == {"completed", "dead", "lost"}
Places   == {"new", "begun", "settleOk", "settleErr", "handoff"}
                \cup Waiting \cup Retrying \cup Final

\* The worker future of t exists and has not finished.  It is built when the
\* message is received, before the dispatcher waits for a slot.
FutureAlive(p, t) ==
    /\ pool[t] = p
    /\ pc[t] \notin {"new", "counted", "queued"} \cup Final

\* A spawned future has run to its end: a worker also by passing the task on.
FutureDone(p, t) ==
    \/ pool[t] # p
    \/ pc[t] \in Final

Held(p) == {t \in Tasks : pool[t] = p /\ pc[t] = "held"}

\* Slips in the two strategies: one retry too many on the retry path, and a
\* retry path that starts its count from zero.
StrategyExtraRetry(p) ==
    IF p = "send" THEN [retries |-> 1, offset |-> 0, initialSleep |-> 0]
                  ELSE [retries |-> 4, offset |-> 2, initialSleep |-> Backoff^2]

StrategyNoOffset(p) ==
    IF p = "send" THEN [retries |-> 1, offset |-> 0, initialSleep |-> 0]
                  ELSE [retries |-> 3, offset |-> 0, initialSleep |-> Backoff^2]

(***************************************************************************)
(* struct RetryStrategy.  The retry path starts counting at 2 and sleeps   *)
(* before its first attempt, so that together the two strategies attempt   *)
(* at 0, Backoff, Backoff^2 and Backoff^3.                                 *)
(***************************************************************************)
Strategy(p) ==
    IF p = "send" THEN [retries |-> 1, offset |-> 0, initialSleep |-> 0]
                  ELSE [retries |-> 3, offset |-> 2, initialSleep |-> Backoff^2]

\* The fields of struct Stats, all AtomicUsize.
Counters == {"pending", "running", "retries", "completed", "dead"}

\* fetch_add and fetch_sub.  The counters are usize: a negative value here is
\* a counter that has wrapped around.
Add(counter, n) == stats' = [stats EXCEPT ![counter] = @ + n]

GoTo(t, place) == pc' = [pc EXCEPT ![t] = place]

Init ==
    /\ channel  = [p \in Pools |-> <<>>]
    /\ joinset  = [p \in Pools |-> {}]
    /\ phase    = [p \in Pools |-> "recv"]
    /\ pc       = [t \in Tasks |-> "new"]
    /\ pool     = [t \in Tasks |-> "send"]
    /\ count    = [t \in Tasks |-> 0]
    /\ nap      = [t \in Tasks |-> 0]
    /\ attempts = [t \in Tasks |-> 0]
    /\ last     = [t \in Tasks |-> NoResponse]
    /\ stats    = [c \in Counters |-> 0]
    /\ hourly   = [begun |-> 0, half |-> FALSE]
    /\ handle   = [at |-> "open", wait |-> FALSE]

----------------------------------------------------------------------------
(* ActivityQueue::queue.  Borrowing the queue keeps it from being shut down *)
(* until the call returns.                                                 *)

\* pending is added before the message is sent.
Count(t) ==
    /\ pc[t] = "new"
    /\ handle.at = "open"
    /\ Add("pending", 1)
    /\ GoTo(t, "counted")
    /\ UNCHANGED <<queueVars, pool, count, nap, attempts, last, hourly, handle>>

\* If the receiver is gone the caller gets an ActivityQueueError, and pending
\* is not taken back.
Send(t) ==
    /\ pc[t] = "counted"
    /\ IF phase["send"] # "done"
       THEN /\ channel' = [channel EXCEPT !["send"] = Append(@, t)]
            /\ GoTo(t, "queued")
       ELSE /\ GoTo(t, "lost")
            /\ UNCHANGED channel
    /\ UNCHANGED <<joinset, phase, pool, count, nap, attempts, last, stats,
                   hourly, handle>>

----------------------------------------------------------------------------
(* The dispatchers sender_task and retry_sender_task.                      *)

\* Slip: the message is looked at and stays in the channel.
RecvPeeks(p) ==
    /\ phase[p] = "recv"
    /\ Held(p) = {}
    /\ channel[p] # <<>>
    /\ GoTo(Head(channel[p]), "held")
    /\ UNCHANGED <<queueVars, pool, count, nap, attempts, last, stats, hourly,
                   handle>>

\* The message leaves the channel, and its worker future is built with a
\* clone of retry_sender.
Recv(p) ==
    /\ phase[p] = "recv"
    /\ Held(p) = {}
    /\ channel[p] # <<>>
    /\ GoTo(Head(channel[p]), "held")
    /\ channel' = [channel EXCEPT ![p] = Tail(@)]
    /\ UNCHANGED <<joinset, phase, pool, count, nap, attempts, last, stats,
                   hourly, handle>>

\* Slip: waits while the join set is over the limit, not at it.
SlotFreeAtLimit(p) == Limit(p) = 0 \/ Cardinality(joinset[p]) <= Limit(p)

SlotFree(p) == Limit(p) = 0 \/ Cardinality(joinset[p]) < Limit(p)

\* Slip: finished workers are joined only once the channel is closed.
JoinNextOnlyInDrain(p) ==
    /\ phase[p] = "drain"
    /\ \E t \in joinset[p] :
          /\ FutureDone(p, t)
          /\ joinset' = [joinset EXCEPT ![p] = @ \ {t}]
    /\ UNCHANGED <<channel, phase, taskVars, stats, hourly, handle>>

\* join_next, awaited while every slot is taken and again after the channel
\* is closed.
JoinNext(p) ==
    /\ \/ Held(p) # {} /\ ~ SlotFree(p)
       \/ phase[p] = "drain"
    /\ \E t \in joinset[p] :
          /\ FutureDone(p, t)
          /\ joinset' = [joinset EXCEPT ![p] = @ \ {t}]
    /\ UNCHANGED <<channel, phase, taskVars, stats, hourly, handle>>

\* Without a limit the future is spawned on its own and never joined.
Spawn(p) ==
    /\ SlotFree(p)
    /\ \E t \in Held(p) :
          /\ GoTo(t, "spawned")
          /\ joinset' = IF Limit(p) > 0
                        THEN [joinset EXCEPT ![p] = @ \cup {t}]
                        ELSE joinset
    /\ UNCHANGED <<channel, phase, pool, count, nap, attempts, last, stats,
                   hourly, handle>>

\* Slips: the clones in the workers do not keep the retry channel open; and
\* sender_task never drops the sender it holds itself.
SendersDroppedNoClones(p) ==
    IF p = "send" THEN handle.at # "open" ELSE phase["send"] # "recv"

SendersDroppedNotByTask(p) == p = "send" /\ handle.at # "open"

\* Every sender of the channel is dropped.  The retry channel has one in
\* sender_task, dropped when its loop ends, and a clone in each worker.
SendersDropped(p) ==
    IF p = "send" THEN handle.at # "open"
    ELSE /\ phase["send"] # "recv"
         /\ \A t \in Tasks : ~ FutureAlive("send", t)

\* recv returns None.
Close(p) ==
    /\ phase[p] = "recv"
    /\ Held(p) = {}
    /\ channel[p] = <<>>
    /\ SendersDropped(p)
    /\ phase' = [phase EXCEPT ![p] = "drain"]
    /\ UNCHANGED <<channel, joinset, taskVars, stats, hourly, handle>>

\* Slip: the dispatcher ends without waiting for its join set.
EndWithoutJoin(p) ==
    /\ phase[p] = "drain"
    /\ phase' = [phase EXCEPT ![p] = "done"]
    /\ UNCHANGED <<channel, joinset, taskVars, stats, hourly, handle>>

\* The join set is empty: the dispatcher task ends and drops its receiver.
End(p) ==
    /\ phase[p] = "drain"
    /\ joinset[p] = {}
    /\ phase' = [phase EXCEPT ![p] = "done"]
    /\ UNCHANGED <<channel, joinset, taskVars, stats, hourly, handle>>

----------------------------------------------------------------------------
(* The workers.  worker and retry_worker both wrap function retry.         *)

Unpend(t) ==
    /\ pool[t] = "send"
    /\ pc[t] = "spawned"
    /\ Add("pending", -1)
    /\ GoTo(t, "begun")
    /\ UNCHANGED <<queueVars, pool, count, nap, attempts, last, hourly, handle>>

\* Function retry up to its loop, as the worker of pool p calls it.
EnterRetry(t) ==
    LET s == Strategy(pool[t])
    IN  /\ count' = [count EXCEPT ![t] = s.offset]
        /\ nap' = [nap EXCEPT ![t] = s.initialSleep]
        /\ GoTo(t, IF s.initialSleep > 0 THEN "sleep" ELSE "try")

StartWorker(t) ==
    /\ pc[t] = "begun"
    /\ Add("running", 1)
    /\ EnterRetry(t)
    /\ UNCHANGED <<queueVars, pool, attempts, last, hourly, handle>>

StartRetryWorker(t) ==
    /\ pool[t] = "retry"
    /\ pc[t] = "spawned"
    /\ EnterRetry(t)
    /\ UNCHANGED <<queueVars, pool, attempts, last, stats, hourly, handle>>

Wake(t) ==
    /\ pc[t] = "sleep"
    /\ GoTo(t, "try")
    /\ UNCHANGED <<queueVars, pool, count, nap, attempts, last, stats, hourly,
                   handle>>

\* Slip: one turn of the loop too many.
AttemptOnceMore(t) ==
    /\ pc[t] = "try"
    /\ attempts' = [attempts EXCEPT ![t] = @ + 1]
    /\ \E a \in Answers :
          /\ last' = [last EXCEPT ![t] = a]
          /\ IF SignAndSend(a) = "Ok"
             THEN GoTo(t, "Ok") /\ UNCHANGED <<count, nap>>
             ELSE IF count[t] <= Strategy(pool[t]).retries
             THEN /\ count' = [count EXCEPT ![t] = @ + 1]
                  /\ nap' = [nap EXCEPT ![t] = Backoff^(count[t] + 1)]
                  /\ GoTo(t, "sleep")
             ELSE GoTo(t, "Err") /\ UNCHANGED <<count, nap>>
    /\ UNCHANGED <<queueVars, pool, stats, hourly, handle>>

\* One turn of the loop: sign_and_send_internal, and what is done with its
\* result.  Every attempt signs the request anew.
Attempt(t) ==
    /\ pc[t] = "try"
    /\ attempts' = [attempts EXCEPT ![t] = @ + 1]
    /\ \E a \in Answers :
          /\ last' = [last EXCEPT ![t] = a]
          /\ IF SignAndSend(a) = "Ok"
             THEN GoTo(t, "Ok") /\ UNCHANGED <<count, nap>>
             ELSE IF count[t] < Strategy(pool[t]).retries
             THEN /\ count' = [count EXCEPT ![t] = @ + 1]
                  /\ nap' = [nap EXCEPT ![t] = Backoff^(count[t] + 1)]
                  /\ GoTo(t, "sleep")
             ELSE GoTo(t, "Err") /\ UNCHANGED <<count, nap>>
    /\ UNCHANGED <<queueVars, pool, stats, hourly, handle>>

\* Slip: the retry worker leaves the counter of the first worker.
LeaveRunning(t) ==
    /\ pc[t] \in {"Ok", "Err"}
    /\ Add("running", -1)
    /\ GoTo(t, IF pc[t] = "Ok" THEN "settleOk" ELSE "settleErr")
    /\ UNCHANGED <<queueVars, pool, count, nap, attempts, last, hourly, handle>>

\* The counter the worker is accounted under is subtracted first ...
Leave(t) ==
    /\ pc[t] \in {"Ok", "Err"}
    /\ Add(IF pool[t] = "send" THEN "running" ELSE "retries", -1)
    /\ GoTo(t, IF pc[t] = "Ok" THEN "settleOk" ELSE "settleErr")
    /\ UNCHANGED <<queueVars, pool, count, nap, attempts, last, hourly, handle>>

\* Slip: the first worker counts a task it passes on as given up.
SettleDeadEarly(t) ==
    /\ \/ pc[t] = "settleOk" /\ Add("completed", 1) /\ GoTo(t, "completed")
       \/ pc[t] = "settleErr" /\ pool[t] = "retry" /\ Add("dead", 1) /\ GoTo(t, "dead")
       \/ /\ pc[t] = "settleErr" /\ pool[t] = "send"
          /\ stats' = [stats EXCEPT !["retries"] = @ + 1, !["dead"] = @ + 1]
          /\ GoTo(t, "handoff")
    /\ UNCHANGED <<queueVars, pool, count, nap, attempts, last, hourly, handle>>

\* ... and the one for the outcome added afterwards.
Settle(t) ==
    /\ \/ pc[t] = "settleOk" /\ Add("completed", 1) /\ GoTo(t, "completed")
       \/ pc[t] = "settleErr" /\ pool[t] = "retry" /\ Add("dead", 1) /\ GoTo(t, "dead")
       \/ pc[t] = "settleErr" /\ pool[t] = "send" /\ Add("retries", 1) /\ GoTo(t, "handoff")
    /\ UNCHANGED <<queueVars, pool, count, nap, attempts, last, hourly, handle>>

\* retry_queue.send(message).ok(): the task is dropped if the receiver is gone.
HandOff(t) ==
    /\ pc[t] = "handoff"
    /\ IF phase["retry"] # "done"
       THEN /\ channel' = [channel EXCEPT !["retry"] = Append(@, t)]
            /\ pool' = [pool EXCEPT ![t] = "retry"]
            /\ GoTo(t, "queued")
       ELSE /\ GoTo(t, "lost")
            /\ UNCHANGED <<channel, pool>>
    /\ UNCHANGED <<joinset, phase, count, nap, attempts, last, stats, hourly,
                   handle>>

----------------------------------------------------------------------------
(* The hourly reset: two stores, one after the other.                      *)

ResetCompleted ==
    /\ ~ hourly.half
    /\ hourly.begun < MaxHours
    /\ hourly' = [begun |-> hourly.begun + 1, half |-> TRUE]
    /\ stats' = [stats EXCEPT !["completed"] = 0]
    /\ UNCHANGED <<queueVars, taskVars, handle>>

ResetDead ==
    /\ hourly.half
    /\ hourly' = [hourly EXCEPT !.half = FALSE]
    /\ stats' = [stats EXCEPT !["dead"] = 0]
    /\ UNCHANGED <<queueVars, taskVars, handle>>

----------------------------------------------------------------------------
(* ActivityQueue::shutdown takes the queue by value, so no call of queue is *)
(* under way.  Dropping the last FederationConfig closes the channel in the *)
(* same way, with nobody waiting.                                          *)

Shutdown(wait) ==
    /\ handle.at = "open"
    /\ \A t \in Tasks : pc[t] # "counted"
    /\ handle' = [at |-> "awaitSend", wait |-> wait]
    /\ UNCHANGED <<queueVars, taskVars, stats, hourly>>

AwaitSender ==
    /\ handle.at = "awaitSend"
    /\ phase["send"] = "done"
    /\ handle' = [handle EXCEPT !.at = IF handle.wait THEN "awaitRetry" ELSE "returned"]
    /\ UNCHANGED <<queueVars, taskVars, stats, hourly>>

AwaitRetrySender ==
    /\ handle.at = "awaitRetry"
    /\ phase["retry"] = "done"
    /\ handle' = [handle EXCEPT !.at = "returned"]
    /\ UNCHANGED <<queueVars, taskVars, stats, hourly>>

----------------------------------------------------------------------------
Dispatch(p) == Recv(p) \/ JoinNext(p) \/ Spawn(p) \/ Close(p) \/ End(p)

Work(t) == \/ Unpend(t) \/ StartWorker(t) \/ StartRetryWorker(t)
           \/ Wake(t) \/ Attempt(t) \/ Leave(t) \/ Settle(t) \/ HandOff(t)

Await == AwaitSender \/ AwaitRetrySender

Next ==
    \/ \E t \in Tasks : Count(t) \/ Send(t) \/ Work(t)
    \/ \E p \in Pools : Dispatch(p)
    \/ ResetCompleted \/ ResetDead
    \/ \E wait \in BOOLEAN : Shutdown(wait)
    \/ Await

SafeSpec == Init /\ [][Next]_vars

(***************************************************************************)
(* Tokio polls every task that is ready, an attempt ends with an answer or *)
(* the request timeout, and a sleep ends: so no step of a started task,    *)
(* dispatcher or awaiting shutdown is put off for ever.  Nothing obliges a *)
(* caller to queue or to shut down, or an inbox to accept.                 *)
(***************************************************************************)
Fairness ==
    /\ \A t \in Tasks : WF_vars(Send(t)) /\ WF_vars(Work(t))
    /\ \A p \in Pools : WF_vars(Dispatch(p))
    /\ WF_vars(Await)

Spec == SafeSpec /\ Fairness

----------------------------------------------------------------------------
(* Safety.                                                                 *)

\* Seconds from the n-th attempt to the next.
Interval(n) == IF n = 0 THEN 0 ELSE Backoff^n

Intervals == {Interval(n) : n \in 0 .. 3}

TypeOK ==
    /\ channel \in [Pools -> Seq(Tasks)]
    /\ joinset \in [Pools -> SUBSET Tasks]
    /\ phase \in [Pools -> {"recv", "drain", "done"}]
    /\ pc \in [Tasks -> Places]
    /\ pool \in [Tasks -> Pools]
    /\ count \in [Tasks -> 0 .. 3]
    /\ nap \in [Tasks -> Intervals]
    /\ attempts \in [Tasks -> Nat]
    /\ last \in [Tasks -> Answers \cup {NoResponse}]
    /\ stats \in [Counters -> Int]
    /\ hourly \in [begun : 0 .. MaxHours, half : BOOLEAN]
    /\ handle \in [at : {"open", "awaitSend", "awaitRetry", "returned"},
                   wait : BOOLEAN]

\* The tasks each counter stands for.
PendingTasks == {t \in Tasks : pool[t] = "send" /\ pc[t] \in Waiting}
RunningTasks == {t \in Tasks : pool[t] = "send" /\ pc[t] \in Retrying}
RetryTasks   == {t \in Tasks : \/ pc[t] = "handoff"
                               \/ pool[t] = "retry" /\ pc[t] \in (Waiting \cup Retrying)}

\* The three work counters are exact whatever the interleaving: each is the
\* number of tasks at the places it stands for, so none ever wraps below zero
\* and none keeps a task that has moved on (worker, retry_worker, queue).
CountersMatchWork ==
    /\ stats["pending"] = Cardinality(PendingTasks)
    /\ stats["running"] = Cardinality(RunningTasks)
    /\ stats["retries"] = Cardinality(RetryTasks)

\* The hourly counters never claim an outcome that has not happened, and
\* until the first reset they miss none, though workers add to them between
\* the two stores of the reset task and a given-up task passes two workers.
OutcomesNotOvercounted ==
    /\ stats["completed"] \in 0 .. Cardinality({t \in Tasks : pc[t] = "completed"})
    /\ stats["dead"] \in 0 .. Cardinality({t \in Tasks : pc[t] = "dead"})
    /\ hourly.begun = 0 =>
          /\ stats["completed"] = Cardinality({t \in Tasks : pc[t] = "completed"})
          /\ stats["dead"] = Cardinality({t \in Tasks : pc[t] = "dead"})

\* queue_worker_count and queue_retry_count bound what is in flight
\* (config.rs:139-147), though the join sets also hold futures that have
\* finished and the dispatcher holds a message while it waits.
InFlight(p) == {t \in Tasks : FutureAlive(p, t) /\ pc[t] # "held"}

InFlightBounded ==
    \A p \in Pools : Limit(p) > 0 => Cardinality(InFlight(p)) <= Limit(p)

\* A message exists once: in a channel exactly while its task is queued
\* there, never twice, and at most one in the hands of each dispatcher.
MessagesNotDuplicated ==
    \A p \in Pools :
        /\ IsInjective(channel[p])
        /\ ToSet(channel[p]) = {t \in Tasks : pool[t] = p /\ pc[t] = "queued"}
        /\ \A t, u \in Held(p) : t = u

\* No task is dropped between the two dispatchers: the retry channel stays
\* open as long as a worker may still send to it, and a message in a channel
\* has a dispatcher that still receives, so the errors that queue returns and
\* worker ignores never happen.
NothingLost ==
    \A t \in Tasks :
        /\ pc[t] # "lost"
        /\ pc[t] = "handoff" => phase["retry"] = "recv"
        /\ pc[t] \in {"counted", "queued", "held"} => phase[pool[t]] = "recv"

\* The intervals of docs/09_sending_activities.md hold across the two
\* workers and their separate strategies: the first attempt at once, the
\* retries after one, two and three powers of the backoff, and none after.
AttemptSchedule ==
    \A t \in Tasks :
        /\ attempts[t] <= 4
        /\ pc[t] \in {"sleep", "try"} => nap[t] = Interval(attempts[t])
        /\ pc[t] = "dead" => attempts[t] = 4

\* A task is completed on an answer that ends the matter, and only then; it
\* is handed to the retry worker or given up only on one that does not, such
\* as a redirect, a throttling response or no response at all.
VerdictFollowsAnswer ==
    \A t \in Tasks :
        /\ pc[t] = "completed" =>
              last[t] # NoResponse /\ ClassifyResponse(last[t]) \in {"Delivered", "Terminal"}
        /\ (pc[t] = "dead" \/ (pool[t] = "retry" /\ pc[t] \in Waiting)) =>
              \/ last[t] = NoResponse
              \/ ClassifyResponse(last[t]) \in {"Redirect", "Retryable"}

\* What shutdown(wait) leaves behind once it returns, when the limits are
\* set: with workers joined nothing is left on the send side, and with the
\* retries awaited nothing is left at all and every counter of work is zero.
ShutdownDrains ==
    handle.at = "returned" =>
        /\ WorkerCount > 0 =>
              \A t \in Tasks : pool[t] = "send" => pc[t] \in {"new"} \cup Final
        /\ handle.wait =>
              \A t \in Tasks : pool[t] = "send" => pc[t] \in {"new"} \cup Final
        /\ handle.wait /\ RetryCount > 0 =>
              /\ \A t \in Tasks : pc[t] \in {"new"} \cup Final
              /\ stats["pending"] = 0 /\ stats["running"] = 0 /\ stats["retries"] = 0

----------------------------------------------------------------------------
(* The abstract specification, and liveness.                               *)

Promise == INSTANCE Delivery WITH
    MaxAttempts <- 4,
    attempts    <- attempts,
    answered    <- [t \in Tasks |-> attempts[t] > 0 /\ SignAndSend(last[t]) = "Ok"],
    status      <- [t \in Tasks |->
                      CASE pc[t] \in {"new", "counted"} -> "new"
                        [] pc[t] \in Final              -> pc[t]
                        [] OTHER                        -> "accepted"]

\* Through channels, workers, limits and shutdown, each task is accepted
\* once, attempted only while no attempt was answered and at most four times,
\* and completed or given up accordingly, for good.
KeepsPromise == Promise!SafeSpec

\* The abstract liveness: a task that was accepted is attempted, and settled.
PromiseFulfilled == Promise!Spec

\* shutdown returns: closing the first channel closes the second in turn.
ShutdownReturns == handle.at = "awaitSend" ~> handle.at = "returned"
=============================================================================
