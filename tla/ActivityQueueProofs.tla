------------------------ MODULE ActivityQueueProofs ------------------------
(***************************************************************************)
(* Proofs about ActivityQueue, for every set of tasks, every worker and    *)
(* retry limit, backoff and set of answers: the types; what becomes of a   *)
(* task; that nothing is lost between the two dispatchers, the limits      *)
(* bound what is in flight, the counters match the work and shutdown       *)
(* drains; and that the queue keeps the promise of Delivery.               *)
(***************************************************************************)
EXTENDS ActivityQueue, FiniteSetTheorems, SequenceTheorems, TLAPS

----------------------------------------------------------------------------
(* Type correctness.                                                       *)

LEMMA TypeInit == Init => TypeOK
BY HoursAssumption DEF Init, TypeOK, Intervals, Interval, Pools, Places, Waiting, Retrying, Final, Counters

LEMMA TypeStep == TypeOK /\ [Next]_vars => TypeOK'
<1> SUFFICES ASSUME TypeOK, [Next]_vars
             PROVE  TypeOK'
  OBVIOUS
<1>u. CASE UNCHANGED vars
  BY <1>u DEF TypeOK, vars, queueVars, taskVars
<1>1. ASSUME NEW t \in Tasks, Count(t) PROVE TypeOK'
  BY <1>1 DEF TypeOK, Count, Add, GoTo, queueVars, Places, Waiting, Counters
<1>2. ASSUME NEW t \in Tasks, Send(t) PROVE TypeOK'
  <2>1. \/ /\ channel' = [channel EXCEPT !["send"] = Append(@, t)]
           /\ pc' = [pc EXCEPT ![t] = "queued"]
        \/ /\ channel' = channel
           /\ pc' = [pc EXCEPT ![t] = "lost"]
    BY <1>2 DEF Send, GoTo
  <2>2. {"queued", "lost"} \subseteq Places
    BY DEF Places, Waiting, Final
  <2>3. pc' \in [Tasks -> Places]
    BY <2>1, <2>2 DEF TypeOK
  <2>4. channel' \in [Pools -> Seq(Tasks)]
    <3>1. channel["send"] \in Seq(Tasks)
      BY DEF TypeOK, Pools
    <3>2. Append(channel["send"], t) \in Seq(Tasks)
      BY <3>1
    <3> QED
      BY <2>1, <3>2 DEF TypeOK
  <2> QED
    BY <1>2, <2>3, <2>4 DEF Send, TypeOK
<1>3. ASSUME NEW t \in Tasks, Unpend(t) PROVE TypeOK'
  BY <1>3 DEF TypeOK, Unpend, Add, GoTo, queueVars, Places, Counters
<1>4. ASSUME NEW t \in Tasks, StartWorker(t) PROVE TypeOK'
  BY <1>4 DEF TypeOK, StartWorker, EnterRetry, Strategy, Intervals, Interval, Add, GoTo, queueVars, Places, Retrying, Counters, Pools
<1>5. ASSUME NEW t \in Tasks, StartRetryWorker(t) PROVE TypeOK'
  BY <1>5 DEF TypeOK, StartRetryWorker, EnterRetry, Strategy, Intervals, Interval, GoTo, queueVars, Places, Retrying, Pools
<1>6. ASSUME NEW t \in Tasks, Wake(t) PROVE TypeOK'
  BY <1>6 DEF TypeOK, Wake, GoTo, queueVars, Places, Retrying
<1>7. ASSUME NEW t \in Tasks, Attempt(t) PROVE TypeOK'
  <2> DEFINE s == Strategy(pool[t])
  <2>1. s.retries \in 0 .. 3
    BY DEF Strategy
  <2>2. PICK a \in Answers :
           /\ last' = [last EXCEPT ![t] = a]
           /\ \/ GoTo(t, "Ok") /\ UNCHANGED <<count, nap>>
              \/ /\ count[t] < s.retries
                 /\ count' = [count EXCEPT ![t] = @ + 1]
                 /\ nap' = [nap EXCEPT ![t] = Backoff^(count[t] + 1)]
                 /\ GoTo(t, "sleep")
              \/ GoTo(t, "Err") /\ UNCHANGED <<count, nap>>
    BY <1>7 DEF Attempt
  <2>3. {"Ok", "Err", "sleep"} \subseteq Places
    BY DEF Places, Retrying
  <2>4. pc' \in [Tasks -> Places]
    BY <2>2, <2>3 DEF GoTo, TypeOK
  <2>5. count' \in [Tasks -> 0 .. 3] /\ nap' \in [Tasks -> Intervals]
    <3>1. count \in [Tasks -> 0 .. 3] /\ nap \in [Tasks -> Intervals]
      BY DEF TypeOK
    <3>2. CASE UNCHANGED <<count, nap>>
      BY <3>1, <3>2
    <3>3. CASE ~ UNCHANGED <<count, nap>>
      <4>1. count[t] \in 0 .. 3 /\ count[t] + 1 \in 1 .. 3
        BY <2>1, <2>2, <3>1, <3>3
      <4>2. Backoff^(count[t] + 1) \in Intervals
        BY <4>1 DEF Intervals, Interval
      <4>3. count' = [count EXCEPT ![t] = @ + 1]
        BY <2>2, <3>3
      <4>4. nap' = [nap EXCEPT ![t] = Backoff^(count[t] + 1)]
        BY <2>2, <3>3
      <4> QED
        BY <3>1, <4>1, <4>2, <4>3, <4>4
    <3> QED
      BY <3>2, <3>3
  <2>6. last' \in [Tasks -> Answers \cup {NoResponse}] /\ attempts' \in [Tasks -> Nat]
    BY <1>7, <2>2 DEF Attempt, TypeOK
  <2> QED
    BY <1>7, <2>4, <2>5, <2>6 DEF Attempt, queueVars, TypeOK
<1>8. ASSUME NEW t \in Tasks, Leave(t) PROVE TypeOK'
  BY <1>8 DEF TypeOK, Leave, Add, GoTo, queueVars, Places, Counters
<1>9. ASSUME NEW t \in Tasks, Settle(t) PROVE TypeOK'
  <2>1. {"completed", "dead", "handoff"} \subseteq Places
    BY DEF Places, Final
  <2>2. pc' \in [Tasks -> Places]
    BY <1>9, <2>1 DEF Settle, GoTo, TypeOK
  <2>3. stats' \in [Counters -> Int]
    BY <1>9 DEF Settle, Add, Counters, TypeOK
  <2> QED
    BY <1>9, <2>2, <2>3 DEF Settle, queueVars, TypeOK
<1>10. ASSUME NEW t \in Tasks, HandOff(t) PROVE TypeOK'
  <2>1. \/ /\ channel' = [channel EXCEPT !["retry"] = Append(@, t)]
           /\ pool' = [pool EXCEPT ![t] = "retry"]
           /\ pc' = [pc EXCEPT ![t] = "queued"]
        \/ /\ channel' = channel /\ pool' = pool
           /\ pc' = [pc EXCEPT ![t] = "lost"]
    BY <1>10 DEF HandOff, GoTo
  <2>2. {"queued", "lost"} \subseteq Places
    BY DEF Places, Waiting, Final
  <2>3. pc' \in [Tasks -> Places] /\ pool' \in [Tasks -> Pools]
    <3>1. pc \in [Tasks -> Places] /\ pool \in [Tasks -> Pools]
      BY DEF TypeOK
    <3> QED
      BY <2>1, <2>2, <3>1 DEF Pools
  <2>4. channel' \in [Pools -> Seq(Tasks)]
    <3>1. channel["retry"] \in Seq(Tasks)
      BY DEF TypeOK, Pools
    <3>2. Append(channel["retry"], t) \in Seq(Tasks)
      BY <3>1
    <3> QED
      BY <2>1, <3>2 DEF TypeOK
  <2> QED
    BY <1>10, <2>3, <2>4 DEF HandOff, TypeOK
<1>11. ASSUME NEW p \in Pools, Recv(p) PROVE TypeOK'
  BY <1>11 DEF TypeOK, Recv, GoTo, Places, Waiting
<1>12. ASSUME NEW p \in Pools, JoinNext(p) PROVE TypeOK'
  BY <1>12 DEF TypeOK, JoinNext, taskVars
<1>13. ASSUME NEW p \in Pools, Spawn(p) PROVE TypeOK'
  BY <1>13 DEF TypeOK, Spawn, Held, GoTo, Places, Waiting
<1>14. ASSUME NEW p \in Pools, Close(p) PROVE TypeOK'
  BY <1>14 DEF TypeOK, Close, taskVars
<1>15. ASSUME NEW p \in Pools, End(p) PROVE TypeOK'
  BY <1>15 DEF TypeOK, End, taskVars
<1>16. CASE ResetCompleted
  BY <1>16, HoursAssumption DEF TypeOK, ResetCompleted, queueVars, taskVars, Counters
<1>17. CASE ResetDead
  <2>1. hourly' \in [begun : 0 .. MaxHours, half : BOOLEAN]
    BY <1>17 DEF ResetDead, TypeOK
  <2>2. stats' \in [Counters -> Int]
    BY <1>17 DEF ResetDead, Counters, TypeOK
  <2> QED
    BY <1>17, <2>1, <2>2 DEF ResetDead, queueVars, taskVars, TypeOK
<1>18. ASSUME NEW wait \in BOOLEAN, Shutdown(wait) PROVE TypeOK'
  BY <1>18 DEF TypeOK, Shutdown, queueVars, taskVars
<1>19. CASE Await
  BY <1>19 DEF TypeOK, Await, AwaitSender, AwaitRetrySender, queueVars, taskVars
<1> QED
  BY <1>u, <1>1, <1>2, <1>3, <1>4, <1>5, <1>6, <1>7, <1>8, <1>9, <1>10, <1>11,
     <1>12, <1>13, <1>14, <1>15, <1>16, <1>17, <1>18, <1>19
     DEF Next, Work, Dispatch

\* Every variable keeps its type: no place, count or interval is reached that
\* the code of the queue does not name.
THEOREM TypeCorrect == SafeSpec => []TypeOK
BY TypeInit, TypeStep, PTL DEF SafeSpec

----------------------------------------------------------------------------
(* Messages.  The content of a channel is the set of the tasks queued at   *)
(* its pool, each of them once.                                            *)

LEMMA AppendFacts ==
    ASSUME NEW s \in Seq(Tasks), NEW t \in Tasks
    PROVE  /\ ToSet(Append(s, t)) = ToSet(s) \cup {t}
           /\ IsInjective(s) /\ t \notin ToSet(s) => IsInjective(Append(s, t))
<1> DEFINE n == Len(s)
           a == Append(s, t)
<1>1. DOMAIN s = 1 .. n /\ n \in Nat
  OBVIOUS
<1>2. /\ DOMAIN a = 1 .. (n + 1)
      /\ a[n + 1] = t
      /\ \A i \in 1 .. n : a[i] = s[i]
  OBVIOUS
<1> HIDE DEF a, n
<1>3. ToSet(a) = ToSet(s) \cup {t}
  <2>1. \A i \in 1 .. (n + 1) : i \in 1 .. n \/ i = n + 1
    BY <1>1
  <2>2. \A i \in 1 .. n : i \in 1 .. (n + 1)
    BY <1>1
  <2>3. n + 1 \in 1 .. (n + 1)
    BY <1>1
  <2> QED
    BY <1>1, <1>2, <2>1, <2>2, <2>3 DEF ToSet
<1>4. ASSUME IsInjective(s), t \notin ToSet(s) PROVE IsInjective(a)
  <2>1. \A i \in 1 .. n : s[i] # t
    BY <1>1, <1>4 DEF ToSet
  <2> QED
    BY <1>1, <1>2, <1>4, <2>1 DEF IsInjective
<1> QED
  BY <1>3, <1>4 DEF a

LEMMA TailFacts ==
    ASSUME NEW s \in Seq(Tasks), s # <<>>
    PROVE  /\ Head(s) \in ToSet(s)
           /\ IsInjective(s) => /\ IsInjective(Tail(s))
                               /\ ToSet(Tail(s)) = ToSet(s) \ {Head(s)}
<1> DEFINE n == Len(s)
           r == Tail(s)
<1>1. DOMAIN s = 1 .. n /\ n \in Nat \ {0} /\ Head(s) = s[1]
  OBVIOUS
<1>2. /\ DOMAIN r = 1 .. (n - 1)
      /\ \A i \in 1 .. (n - 1) : r[i] = s[i + 1]
  OBVIOUS
<1> HIDE DEF r, n
<1>3. Head(s) \in ToSet(s)
  BY <1>1 DEF ToSet
<1>4. ASSUME IsInjective(s) PROVE IsInjective(r)
  <2> SUFFICES ASSUME NEW i \in 1 .. (n - 1), NEW j \in 1 .. (n - 1), r[i] = r[j]
               PROVE  i = j
    BY <1>2 DEF IsInjective
  <2>1. i + 1 \in 1 .. n /\ j + 1 \in 1 .. n /\ s[i + 1] = s[j + 1]
    BY <1>1, <1>2
  <2>2. i + 1 = j + 1
    BY <1>1, <1>4, <2>1 DEF IsInjective
  <2> QED
    BY <2>2, <1>1
<1>5. ASSUME IsInjective(s) PROVE ToSet(r) = ToSet(s) \ {Head(s)}
  <2>1. ASSUME NEW x \in ToSet(r) PROVE x \in ToSet(s) \ {Head(s)}
    <3>1. PICK i \in 1 .. (n - 1) : x = s[i + 1]
      BY <1>2, <2>1 DEF ToSet
    <3>2. i + 1 \in 1 .. n /\ i + 1 # 1 /\ 1 \in 1 .. n
      BY <1>1
    <3> QED
      BY <1>1, <1>5, <3>1, <3>2 DEF ToSet, IsInjective
  <2>2. ASSUME NEW x \in ToSet(s) \ {Head(s)} PROVE x \in ToSet(r)
    <3>1. PICK i \in 1 .. n : x = s[i]
      BY <1>1, <2>2 DEF ToSet
    <3>2. i # 1
      BY <1>1, <2>2, <3>1
    <3>3. i - 1 \in 1 .. (n - 1) /\ (i - 1) + 1 = i
      BY <1>1, <3>2
    <3>4. r[i - 1] = x
      BY <1>2, <3>1, <3>3
    <3> QED
      BY <1>2, <3>3, <3>4 DEF ToSet
  <2> QED
    BY <2>1, <2>2
<1> QED
  BY <1>3, <1>4, <1>5 DEF r

LEMMA MessagesInit == Init => MessagesNotDuplicated
<1> SUFFICES ASSUME Init, NEW p \in Pools
             PROVE  /\ IsInjective(channel[p])
                    /\ ToSet(channel[p]) = {t \in Tasks : pool[t] = p /\ pc[t] = "queued"}
                    /\ Held(p) = {}
  BY DEF MessagesNotDuplicated
<1>1. channel[p] = <<>> /\ \A t \in Tasks : pc[t] = "new"
  BY DEF Init
<1>2. ToSet(channel[p]) = {} /\ IsInjective(channel[p])
  BY <1>1 DEF ToSet, IsInjective
<1> QED
  BY <1>1, <1>2 DEF Held

\* A step of a task that is neither in a channel nor held, before or after.
LEMMA MessagesFrame ==
    ASSUME TypeOK, MessagesNotDuplicated, NEW t \in Tasks,
           UNCHANGED <<channel, pool>>,
           pc[t] \notin {"queued", "held"}, pc'[t] \notin {"queued", "held"},
           \A u \in Tasks \ {t} : pc'[u] = pc[u]
    PROVE  MessagesNotDuplicated'
<1> SUFFICES ASSUME NEW p \in Pools
             PROVE  /\ IsInjective(channel[p])'
                    /\ (ToSet(channel[p]) = {u \in Tasks : pool[u] = p /\ pc[u] = "queued"})'
                    /\ (\A u, v \in Held(p) : u = v)'
  BY DEF MessagesNotDuplicated
<1>1. {u \in Tasks : pool'[u] = p /\ pc'[u] = "queued"}
        = {u \in Tasks : pool[u] = p /\ pc[u] = "queued"}
  OBVIOUS
<1>2. Held(p)' = Held(p)
  BY DEF Held
<1> QED
  BY <1>1, <1>2 DEF MessagesNotDuplicated

\* A task starts out on the send side.
StartsOnSend == \A t \in Tasks : pc[t] \in {"new", "counted"} => pool[t] = "send"

LEMMA StartsOnSendStep == TypeOK /\ StartsOnSend /\ [Next]_vars => StartsOnSend'
<1> SUFFICES ASSUME TypeOK, StartsOnSend, [Next]_vars, NEW u \in Tasks,
                    pc'[u] \in {"new", "counted"}
             PROVE  pool'[u] = "send"
  BY DEF StartsOnSend
<1>pc. pc \in [Tasks -> Places] /\ pool \in [Tasks -> Pools]
  BY DEF TypeOK
<1>1. ASSUME pc[u] \in {"new", "counted"}, pool'[u] = pool[u] PROVE pool'[u] = "send"
  BY <1>1 DEF StartsOnSend
<1>2. CASE UNCHANGED <<pc, pool>>
  BY <1>1, <1>2
<1>3. ASSUME NEW t \in Tasks, Count(t) \/ Send(t) \/ Work(t) PROVE pool'[u] = "send"
  <2>1. /\ u # t => pc'[u] = pc[u] /\ pool'[u] = pool[u]
        /\ u = t => pc[t] = "new" /\ pool' = pool
    BY <1>3, <1>pc DEF Count, Send, Work, Unpend, StartWorker, StartRetryWorker, EnterRetry,
       Wake, Attempt, Leave, Settle, HandOff, GoTo
  <2> QED
    BY <1>1, <2>1
<1>4. ASSUME NEW p \in Pools, Dispatch(p) PROVE pool'[u] = "send"
  <2>1. pool' = pool /\ pc'[u] = pc[u]
    BY <1>4, <1>pc DEF Dispatch, Recv, JoinNext, Spawn, Close, End, GoTo, taskVars
  <2> QED
    BY <1>1, <2>1
<1> QED
  BY <1>2, <1>3, <1>4 DEF Next, ResetCompleted, ResetDead, Shutdown, Await, AwaitSender,
     AwaitRetrySender, vars, taskVars

\* A task that is nowhere in the channels joins the end of one.
LEMMA MessagesAppend ==
    ASSUME TypeOK, MessagesNotDuplicated, NEW t \in Tasks, NEW p \in Pools,
           pc[t] \notin {"queued", "held"},
           channel' = [channel EXCEPT ![p] = Append(@, t)],
           pc' = [pc EXCEPT ![t] = "queued"],
           pool' = [pool EXCEPT ![t] = p]
    PROVE  MessagesNotDuplicated'
<1>1. pc \in [Tasks -> Places] /\ pool \in [Tasks -> Pools] /\ channel \in [Pools -> Seq(Tasks)]
  BY DEF TypeOK
<1> SUFFICES ASSUME NEW q \in Pools
             PROVE  /\ IsInjective(channel'[q])
                    /\ ToSet(channel'[q]) = {u \in Tasks : pool'[u] = q /\ pc'[u] = "queued"}
                    /\ \A u, v \in Held(q)' : u = v
  BY DEF MessagesNotDuplicated
<1>2. /\ IsInjective(channel[q])
      /\ ToSet(channel[q]) = {u \in Tasks : pool[u] = q /\ pc[u] = "queued"}
      /\ \A u, v \in Held(q) : u = v
  BY DEF MessagesNotDuplicated
<1>3. Held(q)' = Held(q)
  BY <1>1 DEF Held
<1>4. t \notin ToSet(channel[q])
  BY <1>2
<1>5. CASE q = p
  <2>1. channel'[q] = Append(channel[q], t)
    BY <1>1, <1>5
  <2>2. ToSet(channel'[q]) = ToSet(channel[q]) \cup {t} /\ IsInjective(channel'[q])
    BY <1>1, <1>2, <1>4, <2>1, AppendFacts
  <2>3. {u \in Tasks : pool'[u] = q /\ pc'[u] = "queued"}
          = {u \in Tasks : pool[u] = q /\ pc[u] = "queued"} \cup {t}
    BY <1>1, <1>5
  <2> QED
    BY <1>2, <1>3, <2>2, <2>3
<1>6. CASE q # p
  <2>1. channel'[q] = channel[q]
    BY <1>1, <1>6
  <2>2. {u \in Tasks : pool'[u] = q /\ pc'[u] = "queued"}
          = {u \in Tasks : pool[u] = q /\ pc[u] = "queued"}
    BY <1>1, <1>6
  <2> QED
    BY <1>2, <1>3, <2>1, <2>2
<1> QED
  BY <1>5, <1>6

\* The dispatcher takes the first message, which is queued at its pool.
LEMMA RecvFacts ==
    ASSUME TypeOK, MessagesNotDuplicated, NEW p \in Pools, Recv(p)
    PROVE  \E t \in Tasks :
              /\ t = Head(channel[p]) /\ channel[p] # <<>>
              /\ pool[t] = p /\ pc[t] = "queued" /\ Held(p) = {}
              /\ pc' = [pc EXCEPT ![t] = "held"]
              /\ channel' = [channel EXCEPT ![p] = Tail(@)]
              /\ UNCHANGED <<joinset, phase, pool, count, nap, attempts, last, stats,
                             hourly, handle>>
<1>1. channel[p] \in Seq(Tasks) /\ channel[p] # <<>>
  BY DEF TypeOK, Recv
<1>2. Head(channel[p]) \in ToSet(channel[p])
  BY <1>1, TailFacts
<1> QED
  BY <1>1, <1>2 DEF MessagesNotDuplicated, Recv, GoTo

LEMMA MessagesRecv ==
    ASSUME TypeOK, MessagesNotDuplicated, NEW p \in Pools, Recv(p)
    PROVE  MessagesNotDuplicated'
<1>1. pc \in [Tasks -> Places] /\ pool \in [Tasks -> Pools] /\ channel \in [Pools -> Seq(Tasks)]
  BY DEF TypeOK
<1>t. PICK t \in Tasks :
         /\ t = Head(channel[p]) /\ channel[p] # <<>>
         /\ pool[t] = p /\ pc[t] = "queued" /\ Held(p) = {}
         /\ pc' = [pc EXCEPT ![t] = "held"]
         /\ channel' = [channel EXCEPT ![p] = Tail(@)]
         /\ pool' = pool
  BY RecvFacts
<1> SUFFICES ASSUME NEW q \in Pools
             PROVE  /\ IsInjective(channel'[q])
                    /\ ToSet(channel'[q]) = {u \in Tasks : pool'[u] = q /\ pc'[u] = "queued"}
                    /\ \A u, v \in Held(q)' : u = v
  BY DEF MessagesNotDuplicated
<1>2. /\ IsInjective(channel[q])
      /\ ToSet(channel[q]) = {u \in Tasks : pool[u] = q /\ pc[u] = "queued"}
      /\ \A u, v \in Held(q) : u = v
  BY DEF MessagesNotDuplicated
<1>3. CASE q = p
  <2>1. channel'[q] = Tail(channel[q])
    BY <1>1, <1>t, <1>3
  <2>2. ToSet(channel'[q]) = ToSet(channel[q]) \ {t} /\ IsInjective(channel'[q])
    BY <1>1, <1>t, <1>2, <1>3, <2>1, TailFacts
  <2>3. {u \in Tasks : pool'[u] = q /\ pc'[u] = "queued"}
          = {u \in Tasks : pool[u] = q /\ pc[u] = "queued"} \ {t}
    BY <1>1, <1>t
  <2>4. Held(q)' = {t}
    BY <1>1, <1>t, <1>3 DEF Held
  <2> QED
    BY <1>2, <2>2, <2>3, <2>4
<1>4. CASE q # p
  <2>1. channel'[q] = channel[q] /\ Held(q)' = Held(q)
    BY <1>1, <1>t, <1>4 DEF Held
  <2>2. {u \in Tasks : pool'[u] = q /\ pc'[u] = "queued"}
          = {u \in Tasks : pool[u] = q /\ pc[u] = "queued"}
    BY <1>1, <1>t, <1>4
  <2> QED
    BY <1>2, <2>1, <2>2
<1> QED
  BY <1>3, <1>4

LEMMA MessagesStep ==
    TypeOK /\ StartsOnSend /\ MessagesNotDuplicated /\ [Next]_vars => MessagesNotDuplicated'
<1> SUFFICES ASSUME TypeOK, StartsOnSend, MessagesNotDuplicated, [Next]_vars
             PROVE  MessagesNotDuplicated'
  OBVIOUS
<1>pc. pc \in [Tasks -> Places] /\ pool \in [Tasks -> Pools]
  BY DEF TypeOK
<1>u. ASSUME UNCHANGED <<channel, pool, pc>> PROVE MessagesNotDuplicated'
  BY <1>u DEF MessagesNotDuplicated, Held
<1>1. ASSUME NEW t \in Tasks, Count(t) PROVE MessagesNotDuplicated'
  BY <1>1, <1>pc, MessagesFrame DEF Count, GoTo, queueVars
<1>2. ASSUME NEW t \in Tasks, Send(t) PROVE MessagesNotDuplicated'
  <2>1. pc[t] = "counted" /\ pool' = pool /\ pool[t] = "send"
    BY <1>2 DEF Send, StartsOnSend
  <2>2. CASE channel' = channel /\ pc' = [pc EXCEPT ![t] = "lost"]
    BY <1>pc, <2>1, <2>2, MessagesFrame
  <2>3. CASE /\ channel' = [channel EXCEPT !["send"] = Append(@, t)]
             /\ pc' = [pc EXCEPT ![t] = "queued"]
    <3>1. pool' = [pool EXCEPT ![t] = "send"] /\ "send" \in Pools
      BY <1>pc, <2>1 DEF Pools
    <3> QED
      BY <2>1, <2>3, <3>1, MessagesAppend
  <2> QED
    BY <1>2, <2>2, <2>3 DEF Send, GoTo
<1>3. ASSUME NEW t \in Tasks, HandOff(t) PROVE MessagesNotDuplicated'
  <2>1. pc[t] = "handoff" /\ "retry" \in Pools
    BY <1>3 DEF HandOff, Pools
  <2>2. CASE UNCHANGED <<channel, pool>> /\ pc' = [pc EXCEPT ![t] = "lost"]
    BY <1>pc, <2>1, <2>2, MessagesFrame
  <2>3. CASE /\ channel' = [channel EXCEPT !["retry"] = Append(@, t)]
             /\ pool' = [pool EXCEPT ![t] = "retry"]
             /\ pc' = [pc EXCEPT ![t] = "queued"]
    BY <2>1, <2>3, MessagesAppend
  <2> QED
    BY <1>3, <2>2, <2>3 DEF HandOff, GoTo
<1>4. ASSUME NEW t \in Tasks,
             Unpend(t) \/ StartWorker(t) \/ StartRetryWorker(t) \/ Wake(t) \/ Attempt(t)
                \/ Leave(t) \/ Settle(t)
      PROVE  MessagesNotDuplicated'
  <2>1. /\ UNCHANGED <<channel, pool>>
        /\ pc[t] \notin {"queued", "held"} /\ pc'[t] \notin {"queued", "held"}
        /\ \A u \in Tasks \ {t} : pc'[u] = pc[u]
    BY <1>4, <1>pc DEF Unpend, StartWorker, StartRetryWorker, EnterRetry, Wake, Attempt, Leave,
       Settle, GoTo, queueVars
  <2> QED
    BY <2>1, MessagesFrame
<1>5. ASSUME NEW p \in Pools, Recv(p) PROVE MessagesNotDuplicated'
  BY <1>5, MessagesRecv
<1>6. ASSUME NEW p \in Pools, Spawn(p) PROVE MessagesNotDuplicated'
  <2>1. PICK t \in Held(p) : pc' = [pc EXCEPT ![t] = "spawned"] /\ UNCHANGED <<channel, pool>>
    BY <1>6 DEF Spawn, GoTo
  <2>2. t \in Tasks /\ pc[t] = "held"
    BY DEF Held
  <2>3. ASSUME NEW q \in Pools
        PROVE  /\ {u \in Tasks : pool'[u] = q /\ pc'[u] = "queued"}
                     = {u \in Tasks : pool[u] = q /\ pc[u] = "queued"}
               /\ Held(q)' \subseteq Held(q)
    BY <1>pc, <2>1, <2>2 DEF Held
  <2> QED
    BY <2>1, <2>3 DEF MessagesNotDuplicated
<1>7. ASSUME NEW p \in Pools, JoinNext(p) \/ Close(p) \/ End(p) PROVE MessagesNotDuplicated'
  BY <1>7, <1>u DEF JoinNext, Close, End, taskVars
<1>8. CASE ResetCompleted \/ ResetDead \/ (\E wait \in BOOLEAN : Shutdown(wait)) \/ Await
  BY <1>8, <1>u DEF ResetCompleted, ResetDead, Shutdown, Await, AwaitSender, AwaitRetrySender,
     queueVars, taskVars
<1>9. CASE UNCHANGED vars
  BY <1>9, <1>u DEF vars, queueVars, taskVars
<1> QED
  BY <1>1, <1>2, <1>3, <1>4, <1>5, <1>6, <1>7, <1>8, <1>9 DEF Next, Work, Dispatch

MessagesInv == TypeOK /\ StartsOnSend /\ MessagesNotDuplicated

\* A task is never in a channel twice, nor in one without being queued there:
\* no step duplicates or drops a message on its way.
THEOREM MessagesUnique == SafeSpec => []MessagesNotDuplicated
<1>1. Init => MessagesInv
  BY TypeInit, MessagesInit DEF Init, StartsOnSend, MessagesInv
<1>2. MessagesInv /\ [Next]_vars => MessagesInv'
  BY TypeStep, StartsOnSendStep, MessagesStep DEF MessagesInv
<1>3. MessagesInv => MessagesNotDuplicated
  BY DEF MessagesInv
<1> QED
  BY <1>1, <1>2, <1>3, PTL DEF SafeSpec

----------------------------------------------------------------------------
(* Each task by itself: how many attempts it has behind it, what the last  *)
(* one was answered and how long the current sleep is, at each place.      *)

Answered == {"Ok", "settleOk", "completed"}

\* Attempts made before the pool that t is with takes its turn.
Earlier(t) == IF pool[t] = "send" THEN 0 ELSE 2

TaskOK(t) ==
    /\ pool[t] = "send" => pc[t] # "dead"
    /\ pool[t] = "retry" => pc[t] \notin {"new", "counted", "begun", "handoff"}
    /\ pc[t] \in {"new", "begun"} \cup Waiting => attempts[t] = Earlier(t)
    /\ pc[t] \in {"sleep", "try"} =>
          /\ attempts[t] = count[t]
          /\ count[t] \in {Earlier(t), Earlier(t) + 1}
          /\ nap[t] = Interval(count[t])
    /\ pc[t] \in Answered =>
          /\ attempts[t] \in {Earlier(t) + 1, Earlier(t) + 2}
          /\ SignAndSend(last[t]) = "Ok"
    /\ pc[t] \in {"Err", "settleErr", "handoff", "dead"} => attempts[t] = Earlier(t) + 2
    /\ pc[t] = "lost" => attempts[t] \in {0, 2}
    /\ pc[t] \notin Answered /\ attempts[t] > 0 => SignAndSend(last[t]) = "Err"

TasksOK == \A t \in Tasks : TaskOK(t)

LEMMA ResultIsOkOrErr == \A a : SignAndSend(a) \in {"Ok", "Err"}
BY DEF SignAndSend, IntoLegacyResult

LEMMA TasksFrame ==
    ASSUME TasksOK, NEW u \in Tasks,
           pc'[u] = pc[u], pool'[u] = pool[u], count'[u] = count[u], nap'[u] = nap[u],
           attempts'[u] = attempts[u], last'[u] = last[u]
    PROVE  TaskOK(u)'
<1>1. TaskOK(u)
  BY DEF TasksOK
<1> QED
  BY <1>1 DEF TaskOK, Earlier

LEMMA TasksStep ==
    TypeOK /\ MessagesNotDuplicated /\ TasksOK /\ [Next]_vars => TasksOK'
<1> SUFFICES ASSUME TypeOK, MessagesNotDuplicated, TasksOK, [Next]_vars
             PROVE  TasksOK'
  OBVIOUS
<1>T. /\ pc \in [Tasks -> Places] /\ pool \in [Tasks -> Pools] /\ count \in [Tasks -> 0 .. 3]
      /\ nap \in [Tasks -> Intervals] /\ attempts \in [Tasks -> Nat]
      /\ last \in [Tasks -> Answers \cup {NoResponse}]
  BY DEF TypeOK
<1>u. ASSUME UNCHANGED taskVars PROVE TasksOK'
  BY <1>u, TasksFrame DEF taskVars, TasksOK
<1>o. ASSUME NEW t \in Tasks, Count(t) \/ Send(t) \/ Work(t), TaskOK(t)' PROVE TasksOK'
  <2> SUFFICES ASSUME NEW u \in Tasks, u # t PROVE TaskOK(u)'
    BY <1>o DEF TasksOK
  <2>1. /\ pc'[u] = pc[u] /\ pool'[u] = pool[u] /\ count'[u] = count[u] /\ nap'[u] = nap[u]
        /\ attempts'[u] = attempts[u] /\ last'[u] = last[u]
    BY <1>o, <1>T DEF Count, Send, Work, Unpend, StartWorker, StartRetryWorker, EnterRetry,
       Wake, Attempt, Leave, Settle, HandOff, GoTo
  <2> QED
    BY <2>1, TasksFrame
<1>1. ASSUME NEW t \in Tasks, Count(t) PROVE TasksOK'
  <2>1. TaskOK(t) BY DEF TasksOK
  <2>2. TaskOK(t)'
    BY <1>1, <1>T, <2>1 DEF Count, GoTo, TaskOK, Earlier, Waiting, Answered
  <2> QED BY <1>1, <1>o, <2>2
<1>2. ASSUME NEW t \in Tasks, Send(t) PROVE TasksOK'
  <2>1. TaskOK(t) BY DEF TasksOK
  <2>2. pc[t] = "counted" /\ pc'[t] \in {"queued", "lost"}
        /\ UNCHANGED <<pool, count, nap, attempts, last>>
    BY <1>2, <1>T DEF Send, GoTo
  <2>3. TaskOK(t)'
    BY <1>T, <2>1, <2>2 DEF TaskOK, Earlier, Waiting, Answered
  <2> QED BY <1>2, <1>o, <2>3
<1>3. ASSUME NEW t \in Tasks, Unpend(t) PROVE TasksOK'
  <2>1. TaskOK(t) BY DEF TasksOK
  <2>2. TaskOK(t)'
    BY <1>3, <1>T, <2>1 DEF Unpend, GoTo, TaskOK, Earlier, Waiting, Answered
  <2> QED BY <1>3, <1>o, <2>2 DEF Work
<1>4. ASSUME NEW t \in Tasks, StartWorker(t) \/ StartRetryWorker(t) PROVE TasksOK'
  <2>1. TaskOK(t) BY DEF TasksOK
  <2>2. /\ pc[t] \in {"begun"} \cup Waiting
        /\ pc'[t] \in {"sleep", "try"}
        /\ count'[t] = Strategy(pool[t]).offset /\ nap'[t] = Strategy(pool[t]).initialSleep
        /\ UNCHANGED <<pool, attempts, last>>
    BY <1>4, <1>T, <2>1 DEF StartWorker, StartRetryWorker, EnterRetry, GoTo, Waiting, TaskOK, Pools
  <2>3. count'[t] = Earlier(t) /\ nap'[t] = Interval(count'[t])
    BY <1>T, <2>2 DEF Strategy, Earlier, Interval, Pools
  <2>4. attempts[t] = Earlier(t) /\ Earlier(t)' = Earlier(t)
    BY <2>1, <2>2 DEF TaskOK, Earlier
  <2>5. pc[t] \notin Answered /\ pc'[t] \notin {"new", "begun"} \cup Waiting \cup Answered
    BY <2>2 DEF Waiting, Answered
  <2>6. TaskOK(t)'
    BY <2>1, <2>2, <2>3, <2>4, <2>5 DEF TaskOK
  <2> QED BY <1>4, <1>o, <2>6 DEF Work
<1>5. ASSUME NEW t \in Tasks, Wake(t) PROVE TasksOK'
  <2>1. TaskOK(t) BY DEF TasksOK
  <2>2. TaskOK(t)'
    BY <1>5, <1>T, <2>1 DEF Wake, GoTo, TaskOK, Earlier, Waiting, Answered
  <2> QED BY <1>5, <1>o, <2>2 DEF Work
<1>6. ASSUME NEW t \in Tasks, Attempt(t) PROVE TasksOK'
  <2>1. TaskOK(t) BY DEF TasksOK
  <2>2. pc[t] = "try" /\ attempts'[t] = attempts[t] + 1 /\ pool' = pool
    BY <1>6, <1>T DEF Attempt
  <2>3. attempts[t] = count[t] /\ count[t] \in {Earlier(t), Earlier(t) + 1}
    BY <2>1, <2>2 DEF TaskOK
  <2>4. Strategy(pool[t]).retries = Earlier(t) + 1 /\ Earlier(t) \in {0, 2}
        /\ Earlier(t)' = Earlier(t)
    BY <2>2 DEF Strategy, Earlier
  <2>5. PICK a \in Answers :
           /\ last' = [last EXCEPT ![t] = a]
           /\ \/ SignAndSend(a) = "Ok" /\ GoTo(t, "Ok")
              \/ /\ SignAndSend(a) # "Ok" /\ count[t] < Strategy(pool[t]).retries
                 /\ count' = [count EXCEPT ![t] = @ + 1]
                 /\ nap' = [nap EXCEPT ![t] = Backoff^(count[t] + 1)]
                 /\ GoTo(t, "sleep")
              \/ /\ SignAndSend(a) # "Ok" /\ ~ (count[t] < Strategy(pool[t]).retries)
                 /\ GoTo(t, "Err")
    BY <1>6 DEF Attempt
  <2>6. last'[t] = a /\ SignAndSend(a) \in {"Ok", "Err"}
    BY <1>T, <2>5, ResultIsOkOrErr
  <2>7. CASE SignAndSend(a) = "Ok" /\ GoTo(t, "Ok")
    <3>1. pc'[t] = "Ok" BY <1>T, <2>7 DEF GoTo
    <3>2. attempts'[t] \in {Earlier(t)' + 1, Earlier(t)' + 2}
      BY <2>2, <2>3, <2>4
    <3>3. TaskOK(t)'
      BY <2>2, <2>6, <2>7, <3>1, <3>2 DEF TaskOK, Waiting, Answered
    <3> QED BY <3>3, <1>6, <1>o DEF Work
  <2>8. CASE /\ SignAndSend(a) # "Ok" /\ count[t] < Strategy(pool[t]).retries
             /\ count' = [count EXCEPT ![t] = @ + 1]
             /\ nap' = [nap EXCEPT ![t] = Backoff^(count[t] + 1)]
             /\ GoTo(t, "sleep")
    <3>1. pc'[t] = "sleep" /\ count'[t] = count[t] + 1 /\ nap'[t] = Backoff^(count'[t])
      BY <1>T, <2>8 DEF GoTo
    <3>2. count[t] = Earlier(t) /\ nap'[t] = Interval(count'[t])
      BY <2>3, <2>4, <2>8, <3>1 DEF Interval
    <3>3. TaskOK(t)'
      BY <1>T, <2>1, <2>2, <2>3, <2>4, <2>6, <2>8, <3>1, <3>2 DEF TaskOK, Waiting, Answered
    <3> QED BY <3>3, <1>6, <1>o DEF Work
  <2>9. CASE /\ SignAndSend(a) # "Ok" /\ ~ (count[t] < Strategy(pool[t]).retries)
             /\ GoTo(t, "Err")
    <3>1. pc'[t] = "Err" /\ count[t] = Earlier(t) + 1
      BY <1>T, <2>3, <2>4, <2>9 DEF GoTo
    <3>2. TaskOK(t)'
      BY <1>T, <2>1, <2>2, <2>3, <2>4, <2>6, <2>9, <3>1 DEF TaskOK, Waiting, Answered
    <3> QED BY <3>2, <1>6, <1>o DEF Work
  <2> QED BY <2>5, <2>7, <2>8, <2>9
<1>7. ASSUME NEW t \in Tasks, Leave(t) \/ Settle(t) PROVE TasksOK'
  <2>1. TaskOK(t) BY DEF TasksOK
  <2>2. /\ \/ pc[t] = "Ok" /\ pc'[t] = "settleOk"
           \/ pc[t] = "Err" /\ pc'[t] = "settleErr"
           \/ pc[t] = "settleOk" /\ pc'[t] = "completed"
           \/ pc[t] = "settleErr" /\ pool[t] = "retry" /\ pc'[t] = "dead"
           \/ pc[t] = "settleErr" /\ pool[t] = "send" /\ pc'[t] = "handoff"
        /\ UNCHANGED <<pool, count, nap, attempts, last>>
    BY <1>7, <1>T DEF Leave, Settle, GoTo
  <2>3. TaskOK(t)'
    BY <1>T, <2>1, <2>2 DEF TaskOK, Earlier, Waiting, Answered
  <2> QED BY <1>7, <1>o, <2>3 DEF Work
<1>8. ASSUME NEW t \in Tasks, HandOff(t) PROVE TasksOK'
  <2>1. TaskOK(t) BY DEF TasksOK
  <2>2. /\ pc[t] = "handoff"
        /\ \/ pc'[t] = "queued" /\ pool'[t] = "retry"
           \/ pc'[t] = "lost" /\ pool'[t] = pool[t]
        /\ UNCHANGED <<count, nap, attempts, last>>
    BY <1>8, <1>T DEF HandOff, GoTo
  <2>3. TaskOK(t)'
    BY <1>T, <2>1, <2>2 DEF TaskOK, Earlier, Waiting, Answered, Pools
  <2> QED BY <1>8, <1>o, <2>3 DEF Work
<1>9. ASSUME NEW p \in Pools, Recv(p) \/ Spawn(p) PROVE TasksOK'
  <2>1. \E t \in Tasks : /\ pc[t] \in Waiting
                         /\ \E x \in {"held", "spawned"} : pc' = [pc EXCEPT ![t] = x]
                         /\ UNCHANGED <<pool, count, nap, attempts, last>>
    <3>1. CASE Recv(p)
      BY <3>1, RecvFacts DEF Waiting
    <3>2. CASE Spawn(p)
      BY <3>2 DEF Spawn, Held, Waiting, GoTo
    <3> QED BY <1>9, <3>1, <3>2
  <2>2. PICK t \in Tasks, x \in {"held", "spawned"} :
           pc[t] \in Waiting /\ pc' = [pc EXCEPT ![t] = x]
           /\ UNCHANGED <<pool, count, nap, attempts, last>>
    BY <2>1
  <2>3. TaskOK(t) BY DEF TasksOK
  <2>4. pc'[t] \in {"held", "spawned"}
    BY <1>T, <2>2
  <2>5. TaskOK(t)'
    BY <1>T, <2>2, <2>3, <2>4 DEF TaskOK, Earlier, Waiting, Answered
  <2>6. ASSUME NEW u \in Tasks, u # t PROVE TaskOK(u)'
    BY <1>T, <2>2, <2>6, TasksFrame
  <2> QED BY <2>5, <2>6 DEF TasksOK
<1>10. ASSUME NEW p \in Pools, JoinNext(p) \/ Close(p) \/ End(p) PROVE TasksOK'
  BY <1>10, <1>u DEF JoinNext, Close, End
<1>11. CASE ResetCompleted \/ ResetDead \/ (\E wait \in BOOLEAN : Shutdown(wait)) \/ Await
  BY <1>11, <1>u DEF ResetCompleted, ResetDead, Shutdown, Await, AwaitSender, AwaitRetrySender
<1>12. CASE UNCHANGED vars
  BY <1>12, <1>u DEF vars
<1> QED
  BY <1>1, <1>2, <1>3, <1>4, <1>5, <1>6, <1>7, <1>8, <1>9, <1>10, <1>11, <1>12
     DEF Next, Work, Dispatch

LEMMA TasksInit == Init => TasksOK
BY DEF Init, TasksOK, TaskOK, Earlier, Answered, Waiting

TasksInv == MessagesInv /\ TasksOK

THEOREM TasksInvariant == SafeSpec => []TasksInv
<1>1. Init => TasksInv
  BY TypeInit, MessagesInit, TasksInit DEF Init, StartsOnSend, MessagesInv, TasksInv
<1>2. TasksInv /\ [Next]_vars => TasksInv'
  BY TypeStep, StartsOnSendStep, MessagesStep, TasksStep DEF MessagesInv, TasksInv
<1> QED
  BY <1>1, <1>2, PTL DEF SafeSpec

\* For every backoff, the attempts of a task follow the documented intervals,
\* and a task is dead only after the fourth.
THEOREM ScheduleKept == SafeSpec => []AttemptSchedule
<1>1. TasksInv => AttemptSchedule
  <2> SUFFICES ASSUME TasksInv, NEW t \in Tasks
               PROVE  /\ attempts[t] <= 4
                      /\ pc[t] \in {"sleep", "try"} => nap[t] = Interval(attempts[t])
                      /\ pc[t] = "dead" => attempts[t] = 4
    BY DEF AttemptSchedule
  <2>1. TaskOK(t) /\ pc[t] \in Places /\ pool[t] \in Pools
    BY DEF TasksInv, MessagesInv, TypeOK, TasksOK
  <2>2. attempts[t] \in 0 .. 4
    BY <2>1 DEF TaskOK, Earlier, Places, Retrying, Final, Answered, Pools
  <2> QED
    BY <2>1, <2>2 DEF TaskOK, Earlier, Pools
<1> QED
  BY <1>1, TasksInvariant, PTL

\* For every set of answers, no task is completed on an answer that calls for
\* a retry, nor retried or given up on one that does not.
THEOREM VerdictSound == SafeSpec => []VerdictFollowsAnswer
<1>1. \A a : SignAndSend(a) = "Ok" =>
               a # NoResponse /\ ClassifyResponse(a) \in {"Delivered", "Terminal"}
  BY DEF SignAndSend, IntoLegacyResult, SendOnce
<1>2. \A a : SignAndSend(a) = "Err" =>
               a = NoResponse \/ ClassifyResponse(a) \in {"Redirect", "Retryable"}
  BY DEF SignAndSend, IntoLegacyResult, SendOnce, ClassifyResponse
<1>3. TasksInv => VerdictFollowsAnswer
  <2> SUFFICES ASSUME TasksInv, NEW t \in Tasks
               PROVE  /\ pc[t] = "completed" => SignAndSend(last[t]) = "Ok"
                      /\ (pc[t] = "dead" \/ (pool[t] = "retry" /\ pc[t] \in Waiting)) =>
                            SignAndSend(last[t]) = "Err"
    BY <1>1, <1>2 DEF VerdictFollowsAnswer
  <2>1. TaskOK(t) /\ pool[t] \in Pools
    BY DEF TasksInv, MessagesInv, TypeOK, TasksOK
  <2> QED
    BY <2>1 DEF TaskOK, Earlier, Answered, Waiting, Pools
<1> QED
  BY <1>3, TasksInvariant, PTL

----------------------------------------------------------------------------
(* Lifetimes.  A dispatcher stops receiving only when no task can reach it *)
(* any more: the send side after the handle is given up, which borrows     *)
(* forbid during a call of queue; the retry side after the send side, and  *)
(* after the last worker with a clone of its sender.                       *)

\* The places from which a task depends on a dispatcher that receives.
Depends(t) == pc[t] \in {"counted", "queued", "held"}

LifeOK ==
    /\ handle.at # "open" => \A t \in Tasks : pc[t] # "counted"
    /\ phase["send"] # "recv" => handle.at # "open"
    /\ phase["retry"] # "recv" => /\ phase["send"] # "recv"
                                  /\ \A t \in Tasks : ~ FutureAlive("send", t)
    /\ \A p \in Pools : phase[p] # "recv" => \A t \in Tasks : pool[t] = p => ~ Depends(t)
    /\ \A t \in Tasks : pc[t] # "lost"

LEMMA LifeInit == Init => LifeOK
BY DEF Init, LifeOK, Depends, Pools

\* A step of one task that leaves phases and handle alone, takes it neither
\* to a place that depends on a dispatcher nor back into a first worker.
LEMMA LifeFrame ==
    ASSUME LifeOK, UNCHANGED <<phase, handle>>, NEW t \in Tasks,
           \A u \in Tasks \ {t} : pc'[u] = pc[u] /\ pool'[u] = pool[u],
           pc'[t] # "lost" /\ ~ Depends(t)',
           FutureAlive("send", t)' => FutureAlive("send", t)
    PROVE  LifeOK'
<1>1. \A u \in Tasks \ {t} : /\ Depends(u)' = Depends(u)
                             /\ FutureAlive("send", u)' = FutureAlive("send", u)
  BY DEF Depends, FutureAlive
<1>2. pc'[t] # "counted"
  BY DEF Depends
<1> QED
  BY <1>1, <1>2 DEF LifeOK

LEMMA LifeStep == TasksInv /\ LifeOK /\ [Next]_vars => LifeOK'
<1> SUFFICES ASSUME TasksInv, LifeOK, [Next]_vars
             PROVE  LifeOK'
  OBVIOUS
<1>I. TypeOK /\ StartsOnSend /\ MessagesNotDuplicated /\ TasksOK
  BY DEF TasksInv, MessagesInv
<1>T. /\ pc \in [Tasks -> Places] /\ pool \in [Tasks -> Pools]
      /\ phase \in [Pools -> {"recv", "drain", "done"}]
  BY <1>I DEF TypeOK
<1>H. handle \in [at : {"open", "awaitSend", "awaitRetry", "returned"}, wait : BOOLEAN]
  BY <1>I DEF TypeOK
<1>P. "send" \in Pools /\ "retry" \in Pools /\ \A p \in Pools : p = "send" \/ p = "retry"
  BY DEF Pools
<1>u. ASSUME UNCHANGED <<pc, pool, phase, handle>> PROVE LifeOK'
  BY <1>u DEF LifeOK, Depends, FutureAlive
<1>1. ASSUME NEW t \in Tasks, Count(t) PROVE LifeOK'
  <2>1. handle.at = "open" /\ UNCHANGED <<phase, handle, pool>>
        /\ pc' = [pc EXCEPT ![t] = "counted"]
    BY <1>1 DEF Count, GoTo, queueVars
  <2>2. phase["send"] = "recv" /\ phase["retry"] = "recv"
    BY <2>1 DEF LifeOK
  <2> QED
    BY <1>T, <1>P, <2>1, <2>2 DEF LifeOK
<1>2. ASSUME NEW t \in Tasks, Send(t) PROVE LifeOK'
  <2>1. handle.at = "open" /\ pc[t] = "counted" /\ UNCHANGED <<phase, handle, pool>>
    BY <1>2 DEF Send, LifeOK
  <2>2. phase["send"] = "recv" /\ phase["retry"] = "recv"
    BY <2>1 DEF LifeOK
  <2>3. pc' = [pc EXCEPT ![t] = "queued"]
    BY <1>2, <2>2 DEF Send, GoTo
  <2> QED
    BY <1>T, <1>P, <2>1, <2>2, <2>3 DEF LifeOK
<1>3. ASSUME NEW t \in Tasks,
             Unpend(t) \/ StartWorker(t) \/ StartRetryWorker(t) \/ Wake(t) \/ Attempt(t)
                \/ Leave(t) \/ Settle(t)
      PROVE  LifeOK'
  <2>1. /\ UNCHANGED <<phase, handle, pool>>
        /\ \A u \in Tasks \ {t} : pc'[u] = pc[u]
        /\ pc[t] \notin {"new", "counted", "queued"} \cup Final
        /\ pc'[t] \notin {"counted", "queued", "held", "lost"}
    BY <1>3, <1>T DEF Unpend, StartWorker, StartRetryWorker, EnterRetry, Wake, Attempt, Leave,
       Settle, GoTo, queueVars, Final
  <2>2. FutureAlive("send", t)' => FutureAlive("send", t)
    BY <2>1 DEF FutureAlive
  <2>3. ~ Depends(t)'
    BY <2>1 DEF Depends
  <2> QED
    BY <2>1, <2>2, <2>3, LifeFrame
<1>4. ASSUME NEW t \in Tasks, HandOff(t) PROVE LifeOK'
  <2>1. pc[t] = "handoff" /\ pool[t] = "send" /\ UNCHANGED <<phase, handle>>
    BY <1>4, <1>I, <1>T, <1>P DEF HandOff, TasksOK, TaskOK
  <2>2. FutureAlive("send", t)
    BY <2>1 DEF FutureAlive, Final
  <2>3. phase["retry"] = "recv"
    BY <2>2 DEF LifeOK
  <2>4. pc' = [pc EXCEPT ![t] = "queued"] /\ pool' = [pool EXCEPT ![t] = "retry"]
    BY <1>4, <2>3 DEF HandOff, GoTo
  <2>5. \A u \in Tasks \ {t} : Depends(u)' = Depends(u) /\ pool'[u] = pool[u] /\ pc'[u] = pc[u]
    BY <1>T, <2>4 DEF Depends
  <2>6. pc'[t] = "queued" /\ pool'[t] = "retry"
    BY <1>T, <2>4
  <2> QED
    BY <1>P, <2>1, <2>3, <2>5, <2>6 DEF LifeOK
<1>5. ASSUME NEW p \in Pools, Recv(p) PROVE LifeOK'
  <2>1. PICK t \in Tasks :
           /\ pool[t] = p /\ pc[t] = "queued" /\ pc' = [pc EXCEPT ![t] = "held"]
           /\ UNCHANGED <<phase, handle, pool>>
    BY <1>5, <1>I, RecvFacts
  <2>2. phase[p] = "recv" /\ (p = "send" => phase["retry"] = "recv")
    BY <1>5 DEF Recv, LifeOK
  <2>3. \A u \in Tasks \ {t} : pc'[u] = pc[u]
    BY <1>T, <2>1
  <2>4. pc'[t] = "held"
    BY <1>T, <2>1
  <2>5. \A u \in Tasks \ {t} : FutureAlive("send", u)' = FutureAlive("send", u)
    BY <2>1, <2>3 DEF FutureAlive
  <2>6. p = "retry" => ~ FutureAlive("send", t)'
    BY <2>1 DEF FutureAlive
  <2>7. \A u \in Tasks : Depends(u)' => Depends(u)
    BY <2>1, <2>3, <2>4 DEF Depends
  <2> QED
    BY <1>P, <2>1, <2>2, <2>3, <2>4, <2>5, <2>6, <2>7 DEF LifeOK
<1>6. ASSUME NEW p \in Pools, Spawn(p) PROVE LifeOK'
  <2>1. PICK t \in Held(p) : pc' = [pc EXCEPT ![t] = "spawned"] /\ UNCHANGED <<phase, handle, pool>>
    BY <1>6 DEF Spawn, GoTo
  <2>2. t \in Tasks /\ pc[t] = "held"
    BY DEF Held
  <2>3. FutureAlive("send", t)' => FutureAlive("send", t)
    BY <2>1, <2>2 DEF FutureAlive, Final
  <2>4. pc'[t] = "spawned" /\ \A u \in Tasks \ {t} : pc'[u] = pc[u]
    BY <1>T, <2>1, <2>2
  <2>5. ~ Depends(t)'
    BY <2>4 DEF Depends
  <2> QED
    BY <2>1, <2>2, <2>3, <2>4, <2>5, LifeFrame
<1>7. ASSUME NEW p \in Pools, Close(p) PROVE LifeOK'
  <2>1. /\ phase[p] = "recv" /\ Held(p) = {} /\ channel[p] = <<>> /\ SendersDropped(p)
        /\ phase' = [phase EXCEPT ![p] = "drain"]
        /\ UNCHANGED <<pc, pool, handle>>
    BY <1>7 DEF Close, taskVars
  <2>2. ToSet(channel[p]) = {}
    BY <2>1 DEF ToSet
  <2>3. \A t \in Tasks : pool[t] = p => pc[t] # "queued"
    BY <1>I, <2>2 DEF MessagesNotDuplicated
  <2>4. \A t \in Tasks : pool[t] = p => pc[t] # "held"
    BY <2>1 DEF Held
  <2>5. \A t \in Tasks : pool[t] = p => pc[t] # "counted"
    <3>1. CASE p = "send"
      BY <2>1, <3>1 DEF SendersDropped, LifeOK
    <3>2. CASE p = "retry"
      BY <1>I, <3>2 DEF StartsOnSend
    <3> QED BY <1>P, <3>1, <3>2
  <2>6. \A t \in Tasks : pool[t] = p => ~ Depends(t)
    BY <2>3, <2>4, <2>5 DEF Depends
  <2>7. \A t \in Tasks : Depends(t)' = Depends(t) /\ FutureAlive("send", t)' = FutureAlive("send", t)
    BY <2>1 DEF Depends, FutureAlive
  <2>8. phase'[p] = "drain" /\ \A q \in Pools \ {p} : phase'[q] = phase[q]
    BY <1>T, <2>1
  <2>9. CASE p = "send"
    <3>1. handle.at # "open"
      BY <2>1, <2>9 DEF SendersDropped
    <3> QED
      BY <1>P, <2>1, <2>6, <2>7, <2>8, <2>9, <3>1 DEF LifeOK
  <2>10. CASE p = "retry"
    <3>1. phase["send"] # "recv" /\ \A t \in Tasks : ~ FutureAlive("send", t)
      BY <2>1, <2>10 DEF SendersDropped
    <3> QED
      BY <1>P, <2>1, <2>6, <2>7, <2>8, <2>10, <3>1 DEF LifeOK
  <2> QED BY <1>P, <2>9, <2>10
<1>8. ASSUME NEW p \in Pools, End(p) PROVE LifeOK'
  <2>1. /\ phase[p] = "drain" /\ UNCHANGED <<pc, pool, handle>>
        /\ phase' = [phase EXCEPT ![p] = "done"]
    BY <1>8 DEF End, taskVars
  <2>2. \A q \in Pools : (phase'[q] # "recv") = (phase[q] # "recv")
    BY <1>T, <2>1
  <2>3. \A t \in Tasks : Depends(t)' = Depends(t) /\ FutureAlive("send", t)' = FutureAlive("send", t)
    BY <2>1 DEF Depends, FutureAlive
  <2> QED
    BY <1>P, <2>1, <2>2, <2>3 DEF LifeOK
<1>9. ASSUME NEW p \in Pools, JoinNext(p) PROVE LifeOK'
  BY <1>9, <1>u DEF JoinNext, taskVars
<1>10. CASE ResetCompleted \/ ResetDead
  BY <1>10, <1>u DEF ResetCompleted, ResetDead, queueVars, taskVars
<1>11. CASE (\E wait \in BOOLEAN : Shutdown(wait)) \/ Await
  <2>1. /\ UNCHANGED <<pc, pool, phase>> /\ handle'.at # "open"
        /\ \A t \in Tasks : pc[t] # "counted"
    BY <1>11, <1>H DEF Shutdown, Await, AwaitSender, AwaitRetrySender, queueVars, taskVars, LifeOK
  <2>2. \A t \in Tasks : Depends(t)' = Depends(t) /\ FutureAlive("send", t)' = FutureAlive("send", t)
    BY <2>1 DEF Depends, FutureAlive
  <2> QED
    BY <2>1, <2>2 DEF LifeOK
<1>12. CASE UNCHANGED vars
  BY <1>12, <1>u DEF vars, queueVars, taskVars
<1> QED
  BY <1>1, <1>2, <1>3, <1>4, <1>5, <1>6, <1>7, <1>8, <1>9, <1>10, <1>11, <1>12
     DEF Next, Work, Dispatch

LifeInv == TasksInv /\ LifeOK

THEOREM LifeInvariant == SafeSpec => []LifeInv
<1>1. Init => LifeInv
  BY TypeInit, MessagesInit, TasksInit, LifeInit DEF Init, StartsOnSend, MessagesInv, TasksInv, LifeInv
<1>2. LifeInv /\ [Next]_vars => LifeInv'
  BY TypeStep, StartsOnSendStep, MessagesStep, TasksStep, LifeStep DEF MessagesInv, TasksInv, LifeInv
<1> QED
  BY <1>1, <1>2, PTL DEF SafeSpec

\* The errors of queue and of the worker's send to the retry channel cannot
\* happen: no task is ever dropped by the queue, whatever the limits.
THEOREM NothingIsLost == SafeSpec => []NothingLost
<1>1. LifeInv => NothingLost
  <2> SUFFICES ASSUME LifeInv, NEW t \in Tasks
               PROVE  /\ pc[t] # "lost"
                      /\ pc[t] = "handoff" => phase["retry"] = "recv"
                      /\ pc[t] \in {"counted", "queued", "held"} => phase[pool[t]] = "recv"
    BY DEF NothingLost
  <2>1. LifeOK /\ TaskOK(t) /\ pool[t] \in Pools
    BY DEF LifeInv, TasksInv, MessagesInv, TypeOK, TasksOK
  <2>2. pc[t] = "handoff" => FutureAlive("send", t)
    BY <2>1 DEF TaskOK, FutureAlive, Final, Pools
  <2> QED
    BY <2>1, <2>2 DEF LifeOK, Depends
<1> QED
  BY <1>1, LifeInvariant, PTL

----------------------------------------------------------------------------
(* Limits.  Where a limit is set every future in flight is in the join set *)
(* of its dispatcher, and the join set is as small as the limit.           *)

SlotsOK ==
    \A p \in Pools : Limit(p) > 0 =>
        InFlight(p) \subseteq joinset[p] /\ Cardinality(joinset[p]) <= Limit(p)

LEMMA LimitIsNat == \A p \in Pools : Limit(p) \in Nat
BY CountsAssumption DEF Limit, Pools

LEMMA SlotsInit == Init => SlotsOK
<1> SUFFICES ASSUME Init, NEW p \in Pools, Limit(p) > 0
             PROVE  InFlight(p) \subseteq joinset[p] /\ Cardinality(joinset[p]) <= Limit(p)
  BY DEF SlotsOK
<1>1. joinset[p] = {} /\ InFlight(p) = {}
  BY DEF Init, InFlight, FutureAlive
<1> QED
  BY <1>1, LimitIsNat, FS_EmptySet

\* Nothing new is in flight and the join sets are as before.
LEMMA SlotsFrame ==
    ASSUME SlotsOK, UNCHANGED joinset, \A p \in Pools : InFlight(p)' \subseteq InFlight(p)
    PROVE  SlotsOK'
BY DEF SlotsOK, Limit

LEMMA SlotsStep == TypeOK /\ MessagesNotDuplicated /\ SlotsOK /\ [Next]_vars => SlotsOK'
<1> SUFFICES ASSUME TypeOK, MessagesNotDuplicated, SlotsOK, [Next]_vars
             PROVE  SlotsOK'
  OBVIOUS
<1>T. /\ pc \in [Tasks -> Places] /\ pool \in [Tasks -> Pools]
      /\ joinset \in [Pools -> SUBSET Tasks]
  BY DEF TypeOK
<1>F. \A p \in Pools : IsFiniteSet(joinset[p])
  BY <1>T, TasksAssumption, FS_Subset
<1>u. ASSUME UNCHANGED <<pc, pool, joinset>> PROVE SlotsOK'
  BY <1>u, SlotsFrame DEF InFlight, FutureAlive
<1>1. ASSUME NEW t \in Tasks, Count(t) \/ Send(t) \/ Work(t) PROVE SlotsOK'
  <2>1. /\ UNCHANGED joinset
        /\ \A u \in Tasks \ {t} : pc'[u] = pc[u] /\ pool'[u] = pool[u]
        /\ \/ pc'[t] \in {"counted", "queued", "lost"}
           \/ pool'[t] = pool[t] /\ pc[t] \notin {"new", "counted", "queued", "held"} \cup Final
    BY <1>1, <1>T DEF Count, Send, Work, Unpend, StartWorker, StartRetryWorker, EnterRetry,
       Wake, Attempt, Leave, Settle, HandOff, GoTo, queueVars, Final
  <2>2. ASSUME NEW p \in Pools PROVE InFlight(p)' \subseteq InFlight(p)
    BY <2>1 DEF InFlight, FutureAlive, Final
  <2> QED
    BY <2>1, <2>2, SlotsFrame
<1>2. ASSUME NEW p \in Pools, Recv(p) PROVE SlotsOK'
  <2>1. PICK t \in Tasks : pc' = [pc EXCEPT ![t] = "held"] /\ UNCHANGED <<joinset, pool>>
    BY <1>2, RecvFacts
  <2>2. ASSUME NEW q \in Pools PROVE InFlight(q)' \subseteq InFlight(q)
    BY <1>T, <2>1 DEF InFlight, FutureAlive
  <2> QED
    BY <2>1, <2>2, SlotsFrame
<1>3. ASSUME NEW p \in Pools, JoinNext(p) PROVE SlotsOK'
  <2>1. PICK t \in joinset[p] : /\ FutureDone(p, t)
                                /\ joinset' = [joinset EXCEPT ![p] = @ \ {t}]
                                /\ UNCHANGED <<pc, pool>>
    BY <1>3 DEF JoinNext, taskVars
  <2>2. \A q \in Pools : InFlight(q)' = InFlight(q)
    BY <2>1 DEF InFlight, FutureAlive
  <2>3. t \notin InFlight(p)
    BY <2>1 DEF InFlight, FutureAlive, FutureDone
  <2>4. Cardinality(joinset[p] \ {t}) = Cardinality(joinset[p]) - 1 /\ Cardinality(joinset[p]) \in Nat
    BY <1>F, <2>1, FS_RemoveElement, FS_CardinalityType
  <2>5. joinset'[p] = joinset[p] \ {t} /\ \A q \in Pools \ {p} : joinset'[q] = joinset[q]
    BY <1>T, <2>1
  <2> SUFFICES ASSUME NEW q \in Pools, Limit(q) > 0
               PROVE  InFlight(q)' \subseteq joinset'[q] /\ Cardinality(joinset'[q]) <= Limit(q)
    BY DEF SlotsOK, Limit
  <2>6. InFlight(q) \subseteq joinset[q] /\ Cardinality(joinset[q]) <= Limit(q)
    BY DEF SlotsOK
  <2>7. CASE q = p
    <3>1. InFlight(p)' \subseteq joinset'[p]
      BY <2>2, <2>3, <2>5, <2>6, <2>7
    <3>2. Cardinality(joinset'[p]) <= Limit(p)
      BY <2>4, <2>5, <2>6, <2>7, LimitIsNat
    <3> QED
      BY <2>7, <3>1, <3>2
  <2>8. CASE q # p
    BY <2>2, <2>5, <2>6, <2>8
  <2> QED
    BY <2>7, <2>8
<1>4. ASSUME NEW p \in Pools, Spawn(p) PROVE SlotsOK'
  <2>1. PICK t \in Held(p) : /\ pc' = [pc EXCEPT ![t] = "spawned"]
                             /\ pool' = pool
                             /\ Limit(p) > 0 => joinset' = [joinset EXCEPT ![p] = @ \cup {t}]
                             /\ ~ (Limit(p) > 0) => joinset' = joinset
    BY <1>4 DEF Spawn, GoTo
  <2>2. t \in Tasks /\ pool[t] = p
    BY DEF Held
  <2>3. InFlight(p)' \subseteq InFlight(p) \cup {t}
    BY <1>T, <2>1, <2>2 DEF InFlight, FutureAlive
  <2>4. \A q \in Pools \ {p} : InFlight(q)' \subseteq InFlight(q)
    BY <1>T, <2>1, <2>2 DEF InFlight, FutureAlive
  <2> SUFFICES ASSUME NEW q \in Pools, Limit(q) > 0
               PROVE  InFlight(q)' \subseteq joinset'[q] /\ Cardinality(joinset'[q]) <= Limit(q)
    BY DEF SlotsOK, Limit
  <2>5. InFlight(q) \subseteq joinset[q] /\ Cardinality(joinset[q]) <= Limit(q)
    BY DEF SlotsOK
  <2>6. CASE q = p
    <3>1. joinset'[p] = joinset[p] \cup {t}
      BY <1>T, <2>1, <2>6
    <3>2. Cardinality(joinset[p]) < Limit(p)
      BY <1>4, <2>6, LimitIsNat DEF Spawn, SlotFree
    <3>3. /\ Cardinality(joinset[p]) \in Nat
          /\ \/ Cardinality(joinset[p] \cup {t}) = Cardinality(joinset[p])
             \/ Cardinality(joinset[p] \cup {t}) = Cardinality(joinset[p]) + 1
      BY <1>F, FS_AddElement, FS_CardinalityType
    <3> QED
      BY <2>3, <2>5, <2>6, <3>1, <3>2, <3>3, LimitIsNat
  <2>7. CASE q # p
    <3>1. joinset'[q] = joinset[q]
      BY <1>T, <2>1, <2>7
    <3> QED
      BY <2>4, <2>5, <2>7, <3>1
  <2> QED
    BY <2>6, <2>7
<1>5. ASSUME NEW p \in Pools, Close(p) \/ End(p) PROVE SlotsOK'
  BY <1>5, <1>u DEF Close, End, taskVars
<1>6. CASE ResetCompleted \/ ResetDead \/ (\E wait \in BOOLEAN : Shutdown(wait)) \/ Await
  BY <1>6, <1>u DEF ResetCompleted, ResetDead, Shutdown, Await, AwaitSender, AwaitRetrySender,
     queueVars, taskVars
<1>7. CASE UNCHANGED vars
  BY <1>7, <1>u DEF vars, queueVars, taskVars
<1> QED
  BY <1>1, <1>2, <1>3, <1>4, <1>5, <1>6, <1>7 DEF Next, Dispatch

SlotsInv == LifeInv /\ SlotsOK

THEOREM SlotsInvariant == SafeSpec => []SlotsInv
<1>1. Init => SlotsOK
  BY SlotsInit
<1>2. LifeInv /\ SlotsOK /\ [Next]_vars => SlotsOK'
  BY SlotsStep DEF LifeInv, TasksInv, MessagesInv
<1> QED
  BY <1>1, <1>2, LifeInvariant, PTL DEF SafeSpec, SlotsInv

\* For every limit of workers and retries, no more futures are in flight.
THEOREM LimitsHold == SafeSpec => []InFlightBounded
<1>1. SlotsInv => InFlightBounded
  <2> SUFFICES ASSUME SlotsInv, NEW p \in Pools, Limit(p) > 0
               PROVE  Cardinality(InFlight(p)) <= Limit(p)
    BY DEF InFlightBounded
  <2>1. /\ InFlight(p) \subseteq joinset[p] /\ Cardinality(joinset[p]) <= Limit(p)
        /\ joinset[p] \subseteq Tasks
    BY DEF SlotsInv, SlotsOK, LifeInv, TasksInv, MessagesInv, TypeOK
  <2>2. IsFiniteSet(joinset[p])
    BY <2>1, TasksAssumption, FS_Subset
  <2>3. Cardinality(InFlight(p)) <= Cardinality(joinset[p]) /\ IsFiniteSet(InFlight(p))
    BY <2>1, <2>2, FS_Subset
  <2>4. Cardinality(InFlight(p)) \in Nat /\ Cardinality(joinset[p]) \in Nat
    BY <2>2, <2>3, FS_CardinalityType
  <2> QED
    BY <2>1, <2>3, <2>4, LimitIsNat
<1> QED
  BY <1>1, SlotsInvariant, PTL

----------------------------------------------------------------------------
(* The work counters.  Each step moves at most one task into or out of the *)
(* set a counter stands for, and moves the counter with it.                *)

LEMMA OneMoreOrLess ==
    ASSUME NEW S \in SUBSET Tasks, NEW t \in Tasks
    PROVE  /\ t \notin S => Cardinality(S \cup {t}) = Cardinality(S) + 1
           /\ t \in S => Cardinality(S \ {t}) = Cardinality(S) - 1
BY TasksAssumption, FS_Subset, FS_AddElement, FS_RemoveElement

LEMMA CountersInit == Init => CountersMatchWork
<1> SUFFICES ASSUME Init PROVE CountersMatchWork
  OBVIOUS
<1>1. PendingTasks = {} /\ RunningTasks = {} /\ RetryTasks = {}
  BY DEF Init, PendingTasks, RunningTasks, RetryTasks, Waiting, Retrying
<1> QED
  BY <1>1, FS_EmptySet DEF Init, CountersMatchWork, Counters

LEMMA CountersFrame ==
    ASSUME CountersMatchWork,
           PendingTasks' = PendingTasks, RunningTasks' = RunningTasks, RetryTasks' = RetryTasks,
           \A c \in {"pending", "running", "retries"} : stats'[c] = stats[c]
    PROVE  CountersMatchWork'
BY DEF CountersMatchWork

LEMMA CountersStep == LifeInv /\ CountersMatchWork /\ [Next]_vars => CountersMatchWork'
<1> SUFFICES ASSUME LifeInv, CountersMatchWork, [Next]_vars
             PROVE  CountersMatchWork'
  OBVIOUS
<1>I. TypeOK /\ StartsOnSend /\ MessagesNotDuplicated /\ TasksOK /\ LifeOK
  BY DEF LifeInv, TasksInv, MessagesInv
<1>T. pc \in [Tasks -> Places] /\ pool \in [Tasks -> Pools] /\ stats \in [Counters -> Int]
  BY <1>I DEF TypeOK
<1>C. {"pending", "running", "retries"} \subseteq Counters
  BY DEF Counters
<1>S. PendingTasks \in SUBSET Tasks /\ RunningTasks \in SUBSET Tasks /\ RetryTasks \in SUBSET Tasks
  BY DEF PendingTasks, RunningTasks, RetryTasks
<1>O. ASSUME NEW t \in Tasks, Count(t) \/ Send(t) \/ Work(t)
      PROVE  \A u \in Tasks \ {t} : pc'[u] = pc[u] /\ pool'[u] = pool[u]
  BY <1>O, <1>T DEF Count, Send, Work, Unpend, StartWorker, StartRetryWorker, EnterRetry,
     Wake, Attempt, Leave, Settle, HandOff, GoTo
<1>u. ASSUME UNCHANGED <<pc, pool>>, \A c \in {"pending", "running", "retries"} : stats'[c] = stats[c]
      PROVE  CountersMatchWork'
  BY <1>u, CountersFrame DEF PendingTasks, RunningTasks, RetryTasks
<1>1. ASSUME NEW t \in Tasks, Count(t) PROVE CountersMatchWork'
  <2>1. /\ pc[t] = "new" /\ pool[t] = "send" /\ pool' = pool /\ pc'[t] = "counted"
        /\ stats' = [stats EXCEPT !["pending"] = @ + 1]
    BY <1>1, <1>I, <1>T DEF Count, Add, GoTo, StartsOnSend
  <2>2. PendingTasks' = PendingTasks \cup {t} /\ t \notin PendingTasks
    BY <1>1, <1>O, <2>1 DEF PendingTasks, Waiting
  <2>3. RunningTasks' = RunningTasks /\ RetryTasks' = RetryTasks
    BY <1>1, <1>O, <2>1 DEF RunningTasks, RetryTasks, Waiting, Retrying
  <2> QED
    BY <1>T, <1>C, <1>S, <2>1, <2>2, <2>3, OneMoreOrLess DEF CountersMatchWork
<1>2. ASSUME NEW t \in Tasks, Send(t) PROVE CountersMatchWork'
  <2>1. pc[t] = "counted" /\ pc'[t] = "queued" /\ pool' = pool /\ stats' = stats
    BY <1>2, <1>I, <1>T DEF Send, GoTo, LifeOK
  <2>2. PendingTasks' = PendingTasks /\ RunningTasks' = RunningTasks /\ RetryTasks' = RetryTasks
    BY <1>2, <1>O, <2>1 DEF PendingTasks, RunningTasks, RetryTasks, Waiting, Retrying
  <2> QED
    BY <2>1, <2>2, CountersFrame
<1>3. ASSUME NEW t \in Tasks, Unpend(t) PROVE CountersMatchWork'
  <2>1. /\ pc[t] = "spawned" /\ pool[t] = "send" /\ pool' = pool /\ pc'[t] = "begun"
        /\ stats' = [stats EXCEPT !["pending"] = @ + -1]
    BY <1>3, <1>T DEF Unpend, Add, GoTo
  <2>2. PendingTasks' = PendingTasks \ {t} /\ t \in PendingTasks
    BY <1>3, <1>O, <2>1 DEF Work, PendingTasks, Waiting
  <2>3. RunningTasks' = RunningTasks /\ RetryTasks' = RetryTasks
    BY <1>3, <1>O, <2>1 DEF Work, RunningTasks, RetryTasks, Waiting, Retrying
  <2> QED
    BY <1>T, <1>C, <1>S, <2>1, <2>2, <2>3, OneMoreOrLess DEF CountersMatchWork
<1>4. ASSUME NEW t \in Tasks, StartWorker(t) PROVE CountersMatchWork'
  <2>1. /\ pc[t] = "begun" /\ pool[t] = "send" /\ pool' = pool /\ pc'[t] \in {"sleep", "try"}
        /\ stats' = [stats EXCEPT !["running"] = @ + 1]
    BY <1>4, <1>I, <1>T DEF StartWorker, EnterRetry, Add, GoTo, TasksOK, TaskOK, Pools
  <2>2. RunningTasks' = RunningTasks \cup {t} /\ t \notin RunningTasks
    BY <1>4, <1>O, <2>1 DEF Work, RunningTasks, Retrying
  <2>3. PendingTasks' = PendingTasks /\ RetryTasks' = RetryTasks
    BY <1>4, <1>O, <2>1 DEF Work, PendingTasks, RetryTasks, Waiting, Retrying
  <2> QED
    BY <1>T, <1>C, <1>S, <2>1, <2>2, <2>3, OneMoreOrLess DEF CountersMatchWork
<1>5. ASSUME NEW t \in Tasks, StartRetryWorker(t) \/ Wake(t) \/ Attempt(t)
      PROVE  CountersMatchWork'
  <2>1. /\ pool' = pool /\ stats' = stats /\ pc'[t] \in Retrying
        /\ \/ pc[t] \in Retrying
           \/ pc[t] = "spawned" /\ pool[t] = "retry"
    BY <1>5, <1>T DEF StartRetryWorker, EnterRetry, Wake, Attempt, GoTo, Retrying
  <2>2. PendingTasks' = PendingTasks /\ RunningTasks' = RunningTasks /\ RetryTasks' = RetryTasks
    BY <1>5, <1>O, <2>1 DEF Work, PendingTasks, RunningTasks, RetryTasks, Waiting, Retrying
  <2> QED
    BY <2>1, <2>2, CountersFrame
<1>6. ASSUME NEW t \in Tasks, Leave(t) PROVE CountersMatchWork'
  <2>1. pc[t] \in {"Ok", "Err"} /\ pc'[t] \in {"settleOk", "settleErr"} /\ pool' = pool
    BY <1>6, <1>T DEF Leave, GoTo
  <2>2. PendingTasks' = PendingTasks
    BY <1>6, <1>O, <2>1 DEF Work, PendingTasks, Waiting
  <2>3. CASE pool[t] = "send"
    <3>1. stats' = [stats EXCEPT !["running"] = @ + -1]
      BY <1>6, <2>3 DEF Leave, Add
    <3>2. RunningTasks' = RunningTasks \ {t} /\ t \in RunningTasks
      BY <1>6, <1>O, <2>1, <2>3 DEF Work, RunningTasks, Retrying
    <3>3. RetryTasks' = RetryTasks
      BY <1>6, <1>O, <2>1, <2>3 DEF Work, RetryTasks
    <3> QED
      BY <1>T, <1>C, <1>S, <2>2, <3>1, <3>2, <3>3, OneMoreOrLess DEF CountersMatchWork
  <2>4. CASE pool[t] = "retry"
    <3>1. stats' = [stats EXCEPT !["retries"] = @ + -1]
      BY <1>6, <2>4 DEF Leave, Add
    <3>2. RetryTasks' = RetryTasks \ {t} /\ t \in RetryTasks
      BY <1>6, <1>O, <2>1, <2>4 DEF Work, RetryTasks, Waiting, Retrying
    <3>3. RunningTasks' = RunningTasks
      BY <1>6, <1>O, <2>1, <2>4 DEF Work, RunningTasks
    <3> QED
      BY <1>T, <1>C, <1>S, <2>2, <3>1, <3>2, <3>3, OneMoreOrLess DEF CountersMatchWork
  <2> QED
    BY <1>T, <2>3, <2>4 DEF Pools
<1>7. ASSUME NEW t \in Tasks, Settle(t) PROVE CountersMatchWork'
  <2>1. pool' = pool /\ pc[t] \in {"settleOk", "settleErr"}
        /\ pc'[t] \in {"completed", "dead", "handoff"}
    BY <1>7, <1>T DEF Settle, GoTo
  <2>2. PendingTasks' = PendingTasks /\ RunningTasks' = RunningTasks
    BY <1>7, <1>O, <2>1 DEF Work, PendingTasks, RunningTasks, Waiting, Retrying
  <2>3. CASE pc'[t] = "handoff"
    <3>1. stats' = [stats EXCEPT !["retries"] = @ + 1]
      BY <1>7, <1>T, <2>3 DEF Settle, Add, GoTo
    <3>2. RetryTasks' = RetryTasks \cup {t} /\ t \notin RetryTasks
      BY <1>7, <1>O, <2>1, <2>3 DEF Work, RetryTasks, Waiting, Retrying
    <3> QED
      BY <1>T, <1>C, <1>S, <2>2, <3>1, <3>2, OneMoreOrLess DEF CountersMatchWork
  <2>4. CASE pc'[t] # "handoff"
    <3>1. \A c \in {"pending", "running", "retries"} : stats'[c] = stats[c]
      BY <1>7, <1>T, <1>C, <2>4 DEF Settle, Add, GoTo
    <3>2. RetryTasks' = RetryTasks
      BY <1>7, <1>O, <2>1, <2>4 DEF Work, RetryTasks, Waiting, Retrying
    <3> QED
      BY <2>2, <3>1, <3>2, CountersFrame
  <2> QED
    BY <2>3, <2>4
<1>8. ASSUME NEW t \in Tasks, HandOff(t) PROVE CountersMatchWork'
  <2>1. pc[t] = "handoff" /\ pool[t] = "send" /\ stats' = stats
    BY <1>8, <1>I, <1>T DEF HandOff, TasksOK, TaskOK, Pools
  <2>2. phase["retry"] = "recv"
    BY <1>I, <2>1 DEF LifeOK, FutureAlive, Final
  <2>3. pc'[t] = "queued" /\ pool'[t] = "retry"
    BY <1>8, <1>T, <2>2 DEF HandOff, GoTo
  <2>4. PendingTasks' = PendingTasks /\ RunningTasks' = RunningTasks /\ RetryTasks' = RetryTasks
    BY <1>8, <1>O, <2>1, <2>3 DEF Work, PendingTasks, RunningTasks, RetryTasks, Waiting, Retrying
  <2> QED
    BY <2>1, <2>4, CountersFrame
<1>9. ASSUME NEW p \in Pools, Recv(p) \/ Spawn(p) PROVE CountersMatchWork'
  <2>1. \E t \in Tasks : /\ pc[t] \in Waiting
                         /\ \E x \in {"held", "spawned"} : pc' = [pc EXCEPT ![t] = x]
                         /\ UNCHANGED <<pool, stats>>
    <3>1. CASE Recv(p)
      BY <3>1, <1>I, RecvFacts DEF Waiting
    <3>2. CASE Spawn(p)
      BY <3>2 DEF Spawn, Held, Waiting, GoTo
    <3> QED BY <1>9, <3>1, <3>2
  <2>2. PICK t \in Tasks, x \in {"held", "spawned"} :
           pc[t] \in Waiting /\ pc' = [pc EXCEPT ![t] = x] /\ UNCHANGED <<pool, stats>>
    BY <2>1
  <2>3. pc'[t] \in {"held", "spawned"} /\ \A u \in Tasks \ {t} : pc'[u] = pc[u]
    BY <1>T, <2>2
  <2>4. PendingTasks' = PendingTasks /\ RunningTasks' = RunningTasks /\ RetryTasks' = RetryTasks
    BY <2>2, <2>3 DEF PendingTasks, RunningTasks, RetryTasks, Waiting, Retrying
  <2> QED
    BY <2>2, <2>4, CountersFrame
<1>10. ASSUME NEW p \in Pools, JoinNext(p) \/ Close(p) \/ End(p) PROVE CountersMatchWork'
  BY <1>10, <1>u DEF JoinNext, Close, End, taskVars
<1>11. CASE ResetCompleted \/ ResetDead
  <2>1. UNCHANGED <<pc, pool>> /\ \A c \in {"pending", "running", "retries"} : stats'[c] = stats[c]
    BY <1>11, <1>T, <1>C DEF ResetCompleted, ResetDead, taskVars
  <2> QED
    BY <1>u, <2>1
<1>12. CASE (\E wait \in BOOLEAN : Shutdown(wait)) \/ Await
  BY <1>12, <1>u DEF Shutdown, Await, AwaitSender, AwaitRetrySender, taskVars
<1>13. CASE UNCHANGED vars
  BY <1>13, <1>u DEF vars, taskVars
<1> QED
  BY <1>1, <1>2, <1>3, <1>4, <1>5, <1>6, <1>7, <1>8, <1>9, <1>10, <1>11, <1>12, <1>13
     DEF Next, Work, Dispatch

\* However many workers race, pending, running and retries are the numbers of
\* tasks they stand for; so they are never negative, that is, never wrap.
THEOREM CountersExact == SafeSpec => []CountersMatchWork
<1>1. Init => CountersMatchWork
  BY CountersInit
<1>2. LifeInv /\ CountersMatchWork /\ [Next]_vars => CountersMatchWork'
  BY CountersStep
<1> QED
  BY <1>1, <1>2, LifeInvariant, PTL DEF SafeSpec

----------------------------------------------------------------------------
(* The hourly counters.                                                    *)

Completed == {t \in Tasks : pc[t] = "completed"}
Dead      == {t \in Tasks : pc[t] = "dead"}

OutcomesOK == OutcomesNotOvercounted /\ (hourly.half => hourly.begun # 0)

LEMMA OutcomesInit == Init => OutcomesOK
<1> SUFFICES ASSUME Init PROVE OutcomesOK
  OBVIOUS
<1>1. Completed = {} /\ Dead = {}
  BY DEF Init, Completed, Dead
<1>2. stats["completed"] = 0 /\ stats["dead"] = 0 /\ ~ hourly.half
  BY DEF Init, Counters
<1> QED
  BY <1>1, <1>2, FS_EmptySet DEF OutcomesOK, OutcomesNotOvercounted, Completed, Dead

LEMMA OutcomesFrame ==
    ASSUME OutcomesOK, Completed' = Completed, Dead' = Dead, hourly' = hourly,
           stats'["completed"] = stats["completed"], stats'["dead"] = stats["dead"]
    PROVE  OutcomesOK'
BY DEF OutcomesOK, OutcomesNotOvercounted, Completed, Dead

LEMMA OutcomesStep == LifeInv /\ OutcomesOK /\ [Next]_vars => OutcomesOK'
<1> SUFFICES ASSUME LifeInv, OutcomesOK, [Next]_vars
             PROVE  OutcomesOK'
  OBVIOUS
<1>I. TypeOK /\ MessagesNotDuplicated
  BY DEF LifeInv, TasksInv, MessagesInv
<1>T. /\ pc \in [Tasks -> Places] /\ stats \in [Counters -> Int]
      /\ hourly \in [begun : 0 .. MaxHours, half : BOOLEAN]
  BY <1>I DEF TypeOK
<1>C. {"completed", "dead"} \subseteq Counters
  BY DEF Counters
<1>S. /\ Completed \in SUBSET Tasks /\ Dead \in SUBSET Tasks
      /\ Cardinality(Completed) \in Nat /\ Cardinality(Dead) \in Nat
  BY TasksAssumption, FS_Subset, FS_CardinalityType DEF Completed, Dead
<1>O. /\ stats["completed"] \in 0 .. Cardinality(Completed)
      /\ stats["dead"] \in 0 .. Cardinality(Dead)
      /\ hourly.begun = 0 => /\ stats["completed"] = Cardinality(Completed)
                             /\ stats["dead"] = Cardinality(Dead)
  BY DEF OutcomesOK, OutcomesNotOvercounted, Completed, Dead
<1>u. ASSUME UNCHANGED <<pc, stats, hourly>> PROVE OutcomesOK'
  BY <1>u, OutcomesFrame DEF Completed, Dead
<1>1. ASSUME NEW t \in Tasks,
             Count(t) \/ Send(t) \/ Unpend(t) \/ StartWorker(t) \/ StartRetryWorker(t)
                \/ Wake(t) \/ Attempt(t) \/ Leave(t) \/ HandOff(t)
      PROVE  OutcomesOK'
  <2>1. /\ pc[t] \notin {"completed", "dead"} /\ pc'[t] \notin {"completed", "dead"}
        /\ \A u \in Tasks \ {t} : pc'[u] = pc[u]
        /\ hourly' = hourly
    BY <1>1, <1>T DEF Count, Send, Unpend, StartWorker, StartRetryWorker, EnterRetry, Wake,
       Attempt, Leave, HandOff, GoTo
  <2>2. stats'["completed"] = stats["completed"] /\ stats'["dead"] = stats["dead"]
    BY <1>1, <1>T, <1>C DEF Count, Send, Unpend, StartWorker, StartRetryWorker, Wake, Attempt,
       Leave, HandOff, Add
  <2>3. Completed' = Completed /\ Dead' = Dead
    BY <2>1 DEF Completed, Dead
  <2> QED
    BY <2>1, <2>2, <2>3, OutcomesFrame
<1>2. ASSUME NEW t \in Tasks, Settle(t) PROVE OutcomesOK'
  <2>1. /\ pc[t] \in {"settleOk", "settleErr"} /\ hourly' = hourly
        /\ \A u \in Tasks \ {t} : pc'[u] = pc[u]
    BY <1>2, <1>T DEF Settle, GoTo
  <2>2. CASE pc'[t] = "completed"
    <3>1. stats' = [stats EXCEPT !["completed"] = @ + 1]
      BY <1>2, <1>T, <2>2 DEF Settle, Add, GoTo
    <3>2. Completed' = Completed \cup {t} /\ t \notin Completed /\ Dead' = Dead
      BY <2>1, <2>2 DEF Completed, Dead
    <3>3. Cardinality(Completed') = Cardinality(Completed) + 1
      BY <1>S, <3>2, OneMoreOrLess
    <3>4. stats'["completed"] = stats["completed"] + 1 /\ stats'["dead"] = stats["dead"]
      BY <1>T, <1>C, <3>1
    <3>5. stats'["completed"] \in 0 .. Cardinality(Completed') /\ stats'["dead"] \in 0 .. Cardinality(Dead')
      BY <1>S, <1>O, <3>2, <3>3, <3>4
    <3>6. hourly'.begun = 0 => /\ stats'["completed"] = Cardinality(Completed')
                              /\ stats'["dead"] = Cardinality(Dead')
      BY <1>O, <2>1, <3>2, <3>3, <3>4
    <3>7. hourly'.half => hourly'.begun # 0
      BY <2>1 DEF OutcomesOK
    <3> QED
      BY <3>5, <3>6, <3>7 DEF OutcomesOK, OutcomesNotOvercounted, Completed, Dead
  <2>3. CASE pc'[t] = "dead"
    <3>1. stats' = [stats EXCEPT !["dead"] = @ + 1]
      BY <1>2, <1>T, <2>3 DEF Settle, Add, GoTo
    <3>2. Dead' = Dead \cup {t} /\ t \notin Dead /\ Completed' = Completed
      BY <2>1, <2>3 DEF Completed, Dead
    <3>3. Cardinality(Dead') = Cardinality(Dead) + 1
      BY <1>S, <3>2, OneMoreOrLess
    <3>4. stats'["dead"] = stats["dead"] + 1 /\ stats'["completed"] = stats["completed"]
      BY <1>T, <1>C, <3>1
    <3>5. stats'["dead"] \in 0 .. Cardinality(Dead') /\ stats'["completed"] \in 0 .. Cardinality(Completed')
      BY <1>S, <1>O, <3>2, <3>3, <3>4
    <3>6. hourly'.begun = 0 => /\ stats'["dead"] = Cardinality(Dead')
                              /\ stats'["completed"] = Cardinality(Completed')
      BY <1>O, <2>1, <3>2, <3>3, <3>4
    <3>7. hourly'.half => hourly'.begun # 0
      BY <2>1 DEF OutcomesOK
    <3> QED
      BY <3>5, <3>6, <3>7 DEF OutcomesOK, OutcomesNotOvercounted, Completed, Dead
  <2>4. CASE pc'[t] = "handoff"
    <3>1. stats' = [stats EXCEPT !["retries"] = @ + 1]
      BY <1>2, <1>T, <2>4 DEF Settle, Add, GoTo
    <3>2. Dead' = Dead /\ Completed' = Completed
      BY <2>1, <2>4 DEF Completed, Dead
    <3>3. stats'["completed"] = stats["completed"] /\ stats'["dead"] = stats["dead"]
      BY <1>T, <1>C, <3>1
    <3> QED
      BY <2>1, <3>2, <3>3, OutcomesFrame
  <2>5. pc'[t] \in {"completed", "dead", "handoff"}
    BY <1>2, <1>T DEF Settle, GoTo
  <2> QED
    BY <2>2, <2>3, <2>4, <2>5
<1>3. ASSUME NEW p \in Pools, Recv(p) \/ Spawn(p) PROVE OutcomesOK'
  <2>1. \E t \in Tasks : /\ pc[t] \in Waiting
                         /\ \E x \in {"held", "spawned"} : pc' = [pc EXCEPT ![t] = x]
                         /\ UNCHANGED <<stats, hourly>>
    <3>1. CASE Recv(p)
      BY <3>1, <1>I, RecvFacts DEF Waiting
    <3>2. CASE Spawn(p)
      BY <3>2 DEF Spawn, Held, Waiting, GoTo
    <3> QED BY <1>3, <3>1, <3>2
  <2>2. PICK t \in Tasks, x \in {"held", "spawned"} :
           pc[t] \in Waiting /\ pc' = [pc EXCEPT ![t] = x] /\ UNCHANGED <<stats, hourly>>
    BY <2>1
  <2>3. pc'[t] \in {"held", "spawned"} /\ \A u \in Tasks \ {t} : pc'[u] = pc[u]
    BY <1>T, <2>2
  <2>4. Completed' = Completed /\ Dead' = Dead
    BY <2>2, <2>3 DEF Completed, Dead, Waiting
  <2> QED
    BY <2>2, <2>4, OutcomesFrame
<1>4. ASSUME NEW p \in Pools, JoinNext(p) \/ Close(p) \/ End(p) PROVE OutcomesOK'
  BY <1>4, <1>u DEF JoinNext, Close, End, taskVars
<1>5. CASE ResetCompleted
  <2>1. /\ pc' = pc /\ stats'["completed"] = 0 /\ stats'["dead"] = stats["dead"]
        /\ hourly'.begun # 0
    BY <1>5, <1>T, <1>C, HoursAssumption DEF ResetCompleted, taskVars
  <2>2. Completed' = Completed /\ Dead' = Dead
    BY <2>1 DEF Completed, Dead
  <2> QED
    BY <1>S, <2>1, <2>2 DEF OutcomesOK, OutcomesNotOvercounted, Completed, Dead
<1>6. CASE ResetDead
  <2>1. /\ pc' = pc /\ stats'["dead"] = 0 /\ stats'["completed"] = stats["completed"]
        /\ hourly'.begun = hourly.begun /\ hourly.half /\ ~ hourly'.half
    BY <1>6, <1>T, <1>C DEF ResetDead, taskVars
  <2>2. Completed' = Completed /\ Dead' = Dead /\ hourly'.begun # 0
    BY <2>1 DEF Completed, Dead, OutcomesOK
  <2> QED
    BY <1>S, <2>1, <2>2 DEF OutcomesOK, OutcomesNotOvercounted, Completed, Dead
<1>7. CASE (\E wait \in BOOLEAN : Shutdown(wait)) \/ Await
  BY <1>7, <1>u DEF Shutdown, Await, AwaitSender, AwaitRetrySender, taskVars
<1>8. CASE UNCHANGED vars
  BY <1>8, <1>u DEF vars, taskVars
<1> QED
  BY <1>1, <1>2, <1>3, <1>4, <1>5, <1>6, <1>7, <1>8 DEF Next, Work, Dispatch

\* For any number of hourly resets, the two hourly counters never exceed the
\* outcomes there were, and before the first one they equal them.
THEOREM OutcomesCounted == SafeSpec => []OutcomesNotOvercounted
<1>1. Init => OutcomesOK
  BY OutcomesInit
<1>2. LifeInv /\ OutcomesOK /\ [Next]_vars => OutcomesOK'
  BY OutcomesStep
<1>3. OutcomesOK => OutcomesNotOvercounted
  BY DEF OutcomesOK
<1> QED
  BY <1>1, <1>2, <1>3, LifeInvariant, PTL DEF SafeSpec

----------------------------------------------------------------------------
(* Shutdown.                                                               *)

ShutdownOK ==
    /\ handle.at \in {"awaitRetry", "returned"} => phase["send"] = "done"
    /\ handle.at = "returned" /\ handle.wait => phase["retry"] = "done"
    /\ \A p \in Pools : phase[p] = "done" => joinset[p] = {}

LEMMA ShutdownInit == Init => ShutdownOK
BY DEF Init, ShutdownOK

LEMMA ShutdownStep == LifeInv /\ ShutdownOK /\ [Next]_vars => ShutdownOK'
<1> SUFFICES ASSUME LifeInv, ShutdownOK, [Next]_vars
             PROVE  ShutdownOK'
  OBVIOUS
<1>T. /\ phase \in [Pools -> {"recv", "drain", "done"}] /\ joinset \in [Pools -> SUBSET Tasks]
      /\ handle \in [at : {"open", "awaitSend", "awaitRetry", "returned"}, wait : BOOLEAN]
  BY DEF LifeInv, TasksInv, MessagesInv, TypeOK
<1>P. "send" \in Pools /\ "retry" \in Pools /\ \A p \in Pools : p = "send" \/ p = "retry"
  BY DEF Pools
<1>u. ASSUME UNCHANGED <<phase, joinset, handle>> PROVE ShutdownOK'
  BY <1>u DEF ShutdownOK
<1>1. ASSUME NEW t \in Tasks, Count(t) \/ Send(t) \/ Work(t) PROVE ShutdownOK'
  BY <1>1, <1>u DEF Count, Send, Work, Unpend, StartWorker, StartRetryWorker, EnterRetry,
     Wake, Attempt, Leave, Settle, HandOff, queueVars
<1>2. ASSUME NEW p \in Pools, Recv(p) PROVE ShutdownOK'
  BY <1>2, <1>u DEF Recv
<1>3. ASSUME NEW p \in Pools, JoinNext(p) PROVE ShutdownOK'
  <2>1. PICK t \in joinset[p] : joinset' = [joinset EXCEPT ![p] = @ \ {t}]
    BY <1>3 DEF JoinNext
  <2>2. \A q \in Pools : joinset'[q] \subseteq joinset[q]
    BY <1>T, <2>1
  <2> QED
    BY <1>3, <2>2 DEF JoinNext, ShutdownOK
<1>4. ASSUME NEW p \in Pools, Spawn(p) PROVE ShutdownOK'
  <2>1. PICK t \in Tasks : pool[t] = p /\ pc[t] = "held"
    BY <1>4 DEF Spawn, Held
  <2>2. phase[p] = "recv"
    BY <2>1 DEF LifeInv, LifeOK, Depends
  <2>3. UNCHANGED <<phase, handle>> /\ \A q \in Pools \ {p} : joinset'[q] = joinset[q]
    BY <1>4, <1>T DEF Spawn
  <2> QED
    BY <2>2, <2>3 DEF ShutdownOK
<1>5. ASSUME NEW p \in Pools, Close(p) PROVE ShutdownOK'
  <2>1. /\ phase[p] = "recv" /\ phase' = [phase EXCEPT ![p] = "drain"]
        /\ UNCHANGED <<joinset, handle>>
    BY <1>5 DEF Close
  <2>2. \A q \in Pools : phase'[q] = "done" <=> phase[q] = "done"
    BY <1>T, <2>1
  <2> QED
    BY <1>P, <2>1, <2>2 DEF ShutdownOK
<1>6. ASSUME NEW p \in Pools, End(p) PROVE ShutdownOK'
  <2>1. /\ joinset[p] = {} /\ phase' = [phase EXCEPT ![p] = "done"]
        /\ UNCHANGED <<joinset, handle>>
    BY <1>6 DEF End
  <2>2. phase'[p] = "done" /\ \A q \in Pools \ {p} : phase'[q] = phase[q]
    BY <1>T, <2>1
  <2> QED
    BY <1>P, <2>1, <2>2 DEF ShutdownOK
<1>7. ASSUME NEW wait \in BOOLEAN, Shutdown(wait) PROVE ShutdownOK'
  BY <1>7 DEF Shutdown, queueVars, ShutdownOK
<1>8. CASE AwaitSender
  <2>1. /\ phase["send"] = "done" /\ UNCHANGED <<phase, joinset>>
        /\ handle'.at \in {"awaitRetry", "returned"}
        /\ handle'.at = "returned" => ~ handle'.wait
    BY <1>8, <1>T DEF AwaitSender, queueVars
  <2> QED
    BY <2>1 DEF ShutdownOK
<1>9. CASE AwaitRetrySender
  BY <1>9, <1>T DEF AwaitRetrySender, queueVars, ShutdownOK
<1>10. CASE ResetCompleted \/ ResetDead
  BY <1>10, <1>u DEF ResetCompleted, ResetDead, queueVars
<1>11. CASE UNCHANGED vars
  BY <1>11, <1>u DEF vars, queueVars
<1> QED
  BY <1>1, <1>2, <1>3, <1>4, <1>5, <1>6, <1>7, <1>8, <1>9, <1>10, <1>11
     DEF Next, Dispatch, Await

\* When shutdown returns, what it waited for is over, for all limits: with
\* joined workers the first worker of every task, and with the retries awaited
\* every task, with all work counters at zero.
THEOREM ShutdownLeavesNothing == SafeSpec => []ShutdownDrains
<1>1. Init => ShutdownOK
  BY ShutdownInit
<1>2. LifeInv /\ ShutdownOK /\ [Next]_vars => ShutdownOK'
  BY ShutdownStep
<1>3. SlotsInv /\ ShutdownOK /\ CountersMatchWork => ShutdownDrains
  <2> SUFFICES ASSUME SlotsInv, ShutdownOK, CountersMatchWork, handle.at = "returned"
               PROVE  ShutdownDrains
    BY DEF ShutdownDrains
  <2>1. LifeOK /\ SlotsOK /\ pc \in [Tasks -> Places] /\ pool \in [Tasks -> Pools]
    BY DEF SlotsInv, LifeInv, TasksInv, MessagesInv, TypeOK
  <2>P. "send" \in Pools /\ "retry" \in Pools
    BY DEF Pools
  <2>2. ASSUME NEW p \in Pools, NEW t \in Tasks, pool[t] = p, phase[p] # "recv",
               t \notin InFlight(p)
        PROVE  pc[t] \in {"new"} \cup Final
    <3>1. pc[t] \notin {"counted", "queued", "held"}
      BY <2>1, <2>2 DEF LifeOK, Depends
    <3> QED
      BY <2>2, <3>1 DEF InFlight, FutureAlive
  <2>3. ASSUME NEW p \in Pools, phase[p] = "done", Limit(p) > 0, NEW t \in Tasks, pool[t] = p
        PROVE  pc[t] \in {"new"} \cup Final
    <3>1. InFlight(p) = {}
      BY <2>1, <2>3 DEF SlotsOK, ShutdownOK
    <3> QED
      BY <2>2, <2>3, <3>1
  <2>4. phase["send"] = "done"
    BY DEF ShutdownOK
  <2>5. ASSUME WorkerCount > 0, NEW t \in Tasks, pool[t] = "send"
        PROVE  pc[t] \in {"new"} \cup Final
    BY <2>3, <2>4, <2>5, <2>P DEF Limit
  <2>6. ASSUME handle.wait, NEW t \in Tasks, pool[t] = "send"
        PROVE  pc[t] \in {"new"} \cup Final
    <3>1. ~ FutureAlive("send", t)
      BY <2>1, <2>6 DEF ShutdownOK, LifeOK
    <3> QED
      BY <2>2, <2>4, <2>6, <2>P, <3>1 DEF InFlight
  <2>7. ASSUME handle.wait, RetryCount > 0
        PROVE  /\ \A t \in Tasks : pc[t] \in {"new"} \cup Final
               /\ stats["pending"] = 0 /\ stats["running"] = 0 /\ stats["retries"] = 0
    <3>1. phase["retry"] = "done"
      BY <2>7 DEF ShutdownOK
    <3>2. ASSUME NEW t \in Tasks PROVE pc[t] \in {"new"} \cup Final
      <4>1. CASE pool[t] = "send"
        BY <2>6, <2>7, <4>1
      <4>2. CASE pool[t] = "retry"
        BY <2>3, <2>7, <2>P, <3>1, <4>2 DEF Limit
      <4> QED
        BY <2>1, <4>1, <4>2 DEF Pools
    <3>3. PendingTasks = {} /\ RunningTasks = {} /\ RetryTasks = {}
      BY <3>2 DEF PendingTasks, RunningTasks, RetryTasks, Waiting, Retrying, Final
    <3>4. stats["pending"] = 0 /\ stats["running"] = 0 /\ stats["retries"] = 0
      BY <3>3, FS_EmptySet DEF CountersMatchWork
    <3> QED
      BY <3>2, <3>4
  <2> QED
    BY <2>5, <2>6, <2>7 DEF ShutdownDrains
<1> QED
  BY <1>1, <1>2, <1>3, LifeInvariant, SlotsInvariant, CountersExact, PTL DEF SafeSpec

----------------------------------------------------------------------------
(* The queue implements Delivery.                                          *)

AnsweredOk(t) == attempts[t] > 0 /\ SignAndSend(last[t]) = "Ok"

StatusOf(t) == CASE pc[t] \in {"new", "counted"} -> "new"
                 [] pc[t] \in Final              -> pc[t]
                 [] OTHER                        -> "accepted"

status   == [t \in Tasks |-> StatusOf(t)]
answered == [t \in Tasks |-> AnsweredOk(t)]

LEMMA PromiseInit == Init => Promise!Init
<1> SUFFICES ASSUME Init PROVE Promise!Init
  OBVIOUS
<1>1. \A t \in Tasks : StatusOf(t) = "new"
  BY DEF Init, StatusOf
<1>2. \A t \in Tasks : AnsweredOk(t) = FALSE
  BY DEF Init, AnsweredOk
<1>3. status = [t \in Tasks |-> "new"] /\ answered = [t \in Tasks |-> FALSE]
  BY <1>1, <1>2 DEF status, answered
<1>4. attempts = [t \in Tasks |-> 0]
  BY DEF Init
<1> QED
  BY <1>3, <1>4 DEF Promise!Init, status, answered, StatusOf, AnsweredOk

\* A step that leaves every task in the same status with the same attempts is
\* a stutter of the promise.
LEMMA PromiseStutter ==
    ASSUME UNCHANGED <<attempts, last>>, \A t \in Tasks : StatusOf(t)' = StatusOf(t)
    PROVE  UNCHANGED Promise!vars
<1>1. status' = status
  BY DEF status
<1>2. answered' = answered
  BY DEF answered, AnsweredOk
<1> QED
  BY <1>1, <1>2 DEF Promise!vars, status, answered, StatusOf, AnsweredOk

LEMMA PromiseStep == LifeInv /\ [Next]_vars => [Promise!Next]_(Promise!vars)
<1> SUFFICES ASSUME LifeInv, [Next]_vars
             PROVE  Promise!Next \/ UNCHANGED Promise!vars
  OBVIOUS
<1>I. TypeOK /\ MessagesNotDuplicated /\ TasksOK /\ LifeOK
  BY DEF LifeInv, TasksInv, MessagesInv
<1>T. /\ pc \in [Tasks -> Places] /\ pool \in [Tasks -> Pools] /\ attempts \in [Tasks -> Nat]
      /\ last \in [Tasks -> Answers \cup {NoResponse}]
  BY <1>I DEF TypeOK
<1>u. ASSUME UNCHANGED <<pc, attempts, last>> PROVE UNCHANGED Promise!vars
  BY <1>u, PromiseStutter DEF StatusOf
<1>A. ASSUME NEW t \in Tasks, Promise!Accept(t) \/ Promise!Progress(t) PROVE Promise!Next
  BY <1>A DEF Promise!Next
<1>1. ASSUME NEW t \in Tasks, Count(t) PROVE UNCHANGED Promise!vars
  <2>1. pc[t] = "new" /\ pc'[t] = "counted" /\ \A u \in Tasks \ {t} : pc'[u] = pc[u]
    BY <1>1, <1>T DEF Count, GoTo
  <2>2. \A u \in Tasks : StatusOf(u)' = StatusOf(u)
    BY <2>1 DEF StatusOf, Final
  <2> QED
    BY <1>1, <2>2, PromiseStutter DEF Count
<1>2. ASSUME NEW t \in Tasks, Send(t) PROVE Promise!Accept(t)
  <2>1. pc[t] = "counted" /\ pc' = [pc EXCEPT ![t] = "queued"] /\ UNCHANGED <<attempts, last>>
    BY <1>2, <1>I, <1>T DEF Send, GoTo, LifeOK
  <2>2. status[t] = "new" /\ status' = [status EXCEPT ![t] = "accepted"]
    BY <1>T, <2>1 DEF status, StatusOf, Final
  <2>3. answered' = answered
    BY <2>1 DEF answered, AnsweredOk
  <2> QED
    BY <2>1, <2>2, <2>3 DEF Promise!Accept, status, answered, StatusOf, AnsweredOk
<1>3. ASSUME NEW t \in Tasks,
             Unpend(t) \/ StartWorker(t) \/ StartRetryWorker(t) \/ Wake(t) \/ Leave(t)
      PROVE  UNCHANGED Promise!vars
  <2>1. /\ UNCHANGED <<attempts, last>>
        /\ pc[t] \notin {"new", "counted"} \cup Final
        /\ pc'[t] \notin {"new", "counted"} \cup Final
        /\ \A u \in Tasks \ {t} : pc'[u] = pc[u]
    BY <1>3, <1>T DEF Unpend, StartWorker, StartRetryWorker, EnterRetry, Wake, Leave, GoTo, Final
  <2>2. \A u \in Tasks : StatusOf(u)' = StatusOf(u)
    BY <2>1 DEF StatusOf
  <2> QED
    BY <2>1, <2>2, PromiseStutter
<1>4. ASSUME NEW t \in Tasks, Attempt(t) PROVE Promise!Attempt(t)
  <2>1. /\ pc[t] = "try" /\ attempts' = [attempts EXCEPT ![t] = @ + 1]
        /\ \E x \in {"Ok", "Err", "sleep"} : pc' = [pc EXCEPT ![t] = x]
    BY <1>4 DEF Attempt, GoTo
  <2>2. PICK a \in Answers : last' = [last EXCEPT ![t] = a]
    BY <1>4 DEF Attempt
  <2>3. TaskOK(t)
    BY <1>I DEF TasksOK
  <2>4. attempts[t] \in 0 .. 3
    BY <1>T, <2>1, <2>3 DEF TaskOK, Earlier
  <2>5. status[t] = "accepted" /\ status' = status
    <3>1. \A u \in Tasks : StatusOf(u)' = StatusOf(u)
      BY <1>T, <2>1 DEF StatusOf, Final
    <3> QED
      BY <2>1, <3>1 DEF status, StatusOf, Final
  <2>6. ~ answered[t]
    BY <2>1, <2>3 DEF answered, AnsweredOk, TaskOK, Answered
  <2>7. answered' = [answered EXCEPT ![t] = (SignAndSend(a) = "Ok")]
    <3>1. AnsweredOk(t)' = (SignAndSend(a) = "Ok")
      BY <1>T, <2>1, <2>2, <2>4 DEF AnsweredOk
    <3>2. \A u \in Tasks \ {t} : AnsweredOk(u)' = AnsweredOk(u)
      BY <1>T, <2>1, <2>2 DEF AnsweredOk
    <3> QED
      BY <3>1, <3>2 DEF answered
  <2>8. \E b \in BOOLEAN : answered' = [answered EXCEPT ![t] = b]
    BY <2>7
  <2>9. attempts[t] < 4
    BY <2>4
  <2> QED
    BY <2>1, <2>5, <2>6, <2>8, <2>9
       DEF Promise!Attempt, status, answered, StatusOf, AnsweredOk
<1>5. ASSUME NEW t \in Tasks, Settle(t) PROVE Promise!Next \/ UNCHANGED Promise!vars
  <2>1. UNCHANGED <<attempts, last>> /\ \A u \in Tasks \ {t} : pc'[u] = pc[u]
    BY <1>5, <1>T DEF Settle, GoTo
  <2>2. \/ pc[t] = "settleOk" /\ pc'[t] = "completed"
        \/ pc[t] = "settleErr" /\ pool[t] = "retry" /\ pc'[t] = "dead"
        \/ pc[t] = "settleErr" /\ pc'[t] = "handoff"
    BY <1>5, <1>T DEF Settle, GoTo
  <2>3. TaskOK(t) /\ attempts[t] \in Nat
    BY <1>I, <1>T DEF TasksOK
  <2>4. answered' = answered
    BY <2>1 DEF answered, AnsweredOk
  <2>5. CASE pc[t] = "settleOk" /\ pc'[t] = "completed"
    <3>1. status[t] = "accepted" /\ status' = [status EXCEPT ![t] = "completed"]
      BY <2>1, <2>5 DEF status, StatusOf, Final
    <3>2. answered[t]
      <4>1. attempts[t] > 0 /\ SignAndSend(last[t]) = "Ok"
        BY <2>3, <2>5 DEF TaskOK, Answered, Earlier
      <4> QED
        BY <4>1 DEF answered, AnsweredOk
    <3>3. Promise!Complete(t)
      BY <2>1, <2>4, <3>1, <3>2 DEF Promise!Complete, status, answered, StatusOf, AnsweredOk
    <3> QED
      BY <1>A, <3>3 DEF Promise!Progress
  <2>6. CASE pc[t] = "settleErr" /\ pool[t] = "retry" /\ pc'[t] = "dead"
    <3>1. status[t] = "accepted" /\ status' = [status EXCEPT ![t] = "dead"]
      BY <2>1, <2>6 DEF status, StatusOf, Final
    <3>2. ~ answered[t] /\ attempts[t] = 4
      <4>1. attempts[t] = 4 /\ SignAndSend(last[t]) = "Err"
        BY <2>3, <2>6 DEF TaskOK, Answered, Earlier
      <4>2. ~ AnsweredOk(t)
        BY <4>1 DEF AnsweredOk
      <4> QED
        BY <4>1, <4>2 DEF answered
    <3>3. Promise!GiveUp(t)
      BY <2>1, <2>4, <3>1, <3>2 DEF Promise!GiveUp, status, answered, StatusOf, AnsweredOk
    <3> QED
      BY <1>A, <3>3 DEF Promise!Progress
  <2>7. CASE pc[t] = "settleErr" /\ pc'[t] = "handoff"
    <3>1. \A u \in Tasks : StatusOf(u)' = StatusOf(u)
      BY <2>1, <2>7 DEF StatusOf, Final
    <3> QED
      BY <2>1, <3>1, PromiseStutter
  <2> QED
    BY <2>2, <2>5, <2>6, <2>7
<1>6. ASSUME NEW t \in Tasks, HandOff(t) PROVE UNCHANGED Promise!vars
  <2>1. pc[t] = "handoff" /\ pc'[t] \in {"queued", "lost"} /\ UNCHANGED <<attempts, last>>
        /\ \A u \in Tasks \ {t} : pc'[u] = pc[u]
    BY <1>6, <1>T DEF HandOff, GoTo
  <2>2. pc'[t] = "queued"
    <3>1. pool[t] = "send"
      BY <1>I, <1>T, <2>1 DEF TasksOK, TaskOK, Pools
    <3>2. phase["retry"] = "recv"
      BY <1>I, <2>1, <3>1 DEF LifeOK, FutureAlive, Final
    <3> QED
      BY <1>6, <1>T, <3>2 DEF HandOff, GoTo
  <2>3. \A u \in Tasks : StatusOf(u)' = StatusOf(u)
    BY <2>1, <2>2 DEF StatusOf, Final
  <2> QED
    BY <2>1, <2>3, PromiseStutter
<1>7. ASSUME NEW p \in Pools, Recv(p) \/ Spawn(p) PROVE UNCHANGED Promise!vars
  <2>1. \E t \in Tasks : /\ pc[t] \in Waiting \ {"counted"}
                         /\ \E x \in {"held", "spawned"} : pc' = [pc EXCEPT ![t] = x]
                         /\ UNCHANGED <<attempts, last>>
    <3>1. CASE Recv(p)
      BY <3>1, <1>I, RecvFacts DEF Waiting
    <3>2. CASE Spawn(p)
      BY <3>2 DEF Spawn, Held, Waiting, GoTo
    <3> QED BY <1>7, <3>1, <3>2
  <2>2. \A u \in Tasks : StatusOf(u)' = StatusOf(u)
    BY <1>T, <2>1 DEF StatusOf, Final, Waiting
  <2> QED
    BY <2>1, <2>2, PromiseStutter
<1>8. ASSUME NEW p \in Pools, JoinNext(p) \/ Close(p) \/ End(p) PROVE UNCHANGED Promise!vars
  BY <1>8, <1>u DEF JoinNext, Close, End, taskVars
<1>9. CASE ResetCompleted \/ ResetDead \/ (\E wait \in BOOLEAN : Shutdown(wait)) \/ Await
  BY <1>9, <1>u DEF ResetCompleted, ResetDead, Shutdown, Await, AwaitSender, AwaitRetrySender,
     taskVars
<1>10. CASE UNCHANGED vars
  BY <1>10, <1>u DEF vars, taskVars
<1> QED
  BY <1>A, <1>1, <1>2, <1>3, <1>4, <1>5, <1>6, <1>7, <1>8, <1>9, <1>10
     DEF Next, Work, Dispatch, Promise!Progress

\* The queue implements its abstract specification: accepted once, attempted
\* at most four times and never after an answer, completed or dead for good.
THEOREM PromiseKept == SafeSpec => KeepsPromise
<1>1. Init => Promise!Init
  BY PromiseInit
<1>2. LifeInv /\ [Next]_vars => [Promise!Next]_(Promise!vars)
  BY PromiseStep
<1> QED
  BY <1>1, <1>2, LifeInvariant, PTL DEF SafeSpec, KeepsPromise, Promise!SafeSpec
=============================================================================
