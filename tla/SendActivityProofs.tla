------------------------ MODULE SendActivityProofs ------------------------
(***************************************************************************)
(* Proofs about SendActivity, for any callers, senders, inboxes and lists  *)
(* of them, and any number of keys and attempts.                           *)
(***************************************************************************)
EXTENDS SendActivity, SequenceTheorems, TLAPS

(***************************************************************************)
(* What is true of a call between any two steps: its tasks are the inboxes *)
(* seen so far that are remote and were not refused, and only what was     *)
(* built is handed over.                                                   *)
(***************************************************************************)
CallOK(k) ==
    /\ ToSet(k.inboxes) = k.seen \cup ToSet(k.rest)
    /\ k.refused \subseteq k.seen
    /\ ToSet(k.tasks) = {u \in k.seen : ~ IsLocalUrl(u) /\ u \notin k.refused}
    /\ IsInjective(k.tasks)
    /\ \A u \in ToSet(k.tasks) : u.host \notin IpHosts
    /\ k.handed <= Len(k.tasks)
    /\ k.at \notin {"tasks", "done"} => k.handed = 0
    /\ k.at = "tasks" => k.rest = <<>>
    /\ k.at = "done" /\ k.op = "queue" /\ k.result = "Ok" =>
          k.handed = Len(k.tasks) /\ k.rest = <<>>

CallsOK == \A c \in Callers : CallOK(call[c])

\* The tasks of a call that were handed to the queue.
Handed(k) == IF debug THEN {} ELSE {k.tasks[i] : i \in 1 .. k.handed}

StatusOK == \A c \in Callers : {u \in Urls : status[<<c, u>>] # "new"} = Handed(call[c])

\* Who computes a key does so for the sender of its own call.
CreatorsOK ==
    \A s \in Senders, c \in Callers : creating[s] = c => call[c].sender = s

TaskInv == CallsOK /\ StatusOK

----------------------------------------------------------------------------
LEMMA RangeOfEmpty == ToSet(<<>>) = {}
BY DEF ToSet

LEMMA RangeOfAppend ==
    ASSUME NEW S, NEW s \in Seq(S), NEW e \in S
    PROVE  /\ ToSet(Append(s, e)) = ToSet(s) \cup {e}
           /\ IsInjective(s) /\ e \notin ToSet(s) => IsInjective(Append(s, e))
           /\ Append(s, e) \in Seq(S) /\ Len(Append(s, e)) = Len(s) + 1
<1>1. /\ Append(s, e) \in Seq(S)
      /\ Len(Append(s, e)) = Len(s) + 1
      /\ \A i \in 1 .. Len(s) : Append(s, e)[i] = s[i]
      /\ Append(s, e)[Len(s) + 1] = e
  BY AppendProperties
<1>2. Len(s) \in Nat /\ DOMAIN s = 1 .. Len(s) /\ DOMAIN Append(s, e) = 1 .. Len(s) + 1
  BY <1>1, LenProperties
<1>3. ToSet(Append(s, e)) = ToSet(s) \cup {e}
  <2>1. ASSUME NEW x \in ToSet(Append(s, e)) PROVE x \in ToSet(s) \cup {e}
    <3>1. PICK i \in 1 .. Len(s) + 1 : Append(s, e)[i] = x
      BY <1>2 DEF ToSet
    <3>2. CASE i = Len(s) + 1
      BY <1>1, <3>1, <3>2
    <3>3. CASE i \in 1 .. Len(s)
      BY <1>1, <1>2, <3>1, <3>3 DEF ToSet
    <3> QED
      BY <1>2, <3>2, <3>3
  <2>2. ASSUME NEW x \in ToSet(s) PROVE x \in ToSet(Append(s, e))
    <3>1. PICK i \in 1 .. Len(s) : s[i] = x
      BY <1>2 DEF ToSet
    <3> QED
      BY <1>1, <1>2, <3>1 DEF ToSet
  <2>3. e \in ToSet(Append(s, e))
    BY <1>1, <1>2 DEF ToSet
  <2> QED
    BY <2>1, <2>2, <2>3
<1>4. IsInjective(s) /\ e \notin ToSet(s) => IsInjective(Append(s, e))
  <2> SUFFICES ASSUME IsInjective(s), e \notin ToSet(s),
                      NEW i \in 1 .. Len(s) + 1, NEW j \in 1 .. Len(s) + 1,
                      Append(s, e)[i] = Append(s, e)[j]
               PROVE  i = j
    BY <1>2 DEF IsInjective
  <2>1. \A k \in 1 .. Len(s) : s[k] # e
    BY <1>2 DEF ToSet
  <2>2. CASE i \in 1 .. Len(s) /\ j \in 1 .. Len(s)
    BY <1>1, <1>2, <2>2 DEF IsInjective
  <2> QED
    BY <1>1, <1>2, <2>1, <2>2
<1> QED
  BY <1>1, <1>3, <1>4

LEMMA RangeOfTail ==
    ASSUME NEW S, NEW s \in Seq(S), s # <<>>
    PROVE  /\ ToSet(s) = {Head(s)} \cup ToSet(Tail(s))
           /\ Head(s) \in S /\ Tail(s) \in Seq(S)
<1>1. /\ Head(s) \in S /\ Tail(s) \in Seq(S) /\ Len(Tail(s)) = Len(s) - 1
      /\ \A i \in 1 .. Len(Tail(s)) : Tail(s)[i] = s[i + 1]
      /\ Head(s) = s[1]
  BY HeadTailProperties
<1>2. /\ Len(s) \in Nat /\ Len(s) # 0 /\ DOMAIN s = 1 .. Len(s)
      /\ DOMAIN Tail(s) = 1 .. Len(s) - 1
  BY <1>1, LenProperties, EmptySeq
<1>3. ASSUME NEW x \in ToSet(s) PROVE x \in {Head(s)} \cup ToSet(Tail(s))
  <2>1. PICK i \in 1 .. Len(s) : s[i] = x
    BY <1>2 DEF ToSet
  <2>2. CASE i = 1
    BY <1>1, <2>1, <2>2
  <2>3. CASE i # 1
    <3>1. i - 1 \in 1 .. Len(s) - 1 /\ (i - 1) + 1 = i
      BY <1>2, <2>3
    <3>2. Tail(s)[i - 1] = x
      BY <1>1, <2>1, <3>1
    <3> QED
      BY <1>2, <3>1, <3>2 DEF ToSet
  <2> QED
    BY <2>2, <2>3
<1>4. ASSUME NEW x \in {Head(s)} \cup ToSet(Tail(s)) PROVE x \in ToSet(s)
  <2>1. CASE x = Head(s)
    BY <1>1, <1>2, <2>1 DEF ToSet
  <2>2. CASE x \in ToSet(Tail(s))
    <3>1. PICK i \in 1 .. Len(s) - 1 : Tail(s)[i] = x
      BY <1>2, <2>2 DEF ToSet
    <3>2. i + 1 \in 1 .. Len(s) /\ s[i + 1] = x
      BY <1>1, <1>2, <3>1
    <3> QED
      BY <1>2, <3>2 DEF ToSet
  <2> QED
    BY <1>4, <2>1, <2>2
<1> QED
  BY <1>1, <1>3, <1>4
----------------------------------------------------------------------------
(* Type correctness.                                                       *)

LEMMA IdleTyped == Idle \in Calls
BY SendActivityAssumption, EmptySeq DEF Idle, Calls

LEMMA TypeInit == Init => TypeOK
<1> SUFFICES ASSUME Init PROVE TypeOK
  OBVIOUS
<1>1. Queue!TypeOK
  BY SendActivityAssumption DEF Init, Queue!Init, Queue!TypeOK, Queue!Statuses
<1>2. /\ debug \in BOOLEAN /\ alive \in BOOLEAN /\ keys \in [Senders -> Nat]
      /\ cache \in [Senders -> Nat] /\ creating \in [Senders -> Callers \cup {Nobody}]
      /\ call \in [Callers -> Calls]
  BY IdleTyped DEF Init
<1>3. Idle.given = 0 /\ Idle.key = 0 /\ Idle.at = "idle" /\ Idle.sender \in Senders
  BY SendActivityAssumption DEF Idle
<1> QED
  BY <1>1, <1>2, <1>3 DEF Init, TypeOK

\* One call changes to another record, whose keys are keys of its sender.
LEMMA OneCallTyped ==
    ASSUME TypeOK, NEW c \in Callers, NEW k \in Calls,
           k.given <= keys[k.sender], k.key <= keys[k.sender],
           k.at \in {"urls", "tasks"} => k.key > 0,
           call' = [call EXCEPT ![c] = k],
           UNCHANGED <<debug, keys, cache, alive>>,
           creating' \in [Senders -> Callers \cup {Nobody}], (Queue!TypeOK)'
    PROVE  TypeOK'
<1>1. call' \in [Callers -> Calls]
  BY DEF TypeOK
<1>2. \A d \in Callers : call'[d] = IF d = c THEN k ELSE call[d]
  BY DEF TypeOK
<1> QED
  BY <1>1, <1>2 DEF TypeOK

LEMMA CallTyped ==
    ASSUME TypeOK, NEW c \in Callers
    PROVE  /\ call[c] \in Calls
           /\ keys[call[c].sender] \in Nat /\ call[c].sender \in Senders
           /\ call[c].given <= keys[call[c].sender] /\ call[c].key <= keys[call[c].sender]
           /\ call[c].at \in {"urls", "tasks"} => call[c].key > 0
BY DEF TypeOK, Calls

LEMMA FinishTyped ==
    ASSUME TypeOK, NEW c \in Callers, NEW result \in {"Ok", "Err"}, Finish(c, result),
           UNCHANGED <<debug, keys, cache, creating, alive, deliveryVars>>
    PROVE  TypeOK'
<1> DEFINE k == [call[c] EXCEPT !.at = "done", !.result = result]
<1>1. call' = [call EXCEPT ![c] = k]
  BY DEF Finish, TypeOK
<1>2. k \in Calls /\ k.at = "done" /\ k.sender = call[c].sender
      /\ k.given = call[c].given /\ k.key = call[c].key
  BY CallTyped DEF Calls
<1>3. (Queue!TypeOK)' /\ creating' \in [Senders -> Callers \cup {Nobody}]
  BY DEF TypeOK, Queue!TypeOK, deliveryVars
<1> HIDE DEF k
<1> QED
  BY <1>1, <1>2, <1>3, CallTyped, OneCallTyped
\* What concerns the inboxes and tasks is the same in both.
SameTasks(k, m) ==
    /\ k.op = m.op /\ k.inboxes = m.inboxes /\ k.rest = m.rest /\ k.seen = m.seen
    /\ k.refused = m.refused /\ k.tasks = m.tasks /\ k.handed = m.handed

LEMMA BeginCases ==
    ASSUME TypeOK, NEW c \in Callers, Begin(c)
    PROVE  \E k \in Calls :
              /\ call' = [call EXCEPT ![c] = k]
              /\ k.at = "key" \/ (k.at = "done" /\ k.result = "Err")
              /\ k.given = keys[k.sender] /\ k.key = 0
              /\ k.rest = k.inboxes /\ k.seen = {} /\ k.refused = {} /\ k.tasks = <<>>
              /\ k.handed = 0
<1>1. PICK op \in {"queue", "prepare"}, s \in Senders, inboxes \in InboxLists :
         LET begun == [Idle EXCEPT !.op = op, !.sender = s, !.given = keys[s],
                                   !.inboxes = inboxes, !.rest = inboxes]
         IN  \/ call' = [call EXCEPT ![c] = [begun EXCEPT !.at = "key"]]
             \/ call' = [call EXCEPT ![c] = [begun EXCEPT !.at = "done", !.result = "Err"]]
  BY DEF Begin
<1>2. keys[s] \in Nat /\ inboxes \in Seq(Urls)
  BY SendActivityAssumption DEF TypeOK
<1> DEFINE begun == [Idle EXCEPT !.op = op, !.sender = s, !.given = keys[s],
                                 !.inboxes = inboxes, !.rest = inboxes]
<1>3. /\ begun \in Calls /\ begun.given = keys[begun.sender] /\ begun.key = 0
      /\ begun.rest = begun.inboxes /\ begun.seen = {} /\ begun.refused = {}
      /\ begun.tasks = <<>> /\ begun.handed = 0
  BY <1>2, IdleTyped DEF Idle, Calls
<1>4. \/ call' = [call EXCEPT ![c] = [begun EXCEPT !.at = "key"]]
      \/ call' = [call EXCEPT ![c] = [begun EXCEPT !.at = "done", !.result = "Err"]]
  BY <1>1
<1> HIDE DEF begun
<1>5. CASE call' = [call EXCEPT ![c] = [begun EXCEPT !.at = "key"]]
  <2> DEFINE k == [begun EXCEPT !.at = "key"]
  <2>1. /\ k \in Calls /\ k.at = "key" /\ SameTasks(k, begun)
        /\ k.given = begun.given /\ k.key = begun.key /\ k.sender = begun.sender
    BY <1>3 DEF Calls, SameTasks
  <2>2. call' = [call EXCEPT ![c] = k]
    BY <1>5
  <2> HIDE DEF k
  <2> QED
    BY <1>3, <2>1, <2>2 DEF SameTasks
<1>6. CASE call' = [call EXCEPT ![c] = [begun EXCEPT !.at = "done", !.result = "Err"]]
  <2> DEFINE k == [begun EXCEPT !.at = "done", !.result = "Err"]
  <2>1. /\ k \in Calls /\ k.at = "done" /\ k.result = "Err" /\ SameTasks(k, begun)
        /\ k.given = begun.given /\ k.key = begun.key /\ k.sender = begun.sender
    BY <1>3 DEF Calls, SameTasks
  <2>2. call' = [call EXCEPT ![c] = k]
    BY <1>6
  <2> HIDE DEF k
  <2> QED
    BY <1>3, <2>1, <2>2 DEF SameTasks
<1> QED
  BY <1>4, <1>5, <1>6

LEMMA BeginTyped == ASSUME TypeOK, NEW c \in Callers, Begin(c) PROVE TypeOK'
<1>1. PICK k \in Calls : /\ call' = [call EXCEPT ![c] = k] /\ k.at \in {"key", "done"}
                         /\ k.given = keys[k.sender] /\ k.key = 0
  BY BeginCases
<1>2. /\ (Queue!TypeOK)' /\ creating' \in [Senders -> Callers \cup {Nobody}]
      /\ UNCHANGED <<debug, keys, cache, alive>>
  BY DEF TypeOK, Begin, Queue!TypeOK, deliveryVars
<1>3. keys[k.sender] \in Nat
  BY DEF TypeOK, Calls
<1>4. k.given <= keys[k.sender] /\ k.key <= keys[k.sender] /\ k.at \notin {"urls", "tasks"}
  BY <1>1, <1>3
<1> QED
  BY <1>1, <1>2, <1>4, OneCallTyped

LEMMA GetKeyTyped == ASSUME TypeOK, NEW c \in Callers, GetKey(c) PROVE TypeOK'
<1> DEFINE s == call[c].sender
<1>1. PICK at \in {"urls", "create", "wait"}, key \in Nat :
         /\ call' = [call EXCEPT ![c] = [call[c] EXCEPT !.at = at, !.key = key]]
         /\ key <= keys[s]
         /\ at = "urls" => key > 0
  <2>1. CASE cache[s] # 0 /\ call' = [call EXCEPT ![c].at = "urls", ![c].key = cache[s]]
    <3>1. cache[s] \in Nat /\ cache[s] > 0 /\ cache[s] <= keys[s]
      BY <2>1, CallTyped DEF TypeOK
    <3> QED
      BY <2>1, <3>1 DEF TypeOK
  <2>2. CASE call' = [call EXCEPT ![c].at = "create"] \/ call' = [call EXCEPT ![c].at = "wait"]
    <3>1. call[c].key \in Nat /\ call[c].key <= keys[s] /\ call[c] \in Calls
      BY CallTyped DEF Calls
    <3>2. \A at : [call[c] EXCEPT !.at = at] = [call[c] EXCEPT !.at = at, !.key = call[c].key]
      BY <3>1 DEF Calls
    <3> QED
      BY <2>2, <3>1, <3>2 DEF TypeOK
  <2> QED
    BY <2>1, <2>2 DEF GetKey
<1> DEFINE k == [call[c] EXCEPT !.at = at, !.key = key]
<1>2. k \in Calls /\ k.sender = s /\ k.given = call[c].given /\ k.key = key /\ k.at = at
  BY CallTyped DEF Calls
<1>3. (Queue!TypeOK)' /\ creating' \in [Senders -> Callers \cup {Nobody}]
  BY DEF TypeOK, GetKey, Queue!TypeOK, deliveryVars
<1>4. call' = [call EXCEPT ![c] = k]
  BY <1>1
<1> HIDE DEF k
<1> QED
  BY <1>1, <1>2, <1>3, <1>4, CallTyped, OneCallTyped DEF GetKey

\* What the end of a computation makes of each call.
LEMMA CreateKeyCases ==
    ASSUME TypeOK, NEW c \in Callers, CreateKey(c)
    PROVE  /\ \A d \in Callers \ Sharing(c) : call'[d] = call[d]
           /\ \/ /\ call[c].given # 0
                 /\ cache' = [cache EXCEPT ![call[c].sender] = call[c].given]
                 /\ \A d \in Sharing(c) : call'[d].at = "urls" /\ call'[d].key = call[c].given
              \/ /\ cache' = cache
                 /\ \A d \in Sharing(c) :
                       /\ call'[d].at = "done" /\ call'[d].result = "Err"
                       /\ call'[d].key = call[d].key
           /\ \A d \in Sharing(c) :
                 /\ call[d].sender = call[c].sender /\ call[d].at \in {"create", "wait"}
                 /\ call'[d].sender = call[c].sender
                 /\ call'[d].given = call[d].given /\ SameTasks(call'[d], call[d])
           /\ call' \in [Callers -> Calls]
<1>1. call[c].given \in Nat /\ \A d \in Callers : call[d] \in Calls
  BY CallTyped DEF Calls
<1>2. /\ Sharing(c) \subseteq Callers
      /\ \A d \in Sharing(c) : call[d].sender = call[c].sender /\ call[d].at \in {"create", "wait"}
  BY DEF Sharing, CreateKey, At
<1>3. CASE /\ call[c].given # 0
           /\ cache' = [cache EXCEPT ![call[c].sender] = call[c].given]
           /\ call' = [d \in Callers |->
                 IF d \in Sharing(c) THEN [call[d] EXCEPT !.at = "urls", !.key = call[c].given]
                 ELSE call[d]]
  <2>1. ASSUME NEW d \in Callers
        PROVE  LET k == [call[d] EXCEPT !.at = "urls", !.key = call[c].given]
               IN  /\ k \in Calls /\ k.at = "urls" /\ k.key = call[c].given
                   /\ k.sender = call[d].sender /\ k.given = call[d].given
                   /\ SameTasks(k, call[d])
    BY <1>1 DEF Calls, SameTasks
  <2> QED
    BY <1>1, <1>2, <1>3, <2>1
<1>4. CASE /\ cache' = cache
           /\ call' = [d \in Callers |->
                 IF d \in Sharing(c) THEN [call[d] EXCEPT !.at = "done", !.result = "Err"]
                 ELSE call[d]]
  <2>1. ASSUME NEW d \in Callers
        PROVE  LET k == [call[d] EXCEPT !.at = "done", !.result = "Err"]
               IN  /\ k \in Calls /\ k.at = "done" /\ k.result = "Err" /\ k.key = call[d].key
                   /\ k.sender = call[d].sender /\ k.given = call[d].given
                   /\ SameTasks(k, call[d])
    BY <1>1 DEF Calls, SameTasks
  <2> QED
    BY <1>1, <1>2, <1>4, <2>1
<1> QED
  BY <1>3, <1>4 DEF CreateKey

LEMMA CreateKeyTyped == ASSUME TypeOK, NEW c \in Callers, CreateKey(c) PROVE TypeOK'
<1> DEFINE s == call[c].sender
<1>1. /\ s \in Senders /\ call[c].given \in Nat /\ call[c].given <= keys[s]
      /\ UNCHANGED <<debug, keys, alive, deliveryVars>>
  BY CallTyped DEF Calls, CreateKey
<1>2. cache' \in [Senders -> Nat] /\ \A r \in Senders : cache'[r] <= keys[r]
  BY <1>1, CreateKeyCases DEF TypeOK
<1>3. ASSUME NEW d \in Callers
      PROVE  /\ call'[d].given <= keys[call'[d].sender] /\ call'[d].key <= keys[call'[d].sender]
             /\ call'[d].at \in {"urls", "tasks"} => call'[d].key > 0
  <2>1. CASE d \notin Sharing(c)
    BY <2>1, CreateKeyCases, CallTyped
  <2>2. CASE d \in Sharing(c)
    <3>1. call[d] \in Calls /\ call[d].sender = s /\ call[d].given <= keys[s]
          /\ call[d].key <= keys[s] /\ s = call[c].sender
      BY <2>2, CreateKeyCases, CallTyped
    <3> HIDE DEF s
    <3>2. CASE call[c].given # 0 /\ call'[d].at = "urls" /\ call'[d].key = call[c].given
      BY <1>1, <2>2, <3>1, <3>2, CreateKeyCases DEF s
    <3>3. CASE call'[d].at = "done" /\ call'[d].key = call[d].key
      BY <2>2, <3>1, <3>3, CreateKeyCases DEF s
    <3> QED
      BY <2>2, <3>2, <3>3, CreateKeyCases
  <2> QED
    BY <2>1, <2>2
<1>4. creating' \in [Senders -> Callers \cup {Nobody}] /\ (Queue!TypeOK)'
  BY <1>1 DEF TypeOK, CreateKey, Queue!TypeOK, deliveryVars
<1> QED
  BY <1>1, <1>2, <1>3, <1>4, CreateKeyCases DEF TypeOK
\* What a look at the next inbox makes of a call.
LEMMA CheckInboxCases ==
    ASSUME TypeOK, NEW c \in Callers, CheckInbox(c)
    PROVE  LET me == call[c]
               inbox == Head(me.rest)
           IN  \E k \in Calls :
                  /\ call' = [call EXCEPT ![c] = k]
                  /\ me.rest # <<>> /\ inbox \in Urls
                  /\ me.at = "urls" /\ k.at = "urls" /\ k.op = me.op /\ k.sender = me.sender
                  /\ k.given = me.given /\ k.key = me.key /\ k.inboxes = me.inboxes
                  /\ k.handed = me.handed /\ k.rest = Tail(me.rest)
                  /\ k.seen = me.seen \cup {inbox}
                  /\ \/ /\ inbox \in me.seen \/ IsLocalUrl(inbox)
                        /\ k.tasks = me.tasks /\ k.refused = me.refused
                     \/ /\ inbox \notin me.seen /\ ~ IsLocalUrl(inbox)
                        /\ inbox.host \notin IpHosts
                        /\ k.tasks = Append(me.tasks, inbox) /\ k.refused = me.refused
                     \/ /\ inbox \notin me.seen /\ ~ IsLocalUrl(inbox)
                        /\ k.tasks = me.tasks /\ k.refused = me.refused \cup {inbox}
<1> DEFINE me == call[c]
           inbox == Head(me.rest)
           done == [me EXCEPT !.rest = Tail(@), !.seen = @ \cup {inbox}]
<1>1. me \in Calls /\ me.rest \in Seq(Urls) /\ me.rest # <<>> /\ me.at = "urls"
  BY CallTyped DEF Calls, CheckInbox, At
<1>2. inbox \in Urls /\ Tail(me.rest) \in Seq(Urls)
  BY <1>1, RangeOfTail
<1>3. /\ done \in Calls /\ done.tasks = me.tasks /\ done.refused = me.refused
      /\ done.at = "urls" /\ done.op = me.op /\ done.sender = me.sender
      /\ done.given = me.given /\ done.key = me.key /\ done.inboxes = me.inboxes
      /\ done.handed = me.handed /\ done.rest = Tail(me.rest) /\ done.seen = me.seen \cup {inbox}
  BY <1>1, <1>2 DEF Calls
<1>4. Append(me.tasks, inbox) \in Seq(Urls)
  <2>1. me.tasks \in Seq(Urls)
    BY <1>1 DEF Calls
  <2> QED
    BY <1>2, <2>1, AppendProperties
<1>5. \A resolves : InboxValid(inbox, resolves) /\ ~ IsLocalUrl(inbox) => inbox.host \notin IpHosts
  BY DEF InboxValid, IsLocalUrl, Released!UrlValid, Debugged!UrlValid,
         Released!IsLocalUrl, Debugged!IsLocalUrl
<1>6. \/ /\ inbox \in me.seen \/ IsLocalUrl(inbox)
         /\ call' = [call EXCEPT ![c] = done]
      \/ /\ inbox \notin me.seen /\ ~ IsLocalUrl(inbox)
         /\ \E resolves \in BOOLEAN :
               call' = [call EXCEPT ![c] =
                  IF InboxValid(inbox, resolves)
                  THEN [done EXCEPT !.tasks = Append(@, inbox)]
                  ELSE [done EXCEPT !.refused = @ \cup {inbox}]]
  BY DEF CheckInbox
<1> HIDE DEF me, inbox, done
<1>7. \/ /\ inbox \in me.seen \/ IsLocalUrl(inbox)
         /\ call' = [call EXCEPT ![c] = done]
      \/ /\ inbox \notin me.seen /\ ~ IsLocalUrl(inbox) /\ inbox.host \notin IpHosts
         /\ call' = [call EXCEPT ![c] = [done EXCEPT !.tasks = Append(@, inbox)]]
      \/ /\ inbox \notin me.seen /\ ~ IsLocalUrl(inbox)
         /\ call' = [call EXCEPT ![c] = [done EXCEPT !.refused = @ \cup {inbox}]]
  BY <1>5, <1>6
<1>8. CASE /\ inbox \in me.seen \/ IsLocalUrl(inbox)
           /\ call' = [call EXCEPT ![c] = done]
  BY <1>1, <1>2, <1>3, <1>8 DEF me, inbox
<1>9. CASE /\ inbox \notin me.seen /\ ~ IsLocalUrl(inbox) /\ inbox.host \notin IpHosts
           /\ call' = [call EXCEPT ![c] = [done EXCEPT !.tasks = Append(@, inbox)]]
  <2> DEFINE k == [done EXCEPT !.tasks = Append(@, inbox)]
  <2>1. /\ k \in Calls /\ k.tasks = Append(me.tasks, inbox) /\ k.refused = me.refused
        /\ k.at = "urls" /\ k.op = me.op /\ k.sender = me.sender
        /\ k.given = me.given /\ k.key = me.key /\ k.inboxes = me.inboxes
        /\ k.handed = me.handed /\ k.rest = Tail(me.rest) /\ k.seen = me.seen \cup {inbox}
    BY <1>3, <1>4 DEF Calls
  <2>2. call' = [call EXCEPT ![c] = k]
    BY <1>9
  <2> HIDE DEF k
  <2> QED
    BY <1>1, <1>2, <1>9, <2>1, <2>2 DEF me, inbox
<1>10. CASE /\ inbox \notin me.seen /\ ~ IsLocalUrl(inbox)
            /\ call' = [call EXCEPT ![c] = [done EXCEPT !.refused = @ \cup {inbox}]]
  <2> DEFINE k == [done EXCEPT !.refused = @ \cup {inbox}]
  <2>1. /\ k \in Calls /\ k.tasks = me.tasks /\ k.refused = me.refused \cup {inbox}
        /\ k.at = "urls" /\ k.op = me.op /\ k.sender = me.sender
        /\ k.given = me.given /\ k.key = me.key /\ k.inboxes = me.inboxes
        /\ k.handed = me.handed /\ k.rest = Tail(me.rest) /\ k.seen = me.seen \cup {inbox}
    BY <1>2, <1>3 DEF Calls
  <2>2. call' = [call EXCEPT ![c] = k]
    BY <1>10
  <2> HIDE DEF k
  <2> QED
    BY <1>1, <1>2, <1>10, <2>1, <2>2 DEF me, inbox
<1> QED
  BY <1>7, <1>8, <1>9, <1>10

LEMMA CheckInboxTyped == ASSUME TypeOK, NEW c \in Callers, CheckInbox(c) PROVE TypeOK'
<1>1. PICK k \in Calls :
         /\ call' = [call EXCEPT ![c] = k] /\ k.at = "urls" /\ call[c].at = "urls"
         /\ k.sender = call[c].sender /\ k.given = call[c].given /\ k.key = call[c].key
  BY CheckInboxCases
<1>2. /\ (Queue!TypeOK)' /\ creating' \in [Senders -> Callers \cup {Nobody}]
      /\ UNCHANGED <<debug, keys, cache, alive>>
  BY DEF TypeOK, CheckInbox, Queue!TypeOK, deliveryVars
<1> QED
  BY <1>1, <1>2, CallTyped, OneCallTyped

LEMMA QueueTyped ==
    ASSUME Queue!TypeOK, NEW t \in Tasks, Queue!Accept(t) \/ Queue!Progress(t)
    PROVE  (Queue!TypeOK)'
<1>1. CASE Queue!Accept(t)
  BY <1>1 DEF Queue!TypeOK, Queue!Accept, Queue!Statuses
<1>2. CASE Queue!Attempt(t)
  BY <1>2, SendActivityAssumption DEF Queue!TypeOK, Queue!Attempt
<1>3. CASE Queue!Complete(t) \/ Queue!GiveUp(t)
  BY <1>3 DEF Queue!TypeOK, Queue!Complete, Queue!GiveUp, Queue!Statuses
<1> QED
  BY <1>1, <1>2, <1>3 DEF Queue!Progress

\* The next task of a call that is being handed over.
LEMMA NextTaskTyped ==
    ASSUME TypeOK, NEW c \in Callers, Handling(c)
    PROVE  /\ call[c].handed + 1 \in 1 .. Len(call[c].tasks)
           /\ call[c].tasks \in Seq(Urls) /\ Len(call[c].tasks) \in Nat
           /\ call[c].handed \in Nat /\ call[c].at = "tasks"
           /\ NextTask(c) \in Tasks
<1>1. call[c].handed \in Nat /\ call[c].tasks \in Seq(Urls) /\ Len(call[c].tasks) \in Nat
  BY CallTyped, LenProperties DEF Calls
<1>2. call[c].handed + 1 \in 1 .. Len(call[c].tasks)
  BY <1>1 DEF Handling
<1>3. call[c].tasks[call[c].handed + 1] \in Urls
  BY <1>1, <1>2, ElementOfSeq
<1> QED
  BY <1>1, <1>2, <1>3 DEF Handling, At, NextTask, Tasks

LEMMA HandedTyped ==
    ASSUME TypeOK, NEW c \in Callers, Handling(c),
           call' = [call EXCEPT ![c].handed = @ + 1],
           UNCHANGED <<debug, keys, cache, creating, alive>>, (Queue!TypeOK)'
    PROVE  TypeOK'
<1> DEFINE k == [call[c] EXCEPT !.handed = @ + 1]
<1>1. call' = [call EXCEPT ![c] = k]
  BY DEF TypeOK
<1>2. k \in Calls /\ k.sender = call[c].sender /\ k.given = call[c].given
      /\ k.key = call[c].key /\ k.at = call[c].at
  <2>1. call[c] \in Calls
    BY CallTyped
  <2>2. call[c].handed + 1 \in Nat
    BY NextTaskTyped
  <2> QED
    BY <2>1, <2>2 DEF Calls
<1>3. creating' \in [Senders -> Callers \cup {Nobody}]
  BY DEF TypeOK
<1> HIDE DEF k
<1>4. /\ k.given <= keys[k.sender] /\ k.key <= keys[k.sender]
      /\ k.at \in {"urls", "tasks"} => k.key > 0
  BY <1>2, CallTyped
<1> QED
  BY <1>1, <1>2, <1>3, <1>4, OneCallTyped

LEMMA TypeStep == TypeOK /\ [Next]_vars => TypeOK'
<1> SUFFICES ASSUME TypeOK, [Next]_vars PROVE TypeOK'
  OBVIOUS
<1>u. CASE UNCHANGED vars
  BY <1>u DEF TypeOK, vars, deliveryVars, Queue!TypeOK
<1>1. ASSUME NEW c \in Callers, Begin(c) PROVE TypeOK'
  BY <1>1, BeginTyped
<1>2. ASSUME NEW c \in Callers, GetKey(c) PROVE TypeOK'
  BY <1>2, GetKeyTyped
<1>3. ASSUME NEW c \in Callers, CreateKey(c) PROVE TypeOK'
  BY <1>3, CreateKeyTyped
<1>4. ASSUME NEW c \in Callers, CheckInbox(c) PROVE TypeOK'
  BY <1>4, CheckInboxTyped
<1>5. ASSUME NEW c \in Callers, Built(c) PROVE TypeOK'
  <2>1. CASE Finish(c, "Ok")
    BY <1>5, <2>1, FinishTyped DEF Built
  <2>2. CASE call' = [call EXCEPT ![c].at = "tasks"]
    <3> DEFINE k == [call[c] EXCEPT !.at = "tasks"]
    <3>1. call' = [call EXCEPT ![c] = k]
      BY <2>2 DEF TypeOK
    <3>2. k \in Calls /\ k.sender = call[c].sender /\ k.given = call[c].given
          /\ k.key = call[c].key /\ call[c].at = "urls"
      BY <1>5, CallTyped DEF Calls, Built, At
    <3>3. creating' \in [Senders -> Callers \cup {Nobody}] /\ (Queue!TypeOK)'
      BY <1>5 DEF TypeOK, Built, deliveryVars, Queue!TypeOK
    <3> HIDE DEF k
    <3> QED
      BY <1>5, <3>1, <3>2, <3>3, CallTyped, OneCallTyped DEF Built
  <2> QED
    BY <1>5, <2>1, <2>2 DEF Built
<1>6. ASSUME NEW c \in Callers, HandOver(c) PROVE TypeOK'
  <2>1. CASE call' = [call EXCEPT ![c].handed = @ + 1] /\ Queue!Accept(NextTask(c))
    <3>1. (Queue!TypeOK)'
      BY <1>6, <2>1, NextTaskTyped, QueueTyped DEF HandOver, TypeOK
    <3> QED
      BY <1>6, <2>1, <3>1, HandedTyped DEF HandOver
  <2>2. CASE Finish(c, "Err") /\ UNCHANGED deliveryVars
    BY <1>6, <2>2, FinishTyped DEF HandOver
  <2> QED
    BY <1>6, <2>1, <2>2 DEF HandOver
<1>7. ASSUME NEW c \in Callers, SendDirectly(c) PROVE TypeOK'
  <2>1. (Queue!TypeOK)'
    BY <1>7 DEF SendDirectly, TypeOK, deliveryVars, Queue!TypeOK
  <2> QED
    BY <1>7, <2>1, HandedTyped DEF SendDirectly
<1>8. ASSUME NEW c \in Callers, Return(c) PROVE TypeOK'
  BY <1>8, FinishTyped DEF Return
<1>9. ASSUME NEW s \in Senders, Rotate(s) PROVE TypeOK'
  <2>1. keys' \in [Senders -> Nat] /\ \A r \in Senders : keys[r] \in Nat /\ keys'[r] >= keys[r]
    BY <1>9 DEF Rotate, TypeOK
  <2>2. \A c \in Callers : /\ call[c].sender \in Senders
                           /\ call[c].given \in Nat /\ call[c].key \in Nat
    BY CallTyped DEF Calls
  <2>3. \A c \in Callers : /\ call[c].given <= keys'[call[c].sender]
                           /\ call[c].key <= keys'[call[c].sender]
    BY <2>1, <2>2 DEF TypeOK
  <2>4. \A r \in Senders : cache[r] <= keys'[r]
    BY <2>1 DEF TypeOK
  <2> QED
    BY <1>9, <2>1, <2>3, <2>4 DEF Rotate, TypeOK, deliveryVars, Queue!TypeOK
<1>10. ASSUME NEW s \in Senders, Evict(s) PROVE TypeOK'
  BY <1>10 DEF Evict, TypeOK, deliveryVars, Queue!TypeOK
<1>11. ASSUME NEW t \in Tasks, Deliver(t) PROVE TypeOK'
  <2>1. (Queue!TypeOK)'
    BY <1>11, QueueTyped DEF Deliver, TypeOK
  <2> QED
    BY <1>11, <2>1 DEF Deliver, TypeOK
<1>12. CASE Die
  BY <1>12 DEF Die, TypeOK, deliveryVars, Queue!TypeOK
<1> QED
  BY <1>u, <1>1, <1>2, <1>3, <1>4, <1>5, <1>6, <1>7, <1>8, <1>9, <1>10, <1>11, <1>12
     DEF Next, Step

\* Every reachable state is of its type, whatever the callers, senders and
\* lists of inboxes: among it that keys in the cache and in use were keys of
\* their actors (get_pkey_cached).
THEOREM TypesKept == SafeSpec => []TypeOK
BY TypeInit, TypeStep, PTL DEF SafeSpec
----------------------------------------------------------------------------
(* The keys: who computes one, and who waits for it.                       *)

KeyInv == CreatorsOK /\ WaitersAreServed

\* A step of one call that neither was nor becomes part of a computation.
LEMMA KeysUntouched ==
    ASSUME TypeOK, TypeOK', KeyInv, NEW c \in Callers,
           call[c].at \notin {"create", "wait"}, call'[c].at \notin {"create", "wait"},
           \A d \in Callers \ {c} : call'[d] = call[d], UNCHANGED creating
    PROVE  KeyInv'
<1>1. \A s \in Senders : creating[s] # c
  BY DEF KeyInv, CreatorsOK, WaitersAreServed, At
<1>2. CreatorsOK'
  BY <1>1 DEF KeyInv, CreatorsOK
<1>3. ASSUME NEW d \in Callers
      PROVE  /\ call'[d].at = "wait" =>
                   creating[call'[d].sender] \in Callers /\ creating[call'[d].sender] # d
             /\ call'[d].at = "create" <=> creating[call'[d].sender] = d
  <2>1. CASE d = c
    <3>1. creating[call'[c].sender] # c
      <4>1. call'[c].sender \in Senders
        BY DEF TypeOK, Calls
      <4> QED
        BY <1>1, <4>1
    <3> QED
      BY <2>1, <3>1
  <2>2. CASE d # c
    BY <2>2 DEF KeyInv, WaitersAreServed, At
  <2> QED
    BY <2>1, <2>2
<1> QED
  BY <1>2, <1>3 DEF KeyInv, WaitersAreServed, At
LEMMA KeyStep == TypeOK /\ TypeOK' /\ KeyInv /\ [Next]_vars => KeyInv'
<1> SUFFICES ASSUME TypeOK, TypeOK', KeyInv, [Next]_vars PROVE KeyInv'
  OBVIOUS
<1>s. \A c \in Callers : call[c].sender \in Senders
  BY DEF TypeOK, Calls
<1>u. CASE UNCHANGED <<call, creating>>
  BY <1>u DEF KeyInv, CreatorsOK, WaitersAreServed, At
<1>1. ASSUME NEW c \in Callers, Begin(c) PROVE KeyInv'
  <2>1. /\ call[c].at = "idle" /\ UNCHANGED creating
        /\ call'[c].at \in {"key", "done"} /\ \A d \in Callers \ {c} : call'[d] = call[d]
    BY <1>1, BeginCases DEF Begin, At, TypeOK
  <2> QED
    BY <2>1, KeysUntouched
<1>2. ASSUME NEW c \in Callers, GetKey(c) PROVE KeyInv'
  <2> DEFINE s == call[c].sender
  <2>1. /\ call[c] \in Calls /\ call[c].at = "key" /\ s \in Senders
        /\ creating \in [Senders -> Callers \cup {Nobody}] /\ call \in [Callers -> Calls]
        /\ \A r \in Senders : creating[r] # c
    BY <1>2, CallTyped DEF GetKey, At, KeyInv, CreatorsOK, WaitersAreServed, TypeOK
  <2>2. CASE call' = [call EXCEPT ![c].at = "urls", ![c].key = cache[s]] /\ UNCHANGED creating
    <3>1. call'[c].at = "urls" /\ \A d \in Callers \ {c} : call'[d] = call[d]
      BY <2>1, <2>2 DEF Calls
    <3> QED
      BY <2>1, <2>2, <3>1, KeysUntouched
  <2>3. CASE /\ creating[s] = Nobody /\ creating' = [creating EXCEPT ![s] = c]
             /\ call' = [call EXCEPT ![c].at = "create"]
    <3>1. /\ call'[c].at = "create" /\ call'[c].sender = s
          /\ \A d \in Callers \ {c} : call'[d] = call[d]
          /\ creating'[s] = c /\ \A r \in Senders \ {s} : creating'[r] = creating[r]
      BY <2>1, <2>3 DEF Calls
    <3>2. CreatorsOK'
      BY <2>1, <2>3, <3>1, SendActivityAssumption DEF KeyInv, CreatorsOK
    <3>3. \A d \in Callers \ {c} :
             /\ call[d].sender = s => call[d].at \notin {"wait", "create"}
             /\ call[d].sender \in Senders
      BY <2>3, <1>s, SendActivityAssumption DEF KeyInv, WaitersAreServed, At
    <3>4. WaitersAreServed'
      BY <2>1, <3>1, <3>3 DEF KeyInv, WaitersAreServed, At
    <3> QED
      BY <3>2, <3>4 DEF KeyInv
  <2>4. CASE /\ creating[s] \in Callers /\ UNCHANGED creating
             /\ call' = [call EXCEPT ![c].at = "wait"]
    <3>1. /\ call'[c].at = "wait" /\ call'[c].sender = s
          /\ \A d \in Callers \ {c} : call'[d] = call[d]
      BY <2>1, <2>4 DEF Calls
    <3> QED
      BY <2>1, <2>4, <3>1 DEF KeyInv, CreatorsOK, WaitersAreServed, At
  <2> QED
    BY <1>2, <2>2, <2>3, <2>4 DEF GetKey
<1>3. ASSUME NEW c \in Callers, CreateKey(c) PROVE KeyInv'
  <2> DEFINE s == call[c].sender
  <2>1. /\ call[c].at = "create" /\ s \in Senders /\ creating[s] = c
        /\ creating' = [creating EXCEPT ![s] = Nobody]
        /\ creating \in [Senders -> Callers \cup {Nobody}]
    BY <1>3, CallTyped DEF CreateKey, At, KeyInv, WaitersAreServed, TypeOK
  <2>2. \A d \in Callers : /\ call'[d].sender = call[d].sender
                           /\ d \in Sharing(c) => call'[d].at \in {"urls", "done"}
                           /\ d \notin Sharing(c) => call'[d] = call[d]
    BY <1>3, CreateKeyCases
  <2>3. \A d \in Callers : call[d].at = "wait" /\ call[d].sender = s => d \in Sharing(c)
    BY DEF Sharing, At
  <2>4. c \in Sharing(c)
    BY DEF Sharing
  <2>5. CreatorsOK'
    BY <2>1, <2>2, SendActivityAssumption DEF KeyInv, CreatorsOK
  <2>6. ASSUME NEW d \in Callers
        PROVE  /\ call'[d].at = "wait" =>
                     creating'[call'[d].sender] \in Callers /\ creating'[call'[d].sender] # d
               /\ call'[d].at = "create" <=> creating'[call'[d].sender] = d
    <3>1. CASE d \in Sharing(c)
      <4>1. call[d].sender = s
        BY <3>1 DEF Sharing
      <4>2. call'[d].sender = s /\ call'[d].at \in {"urls", "done"}
        BY <2>2, <3>1, <4>1
      <4> QED
        BY <2>1, <4>2, SendActivityAssumption
    <3>2. CASE d \notin Sharing(c) /\ call[d].sender = s
      <4>1. call[d].at # "wait" /\ call[d].at # "create" /\ call'[d] = call[d]
        BY <2>1, <2>2, <2>3, <2>4, <3>2 DEF KeyInv, WaitersAreServed, At
      <4> QED
        BY <2>1, <3>2, <4>1, SendActivityAssumption
    <3>3. CASE d \notin Sharing(c) /\ call[d].sender # s
      <4>1. call'[d] = call[d] /\ creating'[call[d].sender] = creating[call[d].sender]
        BY <2>1, <2>2, <3>3, <1>s
      <4> QED
        BY <4>1 DEF KeyInv, WaitersAreServed, At
    <3> QED
      BY <3>1, <3>2, <3>3
  <2>7. WaitersAreServed'
    BY <2>6 DEF WaitersAreServed, At
  <2> QED
    BY <2>5, <2>7 DEF KeyInv
<1>4. ASSUME NEW c \in Callers,
             CheckInbox(c) \/ Built(c) \/ HandOver(c) \/ SendDirectly(c) \/ Return(c)
      PROVE  KeyInv'
  <2>1. UNCHANGED creating /\ call[c].at \in {"urls", "tasks"}
    BY <1>4 DEF CheckInbox, Built, HandOver, SendDirectly, Return, Handling, At
  <2>2. (\A d \in Callers \ {c} : call'[d] = call[d]) /\ call'[c].at \in {"urls", "tasks", "done"}
    <3>1. call \in [Callers -> Calls] /\ call[c] \in Calls
      BY CallTyped DEF TypeOK
    <3>2. CASE CheckInbox(c)
      BY <3>1, <3>2, CheckInboxCases
    <3>3. CASE Built(c) \/ Return(c) \/ (HandOver(c) /\ ~ alive)
      BY <3>1, <3>3 DEF Built, Return, HandOver, Finish, Calls
    <3>4. CASE SendDirectly(c) \/ (HandOver(c) /\ alive)
      <4>1. call' = [call EXCEPT ![c].handed = @ + 1] /\ Handling(c)
        BY <3>4 DEF SendDirectly, HandOver
      <4> QED
        BY <2>1, <3>1, <4>1, NextTaskTyped DEF Calls
    <3> QED
      BY <1>4, <3>2, <3>3, <3>4
  <2> QED
    BY <2>1, <2>2, KeysUntouched
<1>5. ASSUME NEW s \in Senders, Rotate(s) \/ Evict(s) PROVE UNCHANGED <<call, creating>>
  BY <1>5 DEF Rotate, Evict
<1>6. ASSUME NEW t \in Tasks, Deliver(t) PROVE UNCHANGED <<call, creating>>
  BY <1>6 DEF Deliver
<1>7. ASSUME Die PROVE UNCHANGED <<call, creating>>
  BY <1>7 DEF Die
<1> QED
  BY <1>u, <1>1, <1>2, <1>3, <1>4, <1>5, <1>6, <1>7 DEF Next, Step, vars

LEMMA KeyInit == Init => KeyInv
BY SendActivityAssumption DEF Init, Idle, KeyInv, CreatorsOK, WaitersAreServed, At

\* For any number of callers and senders: whoever waits for a key waits for a
\* computation that one other caller is at, so none waits for ever
\* (get_pkey_cached).
THEOREM NobodyWaitsInVain == SafeSpec => []WaitersAreServed
<1>1. Init => TypeOK /\ KeyInv
  BY TypeInit, KeyInit
<1>2. TypeOK /\ KeyInv /\ [Next]_vars => (TypeOK /\ KeyInv)'
  BY TypeStep, KeyStep
<1>3. TypeOK /\ KeyInv => WaitersAreServed
  BY DEF KeyInv
<1> QED
  BY <1>1, <1>2, <1>3, PTL DEF SafeSpec
----------------------------------------------------------------------------
(* The tasks: which are built, and which the queue is given.               *)

\* A step of one call that hands nothing over.
LEMMA TasksUntouched ==
    ASSUME TypeOK, TaskInv, NEW c \in Callers, NEW k \in Calls, CallOK(k),
           call' = [call EXCEPT ![c] = k], UNCHANGED <<debug, status>>,
           Handed(k) = Handed(call[c])
    PROVE  TaskInv'
<1>1. \A d \in Callers : call'[d] = IF d = c THEN k ELSE call[d]
  BY DEF TypeOK
<1>2. \A d \in Callers : CallOK(call'[d])
  BY <1>1 DEF TaskInv, CallsOK
<1>3. \A d \in Callers : Handed(call[d])' = Handed(call[d])
  <2>1. \A d \in Callers : Handed(call'[d]) = Handed(call[d])
    BY <1>1
  <2> QED
    BY <2>1 DEF Handed
<1> QED
  BY <1>2, <1>3 DEF TaskInv, CallsOK, CallOK, StatusOK

LEMMA NoneHanded ==
    ASSUME NEW k, k.handed = 0
    PROVE  Handed(k) = {}
BY DEF Handed

LEMMA CallOKIs == ASSUME TaskInv, NEW c \in Callers PROVE CallOK(call[c])
BY DEF TaskInv, CallsOK

LEMMA BeginTasks ==
    ASSUME TypeOK, TaskInv, NEW c \in Callers, Begin(c)
    PROVE  TaskInv'
<1>1. PICK k \in Calls :
              /\ call' = [call EXCEPT ![c] = k]
              /\ k.at = "key" \/ (k.at = "done" /\ k.result = "Err")
              /\ k.rest = k.inboxes /\ k.seen = {} /\ k.refused = {} /\ k.tasks = <<>>
              /\ k.handed = 0
  BY BeginCases
<1>2. CallOK(k)
  <2>1. ToSet(k.tasks) = {} /\ IsInjective(k.tasks) /\ Len(k.tasks) = 0
    BY <1>1, RangeOfEmpty DEF IsInjective
  <2> QED
    BY <1>1, <2>1 DEF CallOK
<1>3. call[c].handed = 0 /\ UNCHANGED <<debug, status>>
  BY CallOKIs DEF CallOK, Begin, At, deliveryVars
<1> QED
  BY <1>1, <1>2, <1>3, NoneHanded, TasksUntouched

LEMMA CheckInboxTasks ==
    ASSUME TypeOK, TaskInv, NEW c \in Callers, CheckInbox(c)
    PROVE  TaskInv'
<1> DEFINE me == call[c]
           inbox == Head(me.rest)
<1>1. PICK k \in Calls :
         /\ call' = [call EXCEPT ![c] = k]
         /\ me.rest # <<>> /\ inbox \in Urls
         /\ me.at = "urls" /\ k.at = "urls" /\ k.inboxes = me.inboxes
         /\ k.handed = me.handed /\ k.rest = Tail(me.rest)
         /\ k.seen = me.seen \cup {inbox}
         /\ \/ /\ inbox \in me.seen \/ IsLocalUrl(inbox)
               /\ k.tasks = me.tasks /\ k.refused = me.refused
            \/ /\ inbox \notin me.seen /\ ~ IsLocalUrl(inbox)
               /\ inbox.host \notin IpHosts
               /\ k.tasks = Append(me.tasks, inbox) /\ k.refused = me.refused
            \/ /\ inbox \notin me.seen /\ ~ IsLocalUrl(inbox)
               /\ k.tasks = me.tasks /\ k.refused = me.refused \cup {inbox}
  BY CheckInboxCases
<1>2. /\ CallOK(me) /\ me.handed = 0
      /\ me.rest \in Seq(Urls) /\ me.tasks \in Seq(Urls) /\ UNCHANGED <<debug, status>>
  BY <1>1, CallOKIs, CallTyped DEF CallOK, Calls, CheckInbox, deliveryVars
<1>3. ToSet(me.rest) = {inbox} \cup ToSet(k.rest)
  BY <1>1, <1>2, RangeOfTail
<1>4. ToSet(k.inboxes) = k.seen \cup ToSet(k.rest) /\ k.refused \subseteq k.seen
  BY <1>1, <1>2, <1>3 DEF CallOK
<1>5. /\ ToSet(k.tasks) = {u \in k.seen : ~ IsLocalUrl(u) /\ u \notin k.refused}
      /\ IsInjective(k.tasks) /\ Len(k.tasks) \in Nat
      /\ \A u \in ToSet(k.tasks) : u.host \notin IpHosts
  <2>1. CASE k.tasks = me.tasks
    <3>1. Len(me.tasks) \in Nat
      BY <1>2, LenProperties
    <3> QED
      BY <1>1, <1>2, <2>1, <3>1 DEF CallOK
  <2>2. CASE /\ inbox \notin me.seen /\ ~ IsLocalUrl(inbox) /\ inbox.host \notin IpHosts
             /\ k.tasks = Append(me.tasks, inbox) /\ k.refused = me.refused
    <3>1. inbox \notin ToSet(me.tasks) /\ inbox \notin me.refused
      BY <1>2, <2>2 DEF CallOK
    <3>2. ToSet(k.tasks) = ToSet(me.tasks) \cup {inbox} /\ IsInjective(k.tasks) /\ Len(k.tasks) \in Nat
      BY <1>1, <1>2, <2>2, <3>1, RangeOfAppend, LenProperties DEF CallOK
    <3> HIDE DEF inbox, me
    <3> QED
      BY <1>1, <1>2, <2>2, <3>1, <3>2 DEF CallOK
  <2> QED
    BY <1>1, <2>1, <2>2
<1>6. CallOK(k)
  BY <1>1, <1>2, <1>4, <1>5 DEF CallOK
<1> QED
  BY <1>1, <1>2, <1>6, NoneHanded, TasksUntouched

\* Steps that only say where a call is or with what result it has ended.
LEMMA SameTasksKeep ==
    ASSUME NEW k, NEW m, SameTasks(k, m), CallOK(m),
           k.at \notin {"tasks", "done"} => m.handed = 0,
           k.at = "tasks" => m.rest = <<>>,
           k.at = "done" /\ k.op = "queue" /\ k.result = "Ok" =>
              m.handed = Len(m.tasks) /\ m.rest = <<>>
    PROVE  CallOK(k) /\ Handed(k) = Handed(m)
BY DEF SameTasks, CallOK, Handed

LEMMA GetKeyTasks ==
    ASSUME TypeOK, TaskInv, NEW c \in Callers, GetKey(c)
    PROVE  TaskInv'
<1>1. call[c] \in Calls /\ call[c].at = "key" /\ UNCHANGED <<debug, status>>
  BY CallTyped DEF GetKey, At, deliveryVars
<1>2. PICK k \in Calls : /\ call' = [call EXCEPT ![c] = k] /\ SameTasks(k, call[c])
                         /\ k.at \in {"urls", "create", "wait"}
  <2>1. CASE call' = [call EXCEPT ![c].at = "urls", ![c].key = cache[call[c].sender]]
    <3> DEFINE k == [call[c] EXCEPT !.at = "urls", !.key = cache[call[c].sender]]
    <3>1. cache[call[c].sender] \in Nat
      BY CallTyped DEF TypeOK
    <3>2. k \in Calls /\ SameTasks(k, call[c]) /\ k.at = "urls"
      BY <1>1, <3>1 DEF Calls, SameTasks
    <3>3. call' = [call EXCEPT ![c] = k]
      BY <2>1 DEF TypeOK
    <3> HIDE DEF k
    <3> QED
      BY <3>2, <3>3
  <2>2. ASSUME NEW at \in {"create", "wait"}, call' = [call EXCEPT ![c].at = at]
        PROVE  \E k \in Calls : /\ call' = [call EXCEPT ![c] = k] /\ SameTasks(k, call[c])
                                /\ k.at \in {"urls", "create", "wait"}
    <3> DEFINE k == [call[c] EXCEPT !.at = at]
    <3>1. k \in Calls /\ SameTasks(k, call[c]) /\ k.at = at
      BY <1>1 DEF Calls, SameTasks
    <3>2. call' = [call EXCEPT ![c] = k]
      BY <2>2 DEF TypeOK
    <3> HIDE DEF k
    <3> QED
      BY <3>1, <3>2
  <2> QED
    BY <2>1, <2>2 DEF GetKey
<1>3. call[c].handed = 0 /\ CallOK(call[c])
  BY <1>1, CallOKIs DEF CallOK
<1>4. CallOK(k) /\ Handed(k) = Handed(call[c])
  BY <1>2, <1>3, SameTasksKeep
<1> QED
  BY <1>1, <1>2, <1>4, TasksUntouched

LEMMA CreateKeyTasks ==
    ASSUME TypeOK, TaskInv, NEW c \in Callers, CreateKey(c)
    PROVE  TaskInv'
<1>1. \A d \in Callers : CallOK(call'[d]) /\ Handed(call'[d]) = Handed(call[d])
  <2>1. ASSUME NEW d \in Callers, d \in Sharing(c)
        PROVE  CallOK(call'[d]) /\ Handed(call'[d]) = Handed(call[d])
    <3>1. /\ SameTasks(call'[d], call[d]) /\ call[d].at \in {"create", "wait"}
          /\ call'[d].at = "urls" \/ (call'[d].at = "done" /\ call'[d].result = "Err")
      BY <2>1, CreateKeyCases
    <3>2. CallOK(call[d]) /\ call[d].handed = 0
      BY <3>1, CallOKIs DEF CallOK
    <3> QED
      BY <3>1, <3>2, SameTasksKeep
  <2>2. ASSUME NEW d \in Callers, d \notin Sharing(c)
        PROVE  CallOK(call'[d]) /\ Handed(call'[d]) = Handed(call[d])
    BY <2>2, CreateKeyCases, CallOKIs
  <2> QED
    BY <2>1, <2>2
<1>2. UNCHANGED <<debug, status>>
  BY DEF CreateKey, deliveryVars
<1>3. \A d \in Callers : Handed(call[d])' = Handed(call[d])
  BY <1>1, <1>2 DEF Handed
<1> QED
  BY <1>1, <1>2, <1>3 DEF TaskInv, CallsOK, CallOK, StatusOK

\* A call ends, in one of the three ways there are at that point.
LEMMA FinishTasks ==
    ASSUME TypeOK, TaskInv, NEW c \in Callers, NEW result \in {"Ok", "Err"},
           Finish(c, result), UNCHANGED <<debug, status>>,
           call[c].op = "queue" /\ result = "Ok" =>
              call[c].handed = Len(call[c].tasks) /\ call[c].rest = <<>>
    PROVE  TaskInv'
<1> DEFINE k == [call[c] EXCEPT !.at = "done", !.result = result]
<1>1. k \in Calls /\ SameTasks(k, call[c]) /\ k.at = "done" /\ k.result = result
  BY CallTyped DEF Calls, SameTasks
<1>2. call' = [call EXCEPT ![c] = k]
  BY DEF Finish, TypeOK
<1> HIDE DEF k
<1>3. CallOK(k) /\ Handed(k) = Handed(call[c])
  BY <1>1, CallOKIs, SameTasksKeep DEF SameTasks
<1> QED
  BY <1>1, <1>2, <1>3, TasksUntouched
LEMMA BuiltTasks ==
    ASSUME TypeOK, TaskInv, NEW c \in Callers, Built(c)
    PROVE  TaskInv'
<1>1. /\ call[c] \in Calls /\ call[c].at = "urls" /\ call[c].rest = <<>>
      /\ CallOK(call[c]) /\ call[c].handed = 0 /\ UNCHANGED <<debug, status>>
  BY CallTyped, CallOKIs DEF Built, At, CallOK, deliveryVars
<1>2. CASE call[c].op = "prepare" /\ Finish(c, "Ok")
  BY <1>1, <1>2, FinishTasks
<1>3. CASE call' = [call EXCEPT ![c].at = "tasks"]
  <2> DEFINE k == [call[c] EXCEPT !.at = "tasks"]
  <2>1. k \in Calls /\ SameTasks(k, call[c]) /\ k.at = "tasks"
    BY <1>1 DEF Calls, SameTasks
  <2>2. call' = [call EXCEPT ![c] = k]
    BY <1>3 DEF TypeOK
  <2> HIDE DEF k
  <2>3. CallOK(k) /\ Handed(k) = Handed(call[c])
    BY <1>1, <2>1, SameTasksKeep
  <2> QED
    BY <1>1, <2>1, <2>2, <2>3, TasksUntouched
<1> QED
  BY <1>2, <1>3 DEF Built

\* One more task is dealt with.
LEMMA HandedCases ==
    ASSUME TypeOK, TaskInv, NEW c \in Callers, Handling(c),
           call' = [call EXCEPT ![c].handed = @ + 1]
    PROVE  \E k \in Calls :
              /\ call' = [call EXCEPT ![c] = k] /\ CallOK(k)
              /\ k.tasks = call[c].tasks /\ k.handed = call[c].handed + 1
<1> DEFINE k == [call[c] EXCEPT !.handed = call[c].handed + 1]
<1>1. /\ call[c] \in Calls /\ call[c].handed + 1 \in 1 .. Len(call[c].tasks)
      /\ call[c].handed + 1 \in Nat /\ call[c].at = "tasks" /\ CallOK(call[c])
      /\ Len(call[c].tasks) \in Nat
  BY CallTyped, NextTaskTyped, CallOKIs
<1>2. /\ k \in Calls /\ k.at = "tasks" /\ k.inboxes = call[c].inboxes
      /\ k.rest = call[c].rest /\ k.seen = call[c].seen /\ k.refused = call[c].refused
      /\ k.tasks = call[c].tasks /\ k.handed = call[c].handed + 1
  BY <1>1 DEF Calls
<1>3. call' = [call EXCEPT ![c] = k]
  BY DEF TypeOK
<1> HIDE DEF k
<1>4. CallOK(k)
  BY <1>1, <1>2 DEF CallOK
<1> QED
  BY <1>2, <1>3, <1>4

LEMMA HandOverTasks ==
    ASSUME TypeOK, TaskInv, NEW c \in Callers, HandOver(c)
    PROVE  TaskInv'
<1>1. ~ debug /\ UNCHANGED debug /\ Handling(c)
  BY DEF HandOver
<1>2. CASE call' = [call EXCEPT ![c].handed = @ + 1] /\ Queue!Accept(NextTask(c))
  <2>1. PICK k \in Calls : /\ call' = [call EXCEPT ![c] = k] /\ CallOK(k)
                           /\ k.tasks = call[c].tasks /\ k.handed = call[c].handed + 1
    BY <1>1, <1>2, HandedCases
  <2>2. \A d \in Callers : call'[d] = IF d = c THEN k ELSE call[d]
    BY <2>1 DEF TypeOK
  <2> DEFINE new == call[c].tasks[call[c].handed + 1]
  <2>3. /\ call[c].handed \in Nat /\ NextTask(c) = <<c, new>> /\ <<c, new>> \in Tasks
        /\ status \in [Tasks -> Queue!Statuses] /\ new \in Urls
    BY <1>1, NextTaskTyped DEF NextTask, TypeOK, Queue!TypeOK, Tasks
  <2>4. status' = [status EXCEPT ![<<c, new>>] = "accepted"]
    BY <1>2, <2>3 DEF Queue!Accept
  <2>5. {k.tasks[i] : i \in 1 .. k.handed} = {call[c].tasks[i] : i \in 1 .. call[c].handed} \cup {new}
    <3>1. 1 .. k.handed = (1 .. call[c].handed) \cup {call[c].handed + 1}
      BY <2>1, <2>3
    <3> QED
      BY <2>1, <3>1
  <2> HIDE DEF new
  <2>6. ASSUME NEW d \in Callers, NEW u \in Urls
        PROVE  status'[<<d, u>>] = IF d = c /\ u = new THEN "accepted" ELSE status[<<d, u>>]
    BY <2>3, <2>4 DEF Tasks
  <2>7. ASSUME NEW d \in Callers
        PROVE  {u \in Urls : status'[<<d, u>>] # "new"} = Handed(call'[d])
    <3>1. {u \in Urls : status[<<d, u>>] # "new"} = {call[d].tasks[i] : i \in 1 .. call[d].handed}
      BY <1>1 DEF TaskInv, StatusOK, Handed
    <3>2. Handed(call'[d]) = {call'[d].tasks[i] : i \in 1 .. call'[d].handed}
      BY <1>1 DEF Handed
    <3>3. CASE d = c
      <4>1. {u \in Urls : status'[<<c, u>>] # "new"} = {u \in Urls : status[<<c, u>>] # "new"} \cup {new}
        BY <2>3, <2>6
      <4> QED
        BY <2>2, <2>5, <3>1, <3>2, <3>3, <4>1
    <3>4. CASE d # c
      BY <2>2, <2>6, <3>1, <3>2, <3>4
    <3> QED
      BY <3>3, <3>4
  <2>8. \A d \in Callers : Handed(call[d])' = Handed(call'[d])
    BY <1>1 DEF Handed
  <2>9. \A d \in Callers : CallOK(call'[d])
    BY <2>1, <2>2 DEF TaskInv, CallsOK
  <2> QED
    BY <2>7, <2>8, <2>9 DEF TaskInv, CallsOK, CallOK, StatusOK
<1>3. CASE Finish(c, "Err") /\ UNCHANGED deliveryVars
  BY <1>1, <1>3, FinishTasks DEF deliveryVars
<1> QED
  BY <1>2, <1>3 DEF HandOver

LEMMA TaskStep == TypeOK /\ TaskInv /\ [Next]_vars => TaskInv'
<1> SUFFICES ASSUME TypeOK, TaskInv, [Next]_vars PROVE TaskInv'
  OBVIOUS
<1>u. CASE UNCHANGED <<debug, call, status>>
  BY <1>u DEF TaskInv, CallsOK, CallOK, StatusOK, Handed
<1>1. ASSUME NEW c \in Callers, Begin(c) PROVE TaskInv'
  BY <1>1, BeginTasks
<1>2. ASSUME NEW c \in Callers, GetKey(c) PROVE TaskInv'
  BY <1>2, GetKeyTasks
<1>3. ASSUME NEW c \in Callers, CreateKey(c) PROVE TaskInv'
  BY <1>3, CreateKeyTasks
<1>4. ASSUME NEW c \in Callers, CheckInbox(c) PROVE TaskInv'
  BY <1>4, CheckInboxTasks
<1>5. ASSUME NEW c \in Callers, Built(c) PROVE TaskInv'
  BY <1>5, BuiltTasks
<1>6. ASSUME NEW c \in Callers, HandOver(c) PROVE TaskInv'
  BY <1>6, HandOverTasks
<1>7. ASSUME NEW c \in Callers, SendDirectly(c) PROVE TaskInv'
  <2>1. PICK k \in Calls : call' = [call EXCEPT ![c] = k] /\ CallOK(k)
    BY <1>7, HandedCases DEF SendDirectly
  <2>2. debug /\ UNCHANGED <<debug, status>>
    BY <1>7 DEF SendDirectly, deliveryVars
  <2>3. Handed(k) = Handed(call[c])
    BY <2>2 DEF Handed
  <2> QED
    BY <2>1, <2>2, <2>3, TasksUntouched
<1>8. ASSUME NEW c \in Callers, Return(c) PROVE TaskInv'
  <2>1. call[c].handed \in Nat /\ Len(call[c].tasks) \in Nat
    BY CallTyped, LenProperties DEF Calls
  <2>2. call[c].handed = Len(call[c].tasks) /\ call[c].rest = <<>>
    BY <1>8, <2>1, CallOKIs DEF Return, Handling, At, CallOK
  <2> QED
    BY <1>8, <2>2, FinishTasks DEF Return, deliveryVars
<1>9. ASSUME NEW s \in Senders, Rotate(s) \/ Evict(s) PROVE UNCHANGED <<debug, call, status>>
  BY <1>9 DEF Rotate, Evict, deliveryVars
<1>10. ASSUME NEW t \in Tasks, Deliver(t) PROVE TaskInv'
  <2>1. UNCHANGED <<debug, call>>
    BY <1>10 DEF Deliver
  <2>2. \A r \in Tasks : status'[r] # "new" <=> status[r] # "new"
    BY <1>10 DEF Deliver, Queue!Progress, Queue!Attempt, Queue!Complete, Queue!GiveUp,
                 TypeOK, Queue!TypeOK
  <2>3. \A c \in Callers : {u \in Urls : status'[<<c, u>>] # "new"}
                          = {u \in Urls : status[<<c, u>>] # "new"}
    BY <2>2 DEF Tasks
  <2> QED
    BY <2>1, <2>3 DEF TaskInv, CallsOK, CallOK, StatusOK, Handed
<1>11. ASSUME Die PROVE UNCHANGED <<debug, call, status>>
  BY <1>11 DEF Die, deliveryVars
<1> QED
  BY <1>u, <1>1, <1>2, <1>3, <1>4, <1>5, <1>6, <1>7, <1>8, <1>9, <1>10, <1>11
     DEF Next, Step, vars, deliveryVars

LEMMA TaskInit == Init => TaskInv
<1> SUFFICES ASSUME Init PROVE TaskInv
  OBVIOUS
<1>1. CallOK(Idle) /\ Idle.handed = 0
  <2>1. Len(<<>>) = 0 /\ IsInjective(<<>>) /\ ToSet(<<>>) = {}
    BY RangeOfEmpty DEF IsInjective
  <2> QED
    BY <2>1 DEF CallOK, Idle
<1>2. \A c \in Callers : call[c] = Idle /\ {u \in Urls : status[<<c, u>>] # "new"} = {}
  BY DEF Init, Queue!Init, Tasks
<1> QED
  BY <1>1, <1>2, NoneHanded DEF TaskInv, CallsOK, StatusOK

LEMMA TasksInvariant == SafeSpec => [](TypeOK /\ TaskInv)
<1>1. Init => TypeOK /\ TaskInv
  BY TypeInit, TaskInit
<1>2. TypeOK /\ TaskInv /\ [Next]_vars => (TypeOK /\ TaskInv)'
  BY TypeStep, TaskStep
<1> QED
  BY <1>1, <1>2, PTL DEF SafeSpec

\* For every list of inboxes, every configuration and whatever names resolve:
\* each task has a remote inbox with a domain, so that sending it does not
\* panic (generate_request_headers).
THEOREM OnlyDeliverable == SafeSpec => []TasksDeliverable
<1>1. TypeOK /\ TaskInv => TasksDeliverable
  BY DEF TaskInv, CallsOK, CallOK, TasksDeliverable
<1> QED
  BY <1>1, TasksInvariant, PTL

\* For any number of callers, lists and senders, whenever the queue may die:
\* a call that returns Ok has given the queue each remote inbox on its list
\* once that was not refused, and one that fails an initial part of its tasks
\* (queue_activity, build_tasks).
THEOREM HandsOverExactly == SafeSpec => []HandedOverExactly
<1>1. ASSUME TypeOK, TaskInv PROVE HandedOverExactly
  <2>1. ASSUME NEW c \in Callers
        PROVE  LET tasks == call[c].tasks
                   given == {u \in Urls : status[<<c, u>>] # "new"}
               IN  /\ given = IF debug THEN {} ELSE {tasks[i] : i \in 1 .. call[c].handed}
                   /\ IsInjective(tasks)
                   /\ At(c, "done") /\ call[c].op = "queue" /\ call[c].result = "Ok" =>
                         /\ call[c].handed = Len(tasks)
                         /\ ToSet(tasks) = {u \in ToSet(call[c].inboxes) :
                                               ~ IsLocalUrl(u) /\ u \notin call[c].refused}
    <3>1. CallOK(call[c]) /\ {u \in Urls : status[<<c, u>>] # "new"} = Handed(call[c])
      BY <1>1 DEF TaskInv, CallsOK, StatusOK
    <3>2. ASSUME call[c].rest = <<>> PROVE ToSet(call[c].inboxes) = call[c].seen
      BY <3>1, <3>2, RangeOfEmpty DEF CallOK
    <3> QED
      BY <3>1, <3>2 DEF CallOK, Handed, At
  <2> QED
    BY <2>1 DEF HandedOverExactly
<1> QED
  BY <1>1, TasksInvariant, PTL
=============================================================================
