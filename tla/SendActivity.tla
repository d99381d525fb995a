---------------------------- MODULE SendActivity ----------------------------
(***************************************************************************)
(* Sending an activity (activity_queue.rs, activity_sending.rs):           *)
(* queue_activity takes an activity, the actor it is from and a list of    *)
(* inboxes, builds one task for each inbox that is to have it, and hands   *)
(* the tasks to the activity queue or, in debug mode, sends them itself.   *)
(* Several callers do so at once; they share the configuration, and with   *)
(* it the cache of parsed private keys.                                    *)
(*                                                                         *)
(* What the queue does with a task is the module Delivery, which           *)
(* ActivityQueue implements.  An actor's private keys are numbered in the  *)
(* order in which it used them; 0 is none.                                 *)
(***************************************************************************)
EXTENDS Integers, SequencesExt

CONSTANTS
    Urls, LocalDomain, IpHosts, OddHosts, PrivateHosts, BlockedHosts, Undotted,
    AllowHttpUrls, AllowLocalIp,    \* see module Urls
    Callers,        \* calls of queue_activity or prepare
    Senders,        \* actors of this instance
    InboxLists,     \* lists of inboxes that occur
    MaxAttempts,    \* attempts the queue makes
    MaxKeys         \* bound: keys of one actor

Released == INSTANCE Urls WITH Debug <- FALSE
Debugged == INSTANCE Urls WITH Debug <- TRUE

Nobody == "nobody"

ASSUME SendActivityAssumption ==
    /\ Senders # {}
    /\ Nobody \notin Callers
    /\ InboxLists \subseteq Seq(Urls)
    /\ MaxAttempts \in Nat /\ MaxKeys \in Nat

VARIABLES
    debug,      \* FederationConfig.debug
    keys,       \* each actor's current private key in the database
    cache,      \* actor_pkey_cache
    creating,   \* the caller whose future computes a missing entry
    call,       \* what each caller does
    alive,      \* the queue's dispatcher runs
    status, attempts, answered  \* the tasks in the queue, see Delivery

deliveryVars == <<status, attempts, answered>>
vars == <<debug, keys, cache, creating, call, alive, deliveryVars>>

\* A task is named by the call that made it and its inbox.
Tasks == Callers \X Urls

Queue == INSTANCE Delivery

IsLocalUrl(u) == Released!IsLocalUrl(u)

\* Slip: only the scheme is looked at.
InboxValidScheme(u, resolves) == u.scheme = "https"

InboxValid(u, resolves) ==
    IF debug THEN Debugged!UrlValid(u, resolves) ELSE Released!UrlValid(u, resolves)

(***************************************************************************)
(* A caller is at                                                          *)
(*   idle    nothing was called                                            *)
(*   key     the cache is asked for the private key                        *)
(*   create  the key is parsed, for this and all who wait                  *)
(*   wait    another caller parses the key                                 *)
(*   urls    verify_url_valid is awaited for the next inbox                *)
(*   tasks   the tasks are built                                           *)
(*   done    result is Ok or Err                                           *)
(* given is the private key in the actor passed in, key the one that signs *)
(* the tasks; rest are the inboxes not yet looked at, seen those that were *)
(* and refused those verify_url_valid refused; tasks are the inboxes of    *)
(* the tasks, and handed the number of them dealt with.                    *)
(***************************************************************************)
Idle == [at |-> "idle", op |-> "queue", sender |-> CHOOSE s \in Senders : TRUE,
         given |-> 0, key |-> 0, inboxes |-> <<>>, rest |-> <<>>, seen |-> {},
         refused |-> {}, tasks |-> <<>>, handed |-> 0, result |-> "none"]

Init ==
    /\ debug \in BOOLEAN
    /\ keys \in [Senders -> 0 .. 1]
    /\ cache = [s \in Senders |-> 0]
    /\ creating = [s \in Senders |-> Nobody]
    /\ call = [c \in Callers |-> Idle]
    /\ alive = TRUE
    /\ Queue!Init

At(c, place) == call[c].at = place

Finish(c, result) == call' = [call EXCEPT ![c].at = "done", ![c].result = result]

----------------------------------------------------------------------------
(* build_tasks.                                                            *)

\* The actor was read from the database; serialising the activity may fail.
Begin(c) ==
    /\ At(c, "idle")
    /\ \E op \in {"queue", "prepare"}, s \in Senders, inboxes \in InboxLists :
          LET begun == [Idle EXCEPT !.op = op, !.sender = s, !.given = keys[s],
                                    !.inboxes = inboxes, !.rest = inboxes]
          IN  \/ call' = [call EXCEPT ![c] = [begun EXCEPT !.at = "key"]]
              \/ call' = [call EXCEPT ![c] = [begun EXCEPT !.at = "done", !.result = "Err"]]
    /\ UNCHANGED <<debug, keys, cache, creating, alive, deliveryVars>>

\* get_pkey_cached: an entry is taken, or computed by the first to miss it;
\* the others wait for that one.
GetKey(c) ==
    /\ At(c, "key")
    /\ LET s == call[c].sender
       IN  \/ /\ cache[s] # 0
              /\ call' = [call EXCEPT ![c].at = "urls", ![c].key = cache[s]]
              /\ UNCHANGED creating
           \/ /\ cache[s] = 0 /\ creating[s] = Nobody
              /\ creating' = [creating EXCEPT ![s] = c]
              /\ call' = [call EXCEPT ![c].at = "create"]
           \/ /\ cache[s] = 0 /\ creating[s] \in Callers
              /\ call' = [call EXCEPT ![c].at = "wait"]
              /\ UNCHANGED creating
    /\ UNCHANGED <<debug, keys, cache, alive, deliveryVars>>

\* The caller that computes an entry, and those that wait for it.
Sharing(c) ==
    {d \in Callers : d = c \/ (At(d, "wait") /\ call[d].sender = call[c].sender)}

\* Slip: those who wait do not learn of a failure.
CreateKeyAlone(c) ==
    /\ At(c, "create")
    /\ creating' = [creating EXCEPT ![call[c].sender] = Nobody]
    /\ LET key == call[c].given
       IN  \/ /\ key # 0
              /\ cache' = [cache EXCEPT ![call[c].sender] = key]
              /\ call' = [d \in Callers |->
                    IF d \in Sharing(c) THEN [call[d] EXCEPT !.at = "urls", !.key = key]
                    ELSE call[d]]
           \/ Finish(c, "Err") /\ UNCHANGED cache
    /\ UNCHANGED <<debug, keys, alive, deliveryVars>>

\* Slip: an actor without a private key signs with none.
CreateKeyMissing(c) ==
    /\ At(c, "create")
    /\ creating' = [creating EXCEPT ![call[c].sender] = Nobody]
    /\ cache' = [cache EXCEPT ![call[c].sender] = call[c].given]
    /\ call' = [d \in Callers |->
          IF d \in Sharing(c) THEN [call[d] EXCEPT !.at = "urls", !.key = call[c].given]
          ELSE call[d]]
    /\ UNCHANGED <<debug, keys, alive, deliveryVars>>

\* The key of the actor that was passed in is parsed, unless it has none or
\* it cannot be parsed.  All who share the computation get its result, the
\* failure too, which is not cached.
CreateKey(c) ==
    /\ At(c, "create")
    /\ creating' = [creating EXCEPT ![call[c].sender] = Nobody]
    /\ LET key == call[c].given
           share(d, change) == IF d \in Sharing(c) THEN change ELSE call[d]
       IN  \/ /\ key # 0
              /\ cache' = [cache EXCEPT ![call[c].sender] = key]
              /\ call' = [d \in Callers |-> share(d, [call[d] EXCEPT !.at = "urls", !.key = key])]
           \/ /\ call' = [d \in Callers |-> share(d, [call[d] EXCEPT !.at = "done", !.result = "Err"])]
              /\ UNCHANGED cache
    /\ UNCHANGED <<debug, keys, alive, deliveryVars>>

\* Inboxes that were seen before or are of this instance are passed over,
\* those that fail verify_url_valid are skipped.
CheckInbox(c) ==
    /\ At(c, "urls") /\ call[c].rest # <<>>
    /\ LET inbox == Head(call[c].rest)
           done == [call[c] EXCEPT !.rest = Tail(@), !.seen = @ \cup {inbox}]
       IN  \/ /\ inbox \in call[c].seen \/ IsLocalUrl(inbox)
              /\ call' = [call EXCEPT ![c] = done]
           \/ /\ inbox \notin call[c].seen /\ ~ IsLocalUrl(inbox)
              /\ \E resolves \in BOOLEAN :
                    call' = [call EXCEPT ![c] =
                       IF InboxValid(inbox, resolves)
                       THEN [done EXCEPT !.tasks = Append(@, inbox)]
                       ELSE [done EXCEPT !.refused = @ \cup {inbox}]]
    /\ UNCHANGED <<debug, keys, cache, creating, alive, deliveryVars>>

\* prepare ends here: the tasks are the application's.
Built(c) ==
    /\ At(c, "urls") /\ call[c].rest = <<>>
    /\ IF call[c].op = "prepare" THEN Finish(c, "Ok")
       ELSE call' = [call EXCEPT ![c].at = "tasks"]
    /\ UNCHANGED <<debug, keys, cache, creating, alive, deliveryVars>>

----------------------------------------------------------------------------
(* queue_activity.                                                         *)

\* Slip: the loop leaves out the last task.
HandlingButLast(c) == At(c, "tasks") /\ call[c].handed + 1 < Len(call[c].tasks)

Handling(c) == At(c, "tasks") /\ call[c].handed < Len(call[c].tasks)

NextTask(c) == <<c, call[c].tasks[call[c].handed + 1]>>

\* Slip: that the queue is gone goes unnoticed.
HandOverRegardless(c) ==
    /\ Handling(c) /\ ~ debug
    /\ call' = [call EXCEPT ![c].handed = @ + 1]
    /\ IF alive THEN Queue!Accept(NextTask(c)) ELSE UNCHANGED deliveryVars
    /\ UNCHANGED <<debug, keys, cache, creating, alive>>

\* queue fails when nobody receives any more, and then the tasks that are
\* left are not handed over.  That all workers are busy is only logged.
HandOver(c) ==
    /\ Handling(c) /\ ~ debug
    /\ \/ /\ alive
          /\ call' = [call EXCEPT ![c].handed = @ + 1]
          /\ Queue!Accept(NextTask(c))
       \/ /\ ~ alive
          /\ Finish(c, "Err")
          /\ UNCHANGED deliveryVars
    /\ UNCHANGED <<debug, keys, cache, creating, alive>>

\* In debug mode there is one attempt, with the default RetryStrategy, and
\* its failure is only logged.
SendDirectly(c) ==
    /\ Handling(c) /\ debug
    /\ call' = [call EXCEPT ![c].handed = @ + 1]
    /\ UNCHANGED <<debug, keys, cache, creating, alive, deliveryVars>>

Return(c) ==
    /\ At(c, "tasks") /\ ~ Handling(c)
    /\ Finish(c, "Ok")
    /\ UNCHANGED <<debug, keys, cache, creating, alive, deliveryVars>>

----------------------------------------------------------------------------
(* What happens meanwhile.                                                 *)

\* The application gives the actor a new key.
Rotate(s) ==
    /\ keys[s] < MaxKeys
    /\ keys' = [keys EXCEPT ![s] = @ + 1]
    /\ UNCHANGED <<debug, cache, creating, call, alive, deliveryVars>>

\* The cache is at its capacity.  Nothing else makes it forget.
Evict(s) ==
    /\ cache[s] # 0
    /\ cache' = [cache EXCEPT ![s] = 0]
    /\ UNCHANGED <<debug, keys, creating, call, alive, deliveryVars>>

\* The queue delivers while it lives.
Deliver(t) ==
    /\ alive
    /\ Queue!Progress(t)
    /\ UNCHANGED <<debug, keys, cache, creating, call, alive>>

Die ==
    /\ alive /\ ~ debug
    /\ alive' = FALSE
    /\ UNCHANGED <<debug, keys, cache, creating, call, deliveryVars>>

----------------------------------------------------------------------------
Step(c) == \/ GetKey(c) \/ CreateKey(c) \/ CheckInbox(c) \/ Built(c)
           \/ HandOver(c) \/ SendDirectly(c) \/ Return(c)

Next == \/ \E c \in Callers : Begin(c) \/ Step(c)
        \/ \E s \in Senders : Rotate(s) \/ Evict(s)
        \/ \E t \in Tasks : Deliver(t)
        \/ Die

SafeSpec == Init /\ [][Next]_vars

\* A future that is awaited is polled, and the queue keeps its promise.
Spec == /\ SafeSpec
        /\ \A c \in Callers : WF_vars(Step(c))
        /\ WF_vars(\E t \in Tasks : Deliver(t))
----------------------------------------------------------------------------
(* Properties.                                                             *)

Calls ==
    [at : {"idle", "key", "create", "wait", "urls", "tasks", "done"},
     op : {"queue", "prepare"}, sender : Senders, given : Nat, key : Nat,
     inboxes : Seq(Urls), rest : Seq(Urls), seen : SUBSET Urls, refused : SUBSET Urls,
     tasks : Seq(Urls), handed : Nat, result : {"none", "Ok", "Err"}]

\* Every key in use is one its actor has had, and keys in the cache were not
\* made from nothing.
TypeOK ==
    /\ debug \in BOOLEAN /\ alive \in BOOLEAN
    /\ keys \in [Senders -> Nat]
    /\ cache \in [Senders -> Nat]
    /\ creating \in [Senders -> Callers \cup {Nobody}]
    /\ call \in [Callers -> Calls]
    /\ Queue!TypeOK
    /\ \A s \in Senders : cache[s] <= keys[s]
    /\ \A c \in Callers :
          /\ call[c].given <= keys[call[c].sender] /\ call[c].key <= keys[call[c].sender]
          /\ call[c].at \in {"urls", "tasks"} => call[c].key > 0

\* No task is for an inbox of this instance, and each has a domain, which
\* generate_request_headers relies on when the task is sent much later
\* ("read inbox domain").
TasksDeliverable ==
    \A c \in Callers : \A inbox \in ToSet(call[c].tasks) :
        ~ IsLocalUrl(inbox) /\ inbox.host \notin IpHosts

\* The queue has been given the first tasks of a call in their order, each
\* once, and nothing else, however calls interleave and fail; all of them
\* when the call returns Ok, and in debug mode none.
HandedOverExactly ==
    \A c \in Callers :
        LET tasks == call[c].tasks
            given == {u \in Urls : status[<<c, u>>] # "new"}
        IN  /\ given = IF debug THEN {} ELSE {tasks[i] : i \in 1 .. call[c].handed}
            /\ IsInjective(tasks)
            /\ At(c, "done") /\ call[c].op = "queue" /\ call[c].result = "Ok" =>
                  /\ call[c].handed = Len(tasks)
                  /\ ToSet(tasks) = {u \in ToSet(call[c].inboxes) :
                                          ~ IsLocalUrl(u) /\ u \notin call[c].refused}

\* A key is computed by one caller at a time, who is there to finish, and
\* nobody waits for a computation that is over.
WaitersAreServed ==
    \A c \in Callers :
        LET s == call[c].sender
        IN  /\ At(c, "wait") => creating[s] \in Callers /\ creating[s] # c
            /\ At(c, "create") <=> creating[s] = c

\* Every call returns; and when it returns Ok, each inbox on its list that is
\* remote and valid will have had the activity, or the queue will have given
\* up on it, unless the queue is gone.
CallSettles ==
    \A c \in Callers :
        ~ At(c, "idle") ~>
            /\ At(c, "done")
            /\ alive /\ call[c].op = "queue" /\ call[c].result = "Ok" /\ ~ debug =>
                  \A u \in ToSet(call[c].inboxes) :
                     \/ IsLocalUrl(u) \/ u \in call[c].refused
                     \/ status[<<c, u>>] \in {"completed", "dead"}

=============================================================================
