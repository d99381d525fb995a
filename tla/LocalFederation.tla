--------------------------- MODULE LocalFederation ---------------------------
(***************************************************************************)
(* The example examples/local_federation: instances that follow each other *)
(* and send posts to their followers, with the library between them.  It   *)
(* composes the parts that the other modules model one by one: webfinger,  *)
(* dereferencing, sending in debug mode and receiving.                     *)
(*                                                                         *)
(* Every request is awaited: a Follow is answered only after its receiver  *)
(* has sent an Accept and that was answered.  The requests that are awaited *)
(* at one time make a chain of threads on several servers, any of which    *)
(* may be broken by a timeout or the network.                              *)
(*                                                                         *)
(* A server is named by its domain, its only local user by the domain too. *)
(***************************************************************************)
EXTENDS Integers, FiniteSets, SequencesExt

CONSTANTS
    Servers,    \* the instances
    Calls,      \* calls of DbUser::follow and DbUser::post
    CallOf,     \* [Calls -> [op, by, name, domain]]: who calls what
    After,      \* [Calls -> SUBSET Calls]: calls that must have succeeded before
    MaxUsers    \* bound: users age only while a server knows fewer

ASSUME LocalFederationAssumption ==
    /\ Servers # {}
    /\ \A c \in Calls : /\ CallOf[c].op \in {"follow", "post"}
                        /\ {CallOf[c].by, CallOf[c].domain} \subseteq Servers
                        /\ After[c] \subseteq Calls
    /\ MaxUsers \in Nat

VARIABLES
    users,      \* the users in each database: [id, old, followers]
    posts,      \* the posts in each database
    thread      \* what each call and each request does

vars == <<users, posts, thread>>

Op(c) == CallOf[c].op

(***************************************************************************)
(* A thread is [call, kind, to]: a call itself, on the server of its user, *)
(* or one of the requests it gives rise to on the server to: a Follow, the *)
(* Accept of that, or the Create to one of the followers.  None of these   *)
(* is made twice by one call.                                              *)
(***************************************************************************)
Main(c) == [call |-> c, kind |-> "call", to |-> CallOf[c].by]

FollowRequest(c) == [call |-> c, kind |-> "follow", to |-> CallOf[c].domain]

AcceptRequest(c) == [call |-> c, kind |-> "accept", to |-> CallOf[c].by]

CreateRequest(c, s) == [call |-> c, kind |-> "create", to |-> s]

Mains == {Main(c) : c \in Calls}

Follows == {c \in Calls : Op(c) = "follow"}

Requests == {FollowRequest(c) : c \in Follows} \cup {AcceptRequest(c) : c \in Follows}
            \cup {CreateRequest(c, s) : c \in Calls \ Follows, s \in Servers}

Threads == Mains \cup Requests

\* The actor of the activity in a request.
Actor(r) == IF r.kind = "accept" THEN CallOf[r.call].domain ELSE CallOf[r.call].by

(***************************************************************************)
(*   idle     not called or requested                                      *)
(*   finger   the webfinger request is awaited                             *)
(*   read     the user whom is looked up in the database                   *)
(*   fetch    the user is fetched; held says whether an old copy was found *)
(*   use      the user is there                                            *)
(*   queue    queue_activity is about to send to the next inbox            *)
(*   await    the answer to a request of its own is awaited                *)
(*   done     result is Ok or Err                                          *)
(* list are the followers not yet dereferenced and then the inboxes left;  *)
(* inboxes those collected; replying that a Follow's receive has begun;    *)
(* waited that somebody waits for the answer.                              *)
(***************************************************************************)
Idle == [at |-> "idle", whom |-> CHOOSE s \in Servers : TRUE, held |-> FALSE,
         list |-> <<>>, inboxes |-> <<>>, replying |-> FALSE, waited |-> TRUE,
         result |-> "none"]

User(id) == [id |-> id, old |-> FALSE, followers |-> <<>>]

\* new_instance.
Init ==
    /\ users = [s \in Servers |-> <<User(s)>>]
    /\ posts = [s \in Servers |-> <<>>]
    /\ thread = [t \in Threads |-> Idle]

LocalUser(s) == users[s][1]

At(t, place) == thread[t].at = place

Become(t, new) == thread' = [thread EXCEPT ![t] = new]

Finish(t, result) == Become(t, [thread[t] EXCEPT !.at = "done", !.result = result])

\* t awaits the answer to a new request r, whose handler looks for the actor.
Request(t, new, r) ==
    thread' = [thread EXCEPT ![t] = [new EXCEPT !.at = "await"],
                             ![r] = [Idle EXCEPT !.at = "read", !.whom = Actor(r)]]

----------------------------------------------------------------------------
(* ObjectId::dereference of a user, with the example's read_from_id and    *)
(* from_json.                                                              *)

\* The entries a server has for an id; read_from_id finds the first.
Entries(s, id) == {i \in DOMAIN users[s] : users[s][i].id = id}

FirstEntry(s, id) ==
    users[s][CHOOSE i \in Entries(s, id) : \A j \in Entries(s, id) : i <= j]

\* The guard of the mutex of users is dropped before anything is awaited.
\* Slip: Follow's receive keeps it.
LockHeldByReceive(s) ==
    \E r \in Requests : r.to = s /\ r.kind = "follow" /\ thread[r].replying
                        /\ ~ At(r, "done")

LockHeld(s) == FALSE

Read(t) ==
    /\ At(t, "read") /\ ~ LockHeld(t.to)
    /\ LET id == thread[t].whom
           found == Entries(t.to, id) # {}
       IN  Become(t,
             IF found /\ (id = t.to \/ ~ FirstEntry(t.to, id).old)
             THEN [thread[t] EXCEPT !.at = "use"]
             ELSE [thread[t] EXCEPT !.at = "fetch", !.held = found])
    /\ UNCHANGED <<users, posts>>

\* http_get_user answers with the local user, and from_json pushes what was
\* fetched behind the entries that are there.
FetchUser(t) ==
    /\ At(t, "fetch")
    /\ \/ /\ users' = [users EXCEPT ![t.to] = Append(@, User(thread[t].whom))]
          /\ Become(t, [thread[t] EXCEPT !.at = "use"])
       \/ /\ UNCHANGED users
          /\ IF thread[t].held THEN Become(t, [thread[t] EXCEPT !.at = "use"])
             ELSE Finish(t, "Err")
    /\ UNCHANGED posts

----------------------------------------------------------------------------
(* DbUser::follow.                                                         *)

Ready(c) == At(Main(c), "idle") /\ \A d \in After[c] : thread[Main(d)].result = "Ok"

CallFollow(c) ==
    /\ Ready(c) /\ Op(c) = "follow"
    /\ Become(Main(c), [Idle EXCEPT !.at = "finger"])
    /\ UNCHANGED <<users, posts>>

\* The webfinger handler: extract_webfinger_name and read_user.
WebfingerName(s, name, domain) ==
    IF domain # s THEN "WrongDomain" ELSE IF name # s THEN "InvalidUser" ELSE name

\* webfinger_resolve_actor asks the server of the domain, and has one link
\* to dereference.
Resolve(t) ==
    /\ At(t, "finger")
    /\ LET s == CallOf[t.call].domain
       IN  \/ /\ WebfingerName(s, CallOf[t.call].name, s) = s
              /\ Become(t, [thread[t] EXCEPT !.at = "read", !.whom = s])
           \/ Finish(t, "Err")
    /\ UNCHANGED <<users, posts>>

\* prepare makes no task for an inbox of this instance.
SendFollow(t) ==
    /\ At(t, "use") /\ t.kind = "call" /\ Op(t.call) = "follow"
    /\ IF CallOf[t.call].domain = t.to THEN Finish(t, "Ok")
       ELSE Request(t, thread[t], FollowRequest(t.call))
    /\ UNCHANGED <<users, posts>>

----------------------------------------------------------------------------
(* DbUser::post.                                                           *)

\* The followers are those that the caller's copy of the user has.
CallPost(c) ==
    /\ Ready(c) /\ Op(c) = "post"
    /\ LET followers == LocalUser(CallOf[c].by).followers
       IN  Become(Main(c),
             IF followers = <<>> THEN [Idle EXCEPT !.at = "queue"]
             ELSE [Idle EXCEPT !.at = "read", !.whom = Head(followers),
                               !.list = Tail(followers)])
    /\ UNCHANGED <<users, posts>>

\* Slip: an inbox that occurs twice is sent to twice.
WithInboxTwice(inboxes, s) == Append(inboxes, s)

\* build_tasks leaves out what it has seen.
WithInbox(inboxes, s) == IF Contains(inboxes, s) THEN inboxes ELSE Append(inboxes, s)

\* A follower that cannot be dereferenced ends the call; when all are, their
\* inboxes are queued, except one of this instance.
CollectInbox(t) ==
    /\ At(t, "use") /\ t.kind = "call" /\ Op(t.call) = "post"
    /\ LET me == thread[t]
           inboxes == IF me.whom = t.to THEN me.inboxes ELSE WithInbox(me.inboxes, me.whom)
       IN  Become(t, IF me.list = <<>>
                     THEN [me EXCEPT !.at = "queue", !.inboxes = <<>>, !.list = inboxes]
                     ELSE [me EXCEPT !.at = "read", !.inboxes = inboxes,
                                     !.whom = Head(me.list), !.list = Tail(me.list)])
    /\ UNCHANGED <<users, posts>>

\* queue_activity in debug mode: one inbox after the other.
SendCreate(t) ==
    /\ At(t, "queue")
    /\ IF thread[t].list = <<>> THEN Finish(t, "Ok")
       ELSE LET s == Head(thread[t].list)
            IN  Request(t, [thread[t] EXCEPT !.whom = s, !.list = Tail(@)],
                        CreateRequest(t.call, s))
    /\ UNCHANGED <<users, posts>>

----------------------------------------------------------------------------
(* Handlers of requests to the inbox.  receive_activity has dereferenced   *)
(* the actor; nobody changes keys here, so the signature is valid.         *)

\* Slip: the follower is not added until the Accept has been answered.
ReceiveFollowUnlisted(r) ==
    /\ At(r, "use") /\ r.kind = "follow" /\ ~ thread[r].replying
    /\ Become(r, [thread[r] EXCEPT !.at = "read", !.replying = TRUE])
    /\ UNCHANGED <<users, posts>>

\* Follow's receive: the follower is added, and then dereferenced.
ReceiveFollow(r) ==
    /\ At(r, "use") /\ r.kind = "follow" /\ ~ thread[r].replying
    /\ users' = [users EXCEPT ![r.to][1].followers = Append(@, Actor(r))]
    /\ Become(r, [thread[r] EXCEPT !.at = "read", !.replying = TRUE])
    /\ UNCHANGED posts

SendAccept(r) ==
    /\ At(r, "use") /\ r.kind = "follow" /\ thread[r].replying
    /\ Request(r, thread[r], AcceptRequest(r.call))
    /\ UNCHANGED <<users, posts>>

ReceiveAccept(r) ==
    /\ At(r, "use") /\ r.kind = "accept"
    /\ Finish(r, "Ok")
    /\ UNCHANGED <<users, posts>>

\* The post is named by the call that made it.
ReceiveCreate(r) ==
    /\ At(r, "use") /\ r.kind = "create"
    /\ posts' = [posts EXCEPT ![r.to] = Append(@, r.call)]
    /\ Finish(r, "Ok")
    /\ UNCHANGED users

----------------------------------------------------------------------------
(* Answers, timeouts and the network.                                      *)

Awaited(t) ==
    IF t.kind = "follow" THEN AcceptRequest(t.call)
    ELSE IF Op(t.call) = "follow" THEN FollowRequest(t.call)
    ELSE CreateRequest(t.call, thread[t].whom)

\* A failure to send a post is only logged.
AfterAnswer(t, result) ==
    IF Op(t.call) = "post" THEN [thread[t] EXCEPT !.at = "queue"]
    ELSE [thread[t] EXCEPT !.at = "done", !.result = result]

\* Slip: the Accept is not waited for.
AnsweredEarly(t) ==
    /\ At(t, "await")
    /\ LET r == Awaited(t)
       IN  \/ At(r, "done") /\ Become(t, AfterAnswer(t, thread[r].result))
           \/ t.kind = "follow" /\ Become(t, AfterAnswer(t, "Ok"))
    /\ UNCHANGED <<users, posts>>

\* An error is answered with InternalServerError, which send_once takes for
\* a failure.
Answered(t) ==
    /\ At(t, "await")
    /\ LET r == Awaited(t)
       IN  At(r, "done") /\ Become(t, AfterAnswer(t, thread[r].result))
    /\ UNCHANGED <<users, posts>>

\* The request or the answer is lost, or request_timeout has passed.
GiveUp(t) ==
    /\ At(t, "await")
    /\ thread' = [thread EXCEPT ![t] = AfterAnswer(t, "Err"),
                                ![Awaited(t)].waited = FALSE]
    /\ UNCHANGED <<users, posts>>

\* A handler whose client is gone may be dropped wherever it awaits, and
\* with it its own request.
Drop(r) ==
    /\ ~ thread[r].waited /\ thread[r].at \in {"read", "fetch", "await"}
    /\ LET dropped == [thread EXCEPT ![r].at = "done", ![r].result = "Err"]
       IN  thread' = IF At(r, "await") THEN [dropped EXCEPT ![AcceptRequest(r.call)].waited = FALSE]
                     ELSE dropped
    /\ UNCHANGED <<users, posts>>

\* ACTOR_FETCH_INTERVAL passes, in debug builds 20 seconds.
Age(s) ==
    /\ Len(users[s]) < MaxUsers
    /\ \E i \in DOMAIN users[s] :
          /\ users[s][i].id # s /\ ~ users[s][i].old
          /\ users' = [users EXCEPT ![s][i].old = TRUE]
    /\ UNCHANGED <<posts, thread>>

----------------------------------------------------------------------------
Step(t) == \/ Read(t) \/ FetchUser(t) \/ Resolve(t) \/ SendFollow(t) \/ CollectInbox(t)
           \/ SendCreate(t) \/ ReceiveFollow(t) \/ SendAccept(t) \/ ReceiveAccept(t)
           \/ ReceiveCreate(t) \/ Answered(t)

Next == \/ \E t \in Threads : Step(t) \/ GiveUp(t)
        \/ \E c \in Calls : CallFollow(c) \/ CallPost(c)
        \/ \E r \in Requests : Drop(r)
        \/ \E s \in Servers : Age(s)

SafeSpec == Init /\ [][Next]_vars

\* Some future is polled as long as one can go on; no timeout is needed.
Spec == SafeSpec /\ WF_vars(\E t \in Threads : Step(t))

----------------------------------------------------------------------------
(* Properties.                                                             *)

Count(x, s) == Cardinality({i \in DOMAIN s : s[i] = x})

\* A server lists a follower no more often than it was asked to, and at
\* least as often as that succeeded; and it succeeds only when the follower's
\* server has handled the Accept, though answers may be lost on the way and
\* handlers dropped.
FollowersAccounted ==
    \A a, b \in Servers :
        LET asked == {c \in Follows : CallOf[c].by = a /\ CallOf[c].domain = b /\ a # b}
            agreed == {c \in asked : thread[Main(c)].result = "Ok"}
            times == Count(a, LocalUser(b).followers)
        IN  /\ times <= Cardinality({c \in asked : ~ At(Main(c), "idle")})
            /\ times >= Cardinality(agreed)
            /\ \A c \in agreed : thread[AcceptRequest(c)].result = "Ok"

\* A post reaches only servers of followers, and each one once, however often
\* the follower is listed and whichever answers are lost.
PostsReachFollowersOnce ==
    \A s \in Servers : \A c \in Calls :
        /\ Count(c, posts[s]) <= 1
        /\ Contains(posts[s], c) => Contains(LocalUser(CallOf[c].by).followers, s)

Quiet == \A t \in Threads : thread[t].at \in {"idle", "done"}

\* Every call returns and every request is answered, although servers wait
\* for requests that wait for requests to themselves.
CallsReturn == []<>Quiet
=============================================================================
