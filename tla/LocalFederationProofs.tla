----------------------- MODULE LocalFederationProofs -----------------------
(***************************************************************************)
(* Proofs about LocalFederation, for any servers and any calls, finitely   *)
(* many or not: that what a server lists as followers agrees with what     *)
(* follow reported, and that posts reach only followers and once.          *)
(***************************************************************************)
EXTENDS LocalFederation, FiniteSetTheorems, SequenceTheorems, TLAPS

----------------------------------------------------------------------------
(* The inductive invariant.                                                *)

Frames ==
    [at : {"idle", "finger", "read", "fetch", "use", "queue", "await", "done"},
     whom : Servers, held : BOOLEAN, list : Seq(Servers), inboxes : Seq(Servers),
     replying : BOOLEAN, waited : BOOLEAN, result : {"none", "Ok", "Err"}]

Users == [id : Servers, old : BOOLEAN, followers : Seq(Servers)]

Typed ==
    /\ thread \in [Threads -> Frames]
    /\ users \in [Servers -> Seq(Users)]
    /\ \A s \in Servers : Len(users[s]) >= 1
    /\ posts \in [Servers -> Seq(Calls)]

FrameOK(t) ==
    LET f == thread[t]
    IN  /\ f.result # "none" => f.at = "done"
        /\ f.at = "queue" => t.kind = "call" /\ Op(t.call) = "post"
        /\ f.at = "finger" => t.kind = "call" /\ Op(t.call) = "follow"
        /\ f.at = "await" => t.kind = "call" \/ (t.kind = "follow" /\ f.replying)
        /\ f.replying => t.kind = "follow" /\ f.at # "idle"

(***************************************************************************)
(* A follow and its two requests, each of which begins after the one       *)
(* before: the call says Ok only if the Follow was answered so, and that   *)
(* only if the Accept was.                                                 *)
(***************************************************************************)
FollowOK(c) ==
    LET main   == thread[Main(c)]
        follow == thread[FollowRequest(c)]
        accept == thread[AcceptRequest(c)]
    IN  /\ main.at \in {"idle", "finger", "read", "fetch", "use"}
           \/ CallOf[c].by = CallOf[c].domain => follow.at = "idle"
        /\ follow.at \in {"idle", "read", "fetch", "use"} => accept.at = "idle"
        /\ main.result = "Ok" /\ CallOf[c].by # CallOf[c].domain => follow.result = "Ok"
        /\ follow.result = "Ok" => follow.replying /\ accept.result = "Ok"

Followers(s) == {x \in Servers : Contains(LocalUser(s).followers, x)}

AllIn(s, S) == \A i \in DOMAIN s : s[i] \in S

Pending(c) == {s \in Servers : At(CreateRequest(c, s), "idle")}

(***************************************************************************)
(* A post: whoever is looked up, collected or sent to is a follower, and   *)
(* the inboxes that are left differ and were not sent to.                  *)
(***************************************************************************)
PostOK(c) ==
    LET main == thread[Main(c)]
        followers == Followers(CallOf[c].by)
    IN  /\ main.at \notin {"queue", "await", "done"} => Pending(c) = Servers
        /\ main.at \in {"read", "fetch", "use"} =>
              /\ main.whom \in followers /\ AllIn(main.list, followers)
              /\ AllIn(main.inboxes, followers) /\ IsInjective(main.inboxes)
        /\ main.at \in {"queue", "await"} =>
              /\ AllIn(main.list, followers) /\ AllIn(main.list, Pending(c))
              /\ IsInjective(main.list)
        /\ Servers \ Pending(c) \subseteq followers

PostsOK ==
    \A s \in Servers :
        /\ IsInjective(posts[s])
        /\ \A i \in DOMAIN posts[s] :
              /\ posts[s][i] \in Calls \ Follows
              /\ thread[CreateRequest(posts[s][i], s)].result = "Ok"

\* The follows of b by a that were received.
Followed(a, b) ==
    {c \in Follows : /\ CallOf[c].by = a /\ CallOf[c].domain = b
                     /\ thread[FollowRequest(c)].replying}

Called == {c \in Calls : ~ At(Main(c), "idle")}

CountOK ==
    /\ IsFiniteSet(Called)
    /\ \A a, b \in Servers : Count(a, LocalUser(b).followers) = Cardinality(Followed(a, b))

CallsOK ==
    /\ \A t \in Threads : FrameOK(t)
    /\ \A c \in Follows : FollowOK(c)
    /\ \A c \in Calls \ Follows : PostOK(c)

Inv == Typed /\ CallsOK /\ PostsOK /\ CountOK

----------------------------------------------------------------------------
(* The names of threads.                                                   *)

LEMMA Names ==
    /\ \A c \in Calls : /\ CallOf[c].by \in Servers /\ CallOf[c].domain \in Servers
                        /\ Main(c) \in Threads
                        /\ c \in Follows <=> Op(c) = "follow"
                        /\ c \in Calls \ Follows <=> Op(c) = "post"
    /\ \A c \in Follows : FollowRequest(c) \in Threads /\ AcceptRequest(c) \in Threads
    /\ \A c \in Calls \ Follows : \A s \in Servers : CreateRequest(c, s) \in Threads
    /\ \A t \in Threads :
          /\ t.call \in Calls /\ t.to \in Servers /\ Actor(t) \in Servers
          /\ \/ t.kind = "call" /\ t = Main(t.call)
             \/ t.kind = "follow" /\ t.call \in Follows /\ t = FollowRequest(t.call)
             \/ t.kind = "accept" /\ t.call \in Follows /\ t = AcceptRequest(t.call)
             \/ t.kind = "create" /\ t.call \in Calls \ Follows /\ t = CreateRequest(t.call, t.to)
    /\ Requests = {t \in Threads : t.kind # "call"}
<1>1. \A c \in Calls : /\ CallOf[c].by \in Servers /\ CallOf[c].domain \in Servers
                       /\ Main(c) \in Threads
                       /\ c \in Follows <=> Op(c) = "follow"
                       /\ c \in Calls \ Follows <=> Op(c) = "post"
  BY LocalFederationAssumption DEF Follows, Op, Threads, Mains
<1>2. /\ \A c \in Follows : FollowRequest(c) \in Threads /\ AcceptRequest(c) \in Threads
      /\ \A c \in Calls \ Follows : \A s \in Servers : CreateRequest(c, s) \in Threads
  BY DEF Threads, Requests
<1>3. ASSUME NEW t \in Threads
      PROVE  /\ t.call \in Calls /\ t.to \in Servers /\ Actor(t) \in Servers
             /\ \/ t.kind = "call" /\ t = Main(t.call) /\ t \in Mains
                \/ t.kind = "follow" /\ t.call \in Follows /\ t = FollowRequest(t.call)
                \/ t.kind = "accept" /\ t.call \in Follows /\ t = AcceptRequest(t.call)
                \/ /\ t.kind = "create" /\ t.call \in Calls \ Follows
                   /\ t = CreateRequest(t.call, t.to)
  <2>1. CASE t \in Mains
    BY <1>1, <2>1 DEF Mains, Main, Actor
  <2>2. ASSUME NEW c \in Follows, t = FollowRequest(c) \/ t = AcceptRequest(c)
        PROVE  /\ t.call \in Calls /\ t.to \in Servers /\ Actor(t) \in Servers
               /\ \/ t.kind = "follow" /\ t.call \in Follows /\ t = FollowRequest(t.call)
                  \/ t.kind = "accept" /\ t.call \in Follows /\ t = AcceptRequest(t.call)
    BY <1>1, <2>2 DEF Follows, FollowRequest, AcceptRequest, Actor
  <2>3. ASSUME NEW c \in Calls \ Follows, NEW s \in Servers, t = CreateRequest(c, s)
        PROVE  /\ t.call \in Calls /\ t.to \in Servers /\ Actor(t) \in Servers
               /\ t.kind = "create" /\ t.call \in Calls \ Follows
               /\ t = CreateRequest(t.call, t.to)
    BY <1>1, <2>3 DEF CreateRequest, Actor
  <2> QED
    BY <2>1, <2>2, <2>3 DEF Threads, Requests
<1>4. Requests = {t \in Threads : t.kind # "call"}
  <2>1. \A t \in Requests : t.kind # "call"
    BY DEF Requests, FollowRequest, AcceptRequest, CreateRequest
  <2>2. \A t \in Mains : t.kind = "call"
    BY DEF Mains, Main
  <2> QED
    BY <2>1, <2>2 DEF Threads
<1> QED
  BY <1>1, <1>2, <1>3, <1>4

LEMMA KindsOfThreads ==
    \A c : /\ Main(c).kind = "call" /\ Main(c).call = c
           /\ FollowRequest(c).kind = "follow" /\ FollowRequest(c).call = c
           /\ AcceptRequest(c).kind = "accept" /\ AcceptRequest(c).call = c
           /\ \A s : /\ CreateRequest(c, s).kind = "create" /\ CreateRequest(c, s).call = c
                     /\ CreateRequest(c, s).to = s
BY DEF Main, FollowRequest, AcceptRequest, CreateRequest

LEMMA IdleTyped ==
    /\ Idle \in Frames /\ Idle.at = "idle" /\ Idle.list = <<>> /\ Idle.inboxes = <<>>
    /\ ~ Idle.replying /\ Idle.result = "none"
<1> DEFINE first == CHOOSE s \in Servers : TRUE
<1>1. first \in Servers
  BY LocalFederationAssumption
<1>2. Idle = [at |-> "idle", whom |-> first, held |-> FALSE, list |-> <<>>, inboxes |-> <<>>,
              replying |-> FALSE, waited |-> TRUE, result |-> "none"]
  BY DEF Idle
<1> HIDE DEF first
<1> QED
  BY <1>1, <1>2 DEF Frames

----------------------------------------------------------------------------
(* Steps that neither add followers nor deliver posts.                     *)

\* Whether somebody waits for a thread matters to nothing that is proved here.
Same(t) ==
    /\ thread'[t].at = thread[t].at
    /\ thread'[t].whom = thread[t].whom
    /\ thread'[t].list = thread[t].list
    /\ thread'[t].inboxes = thread[t].inboxes
    /\ thread'[t].replying = thread[t].replying
    /\ thread'[t].result = thread[t].result

FollowersSame == \A s \in Servers : LocalUser(s)'.followers = LocalUser(s).followers

FollowersGrow == \A s \in Servers : Followers(s) \subseteq Followers(s)'

\* What holds of the threads of one call does not depend on other calls' ones.
LEMMA CallsApart ==
    ASSUME CallsOK, FollowersGrow, NEW c \in Calls,
           \A u \in Threads : u.call # c => Same(u)
    PROVE  /\ \A u \in Threads : u.call # c => FrameOK(u)'
           /\ \A d \in Follows : d # c => FollowOK(d)'
           /\ \A d \in Calls \ Follows : d # c => PostOK(d)'
<1>1. ASSUME NEW u \in Threads, u.call # c PROVE FrameOK(u)'
  BY <1>1 DEF CallsOK, FrameOK, Same
<1>2. ASSUME NEW d \in Follows, d # c PROVE FollowOK(d)'
  <2>1. Same(Main(d)) /\ Same(FollowRequest(d)) /\ Same(AcceptRequest(d))
    BY <1>2, Names, KindsOfThreads DEF Follows
  <2> QED
    BY <2>1 DEF CallsOK, FollowOK, Same
<1>3. ASSUME NEW d \in Calls \ Follows, d # c PROVE PostOK(d)'
  <2>1. Same(Main(d)) /\ \A s \in Servers : Same(CreateRequest(d, s))
    <3>1. Main(d) \in Threads /\ \A s \in Servers : CreateRequest(d, s) \in Threads
      BY Names
    <3> QED
      BY <1>3, <3>1, KindsOfThreads
  <2>2. Pending(d)' = Pending(d)
    BY <2>1 DEF Pending, At, Same
  <2>3. CallOf[d].by \in Servers /\ PostOK(d)
    BY <1>3, Names DEF CallsOK
  <2> QED
    BY <2>1, <2>2, <2>3 DEF PostOK, Same, FollowersGrow, AllIn
<1> QED
  BY <1>1, <1>2, <1>3

\* One thread goes on, and with it perhaps another one of the same call.
LEMMA ThreadsMoved ==
    ASSUME Inv, Typed', NEW t \in Threads, NEW r \in Threads, t.call = r.call,
           \A u \in Threads \ {t, r} : Same(u),
           UNCHANGED posts, FollowersSame,
           \A u \in {t, r} : /\ thread[u].at # "done" \/ Same(u)
                             /\ thread'[u].replying = thread[u].replying
                             /\ FrameOK(u)',
           t.call \in Follows => FollowOK(t.call)',
           t.call \in Calls \ Follows => PostOK(t.call)'
    PROVE  Inv'
<1> DEFINE c == t.call
<1>1. c \in Calls /\ \A u \in Threads : u.call # c => Same(u)
  BY Names
<1>2. FollowersGrow
  BY DEF FollowersGrow, FollowersSame, Followers
<1>3. CallsOK'
  <2>1. /\ \A u \in Threads : u.call # c => FrameOK(u)'
        /\ \A d \in Follows : d # c => FollowOK(d)'
        /\ \A d \in Calls \ Follows : d # c => PostOK(d)'
    BY <1>1, <1>2, CallsApart DEF Inv
  <2>2. ASSUME NEW u \in Threads, Same(u) PROVE FrameOK(u)'
    BY <2>2 DEF Inv, CallsOK, FrameOK, Same
  <2> QED
    BY <2>1, <2>2 DEF CallsOK
<1>4. PostsOK'
  <2>1. ASSUME NEW s \in Servers, NEW i \in DOMAIN posts[s]
        PROVE  thread'[CreateRequest(posts[s][i], s)].result = "Ok"
    <3> DEFINE u == CreateRequest(posts[s][i], s)
    <3>1. u \in Threads /\ thread[u].result = "Ok"
      BY Names DEF Inv, PostsOK
    <3>2. thread[u].at = "done"
      BY <3>1 DEF Inv, CallsOK, FrameOK
    <3>3. Same(u)
      BY <3>1, <3>2
    <3> QED
      BY <3>1, <3>3 DEF Same
  <2> QED
    BY <2>1 DEF Inv, PostsOK
<1>5. \A u \in Threads : thread'[u].replying = thread[u].replying
  BY DEF Same
<1>6. \A a, b : Followed(a, b)' = Followed(a, b)
  BY <1>5, Names DEF Followed
<1>7. IsFiniteSet(Called')
  <2>1. Called' \subseteq Called \cup {c}
    BY <1>1, Names, KindsOfThreads DEF Called, At, Same
  <2> QED
    BY <2>1, FS_AddElement, FS_Subset DEF Inv, CountOK
<1>8. CountOK'
  BY <1>6, <1>7 DEF Inv, CountOK, FollowersSame
<1> QED
  BY <1>3, <1>4, <1>8 DEF Inv

----------------------------------------------------------------------------
(* Looking up a user, failing, and being answered.                         *)

\* The thread looks on for its user, or has it.
GoesOn(t) ==
    /\ thread[t].at \in {"finger", "read", "fetch"}
    /\ thread'[t].at \in {"read", "fetch", "use"}
    /\ thread'[t].whom = thread[t].whom \/ thread[t].at = "finger"
    /\ thread'[t].list = thread[t].list
    /\ thread'[t].inboxes = thread[t].inboxes
    /\ thread'[t].replying = thread[t].replying
    /\ thread'[t].result = thread[t].result

Fails(t) ==
    /\ thread[t].at \in {"finger", "read", "fetch", "await"}
    /\ thread'[t].at = "done" /\ thread'[t].result = "Err"
    /\ thread'[t].replying = thread[t].replying

\* The requests of a call differ from the call and from each other.
LEMMA SameOthers ==
    ASSUME NEW t \in Threads, \A u \in Threads \ {t} : Same(u)
    PROVE  /\ \A c \in Calls : t # Main(c) => Same(Main(c))
           /\ \A c \in Follows : /\ t # FollowRequest(c) => Same(FollowRequest(c))
                                 /\ t # AcceptRequest(c) => Same(AcceptRequest(c))
           /\ \A c \in Calls \ Follows : \A s \in Servers :
                 t # CreateRequest(c, s) => Same(CreateRequest(c, s))
BY Names

LEMMA DifferentThreads ==
    ASSUME NEW c, NEW s
    PROVE  /\ Main(c) # FollowRequest(c) /\ Main(c) # AcceptRequest(c)
           /\ FollowRequest(c) # AcceptRequest(c) /\ Main(c) # CreateRequest(c, s)
BY KindsOfThreads

LEMMA GoesOnKeeps ==
    ASSUME Inv, Typed', NEW t \in Threads, \A u \in Threads \ {t} : Same(u),
           UNCHANGED posts, FollowersSame, GoesOn(t)
    PROVE  Inv'
<1> DEFINE c == t.call
<1>1. FrameOK(t) /\ c \in Calls
  BY Names DEF Inv, CallsOK
<1>2. FrameOK(t)'
  BY <1>1 DEF FrameOK, GoesOn
<1>3. ASSUME c \in Follows PROVE FollowOK(c)'
  <2>1. FollowOK(c)
    BY <1>3 DEF Inv, CallsOK
  <2>2. CASE t = Main(c)
    <3>1. Same(FollowRequest(c)) /\ Same(AcceptRequest(c))
      BY <1>3, <2>2, SameOthers, DifferentThreads
    <3> QED
      BY <2>1, <2>2, <3>1 DEF FollowOK, Same, GoesOn
  <2>3. CASE t = FollowRequest(c)
    <3>1. Same(Main(c)) /\ Same(AcceptRequest(c))
      BY <1>1, <1>3, <2>3, SameOthers, DifferentThreads
    <3>2. thread[t].at # "finger"
      BY <1>1, <2>3, KindsOfThreads DEF FrameOK
    <3> QED
      BY <2>1, <2>3, <3>1, <3>2 DEF FollowOK, Same, GoesOn
  <2>4. CASE t = AcceptRequest(c)
    <3>1. Same(Main(c)) /\ Same(FollowRequest(c))
      BY <1>1, <1>3, <2>4, SameOthers, DifferentThreads
    <3> QED
      BY <2>1, <2>4, <3>1 DEF FollowOK, Same, GoesOn
  <2> QED
    BY <1>3, <2>2, <2>3, <2>4, Names
<1>4. ASSUME c \in Calls \ Follows PROVE PostOK(c)'
  <2>1. PostOK(c) /\ Followers(CallOf[c].by)' = Followers(CallOf[c].by)
    BY <1>1, <1>4, Names DEF Inv, CallsOK, FollowersSame, Followers
  <2>2. CASE t = Main(c)
    <3>1. Pending(c)' = Pending(c)
      BY <1>4, <2>2, SameOthers, DifferentThreads DEF Pending, At, Same
    <3>2. thread[t].at # "finger"
      BY <1>1, <1>4, Names DEF FrameOK
    <3> QED
      BY <2>1, <2>2, <3>1, <3>2 DEF PostOK, GoesOn
  <2>3. ASSUME NEW s \in Servers, t = CreateRequest(c, s) PROVE PostOK(c)'
    <3>1. Same(Main(c))
      BY <1>1, <2>3, SameOthers, DifferentThreads
    <3>2. Pending(c)' = Pending(c)
      <4>1. \A x \in Servers : x # s => Same(CreateRequest(c, x))
        BY <1>4, <2>3, SameOthers, KindsOfThreads
      <4> QED
        BY <2>3, <4>1 DEF Pending, At, Same, GoesOn
    <3> QED
      BY <2>1, <3>1, <3>2 DEF PostOK, Same
  <2> QED
    BY <1>4, <2>2, <2>3, Names
<1> QED
  BY <1>1, <1>2, <1>3, <1>4, ThreadsMoved DEF GoesOn

LEMMA FailsKeeps ==
    ASSUME Inv, Typed', NEW t \in Threads, \A u \in Threads \ {t} : Same(u),
           UNCHANGED posts, FollowersSame, Fails(t)
    PROVE  Inv'
<1> DEFINE c == t.call
<1>1. FrameOK(t) /\ c \in Calls
  BY Names DEF Inv, CallsOK
<1>2. FrameOK(t)'
  BY <1>1 DEF FrameOK, Fails
<1>3. ASSUME c \in Follows PROVE FollowOK(c)'
  <2>1. FollowOK(c) /\ FrameOK(FollowRequest(c)) /\ FrameOK(AcceptRequest(c)) /\ FrameOK(Main(c))
    BY <1>1, <1>3, Names DEF Inv, CallsOK
  <2>2. CASE t = Main(c)
    <3>1. Same(FollowRequest(c)) /\ Same(AcceptRequest(c))
      BY <1>3, <2>2, SameOthers, DifferentThreads
    <3> QED
      BY <2>1, <2>2, <3>1 DEF FollowOK, Same, Fails
  <2>3. CASE t = FollowRequest(c)
    <3>1. Same(Main(c)) /\ Same(AcceptRequest(c))
      BY <1>1, <1>3, <2>3, SameOthers, DifferentThreads
    <3> QED
      BY <2>1, <2>3, <3>1 DEF FollowOK, FrameOK, Same, Fails
  <2>4. CASE t = AcceptRequest(c)
    <3>1. Same(Main(c)) /\ Same(FollowRequest(c))
      BY <1>1, <1>3, <2>4, SameOthers, DifferentThreads
    <3> QED
      BY <2>1, <2>4, <3>1 DEF FollowOK, FrameOK, Same, Fails
  <2> QED
    BY <1>3, <2>2, <2>3, <2>4, Names
<1>4. ASSUME c \in Calls \ Follows PROVE PostOK(c)'
  <2>1. PostOK(c) /\ Followers(CallOf[c].by)' = Followers(CallOf[c].by)
    BY <1>1, <1>4, Names DEF Inv, CallsOK, FollowersSame, Followers
  <2>2. CASE t = Main(c)
    <3>1. Pending(c)' = Pending(c)
      BY <1>4, <2>2, SameOthers, DifferentThreads DEF Pending, At, Same
    <3> QED
      BY <2>1, <2>2, <3>1 DEF PostOK, Fails
  <2>3. ASSUME NEW s \in Servers, t = CreateRequest(c, s) PROVE PostOK(c)'
    <3>1. Same(Main(c))
      BY <1>1, <2>3, SameOthers, DifferentThreads
    <3>2. Pending(c)' = Pending(c)
      <4>1. \A x \in Servers : x # s => Same(CreateRequest(c, x))
        BY <1>4, <2>3, SameOthers, KindsOfThreads
      <4> QED
        BY <2>3, <4>1 DEF Pending, At, Same, Fails
    <3> QED
      BY <2>1, <3>1, <3>2 DEF PostOK, Same
  <2> QED
    BY <1>4, <2>2, <2>3, Names
<1> QED
  BY <1>1, <1>2, <1>3, <1>4, ThreadsMoved DEF Fails

----------------------------------------------------------------------------
(* How each step keeps it.                                                 *)

\* Become, on its own thread.
LEMMA BecomeSets ==
    ASSUME Typed, NEW t \in Threads, NEW new \in Frames, Become(t, new)
    PROVE  /\ thread' \in [Threads -> Frames] /\ thread'[t] = new
           /\ \A u \in Threads \ {t} : Same(u)
BY DEF Typed, Become, Same

LEMMA UsersUnchanged ==
    ASSUME UNCHANGED users
    PROVE  FollowersSame
BY DEF FollowersSame, LocalUser

LEMMA FinishSets ==
    ASSUME Typed, NEW t \in Threads, NEW r \in {"Ok", "Err"}, Finish(t, r)
    PROVE  /\ thread' \in [Threads -> Frames]
           /\ thread'[t].at = "done" /\ thread'[t].result = r
           /\ thread'[t].replying = thread[t].replying
           /\ thread'[t].whom = thread[t].whom
           /\ \A u \in Threads \ {t} : Same(u)
<1> DEFINE new == [thread[t] EXCEPT !.at = "done", !.result = r]
<1>1. /\ new \in Frames /\ new.at = "done" /\ new.result = r
      /\ new.replying = thread[t].replying /\ new.whom = thread[t].whom
  BY DEF Typed, Frames
<1>2. Become(t, new)
  BY DEF Finish
<1> HIDE DEF new
<1> QED
  BY <1>1, <1>2, BecomeSets

LEMMA ReadKeeps ==
    ASSUME Inv, NEW t \in Threads, Read(t)
    PROVE  Inv'
<1>1. thread[t] \in Frames /\ Typed /\ thread[t].at = "read" /\ UNCHANGED <<users, posts>>
  BY DEF Inv, Typed, Read, At
<1> DEFINE found == Entries(t.to, thread[t].whom) # {}
           use == [thread[t] EXCEPT !.at = "use"]
           get == [thread[t] EXCEPT !.at = "fetch", !.held = found]
<1>2. Become(t, use) \/ Become(t, get)
  BY DEF Read
<1>3. ASSUME NEW new \in {use, get} PROVE
         /\ new \in Frames /\ new.at \in {"use", "fetch"}
         /\ new.whom = thread[t].whom /\ new.list = thread[t].list
         /\ new.inboxes = thread[t].inboxes /\ new.replying = thread[t].replying
         /\ new.result = thread[t].result
  BY <1>1 DEF Frames
<1> HIDE DEF use, get
<1>4. PICK new \in {use, get} : Become(t, new)
  BY <1>2
<1>5. /\ thread' \in [Threads -> Frames] /\ thread'[t] = new
      /\ \A u \in Threads \ {t} : Same(u)
  BY <1>1, <1>3, <1>4, BecomeSets
<1>6. Typed'
  BY <1>1, <1>5 DEF Typed
<1>7. GoesOn(t)
  BY <1>1, <1>3, <1>4, <1>5 DEF GoesOn
<1> QED
  BY <1>1, <1>5, <1>6, <1>7, GoesOnKeeps, UsersUnchanged

\* What is fetched is put behind the users that are there, so the local user
\* stays the first.
LEMMA UserAdded ==
    ASSUME Typed, NEW s \in Servers, NEW id \in Servers,
           users' = [users EXCEPT ![s] = Append(@, User(id))]
    PROVE  /\ FollowersSame
           /\ users' \in [Servers -> Seq(Users)] /\ \A x \in Servers : Len(users'[x]) >= 1
<1>1. users[s] \in Seq(Users) /\ Len(users[s]) >= 1 /\ users \in [Servers -> Seq(Users)]
  BY DEF Typed
<1>2. User(id) \in Users
  BY DEF User, Users
<1> DEFINE new == Append(users[s], User(id))
<1>3. /\ new \in Seq(Users) /\ Len(new) >= 1 /\ new[1] = users[s][1]
  BY <1>1, <1>2, AppendProperties
<1>4. users' = [users EXCEPT ![s] = new]
  OBVIOUS
<1> HIDE DEF new
<1>5. users'[s] = new /\ \A x \in Servers \ {s} : users'[x] = users[x]
  BY <1>1, <1>4
<1> QED
  BY <1>1, <1>3, <1>4, <1>5 DEF FollowersSame, LocalUser, Typed

LEMMA FetchUserKeeps ==
    ASSUME Inv, NEW t \in Threads, FetchUser(t)
    PROVE  Inv'
<1> DEFINE use == [thread[t] EXCEPT !.at = "use"]
<1>1. /\ thread[t] \in Frames /\ Typed /\ thread[t].at = "fetch" /\ UNCHANGED posts
      /\ t.to \in Servers /\ thread[t].whom \in Servers
  BY Names DEF Inv, Typed, FetchUser, At, Frames
<1>2. /\ use \in Frames /\ use.at = "use"
      /\ use.whom = thread[t].whom /\ use.list = thread[t].list
      /\ use.inboxes = thread[t].inboxes /\ use.replying = thread[t].replying
      /\ use.result = thread[t].result
  BY <1>1 DEF Frames
<1>3. \/ users' = [users EXCEPT ![t.to] = Append(@, User(thread[t].whom))]
      \/ UNCHANGED users
  BY DEF FetchUser
<1>4. /\ FollowersSame
      /\ users' \in [Servers -> Seq(Users)] /\ \A x \in Servers : Len(users'[x]) >= 1
  <2>1. CASE UNCHANGED users
    BY <1>1, <2>1, UsersUnchanged DEF Typed
  <2>2. CASE users' = [users EXCEPT ![t.to] = Append(@, User(thread[t].whom))]
    BY <1>1, <2>2, UserAdded
  <2> QED
    BY <1>3, <2>1, <2>2
<1>5. Become(t, use) \/ Finish(t, "Err")
  BY DEF FetchUser
<1> HIDE DEF use
<1>6. CASE Become(t, use)
  <2>1. /\ thread' \in [Threads -> Frames] /\ thread'[t] = use
        /\ \A u \in Threads \ {t} : Same(u)
    BY <1>1, <1>2, <1>6, BecomeSets
  <2>2. Typed' /\ GoesOn(t)
    BY <1>1, <1>2, <1>4, <2>1 DEF Typed, GoesOn
  <2> QED
    BY <1>1, <1>4, <2>1, <2>2, GoesOnKeeps
<1>7. CASE Finish(t, "Err")
  <2>1. /\ thread' \in [Threads -> Frames]
        /\ thread'[t].at = "done" /\ thread'[t].result = "Err"
        /\ thread'[t].replying = thread[t].replying
        /\ \A u \in Threads \ {t} : Same(u)
    BY <1>1, <1>7, FinishSets
  <2>2. Typed' /\ Fails(t)
    BY <1>1, <1>4, <2>1 DEF Typed, Fails
  <2> QED
    BY <1>1, <1>4, <2>1, <2>2, FailsKeeps
<1> QED
  BY <1>5, <1>6, <1>7

LEMMA ResolveKeeps ==
    ASSUME Inv, NEW t \in Threads, Resolve(t)
    PROVE  Inv'
<1> DEFINE s == CallOf[t.call].domain
           look == [thread[t] EXCEPT !.at = "read", !.whom = s]
<1>1. /\ thread[t] \in Frames /\ Typed /\ thread[t].at = "finger" /\ UNCHANGED <<users, posts>>
      /\ s \in Servers
  BY Names DEF Inv, Typed, Resolve, At
<1>2. /\ look \in Frames /\ look.at = "read" /\ look.list = thread[t].list
      /\ look.inboxes = thread[t].inboxes /\ look.replying = thread[t].replying
      /\ look.result = thread[t].result
  BY <1>1 DEF Frames
<1>3. Become(t, look) \/ Finish(t, "Err")
  BY DEF Resolve
<1> HIDE DEF look
<1>4. CASE Become(t, look)
  <2>1. /\ thread' \in [Threads -> Frames] /\ thread'[t] = look
        /\ \A u \in Threads \ {t} : Same(u)
    BY <1>1, <1>2, <1>4, BecomeSets
  <2>2. Typed' /\ GoesOn(t)
    BY <1>1, <1>2, <2>1 DEF Typed, GoesOn
  <2> QED
    BY <1>1, <2>1, <2>2, GoesOnKeeps, UsersUnchanged
<1>5. CASE Finish(t, "Err")
  <2>1. /\ thread' \in [Threads -> Frames]
        /\ thread'[t].at = "done" /\ thread'[t].result = "Err"
        /\ thread'[t].replying = thread[t].replying
        /\ \A u \in Threads \ {t} : Same(u)
    BY <1>1, <1>5, FinishSets
  <2>2. Typed' /\ Fails(t)
    BY <1>1, <2>1 DEF Typed, Fails
  <2> QED
    BY <1>1, <2>1, <2>2, FailsKeeps, UsersUnchanged
<1> QED
  BY <1>3, <1>4, <1>5

----------------------------------------------------------------------------
(* Lists of servers.                                                       *)

LEMMA TailOfList ==
    ASSUME NEW s \in Seq(Servers), s # <<>>
    PROVE  /\ Head(s) \in Servers /\ Tail(s) \in Seq(Servers)
           /\ \A S : AllIn(s, S) => Head(s) \in S /\ AllIn(Tail(s), S)
           /\ IsInjective(s) => IsInjective(Tail(s)) /\ AllIn(Tail(s), Servers \ {Head(s)})
<1>1. /\ Len(s) \in Nat /\ Len(s) >= 1 /\ DOMAIN s = 1 .. Len(s)
      /\ Head(s) = s[1] /\ \A i \in 1 .. Len(s) : s[i] \in Servers
  BY ElementOfSeq
<1>2. /\ Tail(s) \in Seq(Servers) /\ Len(Tail(s)) = Len(s) - 1
      /\ \A i \in 1 .. Len(Tail(s)) : Tail(s)[i] = s[i + 1]
  BY HeadTailProperties
<1> DEFINE r == Tail(s)
<1>3. DOMAIN r = 1 .. Len(r) /\ \A i \in DOMAIN r : i + 1 \in DOMAIN s /\ r[i] = s[i + 1]
  BY <1>1, <1>2
<1>4. 1 \in DOMAIN s /\ \A i \in DOMAIN r : i \in Nat /\ i + 1 # 1
  BY <1>1, <1>3
<1> HIDE DEF r
<1>5. \A S : AllIn(s, S) => s[1] \in S /\ AllIn(r, S)
  BY <1>3, <1>4 DEF AllIn
<1>6. IsInjective(s) => IsInjective(r)
  BY <1>3, <1>4 DEF IsInjective
<1>7. IsInjective(s) => AllIn(r, Servers \ {s[1]})
  BY <1>1, <1>3, <1>4 DEF IsInjective, AllIn
<1> QED
  BY <1>1, <1>2, <1>5, <1>6, <1>7 DEF r

\* build_tasks: an inbox that was seen is left out.
LEMMA InboxAdded ==
    ASSUME NEW s \in Seq(Servers), NEW x \in Servers, IsInjective(s)
    PROVE  /\ WithInbox(s, x) \in Seq(Servers) /\ IsInjective(WithInbox(s, x))
           /\ \A S : AllIn(s, S) /\ x \in S => AllIn(WithInbox(s, x), S)
<1>1. CASE Contains(s, x)
  BY <1>1 DEF WithInbox
<1>2. CASE ~ Contains(s, x)
  <2> DEFINE n == Append(s, x)
  <2>1. /\ n \in Seq(Servers) /\ Len(s) \in Nat /\ DOMAIN s = 1 .. Len(s)
        /\ DOMAIN n = 1 .. Len(s) + 1 /\ n[Len(s) + 1] = x
        /\ \A i \in 1 .. Len(s) : n[i] = s[i]
    BY AppendProperties
  <2>2. \A i \in 1 .. Len(s) : s[i] # x
    BY <1>2 DEF Contains
  <2> HIDE DEF n
  <2>3. IsInjective(n)
    BY <2>1, <2>2 DEF IsInjective
  <2>4. \A S : AllIn(s, S) /\ x \in S => AllIn(n, S)
    BY <2>1 DEF AllIn
  <2> QED
    BY <1>2, <2>1, <2>3, <2>4 DEF WithInbox, n
<1> QED
  BY <1>1, <1>2

LEMMA CountAppend ==
    ASSUME NEW S, NEW s \in Seq(S), NEW x, NEW y \in S
    PROVE  /\ Count(x, s) \in Nat
           /\ Count(x, Append(s, y)) = IF x = y THEN Count(x, s) + 1 ELSE Count(x, s)
<1> DEFINE places == {i \in DOMAIN s : s[i] = x}
           n == Len(s) + 1
           t == Append(s, y)
<1>1. /\ Len(s) \in Nat /\ DOMAIN s = 1 .. Len(s) /\ DOMAIN t = 1 .. n
      /\ t[n] = y /\ \A i \in 1 .. Len(s) : t[i] = s[i]
  BY AppendProperties
<1>2. IsFiniteSet(places) /\ Cardinality(places) \in Nat
  <2>1. 1 \in Int /\ Len(s) \in Int
    BY <1>1
  <2>2. IsFiniteSet(1 .. Len(s))
    BY <2>1, FS_Interval
  <2> QED
    BY <1>1, <2>2, FS_Subset, FS_CardinalityType
<1>3. n \notin places
  BY <1>1
<1> HIDE DEF t, n
<1>4. {i \in DOMAIN t : t[i] = x} = IF x = y THEN places \cup {n} ELSE places
  <2>1. \A i \in DOMAIN t : i \in 1 .. Len(s) \/ i = n
    BY <1>1 DEF n
  <2>2. \A i \in 1 .. Len(s) : i \in DOMAIN t
    BY <1>1 DEF n
  <2>3. n \in DOMAIN t
    BY <1>1 DEF n
  <2> QED
    BY <1>1, <1>3, <2>1, <2>2, <2>3
<1> HIDE DEF places
<1>5. Cardinality(places \cup {n}) = Cardinality(places) + 1
  BY <1>2, <1>3, FS_AddElement
<1>6. Count(x, t) = IF x = y THEN Cardinality(places) + 1 ELSE Cardinality(places)
  BY <1>4, <1>5 DEF Count
<1> QED
  BY <1>2, <1>6 DEF Count, places, t

----------------------------------------------------------------------------
(* Following.                                                              *)

LEMMA RequestSets ==
    ASSUME Typed, NEW t \in Threads, NEW r \in Threads, t # r, NEW new \in Frames,
           Request(t, new, r)
    PROVE  /\ thread' \in [Threads -> Frames]
           /\ thread'[t].at = "await" /\ thread'[t].list = new.list
           /\ thread'[t].replying = new.replying /\ thread'[t].result = new.result
           /\ thread'[r].at = "read" /\ ~ thread'[r].replying /\ thread'[r].result = "none"
           /\ \A u \in Threads \ {t, r} : Same(u)
<1> DEFINE mine == [new EXCEPT !.at = "await"]
           its == [Idle EXCEPT !.at = "read", !.whom = Actor(r)]
<1>1. /\ mine \in Frames /\ mine.at = "await" /\ mine.list = new.list
      /\ mine.replying = new.replying /\ mine.result = new.result
  BY DEF Frames
<1>2. /\ its \in Frames /\ its.at = "read" /\ ~ its.replying /\ its.result = "none"
  BY Names, IdleTyped DEF Frames
<1>3. thread' = [thread EXCEPT ![t] = mine, ![r] = its]
  BY DEF Request
<1> HIDE DEF mine, its
<1>4. /\ thread' \in [Threads -> Frames] /\ thread'[t] = mine /\ thread'[r] = its
      /\ \A u \in Threads \ {t, r} : thread'[u] = thread[u]
  BY <1>1, <1>2, <1>3 DEF Typed
<1> QED
  BY <1>1, <1>2, <1>4 DEF Same

LEMMA CallFollowKeeps ==
    ASSUME Inv, NEW c \in Calls, CallFollow(c)
    PROVE  Inv'
<1> DEFINE t == Main(c)
           new == [Idle EXCEPT !.at = "finger"]
<1>1. /\ Typed /\ t \in Threads /\ t.call = c /\ c \in Follows /\ t.kind = "call"
      /\ thread[t].at = "idle" /\ FrameOK(t) /\ FollowOK(c) /\ UNCHANGED <<users, posts>>
  BY Names, KindsOfThreads DEF Inv, CallsOK, CallFollow, Ready, At
<1>2. /\ new \in Frames /\ new.at = "finger" /\ ~ new.replying /\ new.result = "none"
  BY IdleTyped DEF Frames
<1>3. Become(t, new)
  BY DEF CallFollow
<1> HIDE DEF new, t
<1>4. /\ thread' \in [Threads -> Frames] /\ thread'[t] = new
      /\ \A u \in Threads \ {t} : Same(u)
  BY <1>1, <1>2, <1>3, BecomeSets
<1>5. Typed' /\ FollowersSame
  BY <1>1, <1>4, UsersUnchanged DEF Typed
<1>6. FrameOK(t)'
  BY <1>1, <1>2, <1>4 DEF FrameOK, Follows
<1>7. Same(FollowRequest(c)) /\ Same(AcceptRequest(c))
  BY <1>1, <1>4, SameOthers, DifferentThreads DEF t
<1>8. FollowOK(c)'
  BY <1>1, <1>2, <1>4, <1>7 DEF FollowOK, Same, t
<1>9. thread'[t].replying = thread[t].replying
  BY <1>1, <1>2, <1>4 DEF FrameOK, Inv, Typed, Frames
<1> QED
  BY <1>1, <1>4, <1>5, <1>6, <1>8, <1>9, ThreadsMoved

LEMMA SendFollowKeeps ==
    ASSUME Inv, NEW t \in Threads, SendFollow(t)
    PROVE  Inv'
<1> DEFINE c == t.call
           r == FollowRequest(c)
<1>1. /\ Typed /\ c \in Follows /\ t = Main(c) /\ t.kind = "call" /\ r \in Threads /\ t # r
      /\ r.kind = "follow" /\ r.call = c
      /\ thread[t].at = "use" /\ thread[t] \in Frames /\ UNCHANGED <<users, posts>>
      /\ t.to = CallOf[c].by
  BY Names, KindsOfThreads DEF Inv, Typed, SendFollow, At, Main
<1>2. FrameOK(t) /\ FrameOK(r) /\ FollowOK(c)
  BY <1>1 DEF Inv, CallsOK
<1>3. FollowersSame
  BY <1>1, UsersUnchanged
<1>4. CASE CallOf[c].domain = t.to
  <2>1. /\ thread' \in [Threads -> Frames]
        /\ thread'[t].at = "done" /\ thread'[t].result = "Ok"
        /\ thread'[t].replying = thread[t].replying
        /\ \A u \in Threads \ {t} : Same(u)
    BY <1>1, <1>4, FinishSets DEF SendFollow
  <2>2. Typed' /\ FrameOK(t)'
    BY <1>1, <1>2, <2>1 DEF Typed, FrameOK
  <2>3. Same(r) /\ Same(AcceptRequest(c))
    BY <1>1, <2>1, SameOthers, DifferentThreads
  <2>4. FollowOK(c)'
    BY <1>1, <1>2, <1>4, <2>1, <2>3 DEF FollowOK, Same
  <2> QED
    BY <1>1, <1>3, <2>1, <2>2, <2>4, ThreadsMoved
<1>5. CASE CallOf[c].domain # t.to
  <2>1. Request(t, thread[t], r)
    BY <1>5 DEF SendFollow
  <2> HIDE DEF c, r
  <2>2. /\ thread' \in [Threads -> Frames]
        /\ thread'[t].at = "await" /\ thread'[t].replying = thread[t].replying
        /\ thread'[t].result = thread[t].result
        /\ thread'[r].at = "read" /\ ~ thread'[r].replying /\ thread'[r].result = "none"
        /\ \A u \in Threads \ {t, r} : Same(u)
    BY <1>1, <2>1, RequestSets
  <2>3. Typed'
    BY <1>1, <2>2 DEF Typed
  <2>4. thread[r].at = "idle" /\ ~ thread[r].replying
    BY <1>1, <1>2 DEF FollowOK, FrameOK, r
  <2>5. FrameOK(t)' /\ FrameOK(r)'
    BY <1>1, <1>2, <2>2 DEF FrameOK
  <2>6. Same(AcceptRequest(c))
    BY <1>1, <2>2, Names, DifferentThreads DEF r
  <2>7. FollowOK(c)'
    BY <1>1, <1>2, <1>5, <2>2, <2>4, <2>6 DEF FollowOK, FrameOK, Same, r
  <2>8. thread'[r].replying = thread[r].replying
    BY <1>1, <2>2, <2>3, <2>4 DEF Inv, Typed, Frames
  <2> QED
    BY <1>1, <1>3, <2>2, <2>3, <2>4, <2>5, <2>7, <2>8, ThreadsMoved DEF c
<1> QED
  BY <1>4, <1>5

LEMMA SendAcceptKeeps ==
    ASSUME Inv, NEW t \in Threads, SendAccept(t)
    PROVE  Inv'
<1> DEFINE c == t.call
           r == AcceptRequest(c)
<1>1. /\ Typed /\ c \in Follows /\ t = FollowRequest(c) /\ t.kind = "follow"
      /\ r \in Threads /\ t # r /\ r.kind = "accept" /\ r.call = c
      /\ thread[t].at = "use" /\ thread[t] \in Frames
      /\ UNCHANGED <<users, posts>>
  BY Names, KindsOfThreads DEF Inv, Typed, SendAccept, At
<1>2. FrameOK(t) /\ FrameOK(r) /\ FollowOK(c)
  BY <1>1 DEF Inv, CallsOK
<1>3. Request(t, thread[t], r)
  BY DEF SendAccept
<1>4. FollowersSame /\ thread[t].replying
  BY <1>1, UsersUnchanged DEF SendAccept
<1> HIDE DEF c, r
<1>5. /\ thread' \in [Threads -> Frames]
      /\ thread'[t].at = "await" /\ thread'[t].replying = thread[t].replying
      /\ thread'[t].result = thread[t].result
      /\ thread'[r].at = "read" /\ ~ thread'[r].replying /\ thread'[r].result = "none"
      /\ \A u \in Threads \ {t, r} : Same(u)
  BY <1>1, <1>3, RequestSets
<1>6. Typed'
  BY <1>1, <1>5 DEF Typed
<1>7. thread[r].at = "idle" /\ ~ thread[r].replying
  BY <1>1, <1>2 DEF FollowOK, FrameOK, r
<1>8. FrameOK(t)' /\ FrameOK(r)'
  BY <1>1, <1>2, <1>4, <1>5 DEF FrameOK
<1>9. Same(Main(c))
  BY <1>1, <1>5, Names, DifferentThreads DEF r, c
<1>10. FollowOK(c)'
  BY <1>1, <1>2, <1>4, <1>5, <1>7, <1>9 DEF FollowOK, FrameOK, Same, r
<1>11. thread'[r].replying = thread[r].replying
  BY <1>1, <1>5, <1>6, <1>7 DEF Inv, Typed, Frames
<1> QED
  BY <1>1, <1>4, <1>5, <1>6, <1>7, <1>8, <1>10, <1>11, ThreadsMoved DEF c

LEMMA ReceiveAcceptKeeps ==
    ASSUME Inv, NEW t \in Threads, ReceiveAccept(t)
    PROVE  Inv'
<1> DEFINE c == t.call
<1>1. /\ Typed /\ c \in Follows /\ t = AcceptRequest(c) /\ t.kind = "accept"
      /\ thread[t].at = "use" /\ UNCHANGED <<users, posts>> /\ Finish(t, "Ok")
  BY Names DEF Inv, ReceiveAccept, At
<1>2. FrameOK(t) /\ FollowOK(c) /\ FrameOK(FollowRequest(c))
  BY <1>1, Names DEF Inv, CallsOK
<1>3. /\ thread' \in [Threads -> Frames]
      /\ thread'[t].at = "done" /\ thread'[t].result = "Ok"
      /\ thread'[t].replying = thread[t].replying
      /\ \A u \in Threads \ {t} : Same(u)
  BY <1>1, FinishSets
<1>4. Typed' /\ FrameOK(t)' /\ FollowersSame
  BY <1>1, <1>2, <1>3, UsersUnchanged DEF Typed, FrameOK
<1>5. Same(Main(c)) /\ Same(FollowRequest(c))
  <2>1. c \in Calls
    BY <1>1 DEF Follows
  <2> QED
    BY <1>1, <1>3, <2>1, SameOthers, DifferentThreads
<1>6. FollowOK(c)'
  BY <1>1, <1>2, <1>3, <1>5 DEF FollowOK, Same
<1> QED
  BY <1>1, <1>3, <1>4, <1>6, ThreadsMoved

----------------------------------------------------------------------------
(* Posting.                                                                *)

\* The call of a post goes on by itself: none of its requests changes.
LEMMA PosterKeeps ==
    ASSUME Inv, Typed', NEW c \in Calls \ Follows,
           \A u \in Threads \ {Main(c)} : Same(u),
           UNCHANGED posts, FollowersSame,
           thread[Main(c)].at # "done",
           thread'[Main(c)].replying = thread[Main(c)].replying,
           FrameOK(Main(c))',
           Pending(c)' = Pending(c) => PostOK(c)'
    PROVE  Inv'
<1>1. Main(c) \in Threads /\ Main(c).call = c
  BY Names, KindsOfThreads
<1>2. \A s \in Servers : Same(CreateRequest(c, s))
  BY <1>1, SameOthers, DifferentThreads
<1>3. Pending(c)' = Pending(c)
  BY <1>2 DEF Pending, At, Same
<1> QED
  BY <1>1, <1>3, ThreadsMoved

LEMMA CallPostKeeps ==
    ASSUME Inv, NEW c \in Calls, CallPost(c)
    PROVE  Inv'
<1> DEFINE t == Main(c)
           f == LocalUser(CallOf[c].by).followers
           queued == [Idle EXCEPT !.at = "queue"]
           look == [Idle EXCEPT !.at = "read", !.whom = Head(f), !.list = Tail(f)]
<1>1. /\ Typed /\ t \in Threads /\ c \in Calls \ Follows /\ t.kind = "call"
      /\ t.call = c /\ thread[t].at = "idle" /\ UNCHANGED <<users, posts>>
      /\ CallOf[c].by \in Servers
  BY Names, KindsOfThreads DEF Inv, CallPost, Ready, At
<1>2. FrameOK(t) /\ PostOK(c) /\ thread[t].replying \in BOOLEAN
  BY <1>1 DEF Inv, CallsOK, Typed, Frames
<1>3. f \in Seq(Servers)
  <2>1. users[CallOf[c].by] \in Seq(Users) /\ Len(users[CallOf[c].by]) >= 1
    BY <1>1 DEF Typed
  <2>2. users[CallOf[c].by][1] \in Users
    BY <2>1, ElementOfSeq
  <2> QED
    BY <2>2 DEF LocalUser, Users
<1>4. AllIn(f, Followers(CallOf[c].by))
  <2>1. \A i \in DOMAIN f : f[i] \in Servers /\ Contains(f, f[i])
    BY <1>3, ElementOfSeq DEF Contains
  <2> QED
    BY <2>1 DEF AllIn, Followers
<1>5. ~ Idle.replying /\ Idle.result = "none" /\ Idle.list = <<>> /\ Idle.inboxes = <<>> /\ Idle \in Frames
  BY IdleTyped
<1>6. /\ queued \in Frames /\ queued.at = "queue" /\ queued.list = <<>>
      /\ ~ queued.replying /\ queued.result = "none"
  BY <1>5 DEF Frames
<1>7. ASSUME f # <<>>
      PROVE  /\ look \in Frames /\ look.at = "read" /\ look.whom = Head(f)
             /\ look.list = Tail(f) /\ look.inboxes = <<>>
             /\ ~ look.replying /\ look.result = "none"
  <2>1. Head(f) \in Servers /\ Tail(f) \in Seq(Servers)
    BY <1>3, <1>7, TailOfList
  <2> HIDE DEF f
  <2> QED
    BY <1>5, <2>1 DEF Frames
<1>8. Become(t, IF f = <<>> THEN queued ELSE look)
  BY DEF CallPost
<1>9. AllIn(<<>>, Followers(CallOf[c].by)) /\ AllIn(<<>>, Pending(c)) /\ IsInjective(<<>>)
  BY DEF AllIn, IsInjective
<1> DEFINE new == IF f = <<>> THEN queued ELSE look
<1>10. /\ new \in Frames /\ ~ new.replying /\ new.result = "none"
       /\ new.at \in {"queue", "read"}
  BY <1>6, <1>7
<1>11. /\ new.at = "queue" => AllIn(new.list, Followers(CallOf[c].by))
                              /\ AllIn(new.list, Pending(c)) /\ IsInjective(new.list)
       /\ new.at = "read" => /\ new.whom \in Followers(CallOf[c].by)
                             /\ AllIn(new.list, Followers(CallOf[c].by))
                             /\ AllIn(new.inboxes, Followers(CallOf[c].by))
                             /\ IsInjective(new.inboxes)
  <2>1. CASE f = <<>>
    BY <1>6, <1>9, <2>1
  <2>2. CASE f # <<>>
    <3>1. Head(f) \in Followers(CallOf[c].by) /\ AllIn(Tail(f), Followers(CallOf[c].by))
      BY <1>3, <1>4, <2>2, TailOfList
    <3> QED
      BY <1>7, <1>9, <2>2, <3>1
  <2> QED
    BY <2>1, <2>2
<1> HIDE DEF f, new, t
<1>12. /\ thread' \in [Threads -> Frames] /\ thread'[t] = new
       /\ \A u \in Threads \ {t} : Same(u)
  <2>1. Become(t, new)
    BY <1>8 DEF new
  <2> QED
    BY <1>1, <1>10, <2>1, BecomeSets
<1>13. Typed' /\ FollowersSame
  BY <1>1, <1>12, UsersUnchanged DEF Typed
<1>14. FrameOK(t)'
  BY <1>1, <1>10, <1>12, Names DEF FrameOK
<1>15. Followers(CallOf[c].by)' = Followers(CallOf[c].by)
  BY <1>1, <1>13 DEF FollowersSame, Followers
<1>16. thread'[t].replying = thread[t].replying
  BY <1>1, <1>2, <1>10, <1>12 DEF FrameOK, Typed, Frames
<1>17. Pending(c)' = Pending(c) => PostOK(c)'
  BY <1>1, <1>2, <1>10, <1>11, <1>12, <1>15 DEF PostOK, t
<1> QED
  BY <1>1, <1>12, <1>13, <1>14, <1>16, <1>17, PosterKeeps DEF t

LEMMA CollectInboxKeeps ==
    ASSUME Inv, NEW t \in Threads, CollectInbox(t)
    PROVE  Inv'
<1> DEFINE c == t.call
           me == thread[t]
           F == Followers(CallOf[c].by)
           inboxes == IF me.whom = t.to THEN me.inboxes ELSE WithInbox(me.inboxes, me.whom)
           queued == [me EXCEPT !.at = "queue", !.inboxes = <<>>, !.list = inboxes]
           look == [me EXCEPT !.at = "read", !.inboxes = inboxes,
                              !.whom = Head(me.list), !.list = Tail(me.list)]
           new == IF me.list = <<>> THEN queued ELSE look
<1>1. /\ Typed /\ c \in Calls \ Follows /\ t = Main(c) /\ t.kind = "call"
      /\ me.at = "use" /\ me \in Frames /\ UNCHANGED <<users, posts>>
      /\ CallOf[c].by \in Servers /\ Op(c) = "post"
  BY Names DEF Inv, Typed, CollectInbox, At
<1>2. FrameOK(t) /\ PostOK(c)
  BY <1>1 DEF Inv, CallsOK
<1>3. /\ me.whom \in F /\ AllIn(me.list, F) /\ AllIn(me.inboxes, F) /\ IsInjective(me.inboxes)
      /\ Pending(c) = Servers
  BY <1>1, <1>2 DEF PostOK
<1>4. me.whom \in Servers /\ me.list \in Seq(Servers) /\ me.inboxes \in Seq(Servers)
  BY <1>1 DEF Frames
<1>5. inboxes \in Seq(Servers) /\ IsInjective(inboxes) /\ AllIn(inboxes, F)
  BY <1>3, <1>4, InboxAdded
<1>6. AllIn(inboxes, Servers)
  BY <1>5, ElementOfSeq DEF AllIn
<1>7. me.result = "none"
  BY <1>1, <1>2 DEF FrameOK
<1>8. Become(t, new)
  BY DEF CollectInbox
<1> HIDE DEF F, inboxes
<1>9. /\ new \in Frames /\ new.result = "none" /\ new.replying = me.replying
      /\ \/ new.at = "queue" /\ new.list = inboxes
         \/ /\ new.at = "read" /\ new.inboxes = inboxes /\ new.whom \in F
            /\ AllIn(new.list, F)
  <2>1. CASE me.list = <<>>
    BY <1>1, <1>5, <1>7, <2>1 DEF Frames
  <2>2. CASE me.list # <<>>
    <3>1. /\ Head(me.list) \in Servers /\ Tail(me.list) \in Seq(Servers)
          /\ Head(me.list) \in F /\ AllIn(Tail(me.list), F)
      BY <1>3, <1>4, <2>2, TailOfList
    <3> QED
      BY <1>1, <1>5, <1>7, <2>2, <3>1 DEF Frames
  <2> QED
    BY <2>1, <2>2
<1> HIDE DEF new
<1>10. /\ thread' \in [Threads -> Frames] /\ thread'[t] = new
       /\ \A u \in Threads \ {t} : Same(u)
  BY <1>1, <1>8, <1>9, BecomeSets
<1>11. Typed' /\ FollowersSame
  BY <1>1, <1>10, UsersUnchanged DEF Typed
<1>12. FrameOK(t)'
  BY <1>1, <1>2, <1>9, <1>10 DEF FrameOK
<1>13. Followers(CallOf[c].by)' = Followers(CallOf[c].by)
  BY <1>1, <1>11 DEF FollowersSame, Followers
<1>14. Pending(c)' = Pending(c) => PostOK(c)'
  BY <1>1, <1>2, <1>3, <1>5, <1>6, <1>9, <1>10, <1>13 DEF PostOK, F
<1> QED
  BY <1>1, <1>9, <1>10, <1>11, <1>12, <1>14, PosterKeeps

LEMMA SendCreateKeeps ==
    ASSUME Inv, NEW t \in Threads, SendCreate(t)
    PROVE  Inv'
<1> DEFINE c == t.call
           list == thread[t].list
           F == Followers(CallOf[c].by)
<1>1. /\ Typed /\ thread[t].at = "queue" /\ thread[t] \in Frames
      /\ UNCHANGED <<users, posts>> /\ FrameOK(t)
  BY DEF Inv, CallsOK, Typed, SendCreate, At
<1>2. /\ c \in Calls \ Follows /\ t = Main(c) /\ t.kind = "call" /\ CallOf[c].by \in Servers
      /\ Op(c) = "post"
  BY <1>1, Names DEF FrameOK
<1>3. PostOK(c) /\ list \in Seq(Servers)
  BY <1>1, <1>2 DEF Inv, CallsOK, Frames
<1>4. AllIn(list, F) /\ AllIn(list, Pending(c)) /\ IsInjective(list)
  BY <1>1, <1>2, <1>3 DEF PostOK
<1>5. FollowersSame /\ F' = F
  BY <1>1, <1>2, UsersUnchanged DEF FollowersSame, Followers
<1> HIDE DEF c
<1>6. CASE list = <<>>
  <2>1. /\ thread' \in [Threads -> Frames]
        /\ thread'[t].at = "done" /\ thread'[t].result = "Ok"
        /\ thread'[t].replying = thread[t].replying
        /\ \A u \in Threads \ {t} : Same(u)
    BY <1>1, <1>6, FinishSets DEF SendCreate
  <2>2. Typed' /\ FrameOK(t)'
    BY <1>1, <2>1 DEF Typed, FrameOK
  <2>3. Pending(c)' = Pending(c) => PostOK(c)'
    BY <1>2, <1>3, <1>5, <2>1 DEF PostOK
  <2> QED
    BY <1>1, <1>2, <1>5, <2>1, <2>2, <2>3, PosterKeeps
<1>7. CASE list # <<>>
  <2>0. PICK s \in Servers : s = Head(list)
    BY <1>3, <1>7, TailOfList
  <2> DEFINE r == CreateRequest(c, s)
             new == [thread[t] EXCEPT !.whom = s, !.list = Tail(list)]
  <2>1. /\ s \in Servers /\ Tail(list) \in Seq(Servers) /\ s \in F /\ AllIn(Tail(list), F)
        /\ s \in Pending(c) /\ AllIn(Tail(list), Pending(c)) /\ IsInjective(Tail(list))
        /\ AllIn(Tail(list), Servers \ {s})
    BY <1>3, <1>4, <1>7, <2>0, TailOfList
  <2>2. AllIn(Tail(list), Pending(c) \ {s})
    BY <2>1 DEF AllIn
  <2>3. r \in Threads /\ r # t /\ r.call = c /\ r.kind = "create" /\ t.call = c
    BY <1>2, <2>1, Names, KindsOfThreads DEF c
  <2>4. thread[r].at = "idle" /\ FrameOK(r)
    BY <2>1, <2>3 DEF Pending, At, Inv, CallsOK
  <2>5. /\ new \in Frames /\ new.list = Tail(list) /\ new.replying = thread[t].replying
        /\ new.result = thread[t].result
    BY <1>1, <2>1 DEF Frames
  <2>6. Request(t, new, r)
    BY <1>7, <2>0 DEF SendCreate, c
  <2> HIDE DEF r, new
  <2>7. /\ thread' \in [Threads -> Frames]
        /\ thread'[t].at = "await" /\ thread'[t].list = Tail(list)
        /\ thread'[t].replying = thread[t].replying /\ thread'[t].result = thread[t].result
        /\ thread'[r].at = "read" /\ ~ thread'[r].replying /\ thread'[r].result = "none"
        /\ \A u \in Threads \ {t, r} : Same(u)
    BY <1>1, <2>3, <2>5, <2>6, RequestSets
  <2>8. Typed'
    BY <1>1, <2>7 DEF Typed
  <2>9. FrameOK(t)' /\ FrameOK(r)'
    <3>1. thread[t].result = "none" /\ (thread[t].replying => t.kind = "follow")
      BY <1>1 DEF FrameOK
    <3>2. FrameOK(t)'
      BY <1>2, <2>7, <3>1 DEF FrameOK
    <3>3. thread'[r].at = "read" /\ ~ thread'[r].replying /\ thread'[r].result = "none"
      BY <2>7
    <3>4. FrameOK(r)'
      BY <3>3 DEF FrameOK
    <3> QED
      BY <3>2, <3>4
  <2>10. Pending(c)' = Pending(c) \ {s}
    <3>1. \A x \in Servers \ {s} : Same(CreateRequest(c, x))
      BY <1>2, <2>7, Names, KindsOfThreads DEF r
    <3> QED
      BY <2>7, <3>1 DEF Pending, At, Same, r
  <2>11. PostOK(c)'
    <3> HIDE DEF F, list
    <3>1. Servers \ Pending(c) \subseteq F
      BY <1>3 DEF PostOK, F
    <3>2. Servers \ Pending(c)' \subseteq F'
      BY <1>5, <2>1, <2>10, <3>1
    <3> QED
      BY <1>2, <1>5, <2>1, <2>2, <2>7, <2>10, <3>2 DEF PostOK, F
  <2>12. ~ thread[r].replying
    BY <2>4 DEF FrameOK
  <2>13. thread'[r].replying = thread[r].replying
    BY <2>3, <2>7, <2>8, <2>12 DEF Inv, Typed, Frames
  <2> QED
    <3>1. \A u \in {t, r} : thread[u].at # "done" /\ thread'[u].replying = thread[u].replying
      BY <1>1, <2>4, <2>7, <2>13
    <3>2. t.call = r.call /\ t.call \notin Follows
      BY <1>2, <2>3
    <3>3. PostOK(t.call)'
      BY <2>11 DEF c
    <3>4. \A u \in Threads \ {t, r} : Same(u)
      BY <2>7
    <3> QED
      BY <1>1, <1>5, <2>3, <2>8, <2>9, <3>1, <3>2, <3>3, <3>4, ThreadsMoved
<1> QED
  BY <1>6, <1>7

\* A Create is received once, and its sender looks only whether the request
\* was made.
LEMMA ReceiveCreateKeeps ==
    ASSUME Inv, NEW t \in Threads, ReceiveCreate(t)
    PROVE  Inv'
<1> DEFINE c == t.call
           s == t.to
<1>1. /\ Typed /\ c \in Calls \ Follows /\ t.kind = "create" /\ t = CreateRequest(c, s)
      /\ s \in Servers /\ thread[t].at = "use" /\ UNCHANGED users
      /\ posts' = [posts EXCEPT ![s] = Append(@, c)] /\ Finish(t, "Ok") /\ FrameOK(t)
  BY Names DEF Inv, CallsOK, ReceiveCreate, At
<1>2. thread[t].result = "none"
  BY <1>1 DEF FrameOK, Typed, Frames
<1>3. /\ thread' \in [Threads -> Frames]
      /\ thread'[t].at = "done" /\ thread'[t].result = "Ok"
      /\ thread'[t].replying = thread[t].replying
      /\ \A u \in Threads \ {t} : Same(u)
  BY <1>1, FinishSets
<1> HIDE DEF c, s
<1>4. posts[s] \in Seq(Calls) /\ posts \in [Servers -> Seq(Calls)]
  BY <1>1 DEF Typed
<1> DEFINE n == Append(posts[s], c)
<1>5. /\ n \in Seq(Calls) /\ Len(posts[s]) \in Nat /\ DOMAIN posts[s] = 1 .. Len(posts[s])
      /\ DOMAIN n = 1 .. Len(posts[s]) + 1 /\ n[Len(posts[s]) + 1] = c
      /\ \A i \in 1 .. Len(posts[s]) : n[i] = posts[s][i]
  BY <1>1, <1>4, AppendProperties
<1>6. posts' = [posts EXCEPT ![s] = n]
  BY <1>1
<1> HIDE DEF n
<1>7. posts'[s] = n /\ \A x \in Servers \ {s} : posts'[x] = posts[x]
  BY <1>1, <1>4, <1>6
<1>8. Typed' /\ FollowersSame
  BY <1>1, <1>3, <1>4, <1>5, <1>6, UsersUnchanged DEF Typed
<1>9. FrameOK(t)'
  BY <1>1, <1>3 DEF FrameOK
<1>10. FollowersGrow
  BY <1>8 DEF FollowersGrow, FollowersSame, Followers
<1>11. PostOK(c)'
  <2>1. Same(Main(c))
    BY <1>1, <1>3, SameOthers, DifferentThreads
  <2>2. \A x \in Servers : x # s => Same(CreateRequest(c, x))
    BY <1>1, <1>3, SameOthers, KindsOfThreads
  <2>3. Pending(c)' = Pending(c)
    BY <1>1, <1>3, <2>2 DEF Pending, At, Same
  <2>4. PostOK(c) /\ Followers(CallOf[c].by)' = Followers(CallOf[c].by)
    BY <1>1, <1>8, Names DEF Inv, CallsOK, FollowersSame, Followers
  <2> QED
    BY <2>1, <2>3, <2>4 DEF PostOK, Same
<1>12. CallsOK'
  <2>1. /\ \A u \in Threads : u.call # c => FrameOK(u)'
        /\ \A d \in Follows : d # c => FollowOK(d)'
        /\ \A d \in Calls \ Follows : d # c => PostOK(d)'
    <3>1. \A u \in Threads : u.call # c => Same(u)
      BY <1>3 DEF c
    <3> QED
      BY <1>1, <1>10, <3>1, CallsApart DEF Inv
  <2>2. ASSUME NEW u \in Threads, Same(u) PROVE FrameOK(u)'
    BY <2>2 DEF Inv, CallsOK, FrameOK, Same
  <2> QED
    BY <1>1, <1>3, <1>9, <1>11, <2>1, <2>2 DEF CallsOK
<1>13. PostsOK'
  <2>1. \A i \in DOMAIN posts[s] : posts[s][i] # c
    BY <1>1, <1>2 DEF Inv, PostsOK
  <2>2. IsInjective(n)
    BY <1>1, <1>5, <2>1 DEF Inv, PostsOK, IsInjective
  <2>3. ASSUME NEW x \in Servers, NEW d \in Calls \ Follows,
               thread[CreateRequest(d, x)].result = "Ok"
        PROVE  thread'[CreateRequest(d, x)].result = "Ok"
    BY <1>3, <2>3, Names DEF Same
  <2>4. ASSUME NEW i \in DOMAIN n
        PROVE  n[i] \in Calls \ Follows /\ thread'[CreateRequest(n[i], s)].result = "Ok"
    <3>1. CASE i \in DOMAIN posts[s]
      BY <1>1, <1>5, <2>3, <3>1 DEF Inv, PostsOK
    <3>2. CASE i = Len(posts[s]) + 1
      BY <1>1, <1>3, <1>5, <3>2
    <3> QED
      BY <1>5, <3>1, <3>2
  <2>5. ASSUME NEW x \in Servers \ {s}
        PROVE  /\ IsInjective(posts[x])
               /\ \A i \in DOMAIN posts[x] :
                     /\ posts[x][i] \in Calls \ Follows
                     /\ thread'[CreateRequest(posts[x][i], x)].result = "Ok"
    BY <2>3 DEF Inv, PostsOK
  <2> QED
    BY <1>7, <2>2, <2>4, <2>5 DEF PostsOK
<1>14. CountOK'
  <2>1. \A u \in Threads : thread'[u].replying = thread[u].replying
    BY <1>3 DEF Same
  <2>2. \A a, b : Followed(a, b)' = Followed(a, b)
    BY <2>1, Names DEF Followed
  <2>3. Called' = Called
    <3>1. \A d \in Calls : Same(Main(d))
      BY <1>1, <1>3, Names, KindsOfThreads
    <3> QED
      BY <3>1 DEF Called, At, Same
  <2> QED
    BY <1>8, <2>2, <2>3 DEF Inv, CountOK, FollowersSame
<1> QED
  BY <1>8, <1>12, <1>13, <1>14 DEF Inv

----------------------------------------------------------------------------
(* A follower is added.                                                    *)

LEMMA FollowerAdded ==
    ASSUME Typed, NEW s \in Servers, NEW a \in Servers,
           users' = [users EXCEPT ![s][1].followers = Append(@, a)]
    PROVE  /\ users' \in [Servers -> Seq(Users)] /\ \A x \in Servers : Len(users'[x]) >= 1
           /\ LocalUser(s).followers \in Seq(Servers)
           /\ LocalUser(s)'.followers = Append(LocalUser(s).followers, a)
           /\ \A x \in Servers \ {s} : LocalUser(x)' = LocalUser(x)
           /\ FollowersGrow
<1> DEFINE u == users[s]
           f == u[1].followers
           me == [u[1] EXCEPT !.followers = Append(f, a)]
           new == [u EXCEPT ![1] = me]
<1>1. /\ users \in [Servers -> Seq(Users)] /\ u \in Seq(Users) /\ Len(u) >= 1
      /\ \A x \in Servers : Len(users[x]) >= 1
  BY DEF Typed
<1>2. u[1] \in Users /\ f \in Seq(Servers)
  <2> HIDE DEF u
  <2>1. u[1] \in Users
    BY <1>1, ElementOfSeq
  <2> QED
    BY <2>1 DEF Users
<1>3. Append(f, a) \in Seq(Servers)
  BY <1>2, AppendProperties
<1>4. me \in Users /\ me.followers = Append(f, a)
  BY <1>2, <1>3 DEF Users
<1>5. users' = [users EXCEPT ![s] = new]
  OBVIOUS
<1> HIDE DEF me
<1>6. new \in Seq(Users) /\ Len(new) = Len(u) /\ new[1] = me
  <2>1. new \in Seq(Users) /\ Len(new) = Len(u)
    BY <1>1, <1>4, ExceptSeq
  <2>2. DOMAIN u = 1 .. Len(u) /\ 1 \in DOMAIN u
    BY <1>1
  <2> QED
    BY <2>1, <2>2
<1> HIDE DEF new, u
<1>7. users'[s] = new /\ \A x \in Servers \ {s} : users'[x] = users[x]
  BY <1>1, <1>5
<1>8. users' \in [Servers -> Seq(Users)] /\ \A x \in Servers : Len(users'[x]) >= 1
  BY <1>1, <1>5, <1>6, <1>7
<1>9. LocalUser(s)'.followers = Append(LocalUser(s).followers, a) /\ LocalUser(s).followers = f
  BY <1>4, <1>6, <1>7 DEF LocalUser, u
<1>10. \A x \in Servers \ {s} : LocalUser(x)' = LocalUser(x)
  BY <1>7 DEF LocalUser
<1>11. FollowersGrow
  <2>1. \A x : Contains(f, x) => Contains(Append(f, a), x)
    <3>1. /\ DOMAIN f = 1 .. Len(f) /\ DOMAIN Append(f, a) = 1 .. Len(f) + 1 /\ Len(f) \in Nat
          /\ \A i \in 1 .. Len(f) : Append(f, a)[i] = f[i]
      BY <1>2, AppendProperties
    <3> HIDE DEF f
    <3> QED
      BY <3>1 DEF Contains
  <2> HIDE DEF f
  <2>2. Followers(s) \subseteq Followers(s)'
    BY <1>9, <2>1 DEF Followers
  <2> QED
    BY <1>10, <2>2 DEF FollowersGrow, Followers
<1> QED
  BY <1>2, <1>8, <1>9, <1>10, <1>11

\* Who was followed has been asked to.
LEMMA FollowedCalled ==
    ASSUME CallsOK, NEW a, NEW b
    PROVE  Followed(a, b) \subseteq Called
<1>1. ASSUME NEW c \in Followed(a, b) PROVE c \in Called
  <2>1. c \in Follows /\ thread[FollowRequest(c)].replying
    BY DEF Followed
  <2>2. FollowOK(c) /\ FrameOK(FollowRequest(c))
    BY <2>1, Names DEF CallsOK
  <2>3. thread[FollowRequest(c)].at # "idle"
    BY <2>1, <2>2 DEF FrameOK
  <2>4. thread[Main(c)].at # "idle"
    BY <2>2, <2>3 DEF FollowOK
  <2> QED
    BY <2>1, <2>4 DEF Called, At, Follows
<1> QED
  BY <1>1

LEMMA ReceiveFollowKeeps ==
    ASSUME Inv, NEW t \in Threads, ReceiveFollow(t)
    PROVE  Inv'
<1> DEFINE c == t.call
           new == [thread[t] EXCEPT !.at = "read", !.replying = TRUE]
<1>1. /\ Typed /\ c \in Follows /\ t.kind = "follow" /\ t = FollowRequest(c)
      /\ t.to = CallOf[c].domain /\ Actor(t) = CallOf[c].by
      /\ t.to \in Servers /\ Actor(t) \in Servers
      /\ thread[t].at = "use" /\ thread[t] \in Frames /\ UNCHANGED posts
      /\ Become(t, new)
      /\ users' = [users EXCEPT ![t.to][1].followers = Append(@, Actor(t))]
  BY Names DEF Inv, Typed, ReceiveFollow, At, FollowRequest, Actor
<1>2. ~ thread[t].replying
  BY DEF ReceiveFollow
<1>3. FrameOK(t) /\ FollowOK(c) /\ CallsOK
  BY <1>1 DEF Inv, CallsOK
<1>4. /\ new \in Frames /\ new.at = "read" /\ new.result = thread[t].result
  BY <1>1 DEF Frames
<1>5. new.replying
  BY <1>1 DEF Frames
<1> HIDE DEF new, c
<1>6. /\ thread' \in [Threads -> Frames] /\ thread'[t] = new
      /\ \A u \in Threads \ {t} : Same(u)
  BY <1>1, <1>4, BecomeSets
<1>7. /\ users' \in [Servers -> Seq(Users)] /\ \A x \in Servers : Len(users'[x]) >= 1
      /\ LocalUser(t.to).followers \in Seq(Servers)
      /\ LocalUser(t.to)'.followers = Append(LocalUser(t.to).followers, Actor(t))
      /\ \A x \in Servers \ {t.to} : LocalUser(x)' = LocalUser(x)
      /\ FollowersGrow
  BY <1>1, FollowerAdded
<1>8. Typed'
  BY <1>1, <1>6, <1>7 DEF Typed
<1> DEFINE listed == LocalUser(t.to).followers
<1>9. ASSUME NEW x
       PROVE  Count(x, LocalUser(t.to)'.followers) =
                 IF x = Actor(t) THEN Count(x, listed) + 1 ELSE Count(x, listed)
  <2>1. listed \in Seq(Servers) /\ LocalUser(t.to)'.followers = Append(listed, Actor(t))
    BY <1>7
  <2> HIDE DEF listed
  <2> QED
    BY <1>1, <2>1, CountAppend
<1>10. FrameOK(t)'
  <2>1. thread'[t].replying
    BY <1>5, <1>6
  <2>2. thread'[t].at = "read" /\ thread'[t].result = "none"
    BY <1>1, <1>3, <1>4, <1>6 DEF FrameOK
  <2> QED
    BY <1>1, <2>1, <2>2 DEF FrameOK
<1>11. FollowOK(c)'
  <2>1. Same(Main(c)) /\ Same(AcceptRequest(c))
    BY <1>1, <1>6, Names, KindsOfThreads DEF Follows
  <2>2. thread'[t].at = "read" /\ thread'[t].result = "none" /\ thread[t].result = "none"
    BY <1>1, <1>3, <1>4, <1>6 DEF FrameOK
  <2> QED
    BY <1>1, <1>3, <2>1, <2>2 DEF FollowOK, Same
<1>12. CallsOK'
  <2>1. /\ \A u \in Threads : u.call # c => FrameOK(u)'
        /\ \A d \in Follows : d # c => FollowOK(d)'
        /\ \A d \in Calls \ Follows : d # c => PostOK(d)'
    <3>1. \A u \in Threads : u.call # c => Same(u)
      BY <1>6 DEF c
    <3> QED
      BY <1>1, <1>3, <1>7, <3>1, CallsApart DEF Follows
  <2>2. ASSUME NEW u \in Threads, Same(u) PROVE FrameOK(u)'
    BY <2>2 DEF Inv, CallsOK, FrameOK, Same
  <2> QED
    BY <1>1, <1>6, <1>10, <1>11, <2>1, <2>2 DEF CallsOK
<1>13. PostsOK'
  <2>1. ASSUME NEW d \in Calls \ Follows, NEW x \in Servers PROVE Same(CreateRequest(d, x))
    BY <1>1, <1>6, Names, KindsOfThreads
  <2> QED
    BY <1>1, <2>1 DEF Inv, PostsOK, Same
<1>14. CountOK'
  <2>1. Called' = Called /\ IsFiniteSet(Called)
    <3>1. \A d \in Calls : Same(Main(d))
      BY <1>1, <1>6, Names, KindsOfThreads
    <3> QED
      BY <3>1 DEF Called, At, Same, Inv, CountOK
  <2>2. \A d \in Follows \ {c} : thread'[FollowRequest(d)].replying = thread[FollowRequest(d)].replying
    BY <1>1, <1>6, Names, KindsOfThreads DEF Same
  <2>3. thread'[FollowRequest(c)].replying
    BY <1>1, <1>5, <1>6
  <2>4. ASSUME NEW x \in Servers, NEW y \in Servers
        PROVE  Count(x, LocalUser(y)'.followers) = Cardinality(Followed(x, y)')
    <3>1. Count(x, LocalUser(y).followers) = Cardinality(Followed(x, y))
      BY DEF Inv, CountOK
    <3>2. CASE x = CallOf[c].by /\ y = CallOf[c].domain
      <4>1. Followed(x, y)' = Followed(x, y) \cup {c}
        BY <1>1, <2>2, <2>3, <3>2 DEF Followed
      <4>2. c \notin Followed(x, y)
        BY <1>1, <1>2 DEF Followed
      <4>3. IsFiniteSet(Followed(x, y))
        BY <1>3, <2>1, FollowedCalled, FS_Subset
      <4>4. Cardinality(Followed(x, y)') = Cardinality(Followed(x, y)) + 1
        BY <4>1, <4>2, <4>3, FS_AddElement
      <4>5. Count(x, LocalUser(y)'.followers) = Count(x, LocalUser(y).followers) + 1
        BY <1>1, <1>9, <3>2
      <4> QED
        BY <3>1, <4>4, <4>5
    <3>3. CASE x # CallOf[c].by \/ y # CallOf[c].domain
      <4>1. Followed(x, y)' = Followed(x, y)
        BY <2>2, <3>3 DEF Followed
      <4>2. Count(x, LocalUser(y)'.followers) = Count(x, LocalUser(y).followers)
        <5>1. CASE y # t.to
          BY <1>7, <5>1
        <5>2. CASE y = t.to
          BY <1>1, <1>9, <3>3, <5>2
        <5> QED
          BY <5>1, <5>2
      <4> QED
        BY <3>1, <4>1, <4>2
    <3> QED
      BY <3>2, <3>3
  <2> QED
    BY <2>1, <2>4 DEF CountOK
<1> QED
  BY <1>8, <1>12, <1>13, <1>14 DEF Inv

----------------------------------------------------------------------------
(* Answers, timeouts and the network.                                      *)

\* Who awaits what: a call its Follow or its next Create, a Follow its Accept.
LEMMA AwaitedIsOwn ==
    ASSUME Inv, NEW t \in Threads, thread[t].at = "await"
    PROVE  /\ Awaited(t) \in Threads /\ Awaited(t) # t /\ Awaited(t).call = t.call
           /\ \/ /\ t.call \in Follows /\ Op(t.call) = "follow" /\ t = Main(t.call)
                 /\ Awaited(t) = FollowRequest(t.call)
              \/ /\ t.call \in Follows /\ Op(t.call) = "follow" /\ t = FollowRequest(t.call)
                 /\ Awaited(t) = AcceptRequest(t.call) /\ thread[t].replying
              \/ /\ t.call \in Calls \ Follows /\ Op(t.call) = "post" /\ t = Main(t.call)
<1>1. FrameOK(t) /\ thread[t].whom \in Servers /\ t.call \in Calls
  BY Names DEF Inv, CallsOK, Typed, Frames
<1>2. CASE t.kind = "follow"
  <2>1. t.call \in Follows /\ t = FollowRequest(t.call) /\ thread[t].replying
    BY <1>1, <1>2, Names DEF FrameOK
  <2>2. Awaited(t) = AcceptRequest(t.call)
    BY <1>2 DEF Awaited
  <2> QED
    BY <1>2, <2>1, <2>2, Names, KindsOfThreads DEF Follows
<1>3. CASE t.kind # "follow"
  <2>1. t = Main(t.call) /\ t.kind = "call"
    BY <1>1, <1>3, Names DEF FrameOK
  <2>2. CASE Op(t.call) = "follow"
    <3>1. t.call \in Follows /\ Awaited(t) = FollowRequest(t.call)
      BY <1>1, <1>3, <2>2 DEF Awaited, Follows
    <3> QED
      BY <2>1, <2>2, <3>1, Names, KindsOfThreads
  <2>3. CASE Op(t.call) # "follow"
    <3>1. t.call \in Calls \ Follows /\ Op(t.call) = "post"
          /\ Awaited(t) = CreateRequest(t.call, thread[t].whom)
      BY <1>1, <1>3, <2>3, Names DEF Awaited
    <3> QED
      BY <1>1, <2>1, <3>1, Names, KindsOfThreads
  <2> QED
    BY <2>2, <2>3
<1> QED
  BY <1>2, <1>3

\* A post goes on with the next inbox, whatever became of the last one.
LEMMA QueuesOn ==
    ASSUME Inv, NEW t \in Threads, thread[t].at = "await", Op(t.call) = "post",
           thread' \in [Threads -> Frames], thread'[t].at = "queue",
           thread'[t].list = thread[t].list, thread'[t].result = thread[t].result,
           thread'[t].replying = thread[t].replying,
           \A u \in Threads \ {t} : Same(u), UNCHANGED <<users, posts>>
    PROVE  Inv'
<1> DEFINE c == t.call
<1>1. c \in Calls \ Follows /\ t = Main(c) /\ CallOf[c].by \in Servers /\ t.kind = "call"
  BY AwaitedIsOwn, Names, KindsOfThreads
<1>2. FrameOK(t) /\ PostOK(c)
  BY <1>1 DEF Inv, CallsOK
<1>3. Typed' /\ FollowersSame
  BY UsersUnchanged DEF Inv, Typed
<1>4. FrameOK(t)'
  BY <1>1, <1>2 DEF FrameOK
<1>5. Followers(CallOf[c].by)' = Followers(CallOf[c].by)
  BY <1>1, <1>3 DEF FollowersSame, Followers
<1>6. Pending(c)' = Pending(c) => PostOK(c)'
  BY <1>1, <1>2, <1>5 DEF PostOK
<1> QED
  BY <1>1, <1>3, <1>4, <1>6, PosterKeeps

LEMMA AnsweredKeeps ==
    ASSUME Inv, NEW t \in Threads, Answered(t)
    PROVE  Inv'
<1> DEFINE c == t.call
           result == thread[Awaited(t)].result
           queued == [thread[t] EXCEPT !.at = "queue"]
           ended == [thread[t] EXCEPT !.at = "done", !.result = result]
<1>1. /\ Typed /\ thread[t].at = "await" /\ thread[t] \in Frames
      /\ UNCHANGED <<users, posts>> /\ thread[Awaited(t)].at = "done"
  BY DEF Inv, Typed, Answered, At
<1>2. result \in {"none", "Ok", "Err"} /\ Awaited(t) \in Threads
  BY <1>1, AwaitedIsOwn DEF Typed, Frames
<1>3. Become(t, AfterAnswer(t, result))
  BY DEF Answered
<1>4. CASE Op(c) = "post"
  <2>1. /\ queued \in Frames /\ queued.at = "queue" /\ queued.list = thread[t].list
        /\ queued.result = thread[t].result /\ queued.replying = thread[t].replying
    BY <1>1 DEF Frames
  <2>2. Become(t, queued)
    BY <1>3, <1>4 DEF AfterAnswer
  <2> HIDE DEF queued
  <2>3. /\ thread' \in [Threads -> Frames] /\ thread'[t] = queued
        /\ \A u \in Threads \ {t} : Same(u)
    BY <1>1, <2>1, <2>2, BecomeSets
  <2> QED
    BY <1>1, <1>4, <2>1, <2>3, QueuesOn
<1>5. CASE Op(c) # "post"
  <2>1. /\ ended \in Frames /\ ended.at = "done" /\ ended.result = result
        /\ ended.replying = thread[t].replying
    BY <1>1, <1>2 DEF Frames
  <2>2. Become(t, ended)
    BY <1>3, <1>5 DEF AfterAnswer
  <2> HIDE DEF ended
  <2>3. /\ thread' \in [Threads -> Frames] /\ thread'[t] = ended
        /\ \A u \in Threads \ {t} : Same(u)
    BY <1>1, <2>1, <2>2, BecomeSets
  <2>4. Typed' /\ FollowersSame
    BY <1>1, <2>3, UsersUnchanged DEF Typed
  <2>5. c \in Follows /\ c \in Calls
    BY <1>1, <1>5, AwaitedIsOwn DEF Follows
  <2>6. FrameOK(t) /\ FollowOK(c)
    BY <2>5 DEF Inv, CallsOK
  <2>7. FrameOK(t)'
    BY <2>1, <2>3, <2>6 DEF FrameOK
  <2>8. FollowOK(c)'
    <3>1. CASE t = Main(c)
      <4>1. Same(FollowRequest(c)) /\ Same(AcceptRequest(c))
        BY <2>3, <2>5, <3>1, SameOthers, DifferentThreads
      <4>2. Awaited(t) = FollowRequest(c)
        BY <1>1, <2>5, <3>1, AwaitedIsOwn, DifferentThreads
      <4> QED
        BY <1>1, <2>1, <2>3, <2>6, <3>1, <4>1, <4>2 DEF FollowOK, Same
    <3>2. CASE t # Main(c)
      <4>1. /\ t = FollowRequest(c) /\ Awaited(t) = AcceptRequest(c)
        BY <1>1, <2>5, <3>2, AwaitedIsOwn
      <4>2. thread'[t].replying
        BY <1>1, <2>1, <2>3, <3>2, AwaitedIsOwn
      <4>3. Same(Main(c)) /\ Same(AcceptRequest(c))
        BY <2>3, <2>5, <4>1, SameOthers, DifferentThreads
      <4>4. thread[t].result = "none"
        BY <1>1, <2>6 DEF FrameOK
      <4> QED
        BY <1>1, <2>1, <2>3, <2>6, <4>1, <4>2, <4>3, <4>4 DEF FollowOK, Same
    <3> QED
      BY <3>1, <3>2
  <2> QED
    BY <1>1, <2>1, <2>3, <2>4, <2>5, <2>7, <2>8, ThreadsMoved
<1> QED
  BY <1>4, <1>5

LEMMA GiveUpKeeps ==
    ASSUME Inv, NEW t \in Threads, GiveUp(t)
    PROVE  Inv'
<1> DEFINE r == Awaited(t)
           new == AfterAnswer(t, "Err")
           left == [thread[r] EXCEPT !.waited = FALSE]
<1>1. /\ Typed /\ thread[t].at = "await" /\ thread[t] \in Frames
      /\ UNCHANGED <<users, posts>>
      /\ thread' = [thread EXCEPT ![t] = new, ![r].waited = FALSE]
  BY DEF Inv, Typed, GiveUp, At
<1>2. r \in Threads /\ r # t
  BY <1>1, AwaitedIsOwn
<1>3. /\ new \in Frames /\ new.replying = thread[t].replying
      /\ Op(t.call) = "post" => /\ new.at = "queue" /\ new.list = thread[t].list
                                /\ new.result = thread[t].result
      /\ Op(t.call) # "post" => new.at = "done" /\ new.result = "Err"
  <2>1. CASE Op(t.call) = "post"
    BY <1>1, <2>1 DEF AfterAnswer, Frames
  <2>2. CASE Op(t.call) # "post"
    BY <1>1, <2>2 DEF AfterAnswer, Frames
  <2> QED
    BY <2>1, <2>2
<1>4. /\ left \in Frames /\ left.at = thread[r].at /\ left.whom = thread[r].whom
      /\ left.list = thread[r].list /\ left.inboxes = thread[r].inboxes
      /\ left.replying = thread[r].replying /\ left.result = thread[r].result
  <2>1. thread[r] \in Frames
    BY <1>1, <1>2 DEF Typed
  <2> QED
    BY <2>1 DEF Frames
<1>5. thread' = [thread EXCEPT ![t] = new, ![r] = left]
  BY <1>1, <1>2 DEF Typed
<1> HIDE DEF new, left, r
<1>6. /\ thread' \in [Threads -> Frames] /\ thread'[t] = new /\ thread'[r] = left
      /\ \A u \in Threads \ {t, r} : thread'[u] = thread[u]
  BY <1>1, <1>2, <1>3, <1>4, <1>5 DEF Typed
<1>7. \A u \in Threads \ {t} : Same(u)
  BY <1>4, <1>6 DEF Same
<1>8. CASE Op(t.call) = "post"
  BY <1>1, <1>3, <1>6, <1>7, <1>8, QueuesOn
<1>9. CASE Op(t.call) # "post"
  <2>1. Typed' /\ FollowersSame
    BY <1>1, <1>6, UsersUnchanged DEF Typed
  <2>2. Fails(t)
    BY <1>1, <1>3, <1>6, <1>9 DEF Fails
  <2> QED
    BY <1>1, <1>7, <2>1, <2>2, FailsKeeps
<1> QED
  BY <1>8, <1>9

LEMMA DropKeeps ==
    ASSUME Inv, NEW t \in Requests, Drop(t)
    PROVE  Inv'
<1> DEFINE new == [thread[t] EXCEPT !.at = "done", !.result = "Err"]
           a == AcceptRequest(t.call)
<1>1. /\ Typed /\ t \in Threads /\ thread[t].at \in {"read", "fetch", "await"}
      /\ thread[t] \in Frames /\ t.kind # "call" /\ UNCHANGED <<users, posts>>
  BY Names DEF Inv, Typed, Drop
<1>2. /\ new \in Frames /\ new.at = "done" /\ new.result = "Err"
      /\ new.replying = thread[t].replying
  BY <1>1 DEF Frames
<1>3. thread \in [Threads -> Frames]
  BY <1>1 DEF Typed
<1> DEFINE dropped == [thread EXCEPT ![t].at = "done", ![t].result = "Err"]
<1>4. /\ dropped \in [Threads -> Frames] /\ dropped[t] = new
      /\ \A u \in Threads \ {t} : dropped[u] = thread[u]
  <2>1. dropped = [thread EXCEPT ![t] = new]
    BY <1>1, <1>3 DEF Frames
  <2> HIDE DEF new, dropped
  <2> QED
    BY <1>1, <1>2, <1>3, <2>1
<1>5. /\ At(t, "await") => thread' = [dropped EXCEPT ![a].waited = FALSE]
      /\ ~ At(t, "await") => thread' = dropped
  BY DEF Drop
<1> HIDE DEF new, dropped
<1>6. /\ thread' \in [Threads -> Frames] /\ thread'[t] = new
      /\ \A u \in Threads \ {t} : Same(u)
  <2>1. CASE At(t, "await")
    <3> DEFINE left == [dropped[a] EXCEPT !.waited = FALSE]
    <3>1. a \in Threads /\ a # t
      BY <1>1, <2>1, AwaitedIsOwn, KindsOfThreads, Names DEF At
    <3>2. dropped[a] = thread[a] /\ thread[a] \in Frames
      BY <1>3, <1>4, <3>1
    <3>3. thread' = [dropped EXCEPT ![a] = left]
      BY <1>5, <2>1
    <3>4. /\ left \in Frames /\ left.at = thread[a].at /\ left.whom = thread[a].whom
          /\ left.list = thread[a].list /\ left.inboxes = thread[a].inboxes
          /\ left.replying = thread[a].replying /\ left.result = thread[a].result
      BY <3>2 DEF Frames
    <3> HIDE DEF left, a
    <3>5. /\ thread' \in [Threads -> Frames] /\ thread'[a] = left
          /\ \A u \in Threads \ {a} : thread'[u] = dropped[u]
      BY <1>4, <3>1, <3>3, <3>4
    <3> QED
      BY <1>1, <1>4, <3>1, <3>4, <3>5 DEF Same
  <2>2. CASE ~ At(t, "await")
    BY <1>4, <1>5, <2>2 DEF Same
  <2> QED
    BY <2>1, <2>2
<1>7. Typed' /\ FollowersSame
  BY <1>1, <1>6, UsersUnchanged DEF Typed
<1>8. Fails(t)
  BY <1>1, <1>2, <1>6 DEF Fails
<1> QED
  BY <1>1, <1>6, <1>7, <1>8, FailsKeeps

\* The users that a server knows matter only by the followers of its own.
LEMMA NothingMoves ==
    ASSUME Inv, Typed', UNCHANGED <<posts, thread>>, FollowersSame
    PROVE  Inv'
<1>1. \A u \in Threads : Same(u)
  BY DEF Same
<1>2. FollowersGrow /\ \A s \in Servers : Followers(s)' = Followers(s)
  BY DEF FollowersGrow, FollowersSame, Followers
<1>3. CallsOK'
  <2>1. \A u \in Threads : FrameOK(u)'
    BY DEF Inv, CallsOK, FrameOK
  <2>2. \A d \in Follows : FollowOK(d)'
    BY DEF Inv, CallsOK, FollowOK
  <2>3. \A d \in Calls \ Follows : PostOK(d)'
    <3>1. ASSUME NEW d \in Calls \ Follows PROVE PostOK(d)'
      <4>1. Pending(d)' = Pending(d)
        BY DEF Pending, At
      <4>2. Followers(CallOf[d].by)' = Followers(CallOf[d].by) /\ PostOK(d)
        BY <1>2, Names DEF Inv, CallsOK
      <4> QED
        BY <4>1, <4>2 DEF PostOK
    <3> QED
      BY <3>1
  <2> QED
    BY <2>1, <2>2, <2>3 DEF CallsOK
<1>4. PostsOK'
  BY DEF Inv, PostsOK
<1>5. CountOK'
  <2>1. Called' = Called /\ \A a, b : Followed(a, b)' = Followed(a, b)
    BY DEF Called, At, Followed
  <2> QED
    BY <2>1 DEF Inv, CountOK, FollowersSame
<1> QED
  BY <1>3, <1>4, <1>5 DEF Inv

LEMMA AgeKeeps ==
    ASSUME Inv, NEW s \in Servers, Age(s)
    PROVE  Inv'
<1> DEFINE u == users[s]
<1>1. /\ Typed /\ UNCHANGED <<posts, thread>>
      /\ users \in [Servers -> Seq(Users)] /\ u \in Seq(Users) /\ Len(u) >= 1
      /\ \A x \in Servers : Len(users[x]) >= 1
  BY DEF Inv, Typed, Age
<1>2. PICK i \in DOMAIN u : users' = [users EXCEPT ![s][i].old = TRUE]
  BY DEF Age
<1> DEFINE me == [u[i] EXCEPT !.old = TRUE]
           new == [u EXCEPT ![i] = me]
<1>3. u[i] \in Users
  <2> HIDE DEF u
  <2> QED
    BY <1>1, <1>2, ElementOfSeq
<1>4. me \in Users /\ me.followers = u[i].followers
  BY <1>3 DEF Users
<1>5. users' = [users EXCEPT ![s] = new]
  BY <1>2
<1> HIDE DEF me
<1>6. new \in Seq(Users) /\ Len(new) = Len(u) /\ new[1].followers = u[1].followers
  <2>1. new \in Seq(Users) /\ Len(new) = Len(u)
    BY <1>1, <1>4, ExceptSeq
  <2>2. DOMAIN u = 1 .. Len(u) /\ 1 \in DOMAIN u
    BY <1>1
  <2> QED
    BY <1>4, <2>1, <2>2
<1> HIDE DEF new, u
<1>7. users'[s] = new /\ \A x \in Servers \ {s} : users'[x] = users[x]
  BY <1>1, <1>5
<1>8. FollowersSame
  BY <1>6, <1>7 DEF FollowersSame, LocalUser, u
<1>9. Typed'
  BY <1>1, <1>5, <1>6, <1>7 DEF Typed
<1> QED
  BY <1>1, <1>8, <1>9, NothingMoves

----------------------------------------------------------------------------
(* The invariant.                                                          *)

LEMMA InitOK ==
    Init => Inv
<1> SUFFICES ASSUME Init PROVE Inv
  OBVIOUS
<1>1. \A t \in Threads : thread[t] = Idle
  BY DEF Init
<1>2. \A s \in Servers : /\ User(s) \in Users /\ User(s).followers = <<>>
                         /\ users[s] = <<User(s)>> /\ posts[s] = <<>>
  <2>1. \A s \in Servers : User(s) \in Users /\ User(s).followers = <<>>
    BY EmptySeq DEF User, Users
  <2> QED
    BY <2>1 DEF Init
<1>3. \A s \in Servers : LocalUser(s).followers = <<>>
  BY <1>2 DEF LocalUser
<1>4. Typed
  <2>1. \A s \in Servers : <<User(s)>> \in Seq(Users) /\ Len(<<User(s)>>) = 1
    BY <1>2
  <2>2. thread \in [Threads -> Frames]
    BY IdleTyped DEF Init
  <2>3. users \in [Servers -> Seq(Users)] /\ \A s \in Servers : Len(users[s]) >= 1
    BY <1>2, <2>1 DEF Init
  <2>4. posts \in [Servers -> Seq(Calls)]
    BY EmptySeq DEF Init
  <2> QED
    BY <2>2, <2>3, <2>4 DEF Typed
<1>5. \A t \in Threads : thread[t].at = "idle" /\ ~ thread[t].replying /\ thread[t].result = "none"
  BY <1>1, IdleTyped
<1>6. CallsOK
  <2>1. \A t \in Threads : FrameOK(t)
    BY <1>5 DEF FrameOK
  <2>2. ASSUME NEW c \in Follows PROVE FollowOK(c)
    <3>1. {Main(c), FollowRequest(c), AcceptRequest(c)} \subseteq Threads
      BY Names DEF Follows
    <3> QED
      BY <1>5, <3>1 DEF FollowOK
  <2>3. ASSUME NEW c \in Calls \ Follows PROVE PostOK(c)
    <3>1. Main(c) \in Threads /\ Pending(c) = Servers
      BY <1>5, Names DEF Pending, At
    <3> QED
      BY <1>5, <3>1 DEF PostOK
  <2> QED
    BY <2>1, <2>2, <2>3 DEF CallsOK
<1>7. PostsOK
  BY <1>2 DEF PostsOK, IsInjective
<1>8. CountOK
  <2>1. Called = {}
    BY <1>5, Names DEF Called, At
  <2>2. \A a, b : Followed(a, b) = {}
    BY <1>5, Names DEF Followed
  <2>3. ASSUME NEW a, NEW b \in Servers PROVE Count(a, LocalUser(b).followers) = 0
    <3>1. {i \in DOMAIN LocalUser(b).followers : LocalUser(b).followers[i] = a} = {}
      BY <1>3
    <3> QED
      BY <3>1, FS_EmptySet DEF Count
  <2> QED
    BY <2>1, <2>2, <2>3, FS_EmptySet DEF CountOK
<1> QED
  BY <1>4, <1>6, <1>7, <1>8 DEF Inv

LEMMA NextKeeps ==
    Inv /\ [Next]_vars => Inv'
<1> SUFFICES ASSUME Inv, [Next]_vars PROVE Inv'
  OBVIOUS
<1>1. CASE UNCHANGED vars
  <2>1. UNCHANGED <<posts, thread>> /\ UNCHANGED users
    BY <1>1 DEF vars
  <2>2. Typed' /\ FollowersSame
    BY <2>1, UsersUnchanged DEF Inv, Typed
  <2> QED
    BY <2>1, <2>2, NothingMoves
<1>2. ASSUME NEW t \in Threads, Step(t) PROVE Inv'
  BY <1>2, ReadKeeps, FetchUserKeeps, ResolveKeeps, SendFollowKeeps, CollectInboxKeeps,
     SendCreateKeeps, ReceiveFollowKeeps, SendAcceptKeeps, ReceiveAcceptKeeps,
     ReceiveCreateKeeps, AnsweredKeeps DEF Step
<1>3. ASSUME NEW t \in Threads, GiveUp(t) PROVE Inv'
  BY <1>3, GiveUpKeeps
<1>4. ASSUME NEW c \in Calls, CallFollow(c) \/ CallPost(c) PROVE Inv'
  BY <1>4, CallFollowKeeps, CallPostKeeps
<1>5. ASSUME NEW r \in Requests, Drop(r) PROVE Inv'
  BY <1>5, DropKeeps
<1>6. ASSUME NEW s \in Servers, Age(s) PROVE Inv'
  BY <1>6, AgeKeeps
<1> QED
  BY <1>1, <1>2, <1>3, <1>4, <1>5, <1>6 DEF Next

(***************************************************************************)
(* The inductive invariant: the requests of a follow begin and succeed one *)
(* inside the other, a post is on its way only to followers and only to    *)
(* servers it was not sent to, and a server lists a follower once for each *)
(* Follow whose receive has begun.                                         *)
(***************************************************************************)
THEOREM LocalInvariant == SafeSpec => []Inv
<1>1. Init => Inv
  BY InitOK
<1>2. Inv /\ [Next]_vars => Inv'
  BY NextKeeps
<1> QED
  BY <1>1, <1>2, PTL DEF SafeSpec

----------------------------------------------------------------------------
(* What the example's users see.                                           *)

LEMMA InjectiveCount ==
    ASSUME NEW s, IsInjective(s), NEW x
    PROVE  Count(x, s) <= 1
<1> DEFINE places == {i \in DOMAIN s : s[i] = x}
<1>1. CASE places = {}
  BY <1>1, FS_EmptySet DEF Count
<1>2. CASE places # {}
  <2>1. PICK i \in places : TRUE
    BY <1>2
  <2>2. places = {i}
    BY <2>1 DEF IsInjective
  <2>3. Cardinality({i}) = 1
    BY FS_Singleton
  <2> QED
    BY <2>2, <2>3 DEF Count
<1> QED
  BY <1>1, <1>2

LEMMA InvAccounts ==
    Inv => FollowersAccounted
<1> SUFFICES ASSUME Inv, NEW a \in Servers, NEW b \in Servers
             PROVE  LET asked == {c \in Follows : CallOf[c].by = a /\ CallOf[c].domain = b /\ a # b}
                        agreed == {c \in asked : thread[Main(c)].result = "Ok"}
                        times == Count(a, LocalUser(b).followers)
                    IN  /\ times <= Cardinality({c \in asked : ~ At(Main(c), "idle")})
                        /\ times >= Cardinality(agreed)
                        /\ \A c \in agreed : thread[AcceptRequest(c)].result = "Ok"
  BY DEF FollowersAccounted
<1> DEFINE asked == {c \in Follows : CallOf[c].by = a /\ CallOf[c].domain = b /\ a # b}
           agreed == {c \in asked : thread[Main(c)].result = "Ok"}
           begun == {c \in asked : ~ At(Main(c), "idle")}
<1>1. /\ CallsOK /\ IsFiniteSet(Called)
      /\ Count(a, LocalUser(b).followers) = Cardinality(Followed(a, b))
  BY DEF Inv, CountOK
<1>2. Followed(a, b) \subseteq begun
  <2>1. ASSUME NEW c \in Followed(a, b) PROVE a # b
    <3>1. /\ c \in Follows /\ CallOf[c].by = a /\ CallOf[c].domain = b
          /\ thread[FollowRequest(c)].replying
      BY DEF Followed
    <3>2. FollowOK(c) /\ FrameOK(FollowRequest(c))
      BY <1>1, <3>1, Names DEF CallsOK
    <3>3. thread[FollowRequest(c)].at # "idle"
      BY <3>1, <3>2 DEF FrameOK
    <3> QED
      BY <3>1, <3>2, <3>3 DEF FollowOK
  <2> QED
    BY <1>1, <2>1, FollowedCalled DEF Followed, Called
<1>3. begun \subseteq Called
  BY DEF Called, Follows
<1>4. ASSUME NEW c \in agreed
      PROVE  c \in Followed(a, b) /\ thread[AcceptRequest(c)].result = "Ok"
  <2>1. FollowOK(c) /\ c \in Follows /\ CallOf[c].by = a /\ CallOf[c].domain = b /\ a # b
    BY <1>1 DEF CallsOK
  <2>2. thread[FollowRequest(c)].result = "Ok"
    BY <2>1 DEF FollowOK
  <2>3. thread[FollowRequest(c)].replying /\ thread[AcceptRequest(c)].result = "Ok"
    BY <2>1, <2>2 DEF FollowOK
  <2> QED
    BY <2>1, <2>3 DEF Followed
<1> HIDE DEF begun, agreed
<1>5. IsFiniteSet(begun) /\ IsFiniteSet(Followed(a, b))
  BY <1>1, <1>2, <1>3, FS_Subset
<1>6. /\ Cardinality(Followed(a, b)) \in Nat /\ Cardinality(begun) \in Nat
      /\ Cardinality(Followed(a, b)) <= Cardinality(begun)
  BY <1>2, <1>5, FS_Subset, FS_CardinalityType
<1>7. agreed \subseteq Followed(a, b)
  BY <1>4
<1>8. /\ Cardinality(agreed) \in Nat /\ Cardinality(agreed) <= Cardinality(Followed(a, b))
  BY <1>5, <1>7, FS_Subset, FS_CardinalityType
<1> QED
  BY <1>1, <1>4, <1>6, <1>8 DEF begun, agreed

(***************************************************************************)
(* However calls, requests, timeouts and dropped handlers interleave, a    *)
(* server lists a follower no more often than DbUser::follow was called    *)
(* for it and no less often than that returned Ok; and Ok means that the   *)
(* follower's own server has handled the Accept.                           *)
(***************************************************************************)
THEOREM FollowersAreAccounted == SafeSpec => []FollowersAccounted
BY LocalInvariant, InvAccounts, PTL

LEMMA InvReachesOnce ==
    Inv => PostsReachFollowersOnce
<1> SUFFICES ASSUME Inv, NEW s \in Servers, NEW c \in Calls
             PROVE  /\ Count(c, posts[s]) <= 1
                    /\ Contains(posts[s], c) => Contains(LocalUser(CallOf[c].by).followers, s)
  BY DEF PostsReachFollowersOnce
<1>1. Count(c, posts[s]) <= 1
  BY InjectiveCount DEF Inv, PostsOK
<1>2. ASSUME Contains(posts[s], c)
      PROVE  Contains(LocalUser(CallOf[c].by).followers, s)
  <2>1. c \in Calls \ Follows /\ thread[CreateRequest(c, s)].result = "Ok"
    BY <1>2 DEF Contains, Inv, PostsOK
  <2>2. PostOK(c) /\ FrameOK(CreateRequest(c, s))
    BY <2>1, Names DEF Inv, CallsOK
  <2>3. s \notin Pending(c)
    BY <2>1, <2>2 DEF Pending, At, FrameOK
  <2>4. s \in Followers(CallOf[c].by)
    BY <2>2, <2>3 DEF PostOK
  <2> QED
    BY <2>4 DEF Followers
<1> QED
  BY <1>1, <1>2

(***************************************************************************)
(* A post made with DbUser::post is in no database twice, and only in      *)
(* those of servers whose user follows the author, whichever followers are *)
(* listed more than once and whichever answers are lost.                   *)
(***************************************************************************)
THEOREM PostsReachOnce == SafeSpec => []PostsReachFollowersOnce
BY LocalInvariant, InvReachesOnce, PTL
=============================================================================
