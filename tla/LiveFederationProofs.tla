------------------------ MODULE LiveFederationProofs ------------------------
(***************************************************************************)
(* Proofs about LiveFederation, for any authors, posts and number of       *)
(* attempts: what an author is told agrees with the replies it was sent.   *)
(***************************************************************************)
EXTENDS LiveFederation, SequenceTheorems, TLAPS

Handlers ==
    [at : {"idle", "parse", "actor", "creator", "send", "await", "done"},
     reply : {"none", "sent", "accepted", "rejected", "failed", "refused"},
     told : {"none", "Ok", "Err"}]

\* The reply has reached the author's server, whatever that made of it.
Arrived == {"accepted", "rejected", "failed"}

(***************************************************************************)
(* What is true of a handler: there is no reply before it has been sent,   *)
(* nobody is told anything before the request, and Ok is the last word of  *)
(* a handler whose reply arrived or was refused.                           *)
(***************************************************************************)
HandlerOK(h) ==
    /\ h.at \in {"idle", "parse", "actor", "creator", "send"} => h.reply = "none"
    /\ h.at = "idle" => h.told = "none"
    /\ h.told = "Ok" => h.at = "done" /\ h.reply \in {"accepted", "rejected", "refused"}

Typed ==
    /\ request \in [Deliveries -> Handlers]
    /\ inbox \in [Authors -> Seq(Deliveries)]

\* An inbox holds exactly the replies that have arrived, each one once.
RepliesArrived ==
    \A a \in Authors :
        /\ IsInjective(inbox[a])
        /\ \A d \in Deliveries :
              Contains(inbox[a], d) <=> Author(d) = a /\ request[d].reply \in Arrived

\* The rule of Deliver looks at the attempt before only; it follows that all
\* earlier ones were reported to have failed.
EarlierFailed ==
    \A d, e \in Deliveries :
        d.post = e.post /\ e.attempt < d.attempt /\ ~ At(d, "idle") => request[e].told = "Err"

Inv ==
    /\ Typed
    /\ \A d \in Deliveries : HandlerOK(request[d])
    /\ RepliesArrived
    /\ EarlierFailed

----------------------------------------------------------------------------
LEMMA AuthorTyped == \A d \in Deliveries : Author(d) \in Authors
BY LiveFederationAssumption DEF Deliveries, Author

LEMMA BecomeSets ==
    ASSUME Typed, NEW d \in Deliveries, NEW new, Become(d, new)
    PROVE  request'[d] = new /\ \A e \in Deliveries \ {d} : request'[e] = request[e]
BY DEF Typed, Become

\* A handler that was requested before goes on, and no reply arrives.
LEMMA HandlerMoved ==
    ASSUME Inv, NEW d \in Deliveries, NEW new \in Handlers, Become(d, new),
           UNCHANGED inbox, HandlerOK(new),
           new.reply \in Arrived <=> request[d].reply \in Arrived,
           request[d].told = "Err" => new.told = "Err",
           ~ At(d, "idle")
    PROVE  Inv'
<1>1. /\ request'[d] = new
      /\ \A e \in Deliveries \ {d} : request'[e] = request[e]
  BY BecomeSets DEF Inv
<1>2. Typed'
  BY DEF Inv, Typed, Become
<1>3. \A e \in Deliveries : HandlerOK(request'[e])
  BY <1>1 DEF Inv
<1>4. \A e \in Deliveries : request'[e].reply \in Arrived <=> request[e].reply \in Arrived
  BY <1>1
<1>5. RepliesArrived'
  BY <1>4 DEF Inv, RepliesArrived
<1>6. ASSUME NEW e \in Deliveries PROVE At(e, "idle") => At(e, "idle")'
  BY <1>1 DEF At
<1>7. ASSUME NEW e \in Deliveries, request[e].told = "Err" PROVE request'[e].told = "Err"
  BY <1>1, <1>7
<1>8. EarlierFailed'
  BY <1>6, <1>7 DEF Inv, EarlierFailed
<1> QED
  BY <1>2, <1>3, <1>5, <1>8 DEF Inv, HandlerOK

LEMMA FailKeeps ==
    ASSUME Inv, NEW d \in Deliveries, Fail(d), UNCHANGED inbox,
           ~ At(d, "idle"), request[d].told # "Ok"
    PROVE  Inv'
<1> DEFINE new == [at |-> "done", reply |-> request[d].reply, told |-> "Err"]
<1>1. request[d] \in Handlers /\ HandlerOK(request[d])
  BY DEF Inv, Typed
<1>2. Become(d, new)
  BY <1>1 DEF Fail, Answer, Handlers
<1>3. new \in Handlers /\ HandlerOK(new)
  BY <1>1 DEF Handlers, HandlerOK
<1> QED
  BY <1>2, <1>3, HandlerMoved

\* A handler that has not sent its reply passes from one place to the next.
LEMMA GoKeeps ==
    ASSUME Inv, NEW d \in Deliveries, UNCHANGED inbox,
           NEW from \in {"parse", "actor", "creator"}, At(d, from),
           NEW place \in {"actor", "creator", "send"}, Go(d, place)
    PROVE  Inv'
<1> DEFINE new == [request[d] EXCEPT !.at = place]
<1>1. request[d] \in Handlers /\ HandlerOK(request[d])
  BY DEF Inv, Typed
<1>2. new \in Handlers /\ HandlerOK(new)
  BY <1>1 DEF At, Handlers, HandlerOK
<1> QED
  BY <1>1, <1>2, HandlerMoved DEF Go, At, Handlers

\* A new attempt comes after one that failed, and so after all before that.
LEMMA DeliverKeeps ==
    ASSUME Inv, NEW d \in Deliveries, Deliver(d)
    PROVE  Inv'
<1> DEFINE new == [request[d] EXCEPT !.at = "parse"]
<1>1. request[d] \in Handlers /\ HandlerOK(request[d]) /\ request[d].at = "idle"
  BY DEF Inv, Typed, Deliver, At
<1>2. new \in Handlers /\ HandlerOK(new)
  BY <1>1 DEF Handlers, HandlerOK
<1>3. /\ request'[d] = new
      /\ \A e \in Deliveries \ {d} : request'[e] = request[e]
  BY BecomeSets DEF Inv, Deliver, Go
<1>4. \A e \in Deliveries :
          request'[e].reply = request[e].reply /\ request'[e].told = request[e].told
  BY <1>1, <1>3 DEF Handlers
<1>5. Typed'
  BY <1>2 DEF Inv, Typed, Deliver, Go, Become
<1>6. \A e \in Deliveries : HandlerOK(request'[e])
  BY <1>2, <1>3 DEF Inv
<1>7. RepliesArrived'
  BY <1>4 DEF Inv, RepliesArrived, Deliver
<1>8. EarlierFailed'
  <2> SUFFICES ASSUME NEW f \in Deliveries, NEW e \in Deliveries, f.post = e.post,
                      e.attempt < f.attempt, ~ At(f, "idle")'
               PROVE  request[e].told = "Err"
    BY <1>4 DEF EarlierFailed
  <2>1. CASE f # d
    BY <1>3, <2>1 DEF Inv, EarlierFailed, At
  <2>2. CASE f = d
    <3> DEFINE before == [d EXCEPT !.attempt = @ - 1]
    <3>1. d.attempt > 1 /\ e.attempt <= d.attempt - 1
      BY <2>2, LiveFederationAssumption DEF Deliveries
    <3>2. before \in Deliveries /\ before.post = d.post /\ before.attempt = d.attempt - 1
      BY <3>1, LiveFederationAssumption DEF Deliveries
    <3>3. request[before].told = "Err"
      BY <3>1 DEF Deliver
    <3>4. ~ At(before, "idle")
      BY <3>2, <3>3 DEF Inv, HandlerOK, At
    <3>5. CASE e = before
      BY <3>3, <3>5
    <3>6. CASE e # before
      <4>1. e.attempt # before.attempt
        BY <2>2, <3>2, <3>6 DEF Deliveries
      <4>2. e.attempt < before.attempt
        BY <3>1, <3>2, <4>1, LiveFederationAssumption DEF Deliveries
      <4> QED
        BY <2>2, <3>2, <3>4, <4>2 DEF Inv, EarlierFailed
    <3> QED
      BY <3>5, <3>6
  <2> QED
    BY <2>1, <2>2
<1> QED
  BY <1>5, <1>6, <1>7, <1>8 DEF Inv, HandlerOK

\* A reply is taken off the way when it arrives, so it arrives once.
LEMMA ReplyArrivesKeeps ==
    ASSUME Inv, NEW d \in Deliveries, ReplyArrives(d)
    PROVE  Inv'
<1>1. PICK outcome \in Arrived : Become(d, [request[d] EXCEPT !.reply = outcome])
  BY DEF ReplyArrives, Arrived
<1> DEFINE new == [request[d] EXCEPT !.reply = outcome]
<1>2. request[d] \in Handlers /\ HandlerOK(request[d]) /\ request[d].reply = "sent"
  BY DEF Inv, Typed, ReplyArrives
<1>3. new \in Handlers /\ HandlerOK(new) /\ new.reply \in Arrived
  BY <1>2 DEF Handlers, HandlerOK, Arrived
<1>4. /\ request'[d] = new
      /\ \A e \in Deliveries \ {d} : request'[e] = request[e]
  BY <1>1, BecomeSets DEF Inv
<1>5. \A e \in Deliveries : request'[e].told = request[e].told /\ request'[e].at = request[e].at
  BY <1>2, <1>4 DEF Handlers
<1>6. Author(d) \in Authors /\ inbox[Author(d)] \in Seq(Deliveries)
  BY AuthorTyped DEF Inv, Typed
<1>7. Typed'
  <2>1. Append(inbox[Author(d)], d) \in Seq(Deliveries)
    BY <1>6
  <2>2. inbox' = [inbox EXCEPT ![Author(d)] = Append(inbox[Author(d)], d)]
    BY DEF ReplyArrives
  <2>3. inbox' \in [Authors -> Seq(Deliveries)]
    BY <2>1, <2>2 DEF Inv, Typed
  <2> QED
    BY <1>1, <1>3, <2>3 DEF Inv, Typed, Become
<1>8. \A e \in Deliveries : HandlerOK(request'[e])
  BY <1>3, <1>4 DEF Inv
<1>9. EarlierFailed'
  BY <1>5 DEF Inv, EarlierFailed, At
<1>10. RepliesArrived'
  <2> SUFFICES ASSUME NEW a \in Authors
               PROVE  /\ IsInjective(inbox'[a])
                      /\ \A e \in Deliveries :
                            Contains(inbox'[a], e) <=>
                                Author(e) = a /\ request'[e].reply \in Arrived
    BY DEF RepliesArrived, Author
  <2>1. CASE a # Author(d)
    <3>1. inbox'[a] = inbox[a]
      BY <2>1 DEF Inv, Typed, ReplyArrives
    <3>2. \A e \in Deliveries : Author(e) = a => request'[e] = request[e]
      BY <1>4, <2>1
    <3> QED
      BY <3>1, <3>2 DEF Inv, RepliesArrived
  <2>2. CASE a = Author(d)
    <3> DEFINE s == inbox[a]
    <3>1. s \in Seq(Deliveries) /\ Len(s) \in Nat /\ inbox'[a] = Append(s, d)
      BY <1>6, <2>2 DEF Inv, Typed, ReplyArrives
    <3>2. ~ Contains(s, d) /\ IsInjective(s)
      BY <1>2 DEF Inv, RepliesArrived, Arrived
    <3>3. /\ Append(s, d) \in Seq(Deliveries)
          /\ Len(Append(s, d)) = Len(s) + 1 /\ DOMAIN Append(s, d) = 1 .. Len(s) + 1
          /\ \A i \in 1 .. Len(s) : Append(s, d)[i] = s[i]
          /\ Append(s, d)[Len(s) + 1] = d
      BY <3>1
    <3>4. DOMAIN s = 1 .. Len(s)
      BY <3>1
    <3> DEFINE longer == Append(s, d)
    <3> HIDE DEF s, longer
    <3>5. IsInjective(longer)
      <4> SUFFICES ASSUME NEW i \in 1 .. Len(s) + 1, NEW j \in 1 .. Len(s) + 1,
                          longer[i] = longer[j]
                   PROVE  i = j
        BY <3>3 DEF IsInjective, longer
      <4>1. CASE i \in 1 .. Len(s) /\ j \in 1 .. Len(s)
        BY <3>2, <3>3, <3>4, <4>1 DEF IsInjective, longer
      <4>2. CASE i = Len(s) + 1 /\ j = Len(s) + 1
        BY <4>2
      <4>3. CASE i = Len(s) + 1 /\ j \in 1 .. Len(s)
        BY <3>2, <3>3, <4>3 DEF Contains, longer
      <4>4. CASE j = Len(s) + 1 /\ i \in 1 .. Len(s)
        BY <3>2, <3>3, <4>4 DEF Contains, longer
      <4> QED
        BY <3>1, <4>1, <4>2, <4>3, <4>4 DEF s
    <3>6. ASSUME NEW e \in Deliveries
          PROVE  Contains(longer, e) <=> Contains(s, e) \/ e = d
      BY <3>1, <3>3 DEF Contains, longer, s
    <3>7. ASSUME NEW e \in Deliveries
          PROVE  Contains(s, e) <=> Author(e) = a /\ request[e].reply \in Arrived
      BY DEF Inv, RepliesArrived, s
    <3>8. \A e \in Deliveries :
              Contains(longer, e) <=> Author(e) = a /\ request'[e].reply \in Arrived
      BY <1>3, <1>4, <2>2, <3>6, <3>7
    <3> QED
      BY <3>1, <3>5, <3>8 DEF longer, s
  <2> QED
    BY <2>1, <2>2
<1> QED
  BY <1>7, <1>8, <1>9, <1>10 DEF Inv, HandlerOK

LEMMA InitOK == Init => Inv
<1> SUFFICES ASSUME Init PROVE Inv
  OBVIOUS
<1>1. \A d \in Deliveries : request[d] = Idle
  BY DEF Init
<1>2. Typed
  BY DEF Init, Typed, Idle, Handlers
<1>3. \A d \in Deliveries : HandlerOK(request[d])
  BY <1>1 DEF Idle, HandlerOK
<1>4. \A a \in Authors : inbox[a] = <<>> /\ Len(inbox[a]) = 0 /\ DOMAIN inbox[a] = {}
  BY DEF Init
<1>5. RepliesArrived
  BY <1>1, <1>4 DEF RepliesArrived, IsInjective, Contains, Arrived, Idle
<1>6. EarlierFailed
  BY <1>1 DEF EarlierFailed, At, Idle
<1> QED
  BY <1>2, <1>3, <1>5, <1>6 DEF Inv

\* The steps in which the bot or an author's server changes one handler.
LEMMA StepKeeps ==
    ASSUME Inv, NEW d \in Deliveries,
           Step(d) \/ ReplyTimeout(d) \/ GiveUp(d) \/ Drop(d)
    PROVE  Inv'
<1>1. request[d] \in Handlers /\ HandlerOK(request[d])
  BY DEF Inv, Typed
<1>2. ASSUME Fail(d), UNCHANGED inbox,
             request[d].at \in {"parse", "actor", "creator", "await"}
      PROVE  Inv'
  BY <1>1, <1>2, FailKeeps DEF At, HandlerOK
<1>3. CASE Parse(d)
  BY <1>2, <1>3, GoKeeps DEF Parse, At
<1>4. CASE FetchActor(d)
  BY <1>2, <1>4, GoKeeps DEF FetchActor, At
<1>5. CASE FetchCreator(d)
  BY <1>2, <1>5, GoKeeps DEF FetchCreator, At
<1>6. CASE SendReply(d)
  <2>1. CASE Become(d, [request[d] EXCEPT !.at = "await", !.reply = "sent"])
    <3> DEFINE new == [request[d] EXCEPT !.at = "await", !.reply = "sent"]
    <3>1. new \in Handlers /\ HandlerOK(new)
      BY <1>1, <1>6 DEF SendReply, At, Handlers, HandlerOK
    <3> QED
      BY <1>1, <1>6, <2>1, <3>1, HandlerMoved DEF SendReply, At, Handlers, HandlerOK, Arrived
  <2>2. CASE Answer(d, "refused", "Ok")
    <3> DEFINE new == [at |-> "done", reply |-> "refused",
                       told |-> IF request[d].told = "none" THEN "Ok" ELSE request[d].told]
    <3>1. new \in Handlers /\ HandlerOK(new)
      BY <1>1 DEF Handlers, HandlerOK
    <3> QED
      BY <1>1, <1>6, <2>2, <3>1, HandlerMoved DEF SendReply, At, Answer, HandlerOK, Arrived
  <2> QED
    BY <1>6, <2>1, <2>2 DEF SendReply
<1>7. CASE ReplyArrives(d)
  BY <1>7, ReplyArrivesKeeps
<1>8. CASE ReplyAnswered(d)
  <2>1. CASE /\ request[d].reply \in {"accepted", "rejected"}
             /\ Answer(d, request[d].reply, "Ok")
    <3> DEFINE new == [at |-> "done", reply |-> request[d].reply,
                       told |-> IF request[d].told = "none" THEN "Ok" ELSE request[d].told]
    <3>1. new \in Handlers /\ HandlerOK(new)
      BY <1>1, <2>1 DEF Handlers, HandlerOK
    <3> QED
      BY <1>8, <2>1, <3>1, HandlerMoved DEF ReplyAnswered, At, Answer
  <2>2. CASE Fail(d)
    BY <1>2, <1>8, <2>2 DEF ReplyAnswered, At
  <2> QED
    BY <1>8, <2>1, <2>2 DEF ReplyAnswered
<1>9. CASE ReplyTimeout(d) \/ Drop(d)
  BY <1>2, <1>9 DEF ReplyTimeout, Drop, At
<1>10. CASE GiveUp(d)
  <2> DEFINE new == [request[d] EXCEPT !.told = "Err"]
  <2>1. new \in Handlers /\ HandlerOK(new)
    BY <1>1, <1>10 DEF GiveUp, At, Handlers, HandlerOK
  <2> QED
    BY <1>1, <1>10, <2>1, HandlerMoved DEF GiveUp, Handlers
<1> QED
  BY <1>3, <1>4, <1>5, <1>6, <1>7, <1>8, <1>9, <1>10 DEF Step

----------------------------------------------------------------------------
\* The inductive invariant of LiveFederation.
THEOREM LiveInvariant == SafeSpec => []Inv
<1>1. Inv /\ [Next]_vars => Inv'
  <2> SUFFICES ASSUME Inv, [Next]_vars PROVE Inv'
    OBVIOUS
  <2>1. CASE UNCHANGED vars
    BY <2>1 DEF vars, Inv, Typed, HandlerOK, RepliesArrived, EarlierFailed, At
  <2>2. ASSUME NEW a \in Authors, Search(a) PROVE Inv'
    BY <2>2 DEF Search, Inv, Typed, HandlerOK, RepliesArrived, EarlierFailed, At
  <2>3. CASE Next
    BY <2>2, <2>3, DeliverKeeps, StepKeeps DEF Next
  <2> QED
    BY <2>1, <2>3
<1> QED
  BY <1>1, InitOK, PTL DEF SafeSpec

\* Whatever is lost, late or dropped between the bot (CreatePost::send and
\* receive, DbPost::from_json) and the servers of authors: who is told Ok was sent a reply or refused it,
\* no delivery is replied to twice, and none is made after one that went well.
THEOREM RepliesAreAccounted == SafeSpec => []RepliesAccounted
<1>1. Inv => RepliesAccounted
  <2> SUFFICES ASSUME Inv, NEW p \in Posts
               PROVE  /\ IsInjective(inbox[PostOf[p].by])
                      /\ Replies(p) \subseteq {d \in Deliveries : d.post = p /\ ~ At(d, "idle")}
                      /\ \A d \in {e \in Deliveries : e.post = p /\ ~ At(e, "idle")} :
                            request[d].told = "Ok" =>
                              /\ d \in Replies(p) \/ request[d].reply = "refused"
                              /\ \A e \in {f \in Deliveries : f.post = p /\ ~ At(f, "idle")} :
                                    e.attempt <= d.attempt
    BY DEF RepliesAccounted
  <2>1. IsInjective(inbox[PostOf[p].by])
    BY LiveFederationAssumption DEF Inv, RepliesArrived
  <2>2. \A d \in Deliveries : Contains(inbox[Author(d)], d) <=> request[d].reply \in Arrived
    BY AuthorTyped DEF Inv, RepliesArrived
  <2>3. ASSUME NEW d \in Deliveries, request[d].reply \in Arrived PROVE ~ At(d, "idle")
    BY <2>3 DEF Inv, HandlerOK, At, Arrived
  <2>4. ASSUME NEW d \in Deliveries, d.post = p, request[d].told = "Ok"
        PROVE  d \in Replies(p) \/ request[d].reply = "refused"
    BY <2>2, <2>4 DEF Inv, HandlerOK, Replies, Arrived
  <2>5. ASSUME NEW d \in Deliveries, NEW e \in Deliveries, d.post = p, e.post = p,
               request[d].told = "Ok", ~ At(e, "idle")
        PROVE  e.attempt <= d.attempt
    <3>1. ~ (d.attempt < e.attempt)
      BY <2>5 DEF Inv, EarlierFailed
    <3>2. d.attempt \in Int /\ e.attempt \in Int
      BY LiveFederationAssumption DEF Deliveries
    <3> QED
      BY <3>1, <3>2
  <2> QED
    BY <2>1, <2>2, <2>3, <2>4, <2>5 DEF Replies
<1> QED
  BY <1>1, LiveInvariant, PTL
=============================================================================
