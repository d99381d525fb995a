---------------------------- MODULE LiveFederation ----------------------------
(***************************************************************************)
(* The example examples/live_federation: a bot that receives posts from    *)
(* users of other servers and answers each of them with a reply.  The      *)
(* reply is sent while the post is being received, so that the server of   *)
(* its author waits for a request to itself; it may give up and try again. *)
(*                                                                         *)
(* The bot's database holds nothing but its own user, so every user it has *)
(* to do with is fetched anew.  An author is named by the inbox too.       *)
(***************************************************************************)
EXTENDS Integers, FiniteSets, SequencesExt

CONSTANTS
    Authors,        \* users of other servers
    Posts,          \* activities they send to the bot
    PostOf,         \* [Posts -> [by, kind]]
    Identifiers,    \* [name, domain]: what is searched for
    MaxAttempts     \* bound: deliveries of one post

LocalUserName == "alison"
LocalDomain == "example.com"

ASSUME LiveFederationAssumption ==
    /\ \A p \in Posts : PostOf[p].by \in Authors
    /\ [name |-> LocalUserName, domain |-> LocalDomain] \in Identifiers
    /\ MaxAttempts \in Nat

VARIABLES
    known,      \* authors whose server knows the bot's user and inbox
    request,    \* what became of each delivery of a post
    inbox       \* the replies that each author's server was sent

vars == <<known, request, inbox>>

(***************************************************************************)
(* A delivery is [post, attempt].  Its handler is at                       *)
(*   idle     not requested                                                *)
(*   parse    the activity is about to be parsed                           *)
(*   actor    receive_activity fetches the actor                           *)
(*   creator  from_json fetches the author once more                       *)
(*   send     the reply is about to be sent                                *)
(*   await    its answer is awaited                                        *)
(*   done     there is an answer, or nobody left to have it                *)
(* reply says what became of the reply, told what the author's server was  *)
(* told: Ok, or Err also if it gave up.                                    *)
(***************************************************************************)
Deliveries == [post : Posts, attempt : 1 .. MaxAttempts]

Author(d) == PostOf[d.post].by

Idle == [at |-> "idle", reply |-> "none", told |-> "none"]

Init ==
    /\ known = {}
    /\ request = [d \in Deliveries |-> Idle]
    /\ inbox = [a \in Authors |-> <<>>]

At(d, place) == request[d].at = place

Become(d, new) == request' = [request EXCEPT ![d] = new]

Go(d, place) == Become(d, [request[d] EXCEPT !.at = place])

\* The answer to a delivery, if somebody still waits for it.
Answer(d, reply, result) ==
    Become(d, [at |-> "done", reply |-> reply,
               told |-> IF request[d].told = "none" THEN result ELSE request[d].told])

Fail(d) == Answer(d, request[d].reply, "Err")

----------------------------------------------------------------------------
(* The bot is searched for.                                                *)

\* The webfinger handler: extract_webfinger_name and read_user.
Webfinger(id) ==
    IF id.domain # LocalDomain THEN "WrongDomain"
    ELSE IF id.name # LocalUserName THEN "InvalidUser" ELSE "Ok"

\* The author's server asks the webfinger handler and then for the user.
Search(a) ==
    /\ \E id \in Identifiers :
          /\ Webfinger(id) = "Ok"
          /\ known' = known \cup {a}
    /\ UNCHANGED <<request, inbox>>

----------------------------------------------------------------------------
(* Deliveries of posts.                                                    *)

\* An attempt that failed may be followed by another.
Deliver(d) ==
    /\ At(d, "idle")
    /\ Author(d) \in known
    /\ d.attempt > 1 => request[[d EXCEPT !.attempt = @ - 1]].told = "Err"
    /\ Go(d, "parse")
    /\ UNCHANGED <<known, inbox>>

\* PersonAcceptedActivities knows nothing but Create.
Parse(d) ==
    /\ At(d, "parse")
    /\ IF PostOf[d.post].kind = "create" THEN Go(d, "actor") ELSE Fail(d)
    /\ UNCHANGED <<known, inbox>>

\* read_from_id finds nobody, so dereference fetches, and from_json keeps
\* nothing of what was fetched.
FetchActor(d) ==
    /\ At(d, "actor")
    /\ Go(d, "creator") \/ Fail(d)
    /\ UNCHANGED <<known, inbox>>

\* Slip: the author is fetched until that succeeds.
FetchCreatorEver(d) ==
    /\ At(d, "creator")
    /\ Go(d, "send") \/ Go(d, "actor")
    /\ UNCHANGED <<known, inbox>>

FetchCreator(d) ==
    /\ At(d, "creator")
    /\ Go(d, "send") \/ Fail(d)
    /\ UNCHANGED <<known, inbox>>

\* Slip: the reply is sent by a task of its own.
SendReplyQueued(d) ==
    /\ At(d, "send")
    /\ \/ Answer(d, "sent", "Ok")
       \/ Answer(d, "refused", "Ok")
    /\ UNCHANGED <<known, inbox>>

\* prepare makes no task for an inbox that verify_url_valid refuses, also if
\* only its name cannot be resolved now; then there is nothing to send.
SendReply(d) ==
    /\ At(d, "send")
    /\ \/ Become(d, [request[d] EXCEPT !.at = "await", !.reply = "sent"])
       \/ Answer(d, "refused", "Ok")
    /\ UNCHANGED <<known, inbox>>

\* The author's server takes the reply, rejects it for good or cannot now.
ReplyArrives(d) ==
    /\ request[d].reply = "sent"
    /\ \E outcome \in {"accepted", "rejected", "failed"} :
          Become(d, [request[d] EXCEPT !.reply = outcome])
    /\ inbox' = [inbox EXCEPT ![Author(d)] = Append(@, d)]
    /\ UNCHANGED known

\* into_legacy_result: a rejection is no error.
ReplyAnswered(d) ==
    /\ At(d, "await")
    /\ \/ request[d].reply \in {"accepted", "rejected"} /\ Answer(d, request[d].reply, "Ok")
       \/ request[d].reply = "failed" /\ Fail(d)
    /\ UNCHANGED <<known, inbox>>

\* request_timeout, or the network fails: the reply may arrive all the same.
ReplyTimeout(d) ==
    /\ At(d, "await")
    /\ Fail(d)
    /\ UNCHANGED <<known, inbox>>

\* The author's server gives up on an answer.
GiveUp(d) ==
    /\ ~ At(d, "idle") /\ request[d].told = "none"
    /\ Become(d, [request[d] EXCEPT !.told = "Err"])
    /\ UNCHANGED <<known, inbox>>

\* A handler whose client is gone may be dropped wherever it awaits.
Drop(d) ==
    /\ request[d].told = "Err" /\ request[d].at \in {"actor", "creator", "await"}
    /\ Fail(d)
    /\ UNCHANGED <<known, inbox>>

----------------------------------------------------------------------------
Step(d) == \/ Parse(d) \/ FetchActor(d) \/ FetchCreator(d) \/ SendReply(d)
           \/ ReplyArrives(d) \/ ReplyAnswered(d)

Next == \/ \E a \in Authors : Search(a)
        \/ \E d \in Deliveries :
              Deliver(d) \/ Step(d) \/ ReplyTimeout(d) \/ GiveUp(d) \/ Drop(d)

SafeSpec == Init /\ [][Next]_vars

\* Some handler or server goes on as long as one can; no timeout is needed.
Spec == SafeSpec /\ WF_vars(\E d \in Deliveries : Step(d))

----------------------------------------------------------------------------
(* Properties.                                                             *)

Replies(p) == {d \in Deliveries : d.post = p /\ Contains(inbox[Author(d)], d)}

\* An author whose server was told Ok has been sent a reply, unless the inbox
\* was refused; and nobody has more replies to a post than deliveries of it
\* were made, of which all but the last were reported to have failed.
RepliesAccounted ==
    \A p \in Posts :
        LET made == {d \in Deliveries : d.post = p /\ ~ At(d, "idle")}
        IN  /\ IsInjective(inbox[PostOf[p].by])
            /\ Replies(p) \subseteq made
            /\ \A d \in made :
                  /\ request[d].told = "Ok" =>
                        /\ d \in Replies(p) \/ request[d].reply = "refused"
                        /\ \A e \in made : e.attempt <= d.attempt

\* Every delivery is answered, though its answer waits for that of the reply.
DeliveryAnswered ==
    \A d \in Deliveries : ~ At(d, "idle") ~> request[d].told # "none"
=============================================================================
