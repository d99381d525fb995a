------------------------------- MODULE Inbox -------------------------------
(***************************************************************************)
(* Receiving activities (axum/inbox.rs).  Servers sign requests with their *)
(* actors' keys (module HttpSignatures); on the way a request is delayed,  *)
(* repeated or altered; handlers of this instance verify it: they parse    *)
(* the body, resolve the actor, check digest, signature and key, ask the   *)
(* application, and only then call receive.  Meanwhile actors change their *)
(* keys and disappear, and the copies of actors in the database age.       *)
(*                                                                         *)
(* ObjectId::dereference is modelled here by what it answers for an actor  *)
(* and writes to the database; its steps are those of module ObjectId.     *)
(*                                                                         *)
(* A body is [parses, id, actor]: whether it parses, and the ids of the    *)
(* activity and its actor.  An actor's keys are numbered in the order in   *)
(* which it used them; a private key and its public key are both           *)
(* [owner, version].                                                       *)
(***************************************************************************)
EXTENDS Urls, HttpSignatures, FiniteSets

CONSTANTS
    Handlers,       \* requests to the inbox that are handled at once
    Actors,         \* ids of remote actors
    Resolved,       \* [Actors -> Actors]: where an actor's id redirects to
    Persists,       \* actors whose key id the application persists
    Undated,        \* actors whose last_refreshed_at is None
    KeyId,          \* [Actors -> key ids]: the key id each one publishes
    Bodies,         \* bodies that are sent
    Targets,        \* methods and paths of requests
    Styles,         \* ways to sign: [covers, algorithms]
    Faults,         \* what may happen to a request on the way
    RefetchAfter,   \* ACTOR_FETCH_INTERVAL, in units of the clock
    MaxTime,        \* bound: the clock stops here
    MaxKeys,        \* bound: keys of one actor
    MaxRequests     \* bound: requests that are signed

ASSUME InboxAssumption ==
    /\ Actors \subseteq Urls /\ Actors # {} /\ Bodies # {}
    /\ Resolved \in [Actors -> Actors]
    /\ KeyId \in [Actors -> [url : Urls, fragment : STRING]]
    /\ \A b \in Bodies : b.parses \in BOOLEAN /\ {b.id, b.actor} \subseteq Urls
    /\ \A b \in Bodies : Domain(b.id) = Domain(b.actor) /\ ~ IsLocalUrl(b.id)
                            => b.actor \in Actors
    /\ \A style \in Styles : style.covers \subseteq CoveredNames
    /\ Faults \subseteq
          {"body", "digest", "repeat", "target", "date", "keyId", "covers", "legible"}
    /\ RefetchAfter \in Nat

VARIABLES
    now,        \* the clock
    keys,       \* for each actor when it took each of its keys into use
    gone,       \* actors whose server answers Gone
    copies,     \* the actors in the application's database
    net,        \* the requests that were signed
    handler     \* what each handler does

vars == <<now, keys, gone, copies, net, handler>>

\* VerificationFailureClass.
Classes == {"MalformedInput", "Digest", "Signature", "ActorKeyMismatch",
            "ActorFetch", "DeletedActor", "BusinessVerification", "RequestLimit"}

\* The keys an actor has had, and the time at which one of them retired.
KeysOf(a) == {[owner |-> a, version |-> v] : v \in 1 .. Len(keys[a])}

IsRetired(key) == key.version < Len(keys[key.owner])

RetiredAt(key) == keys[key.owner][key.version + 1]

ActorWith(a, version) ==
    [id |-> a, key |-> [owner |-> a, version |-> version],
     persists |-> a \in Persists, publicKeyId |-> KeyId[a]]

Absence == [state |-> "absent", version |-> 0, fetched |-> 0, refreshed |-> 0]

(***************************************************************************)
(* A handler is at                                                         *)
(*   idle     nothing has arrived since the last answer                    *)
(*   parse    verify_url_and_domain is awaited                             *)
(*   resolve  the application's resolver is awaited                        *)
(*   read     read_from_id of the actor is awaited                         *)
(*   fetch    fetch_object_http of the actor is awaited                    *)
(*   delete   delete of the actor that was read is awaited                 *)
(*   store    from_json is about to write the actor                        *)
(*   check    digest, signature and key are about to be checked            *)
(*   verify   the application's verify is awaited                          *)
(*   verified the activity is verified, and receive may be called          *)
(* how says where the actor came from, held is the copy that was read, and *)
(* answer the last answer: Ok or the class of the failure.  The times at   *)
(* which the actor was read or fetched and the signature was checked are   *)
(* history, and forgotten with the copy once they say nothing more.        *)
(***************************************************************************)
Dummy == CHOOSE a \in Actors : TRUE

NoRequest ==
    SignRequest("none", Dummy, CHOOSE b \in Bodies : TRUE,
                [owner |-> Dummy, version |-> 0], TRUE, 0)

Idle == [at |-> "idle", request |-> NoRequest, actor |-> ActorWith(Dummy, 0),
         how |-> "none", held |-> Absence, resolved |-> 0, checked |-> 0,
         answer |-> "none"]

Init ==
    /\ now = 0
    /\ keys = [a \in Actors |-> <<0>>]
    /\ gone = {}
    /\ copies = [a \in Actors |-> Absence]
    /\ net = {}
    /\ handler = [h \in Handlers |-> Idle]

----------------------------------------------------------------------------
(* Remote servers and the network.                                         *)

\* A body signed with a key, in one of the ways that implementations do,
\* under the key id of one of the actor's ids.
SignedBy(key, alias, body, target, style) ==
    Sign([target |-> target, date |-> now,
          digest |-> <<DigestHeader(style.algorithms, body)>>,
          body |-> body,
          signature |->
             [legible |-> TRUE, keyId |-> KeyId[alias], covers |-> style.covers,
              created |-> IF "(created)" \in style.covers THEN now ELSE Absent,
              expires |-> IF "(expires)" \in style.covers THEN now + ExpiresAfter
                          ELSE Absent]],
         key)

\* Whoever has a key of the actor may sign with it: its server, which for this
\* library's senders goes on using a key in actor_pkey_cache after the actor
\* has taken another, or somebody else who got hold of one.
Send(a) ==
    /\ Cardinality(net) < MaxRequests
    /\ \E key \in KeysOf(a), body \in Bodies, target \in Targets, style \in Styles :
          /\ body.parses => Resolved[body.actor] = a
          /\ \E alias \in {a, body.actor} \cap Actors :
                net' = net \cup {SignedBy(key, alias, body, target, style)}
    /\ UNCHANGED <<now, keys, gone, copies, handler>>

DigestValues == {Unreadable} \cup {DigestHeader({"sha-256"}, b) : b \in Bodies}

\* Any body, and one of these Digest headers.
Redigested(r, digests) ==
    UNION {{[r EXCEPT !.body = b, !.digest = d] : d \in digests} : b \in Bodies}

\* What may become of a request on the way.  Only the holder of the key can
\* make a signature of another string.
Damaged(r, fault) ==
    CASE fault = "body"    -> {[r EXCEPT !.body = b] : b \in Bodies}
      [] fault = "digest"  -> Redigested(r, {<<>>} \cup {<<v>> : v \in DigestValues})
      [] fault = "repeat"  -> Redigested(r, {<<v>> \o r.digest : v \in DigestValues}
                                               \cup {r.digest \o <<v>> : v \in DigestValues})
      [] fault = "target"  -> {[r EXCEPT !.target = t] : t \in Targets}
      [] fault = "date"    -> {[r EXCEPT !.date = now]}
      [] fault = "keyId"   -> {[r EXCEPT !.signature.keyId = KeyId[a]] : a \in Actors}
      [] fault = "covers"  -> {[r EXCEPT !.signature.covers = @ \ {name}] :
                                  name \in r.signature.covers}
      [] fault = "legible" -> {[r EXCEPT !.signature.legible = FALSE]}

Arrivals(r) == {r} \cup UNION {Damaged(r, fault) : fault \in Faults}

Rotate(a) ==
    /\ Resolved[a] = a
    /\ Len(keys[a]) < MaxKeys
    /\ keys' = [keys EXCEPT ![a] = Append(@, now)]
    /\ UNCHANGED <<now, gone, copies, net, handler>>

Vanish(a) ==
    /\ Resolved[a] = a
    /\ a \notin gone
    /\ gone' = gone \cup {a}
    /\ UNCHANGED <<now, keys, copies, net, handler>>

Tick ==
    /\ now < MaxTime
    /\ now' = now + 1
    /\ UNCHANGED <<keys, gone, copies, net, handler>>

----------------------------------------------------------------------------
(* Handling one request.                                                   *)

At(h, place) == handler[h].at = place

Go(h, place) == handler' = [handler EXCEPT ![h].at = place]

Answer(h, result) == handler' = [handler EXCEPT ![h] = [Idle EXCEPT !.answer = result]]

\* ActivityData::from_request: a body that is longer than INBOX_BODY_LIMIT
\* or cannot be read gets no further.
Arrive(h) ==
    /\ At(h, "idle")
    /\ \E r \in net : \E request \in Arrivals(r) :
          \/ handler' = [handler EXCEPT ![h] =
                [Idle EXCEPT !.at = "parse", !.request = request]]
          \/ \E status \in {"PayloadTooLarge", "InternalServerError"} : Answer(h, status)
    /\ UNCHANGED <<now, keys, gone, copies, net>>

\* verify_url_and_domain.
UrlAndDomainValid(activity, resolves) ==
    /\ Domain(activity.id) = Domain(activity.actor)
    /\ UrlValid(activity.id, resolves)
    /\ ~ IsLocalUrl(activity.id)

\* parse_activity_data, and whether the application brings its own resolver.
Parse(h) ==
    /\ At(h, "parse")
    /\ LET body == handler[h].request.body
       IN  \E resolves \in BOOLEAN :
              IF body.parses /\ UrlAndDomainValid(body, resolves)
              THEN \E next \in {"resolve", "read"} : Go(h, next)
              ELSE Answer(h, "MalformedInput")
    /\ UNCHANGED <<now, keys, gone, copies, net>>

ActorId(h) == handler[h].request.body.actor

UseActor(h, actor, how) ==
    handler' = [handler EXCEPT ![h].at = "check", ![h].actor = actor, ![h].how = how,
                               ![h].held = Absence]

\* classify_actor_fetch_failure; receive_activity drops the class.
ActorFailure(h, class) ==
    \E answer \in {class, "ActorFetch"} : Answer(h, answer)

\* The application's ActorResolver: any actor it may have kept, or an error.
Resolve(h) ==
    /\ At(h, "resolve")
    /\ \/ \E version \in 1 .. Len(keys[Resolved[ActorId(h)]]) :
             UseActor(h, ActorWith(Resolved[ActorId(h)], version), "resolver")
       \/ \E class \in {"ActorFetch", "DeletedActor", "RequestLimit"} :
             ActorFailure(h, class)
    /\ UNCHANGED <<now, keys, gone, copies, net>>

Outdated(a, copy) == a \notin Undated /\ copy.refreshed + RefetchAfter < now

\* Slip: an outdated copy is used like a recent one.
ReadActorEver(h) ==
    /\ At(h, "read")
    /\ LET copy == copies[ActorId(h)]
       IN  \/ ActorFailure(h, IF copy.state = "deleted" THEN "DeletedActor" ELSE "ActorFetch")
           \/ /\ copy.state # "absent"
              /\ handler' = [handler EXCEPT ![h].at = "check", ![h].how = "recent",
                                ![h].actor = ActorWith(ActorId(h), copy.version),
                                ![h].held = copy, ![h].resolved = now]
           \/ /\ copy.state = "absent"
              /\ handler' = [handler EXCEPT ![h].at = "fetch", ![h].held = copy]
    /\ UNCHANGED <<now, keys, gone, copies, net>>

\* dereference: the copy in the database, if there is a recent one.
ReadActor(h) ==
    /\ At(h, "read")
    /\ LET copy == copies[ActorId(h)]
       IN  \/ ActorFailure(h, IF copy.state = "deleted" THEN "DeletedActor" ELSE "ActorFetch")
           \/ /\ copy.state # "absent" /\ ~ Outdated(ActorId(h), copy)
              /\ handler' = [handler EXCEPT ![h].at = "check", ![h].how = "recent",
                                ![h].actor = ActorWith(ActorId(h), copy.version),
                                ![h].held = copy, ![h].resolved = now]
           \/ /\ copy.state = "absent" \/ Outdated(ActorId(h), copy)
              /\ handler' = [handler EXCEPT ![h].at = "fetch", ![h].held = copy]
    /\ UNCHANGED <<now, keys, gone, copies, net>>

\* dereference_from_http: the server answers with the actor or Gone, or the
\* fetch fails in another way; then the copy that was read is good enough.
FetchActor(h) ==
    /\ At(h, "fetch")
    /\ LET held == handler[h].held
           actual == Resolved[ActorId(h)]
       IN  \/ /\ actual \notin gone
              /\ handler' = [handler EXCEPT ![h].at = "store", ![h].resolved = now,
                                ![h].held = Absence,
                                ![h].actor = ActorWith(actual, Len(keys[actual]))]
           \/ /\ actual \in gone
              /\ IF held.state = "absent" THEN ActorFailure(h, "DeletedActor")
                 ELSE Go(h, "delete")
           \/ /\ held.state = "absent"
              /\ \E class \in {"ActorFetch", "RequestLimit"} : ActorFailure(h, class)
           \/ /\ held.state # "absent"
              /\ UseActor(h, ActorWith(ActorId(h), held.version), "held")
    /\ UNCHANGED <<now, keys, gone, copies, net>>

\* An actor that is gone is deleted from the database, and used all the same.
DeleteActor(h) ==
    /\ At(h, "delete")
    /\ \/ /\ copies' = [copies EXCEPT ![ActorId(h)].state = "deleted"]
          /\ UseActor(h, ActorWith(ActorId(h), handler[h].held.version), "held")
       \/ /\ ActorFailure(h, "ActorFetch")
          /\ UNCHANGED copies
    /\ UNCHANGED <<now, keys, gone, net>>

\* Slip: the time of the last refresh is left as it was.
StoreActorUndated(h) ==
    /\ At(h, "store")
    /\ \/ /\ copies' = [copies EXCEPT ![handler[h].actor.id] =
                 [state |-> "stored", version |-> handler[h].actor.key.version,
                  fetched |-> handler[h].resolved, refreshed |-> @.refreshed]]
          /\ UseActor(h, handler[h].actor, "fetched")
       \/ /\ ActorFailure(h, "ActorFetch")
          /\ UNCHANGED copies
    /\ UNCHANGED <<now, keys, gone, net>>

\* The application's verify and from_json, which writes the actor fetched
\* under its own id, whatever else was written there since, or fails.
StoreActor(h) ==
    /\ At(h, "store")
    /\ \/ /\ copies' = [copies EXCEPT ![handler[h].actor.id] =
                 [state |-> "stored", version |-> handler[h].actor.key.version,
                  fetched |-> handler[h].resolved, refreshed |-> now]]
          /\ UseActor(h, handler[h].actor, "fetched")
       \/ /\ ActorFailure(h, "ActorFetch")
          /\ UNCHANGED copies
    /\ UNCHANGED <<now, keys, gone, net>>

\* The part of verify_post_resolution that awaits nothing.
Verdict(r, actor) ==
    CASE ~ VerifyBodyHash(r) -> "Digest"
      [] VerifyBodyHash(r) /\ ~ VerifySignature(r, actor.key, now) -> "Signature"
      [] OTHER -> IF VerifyActorKeyId(actor, r.signature.keyId) THEN "none"
                  ELSE "ActorKeyMismatch"

Check(h) ==
    /\ At(h, "check")
    /\ LET verdict == Verdict(handler[h].request, handler[h].actor)
       IN  IF verdict = "none"
           THEN handler' = [handler EXCEPT ![h] =
                   [@ EXCEPT !.at = "verify", !.checked = now, !.held = Absence,
                             !.resolved = 0]]
           ELSE Answer(h, verdict)
    /\ UNCHANGED <<now, keys, gone, copies, net>>

\* The application's verify.
BusinessVerify(h) ==
    /\ At(h, "verify")
    /\ Go(h, "verified") \/ Answer(h, "BusinessVerification")
    /\ UNCHANGED <<now, keys, gone, copies, net>>

\* receive_activity calls receive, which may fail; one who asked for
\* verification alone may do so too with the VerifiedActivity, or drop it.
Receive(h) ==
    /\ At(h, "verified")
    /\ \E result \in {"Ok", "Err"} : Answer(h, result)
    /\ UNCHANGED <<now, keys, gone, copies, net>>

\* With a resolver the request is not consumed, and may be verified again.
VerifyAgain(h) ==
    /\ At(h, "verified") /\ handler[h].how = "resolver"
    /\ Go(h, "parse")
    /\ UNCHANGED <<now, keys, gone, copies, net>>

----------------------------------------------------------------------------
Step(h) == \/ Arrive(h) \/ Parse(h) \/ Resolve(h) \/ ReadActor(h)
           \/ FetchActor(h) \/ DeleteActor(h) \/ StoreActor(h) \/ Check(h)
           \/ BusinessVerify(h) \/ Receive(h) \/ VerifyAgain(h)

Next == \/ \E h \in Handlers : Step(h)
        \/ \E a \in Actors : Send(a) \/ Rotate(a) \/ Vanish(a)
        \/ Tick

SafeSpec == Init /\ [][Next]_vars

----------------------------------------------------------------------------
(* Properties.                                                             *)

Places == {"idle", "parse", "resolve", "read", "fetch", "delete", "store",
           "check", "verify", "verified"}

Answers == Classes \cup {"none", "Ok", "Err", "PayloadTooLarge", "InternalServerError"}

CopyRecords ==
    [state : {"absent", "stored", "deleted"}, version : Nat, fetched : Nat, refreshed : Nat]

TypeOK ==
    /\ now \in Nat
    /\ keys \in [Actors -> Seq(0 .. now)]
    /\ gone \subseteq Actors
    /\ copies \in [Actors -> CopyRecords]
    /\ \A a \in Actors :
          /\ copies[a].version <= Len(keys[a])
          /\ copies[a].fetched <= copies[a].refreshed /\ copies[a].refreshed <= now
    /\ \A r \in net : r.body \in Bodies /\ r.target \in Targets
    /\ \A h \in Handlers :
          /\ handler[h].at \in Places /\ handler[h].answer \in Answers
          /\ handler[h].request.body \in Bodies
          /\ handler[h].actor.id \in Actors /\ handler[h].held \in CopyRecords
          /\ handler[h].actor.key.version <= Len(keys[handler[h].actor.id])

\* receive runs only on an activity for which a request was signed with a key
\* of the actor it names: to the same method and path, if that was signed, and
\* with the Digest header that comes last.  If there is only one, the digest
\* that was signed is that of the activity.  So every check is about the same
\* request, whatever happened to it on the way and to the actor during the
\* awaits between the checks.
VerifiedWasSigned ==
    \A h \in Handlers :
        LET request == handler[h].request
            actor == handler[h].actor
        IN  At(h, "verified") =>
               /\ actor.id \in {request.body.actor, Resolved[request.body.actor]}
               /\ \E r \in net :
                     /\ r.signature.key = actor.key
                     /\ "(request-target)" \in r.signature.covers => r.target = request.target
                     /\ MappedDigest(r) = MappedDigest(request)
                     /\ Len(request.digest) = 1 =>
                           [algorithm |-> "sha-256", of |-> request.body] \in MappedDigest(r)

\* Two requests that carry one and the same signature.
SameSignature(q, r) ==
    q.signature.key = r.signature.key /\ q.signature.string = r.signature.string

\* A signature is accepted no longer than it is fresh: within EXPIRES_AFTER of
\* the moment it was made, by whichever key, however late and often the network
\* brings the request, whichever of its times the signature covers, and
\* whatever became of those it does not cover.
AcceptedWhileFresh ==
    \A h \in Handlers :
        At(h, "verified") =>
            \E r \in net : /\ SameSignature(handler[h].request, r)
                          /\ handler[h].checked <= r.date + ExpiresAfter

\* A key id this library can tie to its actor.
Understood(a) == a \in Persists \/ KeyId[a].url = a

\* An activity that arrives as it was signed, in time and in a way this
\* library understands, is refused for its signature only if the actor's key
\* is not the one in the copy that was used.
RefusedForCause ==
    \A h \in Handlers :
        LET r == handler[h].request
        IN  /\ At(h, "check")
            /\ r \in net
            /\ BeginVerify(r, now) /\ HasFreshnessHeader(r)
            /\ \E part \in MappedDigest(r) : part.algorithm = "sha-256"
            /\ handler[h].actor.key = r.signature.key
            /\ Understood(handler[h].actor.id)
            /\ r.signature.keyId = KeyId[handler[h].actor.id]
            => Verdict(r, handler[h].actor) = "none"

\* Which key a signature was checked against: one that the actor used when
\* the handler fetched it or, from a recent copy, not longer ago
\* than RefetchAfter and the time it took to store it; an older one only
\* after its server failed to answer, or if the application keeps no time of
\* the last refresh.
StaleKeyExplained ==
    \A h \in Handlers :
        LET key == handler[h].actor.key
            copy == handler[h].held
        IN  At(h, "check") /\ IsRetired(key) =>
               \/ handler[h].how \in {"held", "resolver"} \/ key.owner \in Undated
               \/ handler[h].how = "fetched" /\ RetiredAt(key) >= handler[h].resolved
               \/ /\ handler[h].how = "recent"
                  /\ handler[h].resolved <=
                       RetiredAt(key) + RefetchAfter + (copy.refreshed - copy.fetched)
=============================================================================
