------------------------------ MODULE MCInbox ------------------------------
(* Values for the constants of Inbox: an actor, an id that redirects to it, *)
(* and an activity of each.                                                 *)
EXTENDS Inbox, TLC

Url(host, path) ==
    [scheme |-> "https", host |-> host, port |-> NoPort, path |-> path]

MCLocalDomain == [host |-> "here", port |-> NoPort]

MCUndotted == [h \in {} |-> h]

Alice == Url("there", "alice")
Alias == Url("there", "alias")

MCUrls == {Alice, Alias, Url("there", "activity"), Url("here", "activity")}

MCActors == {Alice, Alias}

MCResolved == [a \in MCActors |-> Alice]

MCPersists == {Alice}

MCKeyId == [a \in MCActors |-> [url |-> Url("there", "activity"), fragment |-> "key"]]

Body(id, actor) == [parses |-> TRUE, id |-> id, actor |-> actor]

MCBodies == {Body(Url("there", "activity"), Alice),
             Body(Url("there", "activity"), Alias)}

Times == {"date", "(created)", "(expires)"}

Style(covers, algorithms) == [covers |-> {"(request-target)"} \cup covers,
                              algorithms |-> algorithms]

MCStyles == {Style({"digest"} \cup Times, {"sha-256", "sha-512"}),
             Style({"digest"}, {"sha-256"})}

Symmetry == Permutations(Handlers)

\* Such a request is refused whatever the actor's key and the time.
Hopeless(q) ==
    q \notin net /\ (~ VerifyBodyHash(q) \/ MappedDigest(q) # q.signature.string["digest"])

\* What the steps of a handler and the properties look at: not the last answer,
\* and of the digests only what they come to.
Seen(k) ==
    [k EXCEPT !.answer = "none",
              !.how = IF k.at \in {"verify", "verified"} /\ @ # "resolver" THEN "none" ELSE @,
              !.request = IF Hopeless(@) THEN [NoRequest EXCEPT !.body = k.request.body, !.digest = <<>>]
                          ELSE [@ EXCEPT !.digest = <<Len(@) = 1>>]]

View == <<now, keys, gone, copies, net, [h \in Handlers |-> Seen(handler[h])]>>
=============================================================================
