---------------------------- MODULE MCWebfinger ----------------------------
(* Values for the constants of Webfinger: a server with its webfinger       *)
(* document and an actor, and an object of this instance.                   *)
EXTENDS Webfinger

Url(host, path) ==
    [scheme |-> "https", host |-> host, port |-> NoPort, path |-> path]

MCLocalDomain == [host |-> "here", port |-> NoPort]

MCUndotted == [h \in {} |-> h]

MCDomains == {[host |-> "there", port |-> NoPort], [host |-> "there", port |-> 8080]}

Person == Url("there", "person")
Finger == Url("there", "webfinger")
Here == Url("here", "object")

MCUrls == {Person, Finger, Here}

\* What this library itself answers for two actors of the same name, and a
\* server that links to an object of this instance.
MCLinkLists ==
    {BuildLinks(<<Person, Finger>>), <<[activity |-> TRUE, href |-> Here],
                                       [activity |-> TRUE, href |-> Person]>>}
=============================================================================
