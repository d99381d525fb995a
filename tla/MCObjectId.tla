----------------------------- MODULE MCObjectId -----------------------------
(* Values for the constants of ObjectId: two objects of one server, so that *)
(* one may be an alias of the other, and one of this instance.              *)
EXTENDS ObjectId

Url(host, path) ==
    [scheme |-> "https", host |-> host, port |-> NoPort, path |-> path]

MCLocalDomain == [host |-> "here", port |-> NoPort]

MCUndotted == [h \in {} |-> h]

MCUrls == {Url("there", "alias"), Url("there", "object"), Url("here", "object")}
=============================================================================
