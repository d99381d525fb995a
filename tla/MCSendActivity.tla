--------------------------- MODULE MCSendActivity ---------------------------
(* Values for the constants of SendActivity: lists of inboxes with a        *)
(* duplicate, with one of this instance and with an address.                *)
EXTENDS SendActivity

Url(host, path) ==
    [scheme |-> "https", host |-> host, port |-> 0, path |-> path]

MCLocalDomain == [host |-> "here", port |-> 0]

MCUndotted == [h \in {} |-> h]

A == Url("a", "inbox")
B == Url("b", "inbox")
Here == Url("here", "inbox")
Address == Url("10.0.0.1", "inbox")

MCUrls == {A, B, Here, Address}

MCSenders == {Here}

MCInboxLists == {<<A, Here, A, Address, B>>}
=============================================================================
