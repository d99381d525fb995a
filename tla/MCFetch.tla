------------------------------ MODULE MCFetch ------------------------------
(* Values for the constants of Fetch: an alias and the object it stands for *)
(* on one server, another server, this instance, and for each check of      *)
(* verify_url_valid a URL that only that check refuses.                     *)
EXTENDS Fetch

Url(scheme, host, path) ==
    [scheme |-> scheme, host |-> host, port |-> NoPort, path |-> path]

MCLocalDomain == [host |-> "here", port |-> NoPort]

MCUndotted == [h \in {"blocked."} |-> "blocked"]

MCUrls == {Url("https", "there", "alias"), Url("https", "there", "object"),
           Url("https", "else", "object"), Url("https", "here", "object"),
           Url("https", "blocked.", "object"), Url("https", "address", "object"),
           Url("https", "odd_name", "object"), Url("https", "private", "object"),
           Url("http", "there", "object"), Url("ftp", "there", "object"),
           [Url("https", "there", "object") EXCEPT !.port = 8080]}
=============================================================================
