------------------------------- MODULE Fetch -------------------------------
(***************************************************************************)
(* Fetching an object over HTTP (fetch/mod.rs): fetch_object_http,         *)
(* fetch_object_http_conditional and the webfinger request, by concurrent  *)
(* callers that share one Data and so one request_counter.                 *)
(*                                                                         *)
(* The functions call each other and themselves in tail position only (a   *)
(* redirect, a canonical refetch), so a fetch is a loop over one frame per *)
(* caller.  A step is what runs between two awaits; what a server answers  *)
(* to a request is chosen freely, also that it never answers.              *)
(***************************************************************************)
EXTENDS Urls, Integers, FiniteSets

CONSTANTS
    Callers,        \* futures that fetch with the same Data
    HttpFetchLimit  \* http_fetch_limit

ASSUME CallersAssumption == IsFiniteSet(Callers)
ASSUME LimitAssumption   == HttpFetchLimit \in Nat

VARIABLES
    counter,    \* request_counter
    sent,       \* requests that were executed, up to one too many (history)
    fetch       \* the fetch each caller awaits

fetchVars == <<counter, sent, fetch>>

(***************************************************************************)
(* Which function runs.  "canonical" is ConditionalFetchMode's             *)
(* CanonicalRefetch; fetch_object_http needs no such mode of its own.      *)
(***************************************************************************)
Modes == {"object", "conditional", "canonical", "webfinger"}

Failures == {"UrlInvalid", "RequestLimit", "NoResponse", "BadStatus", "BadLocation",
             "ParseError", "InvalidContentType", "WrongId", "NotFound"}

\* Modified or the object itself, NotModified, and Gone or ObjectDeleted.
Results == {"Object", "NotModified", "Gone"} \cup Failures

Idle == [at |-> "idle"]

(***************************************************************************)
(*   verify     verify_url_valid of url is awaited                         *)
(*   count      about to add to the counter                                *)
(*   request    the request is being executed                              *)
(*   verifyId   verify_url_valid of the id in the body, next, is awaited   *)
(*   done       result is Results' member for the call, url the final URL  *)
(* asked is the URL the caller gave; recursive says that url was reached   *)
(* by a redirect; etag that the caller gave validators.  The history says  *)
(* whether any redirect was followed, and whether an id was refetched.     *)
(***************************************************************************)
Frames == [at : {"verify", "count", "request", "verifyId", "done"},
           mode : Modes, etag : BOOLEAN, recursive : BOOLEAN,
           asked : Urls, url : Urls, next : Urls, result : Results,
           redirected : BOOLEAN, refetched : BOOLEAN]

FetchInit ==
    /\ counter = 0
    /\ sent = 0
    /\ fetch = [c \in Callers |-> Idle]

Set(c, frame) == fetch' = [fetch EXCEPT ![c] = frame]

Finish(c, result) ==
    Set(c, [fetch[c] EXCEPT !.at = "done", !.result = result])

----------------------------------------------------------------------------
\* Validators are given, if at all, to a conditional fetch.
NewFrame(u, mode, etag) ==
    [at |-> "verify", mode |-> mode, etag |-> etag, recursive |-> FALSE,
     asked |-> u, url |-> u, next |-> u, result |-> "NoResponse",
     redirected |-> FALSE, refetched |-> FALSE]

Begin(c, u, mode, etag) ==
    /\ fetch[c] = Idle
    /\ Set(c, NewFrame(u, mode, etag))
    /\ UNCHANGED <<counter, sent>>

Verify(c) ==
    /\ fetch[c].at = "verify"
    /\ \E resolved \in BOOLEAN :
          IF UrlValid(fetch[c].url, resolved)
          THEN Set(c, [fetch[c] EXCEPT !.at = "count"])
          ELSE Finish(c, "UrlInvalid")
    /\ UNCHANGED <<counter, sent>>

\* Slips: the old value that fetch_add returns is compared; and only the
\* first request of a call is counted.
CountRequestOldValue(c) ==
    /\ fetch[c].at = "count"
    /\ counter' = counter + 1
    /\ IF counter > HttpFetchLimit
       THEN Finish(c, "RequestLimit")
       ELSE Set(c, [fetch[c] EXCEPT !.at = "request"])
    /\ UNCHANGED sent

CountRequestOncePerCall(c) ==
    /\ fetch[c].at = "count"
    /\ counter' = IF fetch[c].url = fetch[c].asked THEN counter + 1 ELSE counter
    /\ IF counter' > HttpFetchLimit
       THEN Finish(c, "RequestLimit")
       ELSE Set(c, [fetch[c] EXCEPT !.at = "request"])
    /\ UNCHANGED sent

\* fetch_add; a refused request stays counted.
CountRequest(c) ==
    /\ fetch[c].at = "count"
    /\ counter' = counter + 1
    /\ IF counter' > HttpFetchLimit
       THEN Finish(c, "RequestLimit")
       ELSE Set(c, [fetch[c] EXCEPT !.at = "request"])
    /\ UNCHANGED sent

----------------------------------------------------------------------------
(* What is done with the answer.                                           *)

Executed(c) ==
    /\ fetch[c].at = "request"
    /\ sent' = IF sent > HttpFetchLimit THEN sent ELSE sent + 1
    /\ UNCHANGED counter

\* The connection fails, request_timeout runs out, or, with signed_fetch_actor,
\* the request cannot be signed.
NoAnswer(c) == Executed(c) /\ Finish(c, "NoResponse")

\* One of the five redirect statuses, with a Location: followed once.
Redirect(c) ==
    /\ Executed(c)
    /\ ~ fetch[c].recursive
    /\ \/ Finish(c, "BadLocation")
       \/ \E u \in Urls :
             Set(c, [fetch[c] EXCEPT !.at = "verify", !.url = u, !.recursive = TRUE,
                                     !.redirected = TRUE])

\* 410.
Gone(c) ==
    /\ Executed(c)
    /\ Finish(c, IF IsLocalUrl(fetch[c].url) THEN "NotFound" ELSE "Gone")

\* 304, which only the conditional modes look for: accepts_not_modified.
NotModified(c) ==
    /\ Executed(c)
    /\ fetch[c].mode \in {"conditional", "canonical"}
    /\ Finish(c, IF IsLocalUrl(fetch[c].url) THEN "NotFound"
                 ELSE IF fetch[c].mode = "conditional" /\ fetch[c].etag
                 THEN "NotModified" ELSE "BadStatus")

\* Any other status but 200 is an error for the conditional modes.  The
\* others parse the body whatever the status.
OtherStatus(c) ==
    /\ Executed(c)
    /\ fetch[c].mode \in {"conditional", "canonical"}
    /\ Finish(c, "BadStatus")

\* The body is too long, not the expected JSON, or of another content type.
\* The webfinger request checks neither content type nor id.
BadBody(c) ==
    /\ Executed(c)
    /\ \/ Finish(c, "ParseError")
       \/ fetch[c].mode # "webfinger" /\ Finish(c, "InvalidContentType")
       \/ fetch[c].mode # "webfinger" /\ Finish(c, "WrongId")    \* no id at all

\* Slip: a local URL is not refused once the id matches.
BodyEvenLocal(c) ==
    /\ Executed(c)
    /\ IF fetch[c].mode = "webfinger" THEN Finish(c, "Object")
       ELSE \E id \in Urls :
               IF id = fetch[c].url
               THEN Finish(c, "Object")
               ELSE Set(c, [fetch[c] EXCEPT !.at = "verifyId", !.next = id])

\* The body parses, and its id is compared with the final URL.
Body(c) ==
    /\ Executed(c)
    /\ IF fetch[c].mode = "webfinger" THEN Finish(c, "Object")
       ELSE \E id \in Urls :
               IF id = fetch[c].url
               THEN Finish(c, IF IsLocalUrl(id) THEN "NotFound" ELSE "Object")
               ELSE Set(c, [fetch[c] EXCEPT !.at = "verifyId", !.next = id])

\* Slip: the canonical refetch is conditional like the fetch of the alias.
CanonicalModeKept(mode) == mode

CanonicalMode(mode) == IF mode = "conditional" THEN "canonical" ELSE mode

\* Slip: the id may name another server.
VerifyIdAnyDomain(c) ==
    /\ fetch[c].at = "verifyId"
    /\ \E resolved \in BOOLEAN :
          IF ~ UrlValid(fetch[c].next, resolved) THEN Finish(c, "UrlInvalid")
          ELSE Set(c, [fetch[c] EXCEPT !.at = "verify", !.url = fetch[c].next,
                                       !.recursive = FALSE,
                                       !.mode = CanonicalMode(@),
                                       !.refetched = TRUE])
    /\ UNCHANGED <<counter, sent>>

\* A differing id of the same domain is fetched in turn, without validators
\* and with a redirect of its own.
VerifyId(c) ==
    /\ fetch[c].at = "verifyId"
    /\ \E resolved \in BOOLEAN :
          IF ~ UrlValid(fetch[c].next, resolved) THEN Finish(c, "UrlInvalid")
          ELSE IF Domain(fetch[c].next) # Domain(fetch[c].url) THEN Finish(c, "WrongId")
          ELSE Set(c, [fetch[c] EXCEPT !.at = "verify", !.url = fetch[c].next,
                                       !.recursive = FALSE,
                                       !.mode = CanonicalMode(@),
                                       !.refetched = TRUE])
    /\ UNCHANGED <<counter, sent>>

----------------------------------------------------------------------------
Answer(c) == \/ NoAnswer(c) \/ Redirect(c) \/ Gone(c) \/ NotModified(c)
             \/ OtherStatus(c) \/ BadBody(c) \/ Body(c)

FetchStep(c) == Verify(c) \/ CountRequest(c) \/ Answer(c) \/ VerifyId(c)

FetchNext ==
    \E c \in Callers :
        \/ FetchStep(c)
        \/ \E u \in Urls, mode \in Modes \ {"canonical"}, etag \in BOOLEAN :
              (etag => mode = "conditional") /\ Begin(c, u, mode, etag)

FetchSafeSpec == FetchInit /\ [][FetchNext]_fetchVars

\* A future that is awaited is polled, and a request ends with an answer or
\* with the timeout.
FetchSpec == FetchSafeSpec /\ \A c \in Callers : WF_fetchVars(FetchStep(c))

----------------------------------------------------------------------------
(* Properties.                                                             *)

Requesting == {c \in Callers : fetch[c].at = "request"}

FetchTypeOK ==
    /\ counter \in Nat
    /\ sent \in 0 .. HttpFetchLimit
    /\ fetch \in [Callers -> Frames \cup {Idle}]

\* The limit holds however many futures share the Data and however long the
\* chains of redirects and canonical ids are: the requests executed or under
\* way are as many as were counted, and never more than http_fetch_limit.
RequestsAccounted ==
    sent + Cardinality(Requesting) =
        IF counter <= HttpFetchLimit THEN counter ELSE HttpFetchLimit

\* A server chooses where the next hop leads, yet no request is sent to a URL
\* that was not verified, and no outcome is reported for a URL of this
\* instance (validate_final_remote_url).
OnlyVerifiedRemote ==
    \A c \in Callers :
        /\ fetch[c].at = "request" => UrlValid(fetch[c].url, TRUE)
        /\ fetch[c].at = "done"
           /\ \/ fetch[c].result \in {"NotModified", "Gone"}
              \/ fetch[c].result = "Object" /\ fetch[c].mode # "webfinger"
           => UrlValid(fetch[c].url, TRUE) /\ ~ IsLocalUrl(fetch[c].url)

\* Only a redirect of the server asked leads to another server: the id in a
\* body never does, over any number of canonical refetches.
DomainLeftByRedirectOnly ==
    \A c \in Callers :
        fetch[c] # Idle /\ ~ fetch[c].redirected =>
            Domain(fetch[c].url) = Domain(fetch[c].asked)

\* NotModified is about the object the caller holds validators for: they were
\* sent with the request that was answered, and no body in between has named
\* another object.
NotModifiedIsAboutAsked ==
    \A c \in Callers :
        fetch[c].at = "done" /\ fetch[c].result = "NotModified" =>
            fetch[c].etag /\ ~ fetch[c].refetched

\* Every fetch ends, though two servers may redirect and rename for ever:
\* what ends it is the counter alone.
FetchReturns ==
    \A c \in Callers : fetch[c].at = "verify" ~> fetch[c].at = "done"
=============================================================================
