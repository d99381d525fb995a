------------------------------ MODULE Webfinger ------------------------------
(***************************************************************************)
(* Resolving name@domain to an actor (fetch/webfinger.rs): one request to  *)
(* the domain, and then the links of the answer are dereferenced, the last *)
(* one first, until one succeeds.  The request is Fetch's, the dereference *)
(* is ObjectId's, and both count against the limit of the same Data.       *)
(*                                                                         *)
(* Of an identifier only its domain matters, a link is [activity, href]:   *)
(* whether its type is an application type, and where it leads.            *)
(***************************************************************************)
EXTENDS ObjectId

CONSTANTS
    Domains,            \* domains of identifiers: [host, port]
    LinkLists,          \* lists of links that servers answer with
    DebugAssertions     \* whether the program is built with debug_assertions

\* fetch_url.
FetchUrl(domain) ==
    [scheme |-> IF Debug THEN "http" ELSE "https", host |-> domain.host,
     port |-> domain.port, path |-> "webfinger"]

\* In production the domain must match DOMAIN_REGEX, so it has no port.
DomainAllowed(domain) ==
    Debug \/ (domain.host \notin OddHosts \cup IpHosts /\ domain.port = NoPort)

\* What the code looks at in a WebfingerLink.
Links == [activity : BOOLEAN, href : Urls]

ASSUME WebfingerAssumption ==
    /\ \A domain \in Domains : DomainAllowed(domain) => FetchUrl(domain) \in Urls
    /\ LinkLists \subseteq Seq(Links)
    /\ DebugAssertions \in BOOLEAN

VARIABLE finger     \* what each caller of webfinger_resolve_actor does

webfingerVars == <<vars, finger>>

(***************************************************************************)
(*   idle     nothing was called                                           *)
(*   fetch    the request is awaited                                       *)
(*   verify   verify_url_valid of the final URL is awaited                 *)
(*   links    the next link is about to be dereferenced                    *)
(*   await    dereference is awaited                                       *)
(*   done     result is Ok or says what failed                             *)
(* links is what the server answered, rest the indexes of the candidates   *)
(* that are left, and tried of those that were dereferenced (history).     *)
(***************************************************************************)
FingerIdle ==
    [at |-> "idle", asked |-> CHOOSE u \in Urls : TRUE, links |-> <<>>, rest |-> {},
     tried |-> <<>>, result |-> "none"]

WebfingerInit == Init /\ finger = [c \in Callers |-> FingerIdle]

FingerAt(c, place) == finger[c].at = place

SetFinger(c, value) == finger' = [finger EXCEPT ![c] = value]

FinishFinger(c, result) ==
    SetFinger(c, [finger[c] EXCEPT !.at = "done", !.result = result])

----------------------------------------------------------------------------
(* webfinger_resolve_actor.                                                *)

\* An identifier without an @ is of the wrong format.
Resolve(c) ==
    /\ FingerAt(c, "idle") /\ stack[c] = <<>> /\ outcome[c].result = "none"
    /\ \/ FinishFinger(c, "WrongFormat") /\ UNCHANGED fetchVars
       \/ \E domain \in Domains :
             IF DomainAllowed(domain)
             THEN /\ SetFinger(c, [FingerIdle EXCEPT !.at = "fetch",
                                                     !.asked = FetchUrl(domain)])
                  /\ Begin(c, FetchUrl(domain), "webfinger", FALSE)
             ELSE FinishFinger(c, "UrlInvalid") /\ UNCHANGED fetchVars
    /\ UNCHANGED <<db, outdated, stack, outcome>>

AwaitWebfinger(c) ==
    /\ FingerAt(c, "fetch")
    /\ FetchStep(c)
    /\ UNCHANGED <<db, outdated, stack, outcome, finger>>

\* The links that are dereferenced: those of an application type.
Candidates(links) == {i \in DOMAIN links : links[i].activity}

\* Slip: the candidates are taken in the order of the answer.
ComesFirst(i, rest) == \A j \in rest : i <= j

\* The next of them is the last in the answer (rev).
ComesNext(i, rest) == \A j \in rest : j <= i

\* The answer must be about the identifier, says a debug_assert.
TakeLinks(c) ==
    \/ \E links \in LinkLists :
          SetFinger(c, [finger[c] EXCEPT !.at = "links", !.links = links,
                                         !.rest = Candidates(links)])
    \/ DebugAssertions /\ FinishFinger(c, "Panic")

\* A final URL that differs from the one asked for is verified once more.
WebfingerFetched(c) ==
    /\ FingerAt(c, "fetch")
    /\ fetch[c].at = "done"
    /\ IF fetch[c].result # "Object"
       THEN FinishFinger(c, "FetchFailed") /\ Set(c, Idle)
       ELSE IF fetch[c].url # finger[c].asked
       THEN SetFinger(c, [finger[c] EXCEPT !.at = "verify"]) /\ UNCHANGED fetch
       ELSE TakeLinks(c) /\ Set(c, Idle)
    /\ UNCHANGED <<counter, sent, db, outdated, stack, outcome>>

VerifyFinal(c) ==
    /\ FingerAt(c, "verify")
    /\ \E resolves \in BOOLEAN :
          IF UrlValid(fetch[c].url, resolves) THEN TakeLinks(c)
          ELSE FinishFinger(c, "UrlInvalid")
    /\ Set(c, Idle)
    /\ UNCHANGED <<counter, sent, db, outdated, stack, outcome>>

TryLink(c) ==
    /\ FingerAt(c, "links")
    /\ \E i \in finger[c].rest :
          /\ ComesNext(i, finger[c].rest)
          /\ stack' = [stack EXCEPT ![c] =
                          <<Enter("dereference", finger[c].links[i].href)>>]
          /\ SetFinger(c, [finger[c] EXCEPT !.at = "await", !.rest = @ \ {i},
                                            !.tried = Append(@, i)])
    /\ outcome' = [outcome EXCEPT ![c].result = "none"]
    /\ UNCHANGED <<fetchVars, db, outdated>>

LastTried(f) == f.tried[Len(f.tried)]

\* Slip: a link that failed is tried again.
LinkTriedAgain(c) ==
    /\ FingerAt(c, "await") /\ stack[c] = <<>>
    /\ IF outcome[c].result = "Ok" THEN FinishFinger(c, "Ok")
       ELSE SetFinger(c, [finger[c] EXCEPT !.at = "links", !.tried = <<>>,
                                           !.rest = @ \cup {LastTried(finger[c])}])
    /\ UNCHANGED vars

\* Why a link failed is not looked at.
LinkTried(c) ==
    /\ FingerAt(c, "await") /\ stack[c] = <<>>
    /\ IF outcome[c].result = "Ok" THEN FinishFinger(c, "Ok")
       ELSE SetFinger(c, [finger[c] EXCEPT !.at = "links"])
    /\ UNCHANGED vars

NoValidLink(c) ==
    /\ FingerAt(c, "links") /\ finger[c].rest = {}
    /\ FinishFinger(c, "NoValidLink")
    /\ UNCHANGED vars

----------------------------------------------------------------------------
FingerStep(c) == \/ AwaitWebfinger(c) \/ WebfingerFetched(c) \/ VerifyFinal(c)
                 \/ TryLink(c) \/ LinkTried(c) \/ NoValidLink(c)

\* The steps of ObjectId, for a call of its own or for a link.
ObjectStep ==
    /\ \/ \E c \in Callers : Step(c) \/ (FingerAt(c, "idle") /\ Call(c))
       \/ \E u \in Urls : Age(u) \/ ReceiveDelete(u)
    /\ UNCHANGED finger

WebfingerNext == ObjectStep \/ \E c \in Callers : Resolve(c) \/ FingerStep(c)

WebfingerSafeSpec == WebfingerInit /\ [][WebfingerNext]_webfingerVars

\* A future that is awaited is polled, and the application's functions return.
WebfingerSpec ==
    WebfingerSafeSpec /\
        \A c \in Callers : /\ WF_webfingerVars(Step(c) /\ UNCHANGED finger)
                           /\ WF_webfingerVars(FingerStep(c))

----------------------------------------------------------------------------
(* The server's side.                                                      *)

\* build_webfinger_response_with_type: the profile page and the object.
BuildLinks(hrefs) ==
    [i \in 1 .. 2 * Len(hrefs) |->
        [activity |-> i % 2 = 0, href |-> hrefs[(i + 1) \div 2]]]

----------------------------------------------------------------------------
(* Properties.                                                             *)

\* Whatever fails on the way, also because the limit is reached, the links
\* that lead to objects are tried from the last on without leaving any out,
\* and the result is that of the last one tried: an actor as soon as there is
\* one, NoValidLink only after all have failed.
LinksTriedInOrder ==
    \A c \in Callers :
        LET f == finger[c]
            usable == {i \in DOMAIN f.links : f.links[i].activity}
        IN  /\ \A k \in DOMAIN f.tried :
                  /\ f.tried[k] \in usable
                  /\ \A i \in usable :
                        i > f.tried[k] <=> \E m \in 1 .. k - 1 : f.tried[m] = i
            /\ f.result = "NoValidLink" =>
                  \A i \in usable : \E k \in DOMAIN f.tried : f.tried[k] = i
            /\ f.result = "Ok" => f.tried # <<>>
            /\ f.at \in {"links", "done"} /\ f.tried # <<>> =>
                  /\ outcome[c].id = f.links[LastTried(f)].href
                  /\ outcome[c].result = "Ok" <=> f.result = "Ok"

\* Every resolution and every dereference returns, whatever servers answer
\* and however the objects under the links refer to each other.
ResolveReturns ==
    \A c \in Callers : (stack[c] # <<>> \/ ~ FingerAt(c, "idle")) ~>
        (stack[c] = <<>> /\ finger[c].at \in {"idle", "done"})

=============================================================================
