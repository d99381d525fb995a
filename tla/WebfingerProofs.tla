-------------------------- MODULE WebfingerProofs --------------------------
(***************************************************************************)
(* Proofs about Webfinger: that links are tried in the order of the code   *)
(* whatever the servers answer, and that a resolution over ObjectId keeps  *)
(* what is promised of the database, the limit and the recursion.          *)
(***************************************************************************)
EXTENDS Webfinger, ObjectIdProofs

----------------------------------------------------------------------------
(* The inductive invariant.                                                *)

FingerPlaces == {"idle", "fetch", "verify", "links", "await", "done"}

FingerResults == {"none", "Ok", "WrongFormat", "UrlInvalid", "FetchFailed", "Panic", "NoValidLink"}

Fingers == [at : FingerPlaces, asked : Urls, links : Seq(Links), rest : SUBSET Nat,
            tried : Seq(Nat), result : FingerResults]

(***************************************************************************)
(* How far the links were tried: from the last on, and all after those     *)
(* that are left.                                                          *)
(***************************************************************************)
Decreasing(s) == \A k, m \in DOMAIN s : m < k => s[m] > s[k]

Progress(f) ==
    /\ f.rest \subseteq Candidates(f.links)
    /\ \A k \in DOMAIN f.tried :
          /\ f.tried[k] \in Candidates(f.links) \ f.rest
          /\ \A i \in f.rest : i < f.tried[k]
    /\ Decreasing(f.tried)
    /\ \A i \in Candidates(f.links) \ f.rest : \E k \in DOMAIN f.tried : f.tried[k] = i

ResultOK(f) ==
    /\ f.at \in {"idle", "fetch", "verify"} => f.tried = <<>> /\ f.rest = {}
    /\ f.at # "done" => f.result = "none"
    /\ f.at = "await" \/ f.result = "Ok" => f.tried # <<>>
    /\ f.result = "NoValidLink" => f.rest = {}

\* What a caller of webfinger_resolve_actor leaves to Fetch and to ObjectId:
\* the request is its only fetch, and the link tried last its only dereference.
CallsOK(c) ==
    LET f == finger[c]
        href == f.links[LastTried(f)].href
    IN  /\ f.at \in {"fetch", "verify", "links", "done"} => stack[c] = <<>>
        /\ f.at = "verify" => fetch[c].at = "done"
        /\ f.at \notin {"fetch", "verify"} /\ stack[c] = <<>> => fetch[c] = Idle
        /\ f.at = "await" /\ stack[c] # <<>> => OuterId(c) = href
        /\ f.at = "await" /\ stack[c] = <<>> => outcome[c].id = href
        /\ f.at \in {"links", "done"} /\ f.tried # <<>> =>
              outcome[c].id = href /\ (outcome[c].result = "Ok" <=> f.result = "Ok")

FingerInv ==
    /\ finger \in [Callers -> Fingers]
    /\ \A c \in Callers : /\ Progress(finger[c])
                          /\ ResultOK(finger[c])
                          /\ CallsOK(c)

WInv == Inv /\ FingerInv

----------------------------------------------------------------------------
(* Lemmas about the list of links.                                         *)

LEMMA CandidatesTyped ==
    ASSUME NEW links \in Seq(Links)
    PROVE  /\ Candidates(links) \subseteq 1 .. Len(links)
           /\ \A i \in Candidates(links) : i \in Nat /\ links[i].href \in Urls
<1>1. DOMAIN links = 1 .. Len(links) /\ Len(links) \in Nat
  OBVIOUS
<1>2. \A i \in 1 .. Len(links) : links[i] \in Links
  BY ElementOfSeq
<1> QED
  BY <1>1, <1>2 DEF Candidates, Links

\* The last of the remaining candidates is tried.
LEMMA ProgressTrying ==
    ASSUME NEW f \in Fingers, NEW g \in Fingers, Progress(f),
           NEW i \in f.rest, ComesNext(i, f.rest),
           g.links = f.links, g.rest = f.rest \ {i}, g.tried = Append(f.tried, i)
    PROVE  /\ Progress(g)
           /\ g.tried # <<>> /\ LastTried(g) = i
<1>1. /\ f.links \in Seq(Links) /\ f.tried \in Seq(Nat) /\ Len(f.tried) \in Nat
      /\ f.rest \subseteq Nat /\ i \in Nat
  BY DEF Fingers
<1> DEFINE n == Len(f.tried)
<1>2. /\ Len(g.tried) = n + 1 /\ DOMAIN g.tried = 1 .. n + 1
      /\ g.tried[n + 1] = i
      /\ \A k \in 1 .. n : g.tried[k] = f.tried[k]
      /\ DOMAIN f.tried = 1 .. n
  BY <1>1, AppendProperties
<1>3. i \in Candidates(f.links) /\ \A k \in 1 .. n : f.tried[k] \in Nat /\ i < f.tried[k]
  BY <1>1, <1>2, ElementOfSeq DEF Progress
<1>4. \A j \in f.rest \ {i} : j < i
  BY <1>1 DEF ComesNext
<1> HIDE DEF n
<1>5. ASSUME NEW k \in DOMAIN g.tried
      PROVE  /\ g.tried[k] \in Candidates(g.links) \ g.rest
             /\ \A j \in g.rest : j < g.tried[k]
  <2>1. CASE k = n + 1
    BY <1>2, <1>3, <1>4, <2>1
  <2>2. CASE k # n + 1
    <3>1. k \in 1 .. n
      BY <1>1, <1>2, <2>2 DEF n
    <3> QED
      BY <1>2, <3>1 DEF Progress
  <2> QED
    BY <2>1, <2>2
<1>6. Decreasing(g.tried)
  <2> SUFFICES ASSUME NEW k \in DOMAIN g.tried, NEW m \in DOMAIN g.tried, m < k
               PROVE  g.tried[m] > g.tried[k]
    BY DEF Decreasing
  <2>1. m \in 1 .. n
    BY <1>1, <1>2 DEF n
  <2>2. CASE k = n + 1
    BY <1>1, <1>2, <1>3, <2>1, <2>2
  <2>3. CASE k # n + 1
    <3>1. k \in 1 .. n
      BY <1>1, <1>2, <2>3 DEF n
    <3> QED
      BY <1>2, <2>1, <3>1 DEF Progress, Decreasing
  <2> QED
    BY <2>2, <2>3
<1>7. ASSUME NEW j \in Candidates(g.links) \ g.rest
      PROVE  \E k \in DOMAIN g.tried : g.tried[k] = j
  <2>1. CASE j = i
    <3>1. n + 1 \in DOMAIN g.tried
      BY <1>1, <1>2 DEF n
    <3> QED
      BY <1>2, <2>1, <3>1
  <2>2. CASE j # i
    <3>1. PICK k \in 1 .. n : f.tried[k] = j
      BY <1>2, <1>7, <2>2 DEF Progress
    <3>2. k \in DOMAIN g.tried
      BY <1>1, <1>2 DEF n
    <3> QED
      BY <1>2, <3>1, <3>2
  <2> QED
    BY <2>1, <2>2
<1>8. g.rest \subseteq Candidates(g.links)
  BY DEF Progress
<1>9. g.tried # <<>> /\ LastTried(g) = i
  <2>1. Len(g.tried) # 0
    BY <1>1, <1>2 DEF n
  <2> QED
    BY <1>2, <2>1 DEF LastTried
<1> QED
  BY <1>5, <1>6, <1>7, <1>8, <1>9 DEF Progress

LEMMA FingerIdleTyped ==
    /\ FingerIdle \in Fingers
    /\ FingerIdle.at = "idle" /\ FingerIdle.links = <<>> /\ FingerIdle.rest = {}
    /\ FingerIdle.tried = <<>> /\ FingerIdle.result = "none"
<1> DEFINE first == CHOOSE u \in Urls : TRUE
<1>1. first \in Urls
  BY UrlsAssumption
<1>2. FingerIdle = [at |-> "idle", asked |-> first, links |-> <<>>, rest |-> {},
                    tried |-> <<>>, result |-> "none"]
  BY DEF FingerIdle
<1> HIDE DEF first
<1> QED
  BY <1>1, <1>2 DEF Fingers, FingerPlaces, FingerResults

----------------------------------------------------------------------------
(* How the steps keep it.                                                  *)

\* One resolution goes on; the others stay as they were.
LEMMA FingerMoved ==
    ASSUME FingerInv, NEW c \in Callers, NEW g \in Fingers, SetFinger(c, g),
           Progress(g), ResultOK(g), CallsOK(c)',
           \A e \in Callers \ {c} : /\ stack'[e] = stack[e]
                                    /\ fetch'[e] = fetch[e]
                                    /\ outcome'[e] = outcome[e]
    PROVE  FingerInv'
<1>1. /\ finger' \in [Callers -> Fingers] /\ finger'[c] = g
      /\ \A e \in Callers \ {c} : finger'[e] = finger[e]
  BY DEF FingerInv, SetFinger
<1>2. \A e \in Callers \ {c} : CallsOK(e)'
  BY <1>1 DEF FingerInv, CallsOK, OuterId
<1> QED
  BY <1>1, <1>2 DEF FingerInv

\* The same for a caller that did not step itself.
LEMMA FingersUnmoved ==
    ASSUME FingerInv, UNCHANGED finger, NEW c \in Callers, CallsOK(c)',
           \A e \in Callers \ {c} : /\ stack'[e] = stack[e]
                                    /\ fetch'[e] = fetch[e]
                                    /\ outcome'[e] = outcome[e]
    PROVE  FingerInv'
<1>1. \A e \in Callers \ {c} : CallsOK(e)'
  BY DEF FingerInv, CallsOK, OuterId
<1> QED
  BY <1>1 DEF FingerInv

\* A caller without dereferences fetches, or stops: nothing is dereferenced.
LEMMA OnlyFetchMoves ==
    ASSUME Inv, FetchInv', NEW c \in Callers, stack[c] = <<>>, FetchKept(c),
           sent' \in Nat, sent' >= sent,
           UNCHANGED <<db, outdated, stack, outcome>>
    PROVE  Inv'
<1>1. StackInv /\ FetchMatches /\ PaidInv /\ FetchTypeOK /\ TypeOK
  BY DEF Inv, FetchInv
<1>2. StackInv' /\ Enclosing' = Enclosing
  BY <1>1 DEF StackInv, Enclosing
<1>3. FetchMatches'
  BY <1>1 DEF FetchMatches, FetchKept, At, Top
<1>4. Paid' \subseteq Paid
  BY DEF Paid, HasPaid, At, Top, FetchKept
<1>5. PaidInv'
  BY <1>1, <1>2, <1>4, NothingUsed
<1>6. TypeOK'
  BY <1>1 DEF TypeOK, FetchInv
<1> QED
  BY <1>2, <1>3, <1>5, <1>6 DEF Inv

\* A step of a fetch is a step of its caller, and at most one request.
LEMMA FetchStepIsOwn ==
    ASSUME FetchInv, NEW c \in Callers, FetchStep(c)
    PROVE  FetchKept(c) /\ sent' \in Nat /\ sent' >= sent
<1>1. FetchTypeOK /\ sent \in Nat
  BY LimitAssumption DEF FetchInv, FetchTypeOK
<1>2. sent' \in {sent, sent + 1}
  BY <1>1 DEF FetchStep, Verify, CountRequest, Answer, NoAnswer, Redirect, Gone, NotModified,
              OtherStatus, BadBody, Body, VerifyId, Executed
<1>3. \E f : Set(c, f)
  BY DEF FetchStep, Verify, CountRequest, Answer, NoAnswer, Redirect, Gone, NotModified,
         OtherStatus, BadBody, Body, VerifyId, Finish
<1> QED
  BY <1>1, <1>2, <1>3, SetOthers DEF FetchKept

\* What is common to the steps of a resolution in which its caller at most
\* fetches.
LEMMA FingerAlone ==
    ASSUME WInv, FetchInv', NEW c \in Callers, stack[c] = <<>>, FetchKept(c),
           sent' \in Nat, sent' >= sent,
           UNCHANGED <<db, outdated, stack, outcome>>,
           NEW g \in Fingers, SetFinger(c, g), Progress(g), ResultOK(g),
           g.at \in {"fetch", "verify", "links", "done"},
           g.at = "verify" => fetch'[c].at = "done",
           g.at \notin {"fetch", "verify"} => fetch'[c] = Idle,
           g.at \in {"links", "done"} /\ g.tried # <<>> =>
               /\ outcome[c].id = g.links[LastTried(g)].href
               /\ outcome[c].result = "Ok" <=> g.result = "Ok"
    PROVE  WInv'
<1>1. Inv'
  BY OnlyFetchMoves DEF WInv
<1>2. finger'[c] = g
  BY DEF WInv, FingerInv, SetFinger
<1>3. stack'[c] = <<>> /\ outcome'[c] = outcome[c]
  OBVIOUS
<1>4. CallsOK(c)'
  BY <1>2, <1>3 DEF CallsOK
<1>5. FingerInv'
  BY <1>4, FingerMoved DEF WInv, FetchKept
<1> QED
  BY <1>1, <1>5 DEF WInv

\* A resolution that has tried nothing fails.
LEMMA FailsEarly ==
    ASSUME WInv, FetchInv', NEW c \in Callers, stack[c] = <<>>, FetchKept(c),
           fetch'[c] = Idle, UNCHANGED <<sent, db, outdated, stack, outcome>>,
           finger[c].at \in {"idle", "fetch", "verify"},
           NEW r \in FingerResults \ {"none", "Ok", "NoValidLink"}, FinishFinger(c, r)
    PROVE  WInv'
<1> DEFINE f == finger[c]
           g == [f EXCEPT !.at = "done", !.result = r]
<1>1. /\ f \in Fingers /\ Progress(f) /\ ResultOK(f)
      /\ sent \in Nat
  BY LimitAssumption DEF WInv, FingerInv, Inv, FetchInv, FetchTypeOK
<1>2. /\ g \in Fingers /\ g.at = "done" /\ g.result = r
      /\ g.links = f.links /\ g.rest = f.rest /\ g.tried = f.tried
  BY <1>1 DEF Fingers, FingerPlaces
<1>3. SetFinger(c, g)
  BY DEF FinishFinger
<1> HIDE DEF g
<1>4. Progress(g) /\ ResultOK(g) /\ g.tried = <<>>
  BY <1>1, <1>2 DEF Progress, ResultOK
<1> QED
  BY <1>1, <1>2, <1>3, <1>4, FingerAlone

\* The request is begun, or nothing but the identifier was looked at.
LEMMA ResolveKeeps ==
    ASSUME WInv, NEW c \in Callers, Resolve(c)
    PROVE  WInv'
<1>1. /\ FetchInv /\ FetchTypeOK /\ sent \in Nat
      /\ finger[c].at = "idle" /\ stack[c] = <<>> /\ fetch[c] = Idle
      /\ UNCHANGED <<db, outdated, stack, outcome>>
  <2>1. FetchInv /\ FetchTypeOK /\ sent \in Nat
    BY LimitAssumption DEF WInv, Inv, FetchInv, FetchTypeOK
  <2>2. /\ finger[c].at = "idle" /\ stack[c] = <<>>
        /\ UNCHANGED <<db, outdated, stack, outcome>>
    BY DEF Resolve, FingerAt
  <2>3. fetch[c] = Idle
    BY <2>2 DEF WInv, FingerInv, CallsOK
  <2> QED
    BY <2>1, <2>2, <2>3
<1>2. ASSUME NEW r \in {"WrongFormat", "UrlInvalid"}, FinishFinger(c, r), UNCHANGED fetchVars
      PROVE  WInv'
  <2>1. FetchInv' /\ FetchKept(c) /\ fetch'[c] = Idle /\ UNCHANGED sent
    BY <1>1, <1>2, FetchUnchanged DEF FetchKept, fetchVars
  <2> QED
    BY <1>1, <1>2, <2>1, FailsEarly DEF FingerResults
<1>3. ASSUME NEW domain \in Domains, DomainAllowed(domain),
             SetFinger(c, [FingerIdle EXCEPT !.at = "fetch", !.asked = FetchUrl(domain)]),
             Begin(c, FetchUrl(domain), "webfinger", FALSE)
      PROVE  WInv'
  <2> DEFINE g == [FingerIdle EXCEPT !.at = "fetch", !.asked = FetchUrl(domain)]
  <2>1. FetchUrl(domain) \in Urls
    BY <1>3, WebfingerAssumption
  <2>2. FetchInv'
    BY <1>1, <1>3, <2>1, BeginKeeps DEF Modes
  <2>3. FetchKept(c) /\ sent' = sent
    BY <1>1, <1>3, SetOthers DEF Begin, FetchKept
  <2>4. /\ g \in Fingers /\ g.at = "fetch" /\ g.links = <<>> /\ g.rest = {}
        /\ g.tried = <<>> /\ g.result = "none"
    BY <2>1, FingerIdleTyped DEF Fingers, FingerPlaces
  <2>5. SetFinger(c, g)
    BY <1>3
  <2> HIDE DEF g
  <2>6. Progress(g) /\ ResultOK(g)
    BY <2>4 DEF Progress, ResultOK, Candidates, Decreasing
  <2> QED
    BY <1>1, <2>2, <2>3, <2>4, <2>5, <2>6, FingerAlone
<1> QED
  BY <1>2, <1>3 DEF Resolve

LEMMA AwaitWebfingerKeeps ==
    ASSUME WInv, NEW c \in Callers, AwaitWebfinger(c)
    PROVE  WInv'
<1>1. /\ Inv /\ FetchInv /\ stack[c] = <<>> /\ finger[c].at = "fetch" /\ FetchStep(c)
      /\ UNCHANGED <<db, outdated, stack, outcome, finger>>
  BY DEF WInv, Inv, FingerInv, CallsOK, AwaitWebfinger, FingerAt
<1>2. FetchInv' /\ FetchKept(c) /\ sent' \in Nat /\ sent' >= sent
  BY <1>1, FetchStepKeeps, FetchStepIsOwn
<1>3. Inv'
  BY <1>1, <1>2, OnlyFetchMoves
<1>4. CallsOK(c)'
  BY <1>1 DEF CallsOK
<1>5. FingerInv'
  BY <1>1, <1>2, <1>4, FingersUnmoved DEF WInv, FetchKept
<1> QED
  BY <1>3, <1>5 DEF WInv

\* All links of an application type are to be tried.
LEMMA TakeLinksKeeps ==
    ASSUME WInv, FetchInv', NEW c \in Callers, FetchKept(c), fetch'[c] = Idle,
           UNCHANGED <<sent, db, outdated, stack, outcome>>,
           finger[c].at \in {"fetch", "verify"}, TakeLinks(c)
    PROVE  WInv'
<1> DEFINE f == finger[c]
<1>1. /\ f \in Fingers /\ Progress(f) /\ ResultOK(f) /\ stack[c] = <<>>
      /\ sent \in Nat
  BY LimitAssumption DEF WInv, FingerInv, CallsOK, Inv, FetchInv, FetchTypeOK
<1>2. CASE FinishFinger(c, "Panic")
  BY <1>1, <1>2, FailsEarly DEF FingerResults
<1>3. ASSUME NEW links \in LinkLists,
             SetFinger(c, [f EXCEPT !.at = "links", !.links = links, !.rest = Candidates(links)])
      PROVE  WInv'
  <2> DEFINE g == [f EXCEPT !.at = "links", !.links = links, !.rest = Candidates(links)]
  <2>1. links \in Seq(Links) /\ Candidates(links) \in SUBSET Nat
    BY WebfingerAssumption, CandidatesTyped
  <2>2. /\ g \in Fingers /\ g.at = "links" /\ g.links = links /\ g.rest = Candidates(links)
        /\ g.tried = f.tried /\ g.result = f.result
    BY <1>1, <2>1 DEF Fingers, FingerPlaces
  <2>3. f.tried = <<>> /\ f.result = "none" /\ SetFinger(c, g)
    BY <1>1, <1>3 DEF ResultOK
  <2> HIDE DEF g
  <2>4. Progress(g) /\ ResultOK(g)
    BY <2>2, <2>3 DEF Progress, ResultOK, Decreasing
  <2>5. g.tried = <<>>
    BY <2>2, <2>3
  <2> QED
    BY <1>1, <2>2, <2>3, <2>4, <2>5, FingerAlone
<1> QED
  BY <1>2, <1>3 DEF TakeLinks

LEMMA WebfingerFetchedKeeps ==
    ASSUME WInv, NEW c \in Callers, WebfingerFetched(c)
    PROVE  WInv'
<1> DEFINE f == finger[c]
<1>1. /\ Inv /\ FetchInv /\ FetchTypeOK /\ stack[c] = <<>> /\ f.at = "fetch"
      /\ f \in Fingers /\ Progress(f) /\ ResultOK(f) /\ sent \in Nat
      /\ fetch[c].at = "done"
      /\ UNCHANGED <<counter, sent, db, outdated, stack, outcome>>
  BY LimitAssumption
  DEF WInv, Inv, FingerInv, FetchInv, FetchTypeOK, CallsOK, WebfingerFetched, FingerAt
<1>2. ASSUME Set(c, Idle)
      PROVE  FetchInv' /\ FetchKept(c) /\ fetch'[c] = Idle
  BY <1>1, <1>2, QuietStep, SetOthers DEF Idle, FetchKept
<1>3. CASE FinishFinger(c, "FetchFailed") /\ Set(c, Idle)
  BY <1>1, <1>2, <1>3, FailsEarly DEF FingerResults
<1>4. CASE SetFinger(c, [f EXCEPT !.at = "verify"]) /\ UNCHANGED fetch
  <2> DEFINE g == [f EXCEPT !.at = "verify"]
  <2>1. /\ g \in Fingers /\ g.at = "verify" /\ g.links = f.links /\ g.rest = f.rest
        /\ g.tried = f.tried /\ g.result = f.result
    BY <1>1 DEF Fingers, FingerPlaces
  <2>2. FetchInv' /\ FetchKept(c) /\ fetch'[c].at = "done" /\ SetFinger(c, g)
    BY <1>1, <1>4, FetchUnchanged DEF fetchVars, FetchKept
  <2> HIDE DEF g
  <2>3. Progress(g) /\ ResultOK(g)
    BY <1>1, <2>1 DEF Progress, ResultOK
  <2> QED
    BY <1>1, <2>1, <2>2, <2>3, FingerAlone
<1>5. CASE TakeLinks(c) /\ Set(c, Idle)
  BY <1>1, <1>2, <1>5, TakeLinksKeeps
<1> QED
  BY <1>3, <1>4, <1>5 DEF WebfingerFetched

LEMMA VerifyFinalKeeps ==
    ASSUME WInv, NEW c \in Callers, VerifyFinal(c)
    PROVE  WInv'
<1>1. /\ FetchInv /\ FetchTypeOK /\ stack[c] = <<>> /\ finger[c].at = "verify"
      /\ fetch[c].at = "done" /\ Set(c, Idle)
      /\ UNCHANGED <<counter, sent, db, outdated, stack, outcome>>
  BY DEF WInv, Inv, FingerInv, FetchInv, CallsOK, VerifyFinal, FingerAt
<1>2. FetchInv' /\ FetchKept(c) /\ fetch'[c] = Idle
  BY <1>1, QuietStep, SetOthers DEF Idle, FetchKept
<1>3. TakeLinks(c) \/ FinishFinger(c, "UrlInvalid")
  BY DEF VerifyFinal
<1> QED
  BY <1>1, <1>2, <1>3, TakeLinksKeeps, FailsEarly DEF FingerResults

\* The last of the links that are left is dereferenced.
LEMMA TryLinkKeeps ==
    ASSUME WInv, NEW c \in Callers, TryLink(c)
    PROVE  WInv'
<1> DEFINE f == finger[c]
<1>1. /\ Inv /\ TypeOK /\ FetchTypeOK /\ f \in Fingers /\ Progress(f) /\ ResultOK(f)
      /\ stack[c] = <<>> /\ fetch[c] = Idle /\ f.at = "links"
      /\ UNCHANGED <<fetchVars, db, outdated>>
      /\ outcome' = [outcome EXCEPT ![c].result = "none"]
  BY DEF WInv, Inv, FingerInv, FetchInv, CallsOK, TryLink, FingerAt
<1>2. PICK i \in f.rest :
          /\ ComesNext(i, f.rest)
          /\ stack' = [stack EXCEPT ![c] = <<Enter("dereference", f.links[i].href)>>]
          /\ SetFinger(c, [f EXCEPT !.at = "await", !.rest = @ \ {i}, !.tried = Append(@, i)])
  BY DEF TryLink
<1> DEFINE g == [f EXCEPT !.at = "await", !.rest = @ \ {i}, !.tried = Append(@, i)]
           u == f.links[i].href
<1>3. f.links \in Seq(Links) /\ f.rest \subseteq Nat /\ f.tried \in Seq(Nat) /\ i \in Nat
  BY <1>1 DEF Fingers
<1>4. u \in Urls
  BY <1>1, <1>3, CandidatesTyped DEF Progress
<1>5. Append(f.tried, i) \in Seq(Nat)
  BY <1>3
<1>6. /\ g \in Fingers /\ g.at = "await" /\ g.links = f.links /\ g.rest = f.rest \ {i}
      /\ g.tried = Append(f.tried, i) /\ g.result = f.result
  BY <1>1, <1>3, <1>5 DEF Fingers, FingerPlaces
<1> HIDE DEF g
<1>7. Progress(g) /\ g.tried # <<>> /\ LastTried(g) = i
  BY <1>1, <1>2, <1>6, ProgressTrying
<1>8. ResultOK(g)
  BY <1>1, <1>6, <1>7 DEF ResultOK
<1>9. outcome' \in [Callers -> [op : Operations, id : Urls, result : Outcomes]]
  BY <1>1 DEF TypeOK, Outcomes
<1> HIDE DEF u
<1>10. Inv'
  BY <1>1, <1>2, <1>4, <1>9, EnterKeeps DEF Operations, u
<1>11. /\ stack'[c] = <<Enter("dereference", u)>>
       /\ \A e \in Callers \ {c} : stack'[e] = stack[e] /\ outcome'[e] = outcome[e]
  BY <1>1, <1>2 DEF TypeOK, u
<1>12. stack'[c] # <<>> /\ OuterId(c)' = u
  BY <1>11 DEF OuterId, Enter
<1>13. finger'[c] = g
  BY <1>2 DEF WInv, FingerInv, SetFinger, g
<1>14. CallsOK(c)'
  BY <1>6, <1>7, <1>12, <1>13 DEF CallsOK, u
<1>15. \A e \in Callers \ {c} : fetch'[e] = fetch[e]
  BY <1>1 DEF fetchVars
<1>16. FingerInv'
  BY <1>2, <1>6, <1>7, <1>8, <1>11, <1>14, <1>15, FingerMoved DEF WInv, g
<1> QED
  BY <1>10, <1>16 DEF WInv

LEMMA LinkTriedKeeps ==
    ASSUME WInv, NEW c \in Callers, LinkTried(c)
    PROVE  WInv'
<1> DEFINE f == finger[c]
           place == IF outcome[c].result = "Ok" THEN "done" ELSE "links"
           r == IF outcome[c].result = "Ok" THEN "Ok" ELSE f.result
           g == [f EXCEPT !.at = place, !.result = r]
<1>1. /\ FetchInv /\ f \in Fingers /\ Progress(f) /\ ResultOK(f) /\ sent \in Nat
      /\ stack[c] = <<>> /\ fetch[c] = Idle /\ f.at = "await"
      /\ outcome[c].id = f.links[LastTried(f)].href /\ UNCHANGED vars
  BY LimitAssumption
  DEF WInv, Inv, FingerInv, FetchInv, FetchTypeOK, CallsOK, LinkTried, FingerAt
<1>2. SetFinger(c, g)
  BY <1>1 DEF LinkTried, FinishFinger, Fingers
<1>3. place \in {"done", "links"} /\ r \in FingerResults
  BY <1>1 DEF Fingers, FingerResults
<1>4. f.tried # <<>> /\ f.result = "none"
  BY <1>1 DEF ResultOK
<1>5. /\ g \in Fingers /\ g.at = place /\ g.links = f.links /\ g.rest = f.rest
      /\ g.tried = f.tried /\ g.result = r
  BY <1>1, <1>3 DEF Fingers, FingerPlaces
<1>6. outcome[c].result = "Ok" <=> g.result = "Ok"
  BY <1>4, <1>5
<1>7. g.at = "links" => g.result = "none"
  BY <1>4, <1>5
<1>8. r \in {"Ok", "none"}
  BY <1>4
<1> HIDE DEF g, place, r
<1>9. Progress(g) /\ LastTried(g) = LastTried(f)
  BY <1>1, <1>5 DEF Progress, LastTried
<1>10. ResultOK(g)
  BY <1>1, <1>3, <1>4, <1>5, <1>7, <1>8 DEF ResultOK
<1>11. FetchInv' /\ FetchKept(c) /\ fetch'[c] = Idle /\ sent' = sent
       /\ UNCHANGED <<db, outdated, stack, outcome>>
  BY <1>1, FetchUnchanged DEF vars, fetchVars, FetchKept
<1> QED
  BY <1>1, <1>2, <1>3, <1>5, <1>6, <1>9, <1>10, <1>11, FingerAlone

LEMMA NoValidLinkKeeps ==
    ASSUME WInv, NEW c \in Callers, NoValidLink(c)
    PROVE  WInv'
<1> DEFINE f == finger[c]
           g == [f EXCEPT !.at = "done", !.result = "NoValidLink"]
<1>1. /\ FetchInv /\ f \in Fingers /\ Progress(f) /\ ResultOK(f) /\ sent \in Nat
      /\ stack[c] = <<>> /\ fetch[c] = Idle /\ f.at = "links" /\ f.rest = {}
      /\ f.tried # <<>> => /\ outcome[c].id = f.links[LastTried(f)].href
                           /\ outcome[c].result = "Ok" <=> f.result = "Ok"
      /\ SetFinger(c, g) /\ UNCHANGED vars
  BY LimitAssumption
  DEF WInv, Inv, FingerInv, FetchInv, FetchTypeOK, CallsOK, NoValidLink, FingerAt, FinishFinger
<1>2. /\ g \in Fingers /\ g.at = "done" /\ g.links = f.links /\ g.rest = f.rest
      /\ g.tried = f.tried /\ g.result = "NoValidLink"
  BY <1>1 DEF Fingers, FingerPlaces, FingerResults
<1> HIDE DEF g
<1>3. Progress(g) /\ ResultOK(g) /\ LastTried(g) = LastTried(f) /\ f.result = "none"
  BY <1>1, <1>2 DEF Progress, ResultOK, LastTried
<1>4. FetchInv' /\ FetchKept(c) /\ fetch'[c] = Idle /\ sent' = sent
      /\ UNCHANGED <<db, outdated, stack, outcome>>
  BY <1>1, FetchUnchanged DEF vars, fetchVars, FetchKept
<1> QED
  BY <1>1, <1>2, <1>3, <1>4, FingerAlone

\* The steps of ObjectId: the link's dereference goes on, or returns.
LEMMA ObjectStepKeeps ==
    ASSUME WInv, ObjectStep
    PROVE  WInv'
<1>1. Inv /\ FingerInv /\ UNCHANGED finger
  BY DEF WInv, ObjectStep
<1>2. ASSUME NEW c \in Callers, Step(c) PROVE WInv'
  <2>1. Inv'
    BY <1>1, <1>2, StepKeeps
  <2>2. /\ stack[c] # <<>>
        /\ \A e \in Callers \ {c} : /\ stack'[e] = stack[e]
                                    /\ fetch'[e] = fetch[e]
                                    /\ outcome'[e] = outcome[e]
        /\ stack'[c] # <<>> => OuterId(c)' = OuterId(c)
        /\ stack'[c] = <<>> => fetch'[c] = Idle /\ outcome'[c].id = OuterId(c)
    BY <1>1, <1>2, StepIsOwn
  <2>3. finger[c].at \in {"idle", "await"} /\ CallsOK(c)
    BY <1>1, <2>2 DEF FingerInv, CallsOK, Fingers, FingerPlaces
  <2>4. CallsOK(c)'
    BY <1>1, <2>2, <2>3 DEF CallsOK
  <2>5. FingerInv'
    BY <1>1, <2>2, <2>4, FingersUnmoved
  <2> QED
    BY <2>1, <2>5 DEF WInv
<1>3. ASSUME NEW c \in Callers, FingerAt(c, "idle"), Call(c) PROVE WInv'
  <2>1. /\ finger[c].at = "idle" /\ stack[c] = <<>> /\ fetch[c] = Idle
        /\ UNCHANGED <<fetchVars, db, outdated, outcome>>
    BY <1>1, <1>3 DEF FingerAt, Call, FingerInv, CallsOK
  <2>2. PICK op \in Operations, u \in Urls : stack' = [stack EXCEPT ![c] = <<Enter(op, u)>>]
    BY <1>3 DEF Call
  <2>3. outcome' \in [Callers -> [op : Operations, id : Urls, result : Outcomes]]
    BY <1>1, <2>1 DEF Inv, TypeOK
  <2>4. Inv'
    BY <1>1, <2>1, <2>2, <2>3, EnterKeeps
  <2>5. stack'[c] # <<>> /\ \A e \in Callers \ {c} : stack'[e] = stack[e]
    BY <1>1, <2>2 DEF Inv, TypeOK
  <2>6. CallsOK(c)'
    BY <1>1, <2>1, <2>5 DEF CallsOK
  <2>7. FingerInv'
    BY <1>1, <2>1, <2>5, <2>6, FingersUnmoved DEF fetchVars
  <2> QED
    BY <2>4, <2>7 DEF WInv
<1>4. ASSUME NEW u \in Urls, Age(u) \/ ReceiveDelete(u) PROVE WInv'
  <2>1. Inv'
    BY <1>1, <1>4, MeanwhileKeeps
  <2>2. UNCHANGED <<fetchVars, stack, outcome>>
    BY <1>4 DEF Age, ReceiveDelete
  <2>3. FingerInv'
    BY <1>1, <2>2 DEF FingerInv, CallsOK, OuterId, fetchVars
  <2> QED
    BY <2>1, <2>3 DEF WInv
<1> QED
  BY <1>2, <1>3, <1>4 DEF ObjectStep

----------------------------------------------------------------------------
(* The theorems.                                                           *)

LEMMA WebfingerInitOK == WebfingerInit => WInv
<1> SUFFICES ASSUME WebfingerInit PROVE WInv
  OBVIOUS
<1>1. Inv
  BY InitOK DEF WebfingerInit
<1>2. Progress(FingerIdle) /\ ResultOK(FingerIdle)
  BY FingerIdleTyped DEF Progress, ResultOK, Decreasing, Candidates
<1>3. \A c \in Callers : finger[c] = FingerIdle /\ fetch[c] = Idle
  BY DEF WebfingerInit, Init, FetchInit
<1>4. \A c \in Callers : CallsOK(c)
  BY <1>3, FingerIdleTyped DEF CallsOK
<1>5. FingerInv
  BY <1>2, <1>3, <1>4, FingerIdleTyped DEF FingerInv, WebfingerInit
<1> QED
  BY <1>1, <1>5 DEF WInv

LEMMA WebfingerNextKeeps ==
    ASSUME WInv, [WebfingerNext]_webfingerVars
    PROVE  WInv'
<1>1. CASE UNCHANGED webfingerVars
  <2>1. Inv' /\ UNCHANGED <<finger, stack, fetch, outcome>>
    BY <1>1, StutterKeeps DEF WInv, webfingerVars, vars, fetchVars
  <2> QED
    BY <2>1 DEF WInv, FingerInv, CallsOK, OuterId
<1>2. CASE ObjectStep
  BY <1>2, ObjectStepKeeps
<1>3. ASSUME NEW c \in Callers, Resolve(c) \/ FingerStep(c) PROVE WInv'
  BY <1>3, ResolveKeeps, AwaitWebfingerKeeps, WebfingerFetchedKeeps, VerifyFinalKeeps,
     TryLinkKeeps, LinkTriedKeeps, NoValidLinkKeeps DEF FingerStep
<1> QED
  BY <1>1, <1>2, <1>3 DEF WebfingerNext

\* The inductive invariant of Webfinger.
THEOREM WebfingerInvariant == WebfingerSafeSpec => []WInv
BY WebfingerInitOK, WebfingerNextKeeps, PTL DEF WebfingerSafeSpec

\* webfinger_resolve_actor (fetch/webfinger.rs:77-99) tries the links of an
\* application type from the last on and leaves none out, whatever the
\* dereferences come to, and returns what the last one tried came to.
THEOREM LinksInOrder == WebfingerSafeSpec => []LinksTriedInOrder
<1>1. ASSUME FingerInv PROVE LinksTriedInOrder
  <2> SUFFICES ASSUME NEW c \in Callers
               PROVE  LET f == finger[c]
                          usable == {i \in DOMAIN f.links : f.links[i].activity}
                      IN  /\ \A k \in DOMAIN f.tried :
                                /\ f.tried[k] \in usable
                                /\ \A i \in usable :
                                      i > f.tried[k] <=> \E m \in 1 .. k - 1 : f.tried[m] = i
                          /\ f.result = "NoValidLink" =>
                                \A i \in usable : \E k \in DOMAIN f.tried : f.tried[k] = i
                          /\ f.result = "Ok" => f.tried # <<>>
                          /\ f.at \in {"links", "done"} /\ f.tried # <<>> =>
                                /\ outcome[c].id = f.links[LastTried(f)].href
                                /\ outcome[c].result = "Ok" <=> f.result = "Ok"
    BY DEF LinksTriedInOrder
  <2> DEFINE f == finger[c]
             usable == Candidates(f.links)
  <2>1. /\ f \in Fingers /\ Progress(f) /\ ResultOK(f) /\ CallsOK(c)
        /\ usable = {i \in DOMAIN f.links : f.links[i].activity}
    BY <1>1 DEF FingerInv, Candidates
  <2>2. DOMAIN f.tried = 1 .. Len(f.tried) /\ Len(f.tried) \in Nat /\ f.links \in Seq(Links)
    BY <2>1 DEF Fingers
  <2>3. \A i \in usable : i \in Nat
    BY <2>2, CandidatesTyped
  <2> HIDE DEF f, usable
  <2>4. ASSUME NEW k \in DOMAIN f.tried, NEW i \in usable
        PROVE  i > f.tried[k] <=> \E m \in 1 .. k - 1 : f.tried[m] = i
    <3>1. f.tried[k] \in usable /\ f.tried[k] \in Nat /\ i \in Nat /\ k \in Nat
      BY <2>1, <2>2, <2>3, <2>4 DEF Progress, usable
    <3>2. ASSUME i > f.tried[k] PROVE \E m \in 1 .. k - 1 : f.tried[m] = i
      <4>1. i \notin f.rest
        <5>1. i \in f.rest => i < f.tried[k]
          BY <2>1, <2>4 DEF Progress
        <5> QED
          BY <3>1, <3>2, <5>1
      <4>2. PICK m \in DOMAIN f.tried : f.tried[m] = i
        BY <2>1, <2>4, <4>1 DEF Progress, usable
      <4>3. m # k /\ ~ (k < m)
        BY <2>1, <2>4, <3>1, <3>2, <4>2 DEF Progress, Decreasing
      <4> QED
        BY <2>2, <3>1, <4>2, <4>3
    <3>3. ASSUME NEW m \in 1 .. k - 1, f.tried[m] = i PROVE i > f.tried[k]
      <4>1. m \in DOMAIN f.tried /\ m < k
        BY <2>2, <2>4, <3>3
      <4> QED
        BY <2>1, <2>4, <3>3, <4>1 DEF Progress, Decreasing
    <3> QED
      BY <3>2, <3>3
  <2>5. \A k \in DOMAIN f.tried : f.tried[k] \in usable
    BY <2>1 DEF Progress, usable
  <2>6. f.result = "NoValidLink" => \A i \in usable : \E k \in DOMAIN f.tried : f.tried[k] = i
    BY <2>1 DEF Progress, ResultOK, usable
  <2>7. /\ f.result = "Ok" => f.tried # <<>>
        /\ f.at \in {"links", "done"} /\ f.tried # <<>> =>
              /\ outcome[c].id = f.links[LastTried(f)].href
              /\ outcome[c].result = "Ok" <=> f.result = "Ok"
    BY <2>1 DEF ResultOK, CallsOK, f
  <2> QED
    BY <2>1, <2>4, <2>5, <2>6, <2>7 DEF f
<1> QED
  BY <1>1, WebfingerInvariant, PTL DEF WInv

\* Resolving an identifier overwrites and deletes no object of this instance
\* either, wherever links lead: Webfinger implements ObjectStore.
THEOREM WebfingerKeepsStore == WebfingerSafeSpec => StoreKept
<1>1. WebfingerInit => Store!Init
  BY DEF WebfingerInit, Init, Store!Init
<1>2. ASSUME WInv, [WebfingerNext]_webfingerVars PROVE [Store!Next]_db
  <2>1. CASE ObjectStep
    BY <1>2, <2>1, StepIsStoreStep DEF WInv, ObjectStep, Next
  <2>2. CASE ~ ObjectStep
    BY <1>2, <2>2 DEF WebfingerNext, FingerStep, Resolve, AwaitWebfinger, WebfingerFetched,
       VerifyFinal, TryLink, LinkTried, NoValidLink, vars, webfingerVars
  <2> QED
    BY <2>1, <2>2
<1> QED
  BY <1>1, <1>2, WebfingerInvariant, PTL DEF WebfingerSafeSpec, StoreKept, Store!SafeSpec

\* One http_fetch_limit holds for the request of webfinger and for all that
\* is dereferenced for its links.
THEOREM WebfingerLimit == WebfingerSafeSpec => []RequestsAccounted
BY WebfingerInvariant, PTL DEF WInv, Inv, FetchInv

\* A name or a link may lead anywhere, still every request goes to a URL that
\* verify_url_valid accepts (webfinger.rs:72-74 and fetch/mod.rs:297).
THEOREM WebfingerVerified == WebfingerSafeSpec => []OnlyVerifiedRemote
<1>1. WInv => OnlyVerifiedRemote
  BY InvVerifies DEF WInv, Inv
<1> QED
  BY <1>1, WebfingerInvariant, PTL

\* http_fetch_limit bounds the recursion of the links' dereferences (from_json),
\* although the webfinger request uses up a part of it.
THEOREM WebfingerRecursion == WebfingerSafeSpec => []RecursionPaidFor
<1>1. Inv => RecursionPaidFor
  BY InvPaysForRecursion
<1> QED
  BY <1>1, WebfingerInvariant, PTL DEF WInv
=============================================================================
