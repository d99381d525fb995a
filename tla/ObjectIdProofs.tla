--------------------------- MODULE ObjectIdProofs ---------------------------
(***************************************************************************)
(* Proofs about Fetch and then about ObjectId, for any number of callers,  *)
(* any limit and any URLs: what a finished fetch answers with; that the    *)
(* database is kept as ObjectStore promises, and that recursion is paid    *)
(* for with requests.                                                      *)
(***************************************************************************)
EXTENDS ObjectId, FiniteSetTheorems, SequenceTheorems, TLAPS

(***************************************************************************)
(* What is true of a frame between any two steps.  Beyond what the         *)
(* properties say of a finished fetch: a URL stays verified while its      *)
(* request is counted and executed, and a fetch that has met another id is *)
(* not conditional any more.                                               *)
(***************************************************************************)
FrameOK(f) ==
    /\ f.at \in {"count", "request"} => UrlValid(f.url, TRUE)
    /\ f.at = "done" /\ (\/ f.result \in {"NotModified", "Gone"}
                         \/ f.result = "Object" /\ f.mode # "webfinger") =>
          UrlValid(f.url, TRUE) /\ ~ IsLocalUrl(f.url)
    /\ f.at = "done" /\ f.result = "NotModified" => f.etag /\ ~ f.refetched
    /\ f.mode = "conditional" => ~ f.refetched
    /\ ~ f.redirected => Domain(f.url) = Domain(f.asked)

FramesOK == \A c \in Callers : fetch[c] # Idle => FrameOK(fetch[c])

FetchInv == FetchTypeOK /\ RequestsAccounted /\ FramesOK

----------------------------------------------------------------------------
\* A URL that was found valid is valid whenever its name can be resolved.
LEMMA ValidOnceResolved ==
    ASSUME NEW u, NEW resolved \in BOOLEAN, UrlValid(u, resolved)
    PROVE  UrlValid(u, TRUE)
BY DEF UrlValid

\* Replacing the frame of one caller by one that is as it should be.
LEMMA SetKeepsFrames ==
    ASSUME FetchTypeOK, FramesOK, NEW c \in Callers,
           NEW f \in Frames \cup {Idle}, f # Idle => FrameOK(f), Set(c, f)
    PROVE  /\ fetch' \in [Callers -> Frames \cup {Idle}]
           /\ FramesOK'
<1>1. fetch' \in [Callers -> Frames \cup {Idle}]
  BY DEF FetchTypeOK, Set
<1>2. fetch'[c] = f /\ \A d \in Callers \ {c} : fetch'[d] = fetch[d]
  BY DEF FetchTypeOK, Set
<1>3. ASSUME NEW d \in Callers, fetch'[d] # Idle PROVE FrameOK(fetch'[d])
  BY <1>2, <1>3 DEF FramesOK
<1> QED
  BY <1>1, <1>3 DEF FramesOK, FrameOK

\* What it does to the set of callers whose request is being executed.
LEMMA SetRequesting ==
    ASSUME FetchTypeOK, NEW c \in Callers, NEW f, Set(c, f)
    PROVE  Requesting' = IF f.at = "request" THEN Requesting \cup {c}
                                             ELSE Requesting \ {c}
<1>1. fetch'[c] = f /\ \A d \in Callers \ {c} : fetch'[d] = fetch[d]
  BY DEF FetchTypeOK, Set
<1> QED
  BY <1>1 DEF Requesting

LEMMA RequestingFinite == IsFiniteSet(Requesting) /\ Cardinality(Requesting) \in Nat
BY CallersAssumption, FS_Subset, FS_CardinalityType DEF Requesting

\* Steps that neither count nor execute a request.
LEMMA QuietStep ==
    ASSUME FetchInv, NEW c \in Callers, fetch[c].at # "request",
           NEW f \in Frames \cup {Idle}, f # Idle => FrameOK(f), Set(c, f),
           f.at # "request", UNCHANGED <<counter, sent>>
    PROVE  FetchInv'
<1>1. Requesting' = Requesting
  BY SetRequesting DEF FetchInv, Requesting
<1>2. RequestsAccounted'
  BY <1>1 DEF FetchInv, RequestsAccounted
<1>3. FetchTypeOK' /\ FramesOK'
  BY SetKeepsFrames DEF FetchInv, FetchTypeOK
<1> QED
  BY <1>2, <1>3 DEF FetchInv
----------------------------------------------------------------------------
LEMMA FrameTyped ==
    ASSUME FetchInv, NEW c \in Callers, fetch[c].at # "idle"
    PROVE  fetch[c] \in Frames /\ FrameOK(fetch[c])
BY DEF FetchInv, FetchTypeOK, FramesOK, Idle

LEMMA BeginKeeps ==
    ASSUME FetchInv, NEW c \in Callers, NEW u \in Urls,
           NEW mode \in Modes \ {"canonical"}, NEW etag \in BOOLEAN,
           Begin(c, u, mode, etag)
    PROVE  FetchInv'
<1>1. NewFrame(u, mode, etag) \in Frames /\ FrameOK(NewFrame(u, mode, etag))
  BY DEF NewFrame, Frames, FrameOK, Results, Failures
<1>2. fetch[c].at = "idle" /\ NewFrame(u, mode, etag).at = "verify"
  BY DEF Begin, Idle, NewFrame
<1> QED
  BY <1>1, <1>2, QuietStep DEF Begin

LEMMA VerifyKeeps ==
    ASSUME FetchInv, NEW c \in Callers, Verify(c)
    PROVE  FetchInv'
<1>1. fetch[c].at = "verify" /\ UNCHANGED <<counter, sent>>
  BY DEF Verify
<1>2. fetch[c] \in Frames /\ FrameOK(fetch[c])
  BY <1>1, FrameTyped
<1>3. PICK resolved \in BOOLEAN :
          IF UrlValid(fetch[c].url, resolved)
          THEN Set(c, [fetch[c] EXCEPT !.at = "count"])
          ELSE Finish(c, "UrlInvalid")
  BY DEF Verify
<1>4. CASE UrlValid(fetch[c].url, resolved)
  <2> DEFINE f == [fetch[c] EXCEPT !.at = "count"]
  <2>1. UrlValid(fetch[c].url, TRUE)
    BY <1>4, ValidOnceResolved
  <2>2. f \in Frames /\ FrameOK(f) /\ f.at = "count"
    BY <1>2, <2>1 DEF Frames, FrameOK
  <2>3. Set(c, f)
    BY <1>3, <1>4
  <2> QED
    BY <1>1, <2>2, <2>3, QuietStep
<1>5. CASE ~ UrlValid(fetch[c].url, resolved)
  <2> DEFINE f == [fetch[c] EXCEPT !.at = "done", !.result = "UrlInvalid"]
  <2>1. f \in Frames /\ FrameOK(f) /\ f.at = "done"
    BY <1>2 DEF Frames, FrameOK, Results, Failures
  <2>2. Set(c, f)
    BY <1>3, <1>5 DEF Finish
  <2> QED
    BY <1>1, <2>1, <2>2, QuietStep
<1> QED
  BY <1>4, <1>5

\* Counting is what keeps RequestsAccounted while a request is let through,
\* and refusing is what keeps it from then on.
LEMMA CountKeeps ==
    ASSUME FetchInv, NEW c \in Callers, CountRequest(c)
    PROVE  FetchInv'
<1>1. /\ fetch[c].at = "count" /\ counter' = counter + 1 /\ sent' = sent
      /\ counter \in Nat /\ sent \in 0 .. HttpFetchLimit
  BY DEF CountRequest, FetchInv, FetchTypeOK
<1>2. fetch[c] \in Frames /\ FrameOK(fetch[c]) /\ c \notin Requesting
  BY <1>1, FrameTyped DEF Requesting
<1>3. CASE counter' > HttpFetchLimit
  <2> DEFINE f == [fetch[c] EXCEPT !.at = "done", !.result = "RequestLimit"]
  <2>1. f \in Frames /\ FrameOK(f) /\ f.at = "done"
    BY <1>2 DEF Frames, FrameOK, Results, Failures
  <2>2. Set(c, f)
    BY <1>3 DEF CountRequest, Finish
  <2>3. Requesting' = Requesting
    BY <1>2, <2>1, <2>2, SetRequesting DEF FetchInv
  <2>4. RequestsAccounted'
    BY <1>1, <1>3, <2>3, LimitAssumption DEF FetchInv, RequestsAccounted
  <2>5. FetchTypeOK' /\ FramesOK'
    BY <1>1, <2>1, <2>2, SetKeepsFrames DEF FetchInv, FetchTypeOK
  <2> QED
    BY <2>4, <2>5 DEF FetchInv
<1>4. CASE ~ (counter' > HttpFetchLimit)
  <2> DEFINE f == [fetch[c] EXCEPT !.at = "request"]
  <2>1. f \in Frames /\ FrameOK(f) /\ f.at = "request"
    BY <1>1, <1>2 DEF Frames, FrameOK
  <2>2. Set(c, f)
    BY <1>4 DEF CountRequest
  <2>3. Requesting' = Requesting \cup {c}
    BY <2>1, <2>2, SetRequesting DEF FetchInv
  <2>4. Cardinality(Requesting') = Cardinality(Requesting) + 1
    BY <1>2, <2>3, RequestingFinite, FS_AddElement
  <2>5. RequestsAccounted'
    BY <1>1, <1>4, <2>4, LimitAssumption, RequestingFinite
    DEF FetchInv, RequestsAccounted
  <2>6. FetchTypeOK' /\ FramesOK'
    BY <1>1, <2>1, <2>2, SetKeepsFrames DEF FetchInv, FetchTypeOK
  <2> QED
    BY <2>5, <2>6 DEF FetchInv
<1> QED
  BY <1>3, <1>4

\* An executed request leaves the callers that execute one and is sent.
LEMMA ExecutedStep ==
    ASSUME FetchInv, NEW c \in Callers, Executed(c),
           NEW f \in Frames, FrameOK(f), f.at # "request", Set(c, f)
    PROVE  FetchInv'
<1>1. /\ fetch[c].at = "request" /\ counter' = counter
      /\ counter \in Nat /\ sent \in 0 .. HttpFetchLimit
      /\ sent' = IF sent > HttpFetchLimit THEN sent ELSE sent + 1
  BY DEF Executed, FetchInv, FetchTypeOK
<1>2. Requesting' = Requesting \ {c} /\ c \in Requesting
  BY <1>1, SetRequesting DEF FetchInv, Requesting
<1>3. Cardinality(Requesting') = Cardinality(Requesting) - 1
  BY <1>2, RequestingFinite, FS_RemoveElement
<1>4. sent' = sent + 1
  BY <1>1, LimitAssumption
<1>5. RequestsAccounted' /\ sent' \in 0 .. HttpFetchLimit
  <2>1. Cardinality(Requesting) >= 1
    BY <1>2, <1>3, RequestingFinite, FS_CardinalityType, FS_Subset, FS_EmptySet
  <2> QED
    BY <1>1, <1>3, <1>4, <2>1, LimitAssumption, RequestingFinite
    DEF FetchInv, RequestsAccounted
<1>6. FetchTypeOK' /\ FramesOK'
  BY <1>1, <1>5, SetKeepsFrames DEF FetchInv, FetchTypeOK
<1> QED
  BY <1>5, <1>6 DEF FetchInv

LEMMA FinishAnswer ==
    ASSUME FetchInv, NEW c \in Callers, Executed(c), NEW r \in Results, Finish(c, r),
           r = "Object" => fetch[c].mode = "webfinger" \/ ~ IsLocalUrl(fetch[c].url),
           r \in {"NotModified", "Gone"} => ~ IsLocalUrl(fetch[c].url),
           r = "NotModified" => fetch[c].mode = "conditional" /\ fetch[c].etag
    PROVE  FetchInv'
<1> DEFINE f == [fetch[c] EXCEPT !.at = "done", !.result = r]
<1>1. fetch[c] \in Frames /\ FrameOK(fetch[c]) /\ fetch[c].at = "request"
  BY FrameTyped DEF Executed
<1>2. f \in Frames /\ FrameOK(f) /\ f.at = "done"
  BY <1>1 DEF Frames, FrameOK
<1> QED
  BY <1>2, ExecutedStep DEF Finish

LEMMA AnswerKeeps ==
    ASSUME FetchInv, NEW c \in Callers, Answer(c)
    PROVE  FetchInv'
<1>1. fetch[c] \in Frames /\ FrameOK(fetch[c]) /\ fetch[c].at = "request" /\ Executed(c)
  <2>1. Executed(c)
    BY DEF Answer, NoAnswer, Redirect, Gone, NotModified, OtherStatus, BadBody, Body
  <2> QED
    BY <2>1, FrameTyped DEF Executed
<1>2. CASE NoAnswer(c)
  BY <1>2, FinishAnswer DEF NoAnswer, Results, Failures
<1>3. CASE Redirect(c)
  <2>1. CASE Finish(c, "BadLocation")
    BY <1>1, <2>1, FinishAnswer DEF Results, Failures
  <2>2. ASSUME NEW u \in Urls,
               Set(c, [fetch[c] EXCEPT !.at = "verify", !.url = u, !.recursive = TRUE,
                                       !.redirected = TRUE])
        PROVE  FetchInv'
    <3> DEFINE f == [fetch[c] EXCEPT !.at = "verify", !.url = u, !.recursive = TRUE,
                                     !.redirected = TRUE]
    <3>1. f \in Frames /\ FrameOK(f) /\ f.at = "verify"
      BY <1>1 DEF Frames, FrameOK
    <3> QED
      BY <1>1, <2>2, <3>1, ExecutedStep
  <2> QED
    BY <1>3, <2>1, <2>2 DEF Redirect
<1>4. CASE Gone(c)
  <2>1. CASE IsLocalUrl(fetch[c].url)
    BY <1>1, <1>4, <2>1, FinishAnswer DEF Gone, Results, Failures
  <2>2. CASE ~ IsLocalUrl(fetch[c].url)
    BY <1>1, <1>4, <2>2, FinishAnswer DEF Gone, Results, Failures
  <2> QED
    BY <2>1, <2>2
<1>5. CASE NotModified(c)
  <2>1. CASE IsLocalUrl(fetch[c].url)
    BY <1>1, <1>5, <2>1, FinishAnswer DEF NotModified, Results, Failures
  <2>2. CASE /\ ~ IsLocalUrl(fetch[c].url)
             /\ fetch[c].mode = "conditional" /\ fetch[c].etag
    BY <1>1, <1>5, <2>2, FinishAnswer DEF NotModified, Results, Failures
  <2>3. CASE /\ ~ IsLocalUrl(fetch[c].url)
             /\ ~ (fetch[c].mode = "conditional" /\ fetch[c].etag)
    BY <1>1, <1>5, <2>3, FinishAnswer DEF NotModified, Results, Failures
  <2> QED
    BY <2>1, <2>2, <2>3
<1>6. CASE OtherStatus(c)
  BY <1>1, <1>6, FinishAnswer DEF OtherStatus, Results, Failures
<1>7. CASE BadBody(c)
  BY <1>1, <1>7, FinishAnswer DEF BadBody, Results, Failures
<1>8. CASE Body(c)
  <2>1. CASE fetch[c].mode = "webfinger"
    BY <1>1, <1>8, <2>1, FinishAnswer DEF Body, Results
  <2>2. CASE fetch[c].mode # "webfinger"
    <3>1. PICK id \in Urls :
             IF id = fetch[c].url
             THEN Finish(c, IF IsLocalUrl(id) THEN "NotFound" ELSE "Object")
             ELSE Set(c, [fetch[c] EXCEPT !.at = "verifyId", !.next = id])
      BY <1>8, <2>2 DEF Body
    <3>2. CASE id = fetch[c].url
      <4>1. CASE IsLocalUrl(id)
        BY <1>1, <3>1, <3>2, <4>1, FinishAnswer DEF Results, Failures
      <4>2. CASE ~ IsLocalUrl(id)
        BY <1>1, <3>1, <3>2, <4>2, FinishAnswer DEF Results, Failures
      <4> QED
        BY <4>1, <4>2
    <3>3. CASE id # fetch[c].url
      <4> DEFINE f == [fetch[c] EXCEPT !.at = "verifyId", !.next = id]
      <4>1. f \in Frames /\ FrameOK(f) /\ f.at = "verifyId"
        BY <1>1 DEF Frames, FrameOK
      <4>2. Set(c, f)
        BY <3>1, <3>3
      <4> QED
        BY <1>1, <4>1, <4>2, ExecutedStep
    <3> QED
      BY <3>2, <3>3
  <2> QED
    BY <2>1, <2>2
<1> QED
  BY <1>2, <1>3, <1>4, <1>5, <1>6, <1>7, <1>8 DEF Answer

\* The refetch keeps the domain, and is not conditional any more.
LEMMA VerifyIdKeeps ==
    ASSUME FetchInv, NEW c \in Callers, VerifyId(c)
    PROVE  FetchInv'
<1>1. fetch[c].at = "verifyId" /\ UNCHANGED <<counter, sent>>
  BY DEF VerifyId
<1>2. fetch[c] \in Frames /\ FrameOK(fetch[c])
  BY <1>1, FrameTyped
<1>3. ASSUME NEW r \in {"UrlInvalid", "WrongId"}, Finish(c, r)
      PROVE  FetchInv'
  <2> DEFINE f == [fetch[c] EXCEPT !.at = "done", !.result = r]
  <2>1. f \in Frames /\ FrameOK(f) /\ f.at = "done"
    BY <1>2 DEF Frames, FrameOK, Results, Failures
  <2> QED
    BY <1>1, <1>3, <2>1, QuietStep DEF Finish
<1>4. ASSUME Domain(fetch[c].next) = Domain(fetch[c].url),
             Set(c, [fetch[c] EXCEPT !.at = "verify", !.url = fetch[c].next,
                                     !.recursive = FALSE,
                                     !.mode = CanonicalMode(@),
                                     !.refetched = TRUE])
      PROVE  FetchInv'
  <2> DEFINE m == CanonicalMode(fetch[c].mode)
             f == [fetch[c] EXCEPT !.at = "verify", !.url = fetch[c].next,
                                   !.recursive = FALSE, !.mode = m,
                                   !.refetched = TRUE]
  <2>1. m \in Modes /\ m # "conditional"
    BY <1>2 DEF CanonicalMode, Modes, Frames
  <2> HIDE DEF m
  <2>2. f \in Frames /\ f.at = "verify"
    BY <1>2, <2>1 DEF Frames
  <2>3. FrameOK(f)
    BY <1>2, <1>4, <2>1 DEF Frames, FrameOK
  <2>4. Set(c, f)
    BY <1>2, <1>4 DEF m, Frames
  <2> QED
    BY <1>1, <2>2, <2>3, <2>4, QuietStep
<1> QED
  BY <1>3, <1>4 DEF VerifyId

LEMMA FetchStepKeeps ==
    ASSUME FetchInv, NEW c \in Callers, FetchStep(c)
    PROVE  FetchInv'
BY VerifyKeeps, CountKeeps, AnswerKeeps, VerifyIdKeeps DEF FetchStep

LEMMA FetchInitOK == FetchInit => FetchInv
<1> SUFFICES ASSUME FetchInit PROVE FetchInv
  OBVIOUS
<1>1. Requesting = {}
  BY DEF FetchInit, Idle, Requesting
<1> QED
  BY <1>1, FS_EmptySet, LimitAssumption
  DEF FetchInit, FetchInv, FetchTypeOK, FramesOK, RequestsAccounted

----------------------------------------------------------------------------
\* The inductive invariant of Fetch.
THEOREM FetchInvariant == FetchSafeSpec => []FetchInv
<1>1. FetchInit => FetchInv
  BY FetchInitOK
<1>2. FetchInv /\ [FetchNext]_fetchVars => FetchInv'
  <2> SUFFICES ASSUME FetchInv, [FetchNext]_fetchVars PROVE FetchInv'
    OBVIOUS
  <2>1. CASE UNCHANGED fetchVars
    BY <2>1 DEF fetchVars, FetchInv, FetchTypeOK, RequestsAccounted, Requesting,
                FramesOK
  <2>2. CASE FetchNext
    BY <2>2, FetchStepKeeps, BeginKeeps DEF FetchNext
  <2> QED
    BY <2>1, <2>2
<1> QED
  BY <1>1, <1>2, PTL DEF FetchSafeSpec

\* However many futures share a Data (config.rs, fetch/mod.rs:300), they never
\* send more requests than http_fetch_limit, and a request under way has been
\* counted.
THEOREM LimitKept == FetchSafeSpec => []RequestsAccounted
<1>1. FetchInv => RequestsAccounted
  BY DEF FetchInv
<1> QED
  BY <1>1, FetchInvariant, PTL

LEMMA InvVerifies == FetchInv => OnlyVerifiedRemote
<1>1. ASSUME FetchInv, NEW c \in Callers, fetch[c].at \in {"request", "done"}
      PROVE  FrameOK(fetch[c])
  BY <1>1, FrameTyped
<1> QED
  BY <1>1 DEF FrameOK, OnlyVerifiedRemote

\* Whatever servers answer, requests go to verified URLs only and outcomes
\* are about remote ones only.
THEOREM VerifiedRemote == FetchSafeSpec => []OnlyVerifiedRemote
BY InvVerifies, FetchInvariant, PTL

\* The chain of canonical refetches stays on a domain until a redirect leaves
\* it.
THEOREM DomainKept == FetchSafeSpec => []DomainLeftByRedirectOnly
<1>1. FetchInv => DomainLeftByRedirectOnly
  BY DEF FetchInv, FramesOK, FrameOK, DomainLeftByRedirectOnly
<1> QED
  BY <1>1, FetchInvariant, PTL

\* NotModified answers the validators of the caller.
THEOREM NotModifiedSound == FetchSafeSpec => []NotModifiedIsAboutAsked
<1>1. ASSUME FetchInv, NEW c \in Callers, fetch[c].at = "done"
      PROVE  FrameOK(fetch[c])
  BY <1>1, FrameTyped
<1>2. FetchInv => NotModifiedIsAboutAsked
  BY <1>1 DEF FrameOK, NotModifiedIsAboutAsked
<1> QED
  BY <1>2, FetchInvariant, PTL

----------------------------------------------------------------------------
(* Dereferencing ids.                                                       *)

(***************************************************************************)
(* What is true of a dereference under way, given the database: what it is *)
(* about to write was fetched from another instance, and what it is about  *)
(* to mark as deleted is a remote object that is there.                    *)
(***************************************************************************)
DereferenceOK(store, d) ==
    /\ d.at \in {"verify", "convert", "write"} => ~ IsLocalUrl(d.found)
    /\ d.held # "none" => ~ IsLocalUrl(d.id) /\ store[d.id] \in Stored
    /\ d.at = "delete" => d.held # "none"

StackInv ==
    /\ stack \in [Callers -> Seq(Dereferences)]
    /\ \A c \in Callers : \A i \in 1 .. Len(stack[c]) : DereferenceOK(db, stack[c][i])
    /\ \A c \in Callers : \A i \in 2 .. Len(stack[c]) : stack[c][i].at = "write"

\* A caller that dereferences has a fetch under way exactly while its innermost
\* dereference awaits one.
FetchMatches ==
    \A c \in Callers : stack[c] # <<>> =>
        IF At(c, "fetch") THEN fetch[c] # Idle /\ fetch[c].mode = "object"
                          ELSE fetch[c] = Idle

\* The fetch has executed a request at least once.
Answered(f) ==
    \/ f.redirected \/ f.refetched
    \/ f.at = "verifyId"
    \/ f.at = "done" /\ f.result = "Object"

\* The innermost dereference has used up a request and not begun another
\* dereference since.
HasPaid(c) ==
    \/ At(c, "verify") \/ At(c, "convert")
    \/ At(c, "fetch") /\ Answered(fetch[c])

Paid == {c \in Callers : HasPaid(c)}

PaidInv == Cardinality(Enclosing) + Cardinality(Paid) <= sent

Inv == TypeOK /\ FetchInv /\ StackInv /\ FetchMatches /\ PaidInv

\* Nobody fetches but for a dereference.
Resting == \A c \in Callers : stack[c] = <<>> => fetch[c] = Idle

----------------------------------------------------------------------------
(* The stacks.                                                             *)

DbKept == \A u \in Urls : db[u] \in Stored => db'[u] \in Stored

LEMMA HeldKept ==
    ASSUME DbKept, NEW d \in Dereferences, DereferenceOK(db, d)
    PROVE  DereferenceOK(db', d)
BY DEF DbKept, DereferenceOK, Dereferences

\* What a stack is made of.
LEMMA TopTyped ==
    ASSUME StackInv, NEW c \in Callers, stack[c] # <<>>
    PROVE  /\ stack[c] \in Seq(Dereferences) /\ Len(stack[c]) >= 1 /\ Len(stack[c]) \in Nat
           /\ Top(c) = stack[c][1] /\ Top(c) \in Dereferences /\ DereferenceOK(db, Top(c))
<1>1. stack[c] \in Seq(Dereferences)
  BY DEF StackInv
<1>2. Len(stack[c]) \in Nat /\ Len(stack[c]) # 0
  BY <1>1
<1>3. Top(c) = stack[c][1] /\ Top(c) \in Dereferences
  BY <1>1, <1>2 DEF Top
<1> QED
  BY <1>1, <1>2, <1>3 DEF StackInv

\* One stack is replaced by one that is as it should be.
LEMMA StackReplaced ==
    ASSUME StackInv, DbKept, NEW c \in Callers, NEW s \in Seq(Dereferences),
           stack' = [stack EXCEPT ![c] = s],
           \A i \in 1 .. Len(s) : DereferenceOK(db', s[i]),
           \A i \in 2 .. Len(s) : s[i].at = "write"
    PROVE  /\ StackInv'
           /\ stack'[c] = s
           /\ \A d \in Callers \ {c} : stack'[d] = stack[d]
<1>1. stack \in [Callers -> Seq(Dereferences)]
  BY DEF StackInv
<1>2. /\ stack' \in [Callers -> Seq(Dereferences)]
      /\ stack'[c] = s
      /\ \A d \in Callers \ {c} : stack'[d] = stack[d]
  BY <1>1
<1>3. ASSUME NEW d \in Callers, NEW i \in 1 .. Len(stack'[d])
      PROVE  DereferenceOK(db', stack'[d][i])
  <2>1. CASE d = c
    BY <1>2, <1>3, <2>1
  <2>2. CASE d # c
    <3>1. stack'[d] = stack[d] /\ stack[d] \in Seq(Dereferences) /\ i \in 1 .. Len(stack[d])
      BY <1>1, <1>2, <1>3, <2>2
    <3>2. stack[d][i] \in Dereferences /\ DereferenceOK(db, stack[d][i])
      BY <3>1, ElementOfSeq DEF StackInv
    <3> QED
      BY <3>1, <3>2, HeldKept
  <2> QED
    BY <2>1, <2>2
<1>4. ASSUME NEW d \in Callers, NEW i \in 2 .. Len(stack'[d])
      PROVE  stack'[d][i].at = "write"
  BY <1>2, <1>4 DEF StackInv
<1> QED
  BY <1>2, <1>3, <1>4 DEF StackInv

\* SetTop leaves the enclosing dereferences alone.
LEMMA TopReplaced ==
    ASSUME StackInv, DbKept, NEW c \in Callers, stack[c] # <<>>,
           NEW d \in Dereferences, DereferenceOK(db', d), SetTop(c, d)
    PROVE  /\ StackInv'
           /\ stack'[c] # <<>> /\ Top(c)' = d
           /\ \A e \in Callers \ {c} : stack'[e] = stack[e]
           /\ Enclosing' = Enclosing
<1> DEFINE s == [stack[c] EXCEPT ![1] = d]
<1>1. /\ stack[c] \in Seq(Dereferences) /\ Len(stack[c]) >= 1 /\ Len(stack[c]) \in Nat
  BY TopTyped
<1>2. /\ s \in Seq(Dereferences) /\ Len(s) = Len(stack[c])
      /\ \A j \in 1 .. Len(stack[c]) : s[j] = IF j = 1 THEN d ELSE stack[c][j]
  BY <1>1, ExceptSeq
<1>3. stack' = [stack EXCEPT ![c] = s]
  BY DEF SetTop
<1> HIDE DEF s
<1>4. \A i \in 1 .. Len(s) : DereferenceOK(db', s[i])
  <2> TAKE i \in 1 .. Len(s)
  <2>1. CASE i = 1
    BY <1>1, <1>2, <2>1
  <2>2. CASE i # 1
    <3>1. s[i] = stack[c][i] /\ i \in 1 .. Len(stack[c])
      BY <1>2, <2>2
    <3>2. stack[c][i] \in Dereferences /\ DereferenceOK(db, stack[c][i])
      BY <1>1, <3>1, ElementOfSeq DEF StackInv
    <3> QED
      BY <3>1, <3>2, HeldKept
  <2> QED
    BY <2>1, <2>2
<1>5. \A i \in 2 .. Len(s) : s[i].at = "write"
  BY <1>1, <1>2 DEF StackInv
<1>6. /\ StackInv' /\ stack'[c] = s
      /\ \A e \in Callers \ {c} : stack'[e] = stack[e]
  BY <1>2, <1>3, <1>4, <1>5, StackReplaced
<1>7. s # <<>> /\ Head(s) = d
  BY <1>1, <1>2
<1>8. \A e \in Callers : Len(stack'[e]) = Len(stack[e])
  BY <1>2, <1>6
<1> QED
  BY <1>6, <1>7, <1>8 DEF Top, Enclosing

\* The innermost dereference is taken off: what is left awaits nothing.
LEMMA StackPopped ==
    ASSUME StackInv, DbKept, NEW c \in Callers, stack[c] # <<>>,
           stack' = [stack EXCEPT ![c] = Tail(@)]
    PROVE  /\ StackInv'
           /\ stack'[c] # <<>> => Top(c)'.at = "write"
           /\ \A e \in Callers \ {c} : stack'[e] = stack[e]
           /\ Enclosing' \subseteq Enclosing
<1> DEFINE s == Tail(stack[c])
<1>1. /\ stack[c] \in Seq(Dereferences) /\ Len(stack[c]) >= 1 /\ Len(stack[c]) \in Nat
  BY TopTyped
<1>2. /\ s \in Seq(Dereferences) /\ Len(s) = Len(stack[c]) - 1
      /\ \A i \in 1 .. Len(s) : s[i] = stack[c][i + 1]
  BY <1>1, HeadTailProperties
<1>3. stack' = [stack EXCEPT ![c] = s]
  OBVIOUS
<1> HIDE DEF s
<1>4. \A i \in 1 .. Len(s) : DereferenceOK(db', s[i]) /\ s[i].at = "write"
  <2> TAKE i \in 1 .. Len(s)
  <2>1. s[i] = stack[c][i + 1] /\ i + 1 \in 1 .. Len(stack[c]) /\ i + 1 \in 2 .. Len(stack[c])
    BY <1>1, <1>2
  <2>2. stack[c][i + 1] \in Dereferences /\ DereferenceOK(db, stack[c][i + 1])
    BY <1>1, <2>1, ElementOfSeq DEF StackInv
  <2>3. stack[c][i + 1].at = "write"
    BY <2>1 DEF StackInv
  <2> QED
    BY <2>1, <2>2, <2>3, HeldKept
<1>5. \A i \in 2 .. Len(s) : s[i].at = "write"
  BY <1>1, <1>2, <1>4
<1>6. /\ StackInv' /\ stack'[c] = s
      /\ \A e \in Callers \ {c} : stack'[e] = stack[e]
  BY <1>2, <1>3, <1>4, <1>5, StackReplaced
<1>7. s # <<>> => Head(s).at = "write"
  <2>1. s # <<>> => Head(s) = s[1] /\ 1 \in 1 .. Len(s)
    BY <1>2
  <2> QED
    BY <1>4, <2>1
<1>8. \A e \in Callers : 2 .. Len(stack'[e]) \subseteq 2 .. Len(stack[e])
  BY <1>1, <1>2, <1>6
<1> QED
  BY <1>6, <1>7, <1>8 DEF Top, Enclosing

\* A dereference that goes on to write begins another one first.
LEMMA StackPushed ==
    ASSUME StackInv, DbKept, NEW c \in Callers, stack[c] # <<>>,
           NEW e \in Dereferences, DereferenceOK(db', e),
           NEW w \in Dereferences, DereferenceOK(db', w), w.at = "write",
           stack' = [stack EXCEPT ![c] = <<e>> \o [@ EXCEPT ![1] = w]]
    PROVE  /\ StackInv'
           /\ stack'[c] # <<>> /\ Top(c)' = e
           /\ \A d \in Callers \ {c} : stack'[d] = stack[d]
           /\ Enclosing' \subseteq Enclosing \cup {<<c, Len(stack[c]) + 1>>}
<1> DEFINE r == [stack[c] EXCEPT ![1] = w]
           s == <<e>> \o r
<1>1. /\ stack[c] \in Seq(Dereferences) /\ Len(stack[c]) >= 1 /\ Len(stack[c]) \in Nat
  BY TopTyped
<1>2. /\ r \in Seq(Dereferences) /\ Len(r) = Len(stack[c])
      /\ \A j \in 1 .. Len(stack[c]) : r[j] = IF j = 1 THEN w ELSE stack[c][j]
  BY <1>1, ExceptSeq
<1>3. stack' = [stack EXCEPT ![c] = s]
  OBVIOUS
<1> HIDE DEF r
<1>4. <<e>> \in Seq(Dereferences) /\ Len(<<e>>) = 1 /\ <<e>>[1] = e
  OBVIOUS
<1>5. /\ s \in Seq(Dereferences) /\ Len(s) = Len(stack[c]) + 1
      /\ \A i \in 1 .. Len(s) : s[i] = IF i <= 1 THEN <<e>>[i] ELSE r[i - 1]
  <2>1. /\ s \in Seq(Dereferences) /\ Len(s) = Len(<<e>>) + Len(r)
        /\ \A i \in 1 .. Len(<<e>>) + Len(r) :
               s[i] = IF i <= Len(<<e>>) THEN <<e>>[i] ELSE r[i - Len(<<e>>)]
    BY <1>2, <1>4, ConcatProperties
  <2> QED
    BY <1>1, <1>2, <1>4, <2>1
<1> HIDE DEF s
<1>6. \A i \in 1 .. Len(s) : DereferenceOK(db', s[i])
  <2> TAKE i \in 1 .. Len(s)
  <2>1. CASE i = 1
    BY <1>4, <1>5, <2>1
  <2>2. CASE i = 2
    BY <1>1, <1>2, <1>5, <2>2
  <2>3. CASE i # 1 /\ i # 2
    <3>1. s[i] = stack[c][i - 1] /\ i - 1 \in 1 .. Len(stack[c])
      BY <1>1, <1>2, <1>5, <2>3
    <3>2. stack[c][i - 1] \in Dereferences /\ DereferenceOK(db, stack[c][i - 1])
      BY <1>1, <3>1, ElementOfSeq DEF StackInv
    <3> QED
      BY <3>1, <3>2, HeldKept
  <2> QED
    BY <2>1, <2>2, <2>3
<1>7. \A i \in 2 .. Len(s) : s[i].at = "write"
  <2> TAKE i \in 2 .. Len(s)
  <2>1. CASE i = 2
    BY <1>1, <1>2, <1>5, <2>1
  <2>2. CASE i # 2
    <3>1. i \in 3 .. Len(stack[c]) + 1
      BY <1>1, <1>5, <2>2
    <3>2. s[i] = r[i - 1] /\ i - 1 \in 2 .. Len(stack[c])
      BY <1>1, <1>5, <3>1
    <3>3. r[i - 1] = stack[c][i - 1]
      <4>1. i - 1 \in 1 .. Len(stack[c]) /\ i - 1 # 1
        BY <1>1, <3>1
      <4> QED
        BY <1>2, <4>1
    <3> QED
      BY <3>2, <3>3 DEF StackInv
  <2> QED
    BY <2>1, <2>2
<1>8. /\ StackInv' /\ stack'[c] = s
      /\ \A d \in Callers \ {c} : stack'[d] = stack[d]
  BY <1>3, <1>5, <1>6, <1>7, StackReplaced
<1>9. s # <<>> /\ Head(s) = e
  BY <1>1, <1>4, <1>5
<1>10. ASSUME NEW d \in Callers, NEW i \in 2 .. Len(stack'[d])
       PROVE  <<d, i>> \in Enclosing \cup {<<c, Len(stack[c]) + 1>>}
  <2>1. CASE d # c
    BY <1>8, <2>1 DEF Enclosing
  <2>2. CASE d = c
    <3>1. i \in 2 .. Len(stack[c]) \/ i = Len(stack[c]) + 1
      BY <1>1, <1>5, <1>8, <1>10, <2>2
    <3> QED
      BY <2>2, <3>1 DEF Enclosing
  <2> QED
    BY <2>1, <2>2
<1>11. Enclosing' \subseteq Enclosing \cup {<<c, Len(stack[c]) + 1>>}
  BY <1>10 DEF Enclosing
<1> QED
  BY <1>8, <1>9, <1>11 DEF Top

----------------------------------------------------------------------------
(* Counting what is paid for.                                              *)

LEMMA EnclosingFinite ==
    ASSUME StackInv
    PROVE  IsFiniteSet(Enclosing) /\ Cardinality(Enclosing) \in Nat
<1> DEFINE row == [c \in Callers |-> {c} \X (2 .. Len(stack[c]))]
           rows == {row[c] : c \in Callers}
<1>1. \A r \in rows : IsFiniteSet(r)
  <2> TAKE r \in rows
  <2>1. PICK c \in Callers : r = {c} \X (2 .. Len(stack[c]))
    OBVIOUS
  <2>2. stack[c] \in Seq(Dereferences)
    BY DEF StackInv
  <2>3. Len(stack[c]) \in Int /\ 2 \in Int
    BY <2>2
  <2>4. IsFiniteSet(2 .. Len(stack[c]))
    BY <2>3, FS_Interval
  <2>5. IsFiniteSet({c})
    BY FS_Singleton
  <2> QED
    BY <2>1, <2>4, <2>5, FS_Product
<1>2. row \in Surjection(Callers, rows)
  BY DEF Surjection
<1>3. IsFiniteSet(rows)
  <2> HIDE DEF row, rows
  <2> QED
    BY <1>2, CallersAssumption, FS_Surjection
<1>4. Enclosing = UNION rows
  BY DEF Enclosing
<1>5. IsFiniteSet(UNION rows)
  <2> HIDE DEF rows
  <2> QED
    BY <1>1, <1>3, FS_UNION
<1> QED
  BY <1>4, <1>5, FS_CardinalityType

LEMMA PaidFinite == IsFiniteSet(Paid) /\ Cardinality(Paid) \in Nat
BY CallersAssumption, FS_Subset, FS_CardinalityType DEF Paid

\* Only the caller that takes a step changes whether it has paid.
LEMMA PaidOfOthers ==
    ASSUME NEW c \in Callers,
           \A e \in Callers \ {c} : stack'[e] = stack[e] /\ fetch'[e] = fetch[e]
    PROVE  /\ Paid' \subseteq Paid \cup {c}
           /\ HasPaid(c) => Paid' \subseteq Paid
           /\ ~ HasPaid(c)' => Paid' \subseteq Paid \ {c}
BY DEF Paid, HasPaid, At, Top, Answered

\* No further request is used up.
LEMMA NothingUsed ==
    ASSUME StackInv, PaidInv, FetchTypeOK, Enclosing' \subseteq Enclosing,
           Paid' \subseteq Paid, sent' >= sent, sent' \in Nat
    PROVE  PaidInv'
<1>1. Cardinality(Enclosing') <= Cardinality(Enclosing) /\ Cardinality(Enclosing') \in Nat
  BY EnclosingFinite, FS_Subset, FS_CardinalityType
<1>2. Cardinality(Paid') <= Cardinality(Paid) /\ Cardinality(Paid') \in Nat
  BY PaidFinite, FS_Subset, FS_CardinalityType
<1>3. sent \in Nat
  BY LimitAssumption DEF FetchTypeOK
<1> QED
  BY <1>1, <1>2, <1>3, EnclosingFinite, PaidFinite DEF PaidInv

----------------------------------------------------------------------------
(* The fetch of a dereference.                                             *)

LEMMA SetOthers ==
    ASSUME FetchTypeOK, NEW c \in Callers, NEW f, Set(c, f)
    PROVE  fetch'[c] = f /\ \A e \in Callers \ {c} : fetch'[e] = fetch[e]
BY DEF FetchTypeOK, Set

\* A step of a fetch stays a step of fetch_object_http, and a fetch is
\* answered for the first time by a request that is executed.
StepShape(c) ==
    /\ fetch'[c] # Idle /\ fetch'[c].mode = "object"
    /\ \A e \in Callers \ {c} : fetch'[e] = fetch[e]
    /\ sent' \in {sent, sent + 1}
    /\ Answered(fetch'[c]) => Answered(fetch[c]) \/ sent' = sent + 1

LEMMA ShapeOfSet ==
    ASSUME FetchTypeOK, NEW c \in Callers, NEW f \in Frames, f.mode = "object", Set(c, f),
           sent' \in {sent, sent + 1},
           Answered(f) => Answered(fetch[c]) \/ sent' = sent + 1
    PROVE  StepShape(c)
<1>1. fetch'[c] = f /\ \A e \in Callers \ {c} : fetch'[e] = fetch[e]
  BY SetOthers
<1>2. f # Idle
  BY DEF Frames, Idle
<1> QED
  BY <1>1, <1>2 DEF StepShape

LEMMA FetchStepShape ==
    ASSUME FetchInv, NEW c \in Callers, FetchStep(c), fetch[c].mode = "object"
    PROVE  StepShape(c)
<1>T. FetchTypeOK /\ sent \in 0 .. HttpFetchLimit
  BY DEF FetchInv, FetchTypeOK
<1>1. fetch[c].at # "idle"
  BY DEF FetchStep, Verify, CountRequest, Answer, NoAnswer, Redirect, Gone, NotModified,
         OtherStatus, BadBody, Body, VerifyId, Executed
<1>2. fetch[c] \in Frames
  BY <1>1, FrameTyped
<1>3. ASSUME NEW r \in Results, Finish(c, r), sent' \in {sent, sent + 1},
             r = "Object" => sent' = sent + 1
      PROVE  StepShape(c)
  <2> DEFINE f == [fetch[c] EXCEPT !.at = "done", !.result = r]
  <2>1. f \in Frames /\ f.mode = "object"
    BY <1>2 DEF Frames
  <2>2. Answered(f) => Answered(fetch[c]) \/ sent' = sent + 1
    BY <1>2, <1>3 DEF Frames, Answered
  <2> QED
    BY <1>T, <1>3, <2>1, <2>2, ShapeOfSet DEF Finish
<1>4. CASE Verify(c)
  <2>1. CASE Finish(c, "UrlInvalid")
    BY <1>3, <1>4, <2>1 DEF Verify, Results, Failures
  <2>2. CASE Set(c, [fetch[c] EXCEPT !.at = "count"])
    <3> DEFINE f == [fetch[c] EXCEPT !.at = "count"]
    <3>1. f \in Frames /\ f.mode = "object"
      BY <1>2 DEF Frames
    <3>2. Answered(f) => Answered(fetch[c])
      BY <1>2 DEF Frames, Answered
    <3> QED
      BY <1>T, <1>4, <2>2, <3>1, <3>2, ShapeOfSet DEF Verify
  <2> QED
    BY <1>4, <2>1, <2>2 DEF Verify
<1>5. CASE CountRequest(c)
  <2>1. CASE Finish(c, "RequestLimit")
    BY <1>3, <1>5, <2>1 DEF CountRequest, Results, Failures
  <2>2. CASE Set(c, [fetch[c] EXCEPT !.at = "request"])
    <3> DEFINE f == [fetch[c] EXCEPT !.at = "request"]
    <3>1. f \in Frames /\ f.mode = "object"
      BY <1>2 DEF Frames
    <3>2. Answered(f) => Answered(fetch[c])
      BY <1>2 DEF Frames, Answered
    <3> QED
      BY <1>T, <1>5, <2>2, <3>1, <3>2, ShapeOfSet DEF CountRequest
  <2> QED
    BY <1>5, <2>1, <2>2 DEF CountRequest
<1>6. CASE Answer(c)
  <2>1. Executed(c)
    BY <1>6 DEF Answer, NoAnswer, Redirect, Gone, NotModified, OtherStatus, BadBody, Body
  <2>2. sent' = sent + 1
    BY <1>T, <2>1, LimitAssumption DEF Executed
  <2>3. ASSUME NEW f \in Frames, f.mode = "object", Set(c, f)
        PROVE  StepShape(c)
    BY <1>T, <2>2, <2>3, ShapeOfSet
  <2>4. ASSUME NEW r \in Results, Finish(c, r)
        PROVE  StepShape(c)
    BY <1>3, <2>2, <2>4
  <2>5. CASE NoAnswer(c)
    BY <2>4, <2>5 DEF NoAnswer, Results, Failures
  <2>6. CASE Redirect(c)
    <3>1. CASE Finish(c, "BadLocation")
      BY <2>4, <3>1 DEF Results, Failures
    <3>2. ASSUME NEW u \in Urls,
                 Set(c, [fetch[c] EXCEPT !.at = "verify", !.url = u, !.recursive = TRUE,
                                         !.redirected = TRUE])
          PROVE  StepShape(c)
      <4> DEFINE f == [fetch[c] EXCEPT !.at = "verify", !.url = u, !.recursive = TRUE,
                                       !.redirected = TRUE]
      <4>1. f \in Frames /\ f.mode = "object"
        BY <1>2 DEF Frames
      <4> QED
        BY <2>3, <3>2, <4>1
    <3> QED
      BY <2>6, <3>1, <3>2 DEF Redirect
  <2>7. CASE Gone(c)
    BY <2>4, <2>7 DEF Gone, Results, Failures
  <2>8. CASE NotModified(c) \/ OtherStatus(c)
    BY <2>8 DEF NotModified, OtherStatus
  <2>9. CASE BadBody(c)
    BY <2>4, <2>9 DEF BadBody, Results, Failures
  <2>10. CASE Body(c)
    <3>1. PICK id \in Urls :
             IF id = fetch[c].url
             THEN Finish(c, IF IsLocalUrl(id) THEN "NotFound" ELSE "Object")
             ELSE Set(c, [fetch[c] EXCEPT !.at = "verifyId", !.next = id])
      BY <2>10 DEF Body
    <3>2. CASE id = fetch[c].url
      BY <2>4, <3>1, <3>2 DEF Results, Failures
    <3>3. CASE id # fetch[c].url
      <4> DEFINE f == [fetch[c] EXCEPT !.at = "verifyId", !.next = id]
      <4>1. f \in Frames /\ f.mode = "object"
        BY <1>2 DEF Frames
      <4> QED
        BY <2>3, <3>1, <3>3, <4>1
    <3> QED
      BY <3>2, <3>3
  <2> QED
    BY <1>6, <2>5, <2>6, <2>7, <2>8, <2>9, <2>10 DEF Answer
<1>7. CASE VerifyId(c)
  <2>1. Answered(fetch[c]) /\ sent' = sent
    BY <1>7 DEF VerifyId, Answered
  <2>2. CASE Finish(c, "UrlInvalid") \/ Finish(c, "WrongId")
    BY <1>3, <2>1, <2>2 DEF Results, Failures
  <2>3. CASE Set(c, [fetch[c] EXCEPT !.at = "verify", !.url = fetch[c].next,
                                     !.recursive = FALSE,
                                     !.mode = CanonicalMode(@),
                                     !.refetched = TRUE])
    <3> DEFINE f == [fetch[c] EXCEPT !.at = "verify", !.url = fetch[c].next,
                                     !.recursive = FALSE, !.refetched = TRUE]
    <3>1. f \in Frames /\ f.mode = "object"
      BY <1>2 DEF Frames
    <3>2. CanonicalMode(fetch[c].mode) = fetch[c].mode
      BY DEF CanonicalMode
    <3>3. Set(c, f)
      BY <1>2, <2>3, <3>2 DEF Frames
    <3> QED
      BY <1>T, <2>1, <3>1, <3>3, ShapeOfSet
  <2> QED
    BY <1>7, <2>2, <2>3 DEF VerifyId
<1> QED
  BY <1>4, <1>5, <1>6, <1>7 DEF FetchStep

----------------------------------------------------------------------------
(* How the steps keep the invariant.                                       *)

DataTyped == db \in [Urls -> {"absent"} \cup Stored] /\ outdated \subseteq Urls

FetchKept(c) == \A e \in Callers \ {c} : fetch'[e] = fetch[e]

LEMMA FetchUnchanged ==
    ASSUME FetchInv, UNCHANGED fetchVars
    PROVE  FetchInv'
BY DEF fetchVars, FetchInv, FetchTypeOK, RequestsAccounted, Requesting, FramesOK

\* The callers that do not move match their fetches as before.
LEMMA MatchKept ==
    ASSUME FetchMatches, NEW c \in Callers, FetchKept(c),
           \A e \in Callers \ {c} : stack'[e] = stack[e],
           IF At(c, "fetch")' THEN fetch'[c] # Idle /\ fetch'[c].mode = "object"
                              ELSE fetch'[c] = Idle
    PROVE  FetchMatches'
<1> SUFFICES ASSUME NEW e \in Callers, stack'[e] # <<>>
             PROVE  IF At(e, "fetch")' THEN fetch'[e] # Idle /\ fetch'[e].mode = "object"
                                       ELSE fetch'[e] = Idle
  BY DEF FetchMatches
<1>1. CASE e = c
  BY <1>1
<1>2. CASE e # c
  BY <1>2 DEF FetchMatches, FetchKept, At, Top
<1> QED
  BY <1>1, <1>2

\* The innermost dereference goes on.
LEMMA TopMoved ==
    ASSUME Inv, FetchInv', DbKept, DataTyped', NEW c \in Callers, stack[c] # <<>>,
           NEW d \in Dereferences, DereferenceOK(db', d), SetTop(c, d),
           FetchKept(c), UNCHANGED <<sent, outcome>>,
           IF d.at = "fetch" THEN fetch'[c] # Idle /\ fetch'[c].mode = "object"
                             ELSE fetch'[c] = Idle,
           d.at \in {"verify", "convert"} => HasPaid(c),
           d.at = "fetch" => ~ Answered(fetch'[c])
    PROVE  Inv'
<1>1. StackInv /\ FetchMatches /\ PaidInv /\ FetchTypeOK /\ TypeOK
  BY DEF Inv, FetchInv
<1>2. /\ StackInv' /\ stack'[c] # <<>> /\ Top(c)' = d
      /\ \A e \in Callers \ {c} : stack'[e] = stack[e]
      /\ Enclosing' = Enclosing
  BY <1>1, TopReplaced
<1>3. \A place : At(c, place)' <=> d.at = place
  BY <1>2 DEF At
<1>4. FetchMatches'
  BY <1>1, <1>2, <1>3, MatchKept
<1>5. HasPaid(c)' => HasPaid(c)
  BY <1>3 DEF HasPaid
<1>6. Paid' \subseteq Paid
  BY <1>2, <1>5, PaidOfOthers DEF FetchKept, Paid
<1>7. sent' \in Nat /\ sent' >= sent
  BY <1>1, LimitAssumption DEF FetchTypeOK
<1>8. PaidInv'
  BY <1>1, <1>2, <1>6, <1>7, NothingUsed
<1>9. TypeOK'
  BY <1>1, <1>2 DEF TypeOK, FetchInv, DataTyped, StackInv
<1> QED
  BY <1>2, <1>4, <1>8, <1>9 DEF Inv

\* The innermost dereference returns.
LEMMA ReturnKeeps ==
    ASSUME Inv, FetchInv', DbKept, DataTyped', NEW c \in Callers, stack[c] # <<>>,
           NEW r \in Outcomes, Return(c, r),
           FetchKept(c), fetch'[c] = Idle, UNCHANGED sent
    PROVE  Inv'
<1>1. StackInv /\ FetchMatches /\ PaidInv /\ FetchTypeOK /\ TypeOK
  BY DEF Inv, FetchInv
<1>2. /\ StackInv'
      /\ stack'[c] # <<>> => Top(c)'.at = "write"
      /\ \A e \in Callers \ {c} : stack'[e] = stack[e]
      /\ Enclosing' \subseteq Enclosing
  BY <1>1, StackPopped DEF Return
<1>3. \A place : At(c, place)' => place = "write"
  BY <1>2 DEF At
<1>4. FetchMatches'
  BY <1>1, <1>2, <1>3, MatchKept
<1>5. ~ HasPaid(c)'
  BY <1>3 DEF HasPaid
<1>6. Paid' \subseteq Paid
  BY <1>2, <1>5, PaidOfOthers DEF FetchKept, Paid
<1>7. sent' \in Nat /\ sent' >= sent
  BY <1>1, LimitAssumption DEF FetchTypeOK
<1>8. PaidInv'
  BY <1>1, <1>2, <1>6, <1>7, NothingUsed
<1>9. Top(c).op \in Operations /\ Top(c).id \in Urls
  BY <1>1, TopTyped DEF Dereferences
<1>10. outcome' \in [Callers -> [op : Operations, id : Urls, result : Outcomes]]
  BY <1>1, <1>9 DEF TypeOK, Return
<1>11. TypeOK'
  BY <1>1, <1>2, <1>10 DEF TypeOK, FetchInv, DataTyped, StackInv
<1> QED
  BY <1>2, <1>4, <1>8, <1>11 DEF Inv

\* Of a caller whose innermost dereference does not await its fetch.
LEMMA NotFetching ==
    ASSUME Inv, NEW c \in Callers, stack[c] # <<>>, ~ At(c, "fetch")
    PROVE  fetch[c] = Idle
BY DEF Inv, FetchMatches

LEMMA EnterOK ==
    ASSUME NEW op \in Operations, NEW u \in Urls, NEW store
    PROVE  /\ Enter(op, u) \in Dereferences /\ DereferenceOK(store, Enter(op, u))
           /\ Enter(op, u).at \in {"read", "begin"}
BY DEF Enter, Dereferences, DereferenceOK

\* A caller that does nothing begins a dereference.
LEMMA EnterKeeps ==
    ASSUME Inv, NEW c \in Callers, stack[c] = <<>>, fetch[c] = Idle,
           NEW op \in Operations, NEW u \in Urls,
           stack' = [stack EXCEPT ![c] = <<Enter(op, u)>>],
           outcome' \in [Callers -> [op : Operations, id : Urls, result : Outcomes]],
           UNCHANGED <<fetchVars, db, outdated>>
    PROVE  Inv'
<1>1. StackInv /\ FetchMatches /\ PaidInv /\ FetchTypeOK /\ TypeOK
  BY DEF Inv, FetchInv
<1> DEFINE e == Enter(op, u)
           s == <<e>>
<1>3. e \in Dereferences /\ DereferenceOK(db', e) /\ e.at \in {"read", "begin"}
  BY EnterOK
<1> HIDE DEF e
<1>4. /\ s \in Seq(Dereferences) /\ Len(s) = 1 /\ s[1] = e /\ Head(s) = e /\ s # <<>>
  BY <1>3
<1>5. /\ \A i \in 1 .. Len(s) : DereferenceOK(db', s[i])
      /\ \A i \in 2 .. Len(s) : s[i].at = "write"
  BY <1>3, <1>4
<1>6. DbKept /\ DataTyped' /\ FetchInv' /\ FetchKept(c) /\ UNCHANGED <<sent, fetch>>
  BY <1>1, FetchUnchanged DEF DbKept, DataTyped, FetchKept, TypeOK, fetchVars, Inv
<1>7. stack' = [stack EXCEPT ![c] = s]
  BY DEF e
<1> HIDE DEF s
<1>8. /\ StackInv' /\ stack'[c] = s
      /\ \A d \in Callers \ {c} : stack'[d] = stack[d]
  BY <1>1, <1>4, <1>5, <1>6, <1>7, StackReplaced
<1>9. Len(stack[c]) = 0
  OBVIOUS
<1>10. Enclosing' \subseteq Enclosing
  <2>1. ASSUME NEW d \in Callers, NEW i \in 2 .. Len(stack'[d])
        PROVE  <<d, i>> \in Enclosing
    <3>1. CASE d = c
      <4>1. Len(stack'[d]) = 1
        BY <1>4, <1>8, <3>1
      <4>2. i \in 2 .. 1
        BY <2>1, <4>1
      <4> QED
        BY <4>2
    <3>2. CASE d # c
      BY <1>8, <2>1, <3>2 DEF Enclosing
    <3> QED
      BY <3>1, <3>2
  <2> QED
    BY <2>1 DEF Enclosing
<1>11. \A place : At(c, place)' => place \in {"read", "begin"}
  BY <1>3, <1>4, <1>8 DEF At, Top
<1>13. FetchMatches'
  BY <1>1, <1>6, <1>8, <1>11, MatchKept
<1>14. Paid' \subseteq Paid
  BY <1>6, <1>8, <1>11, PaidOfOthers DEF FetchKept, HasPaid
<1>15. PaidInv'
  BY <1>1, <1>6, <1>10, <1>14, NothingUsed, LimitAssumption DEF FetchTypeOK
<1>16. TypeOK'
  BY <1>1, <1>6, <1>8 DEF TypeOK, FetchInv, DataTyped, StackInv
<1> QED
  BY <1>6, <1>8, <1>13, <1>15, <1>16 DEF Inv

LEMMA CallKeeps ==
    ASSUME Inv, Resting, NEW c \in Callers, Call(c)
    PROVE  Inv'
<1>1. outcome' \in [Callers -> [op : Operations, id : Urls, result : Outcomes]]
  BY DEF Inv, TypeOK, Call
<1>2. stack[c] = <<>> /\ fetch[c] = Idle /\ UNCHANGED <<fetchVars, db, outdated>>
  BY DEF Call, Resting
<1>3. PICK op \in Operations, u \in Urls :
          stack' = [stack EXCEPT ![c] = <<Enter(op, u)>>]
  BY DEF Call
<1> QED
  BY <1>1, <1>2, <1>3, EnterKeeps

LEMMA ReadKeeps ==
    ASSUME Inv, NEW c \in Callers, Read(c)
    PROVE  Inv'
<1>1. StackInv /\ TypeOK /\ stack[c] # <<>> /\ Top(c).at = "read"
  BY DEF Inv, Read, At
<1>2. Top(c) \in Dereferences /\ DereferenceOK(db, Top(c))
  BY <1>1, TopTyped
<1>3. fetch[c] = Idle
  <2>1. ~ At(c, "fetch")
    BY <1>1 DEF At
  <2> QED
    BY <1>1, <2>1, NotFetching
<1>4. /\ DbKept /\ DataTyped' /\ FetchInv' /\ FetchKept(c) /\ UNCHANGED <<db, sent>>
      /\ fetch'[c] = Idle
  BY <1>1, <1>3, FetchUnchanged
  DEF Read, DbKept, DataTyped, FetchKept, TypeOK, fetchVars, Inv
<1>5. ASSUME NEW r \in {"Ok", "NotFound", "Error"}, Return(c, r)
      PROVE  Inv'
  BY <1>1, <1>4, <1>5, ReturnKeeps DEF Outcomes
<1> DEFINE present == db[Top(c).id] \in Stored
           d == [Top(c) EXCEPT !.at = "begin",
                               !.held = IF present THEN db[Top(c).id] ELSE "none"]
<1>6. ASSUME present => ~ IsLocalUrl(Top(c).id), SetTop(c, d), UNCHANGED outcome
      PROVE  Inv'
  <2>1. d \in Dereferences /\ d.at = "begin"
    BY <1>2 DEF Dereferences
  <2>2. DereferenceOK(db', d)
    BY <1>2, <1>4, <1>6 DEF Dereferences, DereferenceOK
  <2> HIDE DEF d
  <2> QED
    BY <1>1, <1>4, <1>6, <2>1, <2>2, TopMoved
<1>7. \/ Return(c, "Ok") \/ Return(c, "NotFound") \/ Return(c, "Error")
      \/ (present => ~ IsLocalUrl(Top(c).id)) /\ SetTop(c, d) /\ UNCHANGED outcome
  BY DEF Read
<1> QED
  BY <1>5, <1>6, <1>7

LEMMA BeginFetchKeeps ==
    ASSUME Inv, NEW c \in Callers, BeginFetch(c)
    PROVE  Inv'
<1>1. /\ StackInv /\ TypeOK /\ FetchInv /\ FetchTypeOK
      /\ stack[c] # <<>> /\ Top(c).at = "begin"
  BY DEF Inv, FetchInv, BeginFetch, At
<1>2. Top(c) \in Dereferences /\ DereferenceOK(db, Top(c))
  BY <1>1, TopTyped
<1>3. Top(c).id \in Urls /\ Begin(c, Top(c).id, "object", FALSE)
  BY <1>2 DEF Dereferences, BeginFetch
<1>4. FetchInv'
  BY <1>1, <1>3, BeginKeeps DEF Modes
<1> DEFINE f == NewFrame(Top(c).id, "object", FALSE)
           d == [Top(c) EXCEPT !.at = "fetch"]
<1>5. fetch'[c] = f /\ FetchKept(c) /\ sent' = sent
  BY <1>1, <1>3, SetOthers DEF Begin, FetchKept
<1>6. f # Idle /\ f.mode = "object" /\ ~ Answered(f)
  BY DEF NewFrame, Idle, Answered
<1>7. d \in Dereferences /\ d.at = "fetch" /\ DereferenceOK(db', d)
  BY <1>2 DEF Dereferences, DereferenceOK, BeginFetch
<1>8. DbKept /\ DataTyped' /\ SetTop(c, d) /\ UNCHANGED outcome
  BY <1>1 DEF BeginFetch, DbKept, DataTyped, TypeOK
<1> HIDE DEF d, f
<1> QED
  BY <1>1, <1>4, <1>5, <1>6, <1>7, <1>8, TopMoved

\* The first answer is what the dereference is paid with.
LEMMA AwaitFetchKeeps ==
    ASSUME Inv, NEW c \in Callers, AwaitFetch(c)
    PROVE  Inv'
<1>1. /\ StackInv /\ TypeOK /\ FetchInv /\ FetchTypeOK /\ FetchMatches /\ PaidInv
      /\ At(c, "fetch") /\ FetchStep(c) /\ UNCHANGED <<db, outdated, stack, outcome>>
  BY DEF Inv, FetchInv, AwaitFetch
<1>2. FetchInv'
  BY <1>1, FetchStepKeeps
<1>3. StepShape(c)
  BY <1>1, FetchStepShape DEF FetchMatches, At
<1>4. StackInv' /\ Enclosing' = Enclosing /\ At(c, "fetch")'
  BY <1>1 DEF StackInv, Enclosing, At, Top
<1>5. FetchMatches'
  BY <1>1, <1>3, <1>4, MatchKept DEF StepShape, FetchKept
<1>6. sent \in Nat /\ sent' \in {sent, sent + 1}
  BY <1>1, <1>3, LimitAssumption DEF FetchTypeOK, StepShape
<1>7. \A e \in Callers \ {c} : stack'[e] = stack[e] /\ fetch'[e] = fetch[e]
  BY <1>1, <1>3 DEF StepShape
<1>8. PaidInv'
  <2>1. CASE sent' = sent
    <3>1. HasPaid(c)' => HasPaid(c)
      BY <1>1, <1>3, <1>6, <2>1 DEF HasPaid, At, Top, StepShape
    <3>2. Paid' \subseteq Paid
      BY <1>7, <3>1, PaidOfOthers DEF Paid
    <3> QED
      BY <1>1, <1>4, <1>6, <2>1, <3>2, NothingUsed
  <2>2. CASE sent' = sent + 1
    <3>1. Paid' \subseteq Paid \cup {c}
      BY <1>7, PaidOfOthers
    <3>2. IsFiniteSet(Paid \cup {c}) /\ Cardinality(Paid \cup {c}) <= Cardinality(Paid) + 1
          /\ Cardinality(Paid \cup {c}) \in Nat
      BY PaidFinite, FS_AddElement, FS_CardinalityType
    <3>3. Cardinality(Paid') <= Cardinality(Paid \cup {c}) /\ Cardinality(Paid') \in Nat
      BY <3>1, <3>2, FS_Subset, FS_CardinalityType
    <3> QED
      BY <1>1, <1>4, <1>6, <2>2, <3>2, <3>3, EnclosingFinite, PaidFinite DEF PaidInv
  <2> QED
    BY <1>6, <2>1, <2>2
<1>9. TypeOK'
  BY <1>1, <1>2 DEF TypeOK, FetchInv
<1> QED
  BY <1>2, <1>4, <1>5, <1>8, <1>9 DEF Inv

\* What was fetched as an object was answered, and is of a remote URL.
LEMMA FetchedKeeps ==
    ASSUME Inv, NEW c \in Callers, Fetched(c)
    PROVE  Inv'
<1>1. /\ StackInv /\ TypeOK /\ FetchInv /\ FetchTypeOK /\ FetchMatches
      /\ At(c, "fetch") /\ stack[c] # <<>> /\ Top(c).at = "fetch"
      /\ fetch[c].at = "done" /\ Set(c, Idle)
  BY DEF Inv, FetchInv, Fetched, At
<1>2. Top(c) \in Dereferences /\ DereferenceOK(db, Top(c))
  BY <1>1, TopTyped
<1>3. fetch[c] \in Frames /\ FrameOK(fetch[c]) /\ fetch[c].mode = "object"
  BY <1>1, FrameTyped DEF FetchMatches
<1>4. Idle.at = "idle"
  BY DEF Idle
<1>5. FetchInv'
  BY <1>1, <1>4, QuietStep DEF Fetched
<1>6. fetch'[c] = Idle /\ FetchKept(c) /\ UNCHANGED sent
  BY <1>1, SetOthers DEF FetchKept, Fetched
<1>7. DbKept /\ DataTyped' /\ UNCHANGED db
  BY <1>1 DEF Fetched, DbKept, DataTyped, TypeOK
<1>8. ASSUME NEW r \in Outcomes, Return(c, r)
      PROVE  Inv'
  BY <1>1, <1>5, <1>6, <1>7, <1>8, ReturnKeeps
<1>9. ASSUME NEW d \in Dereferences, DereferenceOK(db', d), SetTop(c, d),
             (d.at = "verify" /\ HasPaid(c)) \/ d.at = "delete", UNCHANGED outcome
      PROVE  Inv'
  BY <1>1, <1>5, <1>6, <1>7, <1>9, TopMoved
<1>10. CASE /\ fetch[c].result = "Object" /\ UNCHANGED outcome
            /\ SetTop(c, [Top(c) EXCEPT !.at = "verify", !.found = fetch[c].url])
  <2> DEFINE d == [Top(c) EXCEPT !.at = "verify", !.found = fetch[c].url]
  <2>1. HasPaid(c)
    BY <1>1, <1>10 DEF HasPaid, Answered
  <2>2. ~ IsLocalUrl(fetch[c].url) /\ fetch[c].url \in Urls
    BY <1>1, <1>3, <1>10 DEF FrameOK, Frames
  <2>3. d \in Dereferences /\ d.at = "verify" /\ DereferenceOK(db', d)
    BY <1>2, <1>7, <2>2 DEF Dereferences, DereferenceOK
  <2> QED
    BY <1>9, <1>10, <2>1, <2>3
<1>11. CASE /\ Top(c).held # "none" /\ UNCHANGED outcome
            /\ SetTop(c, [Top(c) EXCEPT !.at = "delete"])
  <2> DEFINE d == [Top(c) EXCEPT !.at = "delete"]
  <2>1. d \in Dereferences /\ d.at = "delete" /\ DereferenceOK(db', d)
    BY <1>2, <1>7, <1>11 DEF Dereferences, DereferenceOK
  <2> QED
    BY <1>9, <1>11, <2>1
<1>12. CASE \E r \in Outcomes : Return(c, r)
  BY <1>8, <1>12
<1>13. fetch[c].result = "Object" => ~ IsLocalUrl(fetch[c].url)
  BY <1>1, <1>3 DEF FrameOK
<1> QED
  BY <1>10, <1>11, <1>12, <1>13 DEF Fetched, FetchFailed, Outcomes

\* Of a dereference that awaits the application.
LEMMA NotBusy ==
    ASSUME Inv, NEW c \in Callers, NEW place \in {"delete", "verify", "convert", "write"},
           At(c, place), UNCHANGED fetchVars
    PROVE  /\ StackInv /\ TypeOK /\ FetchInv' /\ FetchKept(c) /\ UNCHANGED sent
           /\ fetch[c] = Idle /\ fetch'[c] = Idle
           /\ stack[c] # <<>> /\ Top(c).at = place
           /\ Top(c) \in Dereferences /\ DereferenceOK(db, Top(c))
<1>1. StackInv /\ TypeOK /\ stack[c] # <<>> /\ Top(c).at = place
  BY DEF Inv, At
<1>2. Top(c) \in Dereferences /\ DereferenceOK(db, Top(c))
  BY <1>1, TopTyped
<1>3. fetch[c] = Idle
  <2>1. ~ At(c, "fetch")
    BY <1>1 DEF At
  <2> QED
    BY <1>1, <2>1, NotFetching
<1>4. FetchInv' /\ FetchKept(c) /\ UNCHANGED sent /\ fetch'[c] = Idle
  BY <1>3, FetchUnchanged DEF FetchKept, fetchVars, Inv
<1> QED
  BY <1>1, <1>2, <1>3, <1>4

LEMMA DeleteKeeps ==
    ASSUME Inv, NEW c \in Callers, Delete(c)
    PROVE  Inv'
<1>1. /\ TypeOK /\ FetchInv' /\ FetchKept(c) /\ UNCHANGED sent /\ fetch'[c] = Idle
      /\ stack[c] # <<>> /\ Top(c) \in Dereferences
  BY NotBusy DEF Delete
<1>2. DbKept /\ DataTyped'
  BY <1>1 DEF Delete, DbKept, DataTyped, TypeOK, Stored, Dereferences
<1> QED
  BY <1>1, <1>2, ReturnKeeps DEF Delete, Outcomes

LEMMA VerifyObjectKeeps ==
    ASSUME Inv, NEW c \in Callers, VerifyObject(c)
    PROVE  Inv'
<1>1. /\ TypeOK /\ FetchInv' /\ FetchKept(c) /\ UNCHANGED sent /\ fetch'[c] = Idle
      /\ stack[c] # <<>> /\ Top(c).at = "verify"
      /\ Top(c) \in Dereferences /\ DereferenceOK(db, Top(c))
  BY NotBusy DEF VerifyObject
<1>2. DbKept /\ DataTyped' /\ UNCHANGED db
  BY <1>1 DEF VerifyObject, DbKept, DataTyped, TypeOK
<1>3. CASE Return(c, "Error")
  BY <1>1, <1>2, <1>3, ReturnKeeps DEF Outcomes
<1>4. CASE SetTop(c, [Top(c) EXCEPT !.at = "convert"]) /\ UNCHANGED outcome
  <2> DEFINE d == [Top(c) EXCEPT !.at = "convert"]
  <2>1. d \in Dereferences /\ d.at = "convert" /\ DereferenceOK(db', d)
    BY <1>1, <1>2 DEF Dereferences, DereferenceOK
  <2>2. HasPaid(c)
    BY DEF HasPaid, VerifyObject
  <2> HIDE DEF d
  <2> QED
    BY <1>1, <1>2, <1>4, <2>1, <2>2, TopMoved DEF d
<1> QED
  BY <1>3, <1>4 DEF VerifyObject

\* A nested dereference takes the place of the request that was paid.
LEMMA ConvertKeeps ==
    ASSUME Inv, NEW c \in Callers, Convert(c)
    PROVE  Inv'
<1>1. /\ StackInv /\ TypeOK /\ FetchInv' /\ FetchKept(c) /\ UNCHANGED sent
      /\ fetch[c] = Idle /\ fetch'[c] = Idle
      /\ stack[c] # <<>> /\ Top(c).at = "convert"
      /\ Top(c) \in Dereferences /\ DereferenceOK(db, Top(c))
  BY NotBusy DEF Convert
<1>2. DbKept /\ DataTyped' /\ UNCHANGED db
  BY <1>1 DEF Convert, DbKept, DataTyped, TypeOK
<1> DEFINE w == [Top(c) EXCEPT !.at = "write"]
<1>3. w \in Dereferences /\ w.at = "write" /\ DereferenceOK(db', w)
  BY <1>1, <1>2 DEF Dereferences, DereferenceOK
<1>4. \/ Return(c, "Error")
      \/ SetTop(c, w) /\ UNCHANGED outcome
      \/ /\ \E u \in Urls :
               stack' = [stack EXCEPT ![c] = <<Enter("dereference", u)>> \o [@ EXCEPT ![1] = w]]
         /\ UNCHANGED outcome
  BY DEF Convert
<1> HIDE DEF w
<1>5. CASE Return(c, "Error")
  BY <1>1, <1>2, <1>5, ReturnKeeps DEF Outcomes
<1>6. CASE SetTop(c, w) /\ UNCHANGED outcome
  BY <1>1, <1>2, <1>3, <1>6, TopMoved
<1>7. ASSUME NEW u \in Urls, UNCHANGED outcome,
             stack' = [stack EXCEPT ![c] = <<Enter("dereference", u)>> \o [@ EXCEPT ![1] = w]]
      PROVE  Inv'
  <2> DEFINE e == Enter("dereference", u)
  <2>1. e \in Dereferences /\ DereferenceOK(db', e) /\ e.at \in {"read", "begin"}
    BY EnterOK DEF Operations
  <2>2. stack' = [stack EXCEPT ![c] = <<e>> \o [@ EXCEPT ![1] = w]]
    BY <1>7
  <2> HIDE DEF e
  <2>3. /\ StackInv' /\ stack'[c] # <<>> /\ Top(c)' = e
        /\ \A d \in Callers \ {c} : stack'[d] = stack[d]
        /\ Enclosing' \subseteq Enclosing \cup {<<c, Len(stack[c]) + 1>>}
    BY <1>1, <1>2, <1>3, <2>1, <2>2, StackPushed
  <2>4. \A place : At(c, place)' => place \in {"read", "begin"}
    BY <2>1, <2>3 DEF At
  <2>5. FetchMatches'
    BY <1>1, <2>3, <2>4, MatchKept DEF Inv
  <2>6. Paid' \subseteq Paid \ {c} /\ c \in Paid
    BY <1>1, <2>3, <2>4, PaidOfOthers DEF FetchKept, HasPaid, Paid, At
  <2>7. Cardinality(Paid') <= Cardinality(Paid) - 1 /\ Cardinality(Paid') \in Nat
    <3>1. IsFiniteSet(Paid \ {c}) /\ Cardinality(Paid \ {c}) = Cardinality(Paid) - 1
      BY <2>6, PaidFinite, FS_RemoveElement
    <3> QED
      BY <2>6, <3>1, FS_Subset, FS_CardinalityType
  <2>8. Cardinality(Enclosing') <= Cardinality(Enclosing) + 1 /\ Cardinality(Enclosing') \in Nat
    <3> DEFINE p == <<c, Len(stack[c]) + 1>>
               more == Enclosing \cup {p}
    <3> HIDE DEF p
    <3>1. /\ IsFiniteSet(more) /\ Cardinality(more) <= Cardinality(Enclosing) + 1
          /\ Cardinality(more) \in Nat
      <4>1. IsFiniteSet(Enclosing) /\ Cardinality(Enclosing) \in Nat
        BY <1>1, EnclosingFinite
      <4> HIDE DEF p
      <4>2. /\ IsFiniteSet(more)
            /\ \/ Cardinality(more) = Cardinality(Enclosing)
               \/ Cardinality(more) = Cardinality(Enclosing) + 1
        BY <4>1, FS_AddElement
      <4> QED
        BY <4>1, <4>2
    <3>2. Enclosing' \subseteq more
      BY <2>3 DEF p
    <3> HIDE DEF more
    <3>3. Cardinality(Enclosing') <= Cardinality(more) /\ Cardinality(Enclosing') \in Nat
      BY <3>1, <3>2, FS_Subset, FS_CardinalityType
    <3> QED
      BY <1>1, <3>1, <3>3, EnclosingFinite
  <2>9. sent \in Nat /\ PaidInv
    BY LimitAssumption DEF Inv, FetchInv, FetchTypeOK
  <2>10. PaidInv'
    BY <1>1, <2>7, <2>8, <2>9, EnclosingFinite, PaidFinite DEF PaidInv
  <2>11. TypeOK'
    BY <1>1, <1>2, <1>7, <2>3 DEF TypeOK, FetchInv, DataTyped, StackInv
  <2> QED
    BY <1>1, <2>3, <2>5, <2>10, <2>11 DEF Inv
<1> QED
  BY <1>4, <1>5, <1>6, <1>7

LEMMA WriteKeeps ==
    ASSUME Inv, NEW c \in Callers, Write(c)
    PROVE  Inv'
<1>1. /\ TypeOK /\ FetchInv' /\ FetchKept(c) /\ UNCHANGED sent /\ fetch'[c] = Idle
      /\ stack[c] # <<>> /\ Top(c) \in Dereferences
  BY NotBusy DEF Write
<1>2. DbKept /\ DataTyped'
  BY <1>1 DEF Write, DbKept, DataTyped, TypeOK, Stored, Dereferences
<1>3. Return(c, "Ok") \/ Return(c, "Error")
  BY DEF Write
<1> QED
  BY <1>1, <1>2, <1>3, ReturnKeeps DEF Outcomes

\* What happens to the database meanwhile disturbs no dereference.
LEMMA MeanwhileKeeps ==
    ASSUME Inv, NEW u \in Urls, Age(u) \/ ReceiveDelete(u)
    PROVE  Inv'
<1>1. TypeOK /\ StackInv /\ UNCHANGED <<fetchVars, stack, outcome>>
  BY DEF Inv, Age, ReceiveDelete
<1>2. DbKept /\ DataTyped'
  BY <1>1 DEF Age, ReceiveDelete, DbKept, DataTyped, TypeOK, Stored
<1>3. StackInv'
  <2>1. ASSUME NEW c \in Callers, NEW i \in 1 .. Len(stack[c])
        PROVE  DereferenceOK(db', stack[c][i])
    <3>1. stack[c][i] \in Dereferences /\ DereferenceOK(db, stack[c][i])
      BY <1>1, <2>1, ElementOfSeq DEF StackInv
    <3> QED
      BY <1>2, <3>1, HeldKept
  <2> QED
    BY <1>1, <2>1 DEF StackInv
<1>4. FetchInv'
  BY <1>1, FetchUnchanged DEF Inv
<1>5. FetchMatches' /\ PaidInv'
  BY <1>1 DEF Inv, FetchMatches, PaidInv, At, Top, Enclosing, Paid, HasPaid, Answered,
              fetchVars
<1>6. TypeOK'
  BY <1>1, <1>2, <1>4 DEF TypeOK, FetchInv, DataTyped
<1> QED
  BY <1>3, <1>4, <1>5, <1>6 DEF Inv

LEMMA InitOK == Init => Inv
<1> SUFFICES ASSUME Init PROVE Inv
  OBVIOUS
<1>1. FetchInv
  BY FetchInitOK DEF Init
<1>2. \A c \in Callers : stack[c] = <<>> /\ Len(stack[c]) = 0 /\ fetch[c] = Idle
  BY DEF Init, FetchInit
<1>3. stack \in [Callers -> Seq(Dereferences)]
  BY DEF Init
<1>4. StackInv /\ FetchMatches
  BY <1>2, <1>3 DEF StackInv, FetchMatches, At
<1>5. Enclosing = {} /\ Paid = {}
  BY <1>2 DEF Enclosing, Paid, HasPaid, At
<1>6. PaidInv
  BY <1>5, FS_EmptySet DEF PaidInv, Init, FetchInit
<1>7. TypeOK
  <2>1. outcome \in [Callers -> [op : Operations, id : Urls, result : Outcomes]]
    <3> DEFINE first == CHOOSE u \in Urls : TRUE
    <3>1. first \in Urls
      BY UrlsAssumption
    <3> HIDE DEF first
    <3> QED
      BY <3>1 DEF Init, Operations, Outcomes, first
  <2> QED
    BY <1>1, <1>3, <2>1 DEF TypeOK, Init, FetchInv, Stored
<1> QED
  BY <1>1, <1>4, <1>6, <1>7 DEF Inv

LEMMA StepKeeps ==
    ASSUME Inv, NEW c \in Callers, Step(c)
    PROVE  Inv'
BY ReadKeeps, BeginFetchKeeps, AwaitFetchKeeps, FetchedKeeps, DeleteKeeps,
   VerifyObjectKeeps, ConvertKeeps, WriteKeeps DEF Step

LEMMA NextKeeps ==
    ASSUME Inv, Resting, Next
    PROVE  Inv'
BY StepKeeps, CallKeeps, MeanwhileKeeps DEF Next

LEMMA StutterKeeps ==
    ASSUME Inv, UNCHANGED vars
    PROVE  Inv'
<1>1. UNCHANGED <<fetchVars, db, outdated, stack, outcome>>
  BY DEF vars
<1>2. FetchInv'
  BY <1>1, FetchUnchanged DEF Inv
<1> QED
  BY <1>1, <1>2 DEF Inv, TypeOK, FetchInv, StackInv, FetchMatches, PaidInv, At, Top,
     Enclosing, Paid, HasPaid, Answered, fetchVars

----------------------------------------------------------------------------
(* What a step is to its caller and to the others.                         *)

\* The id of the outermost dereference.
OuterId(c) == stack[c][Len(stack[c])].id

\* The caller's innermost dereference returns, goes on, begins another one, or
\* awaits its fetch.
ReturnOf(c) ==
    /\ \E r \in Outcomes : Return(c, r)
    /\ fetch'[c] = Idle

GoOn(c) ==
    /\ \E d \in Dereferences : d.id = Top(c).id /\ SetTop(c, d)
    /\ UNCHANGED outcome

Nest(c) ==
    /\ \E e \in Dereferences, w \in Dereferences :
          /\ w.id = Top(c).id
          /\ stack' = [stack EXCEPT ![c] = <<e>> \o [@ EXCEPT ![1] = w]]
    /\ UNCHANGED outcome

LEMMA StepCases ==
    ASSUME Inv, NEW c \in Callers, Step(c)
    PROVE  /\ stack[c] # <<>> /\ FetchKept(c)
           /\ ReturnOf(c) \/ GoOn(c) \/ Nest(c) \/ UNCHANGED <<stack, outcome>>
<1>1. stack[c] # <<>>
  BY DEF Step, Read, BeginFetch, AwaitFetch, Fetched, Delete, VerifyObject, Convert, Write, At
<1>2. Top(c) \in Dereferences /\ FetchTypeOK /\ FetchInv /\ FetchMatches
  BY <1>1, TopTyped DEF Inv, FetchInv
<1>3. ASSUME ~ At(c, "fetch"), UNCHANGED fetchVars
      PROVE  FetchKept(c) /\ fetch'[c] = Idle
  BY <1>1, <1>3, NotFetching DEF fetchVars, FetchKept
<1>4. \A place, other : At(c, place) /\ At(c, other) => place = other
  BY DEF At
<1>5. CASE Read(c)
  <2> DEFINE d == [Top(c) EXCEPT !.at = "begin",
                     !.held = IF db[Top(c).id] \in Stored THEN db[Top(c).id] ELSE "none"]
  <2>1. d \in Dereferences /\ d.id = Top(c).id
    BY <1>2 DEF Dereferences
  <2>2. FetchKept(c) /\ fetch'[c] = Idle
    BY <1>3, <1>4, <1>5 DEF Read
  <2>3. \/ Return(c, "Ok") \/ Return(c, "NotFound") \/ Return(c, "Error")
        \/ SetTop(c, d) /\ UNCHANGED outcome
    BY <1>5 DEF Read
  <2> HIDE DEF d
  <2> QED
    BY <1>1, <2>1, <2>2, <2>3 DEF ReturnOf, GoOn, Outcomes
<1>6. CASE BeginFetch(c)
  <2> DEFINE d == [Top(c) EXCEPT !.at = "fetch"]
  <2>1. d \in Dereferences /\ d.id = Top(c).id
    BY <1>2 DEF Dereferences
  <2>2. SetTop(c, d) /\ UNCHANGED outcome
    BY <1>6 DEF BeginFetch
  <2>3. FetchKept(c)
    BY <1>2, <1>6, SetOthers DEF BeginFetch, Begin, FetchKept
  <2> HIDE DEF d
  <2> QED
    BY <1>1, <2>1, <2>2, <2>3 DEF GoOn
<1>7. CASE AwaitFetch(c)
  <2>1. fetch[c].mode = "object"
    BY <1>1, <1>2, <1>7 DEF AwaitFetch, FetchMatches
  <2> QED
    BY <1>1, <1>2, <1>7, <2>1, FetchStepShape DEF AwaitFetch, StepShape, FetchKept
<1>8. CASE Fetched(c)
  <2>1. FetchKept(c) /\ fetch'[c] = Idle
    BY <1>2, <1>8, SetOthers DEF Fetched, FetchKept
  <2>2. fetch[c] \in Frames
    BY <1>2, <1>8, FrameTyped DEF Fetched, Idle
  <2> DEFINE v == [Top(c) EXCEPT !.at = "verify", !.found = fetch[c].url]
             x == [Top(c) EXCEPT !.at = "delete"]
  <2>3. /\ v \in Dereferences /\ v.id = Top(c).id
        /\ x \in Dereferences /\ x.id = Top(c).id
    BY <1>2, <2>2 DEF Dereferences, Frames
  <2>4. \/ SetTop(c, v) /\ UNCHANGED outcome
        \/ SetTop(c, x) /\ UNCHANGED outcome
        \/ \E r \in Outcomes : Return(c, r)
    BY <1>8 DEF Fetched, FetchFailed, Outcomes
  <2> HIDE DEF v, x
  <2> QED
    BY <1>1, <2>1, <2>3, <2>4 DEF ReturnOf, GoOn
<1>9. CASE Delete(c) \/ Write(c)
  <2>1. FetchKept(c) /\ fetch'[c] = Idle
    BY <1>3, <1>4, <1>9 DEF Delete, Write
  <2> QED
    BY <1>1, <1>9, <2>1 DEF Delete, Write, ReturnOf, Outcomes
<1>10. CASE VerifyObject(c)
  <2> DEFINE d == [Top(c) EXCEPT !.at = "convert"]
  <2>1. d \in Dereferences /\ d.id = Top(c).id
    BY <1>2 DEF Dereferences
  <2>2. FetchKept(c) /\ fetch'[c] = Idle
    BY <1>3, <1>4, <1>10 DEF VerifyObject
  <2>3. Return(c, "Error") \/ (SetTop(c, d) /\ UNCHANGED outcome)
    BY <1>10 DEF VerifyObject
  <2> HIDE DEF d
  <2> QED
    BY <1>1, <2>1, <2>2, <2>3 DEF ReturnOf, GoOn, Outcomes
<1>11. CASE Convert(c)
  <2> DEFINE w == [Top(c) EXCEPT !.at = "write"]
  <2>1. w \in Dereferences /\ w.id = Top(c).id
    BY <1>2 DEF Dereferences
  <2>2. FetchKept(c) /\ fetch'[c] = Idle
    BY <1>3, <1>4, <1>11 DEF Convert
  <2>3. \/ Return(c, "Error")
        \/ SetTop(c, w) /\ UNCHANGED outcome
        \/ /\ \E u \in Urls :
                 stack' = [stack EXCEPT ![c] =
                              <<Enter("dereference", u)>> \o [@ EXCEPT ![1] = w]]
           /\ UNCHANGED outcome
    BY <1>11 DEF Convert
  <2>4. \A u \in Urls : Enter("dereference", u) \in Dereferences
    BY EnterOK DEF Operations
  <2> HIDE DEF w
  <2> QED
    BY <1>1, <2>1, <2>2, <2>3, <2>4 DEF ReturnOf, GoOn, Nest, Outcomes
<1> QED
  BY <1>5, <1>6, <1>7, <1>8, <1>9, <1>10, <1>11 DEF Step

\* A step concerns its caller alone; the outermost dereference stays the same
\* until it returns, and then no fetch is left.
LEMMA StepIsOwn ==
    ASSUME Inv, NEW c \in Callers, Step(c)
    PROVE  /\ stack[c] # <<>>
           /\ \A e \in Callers \ {c} : /\ stack'[e] = stack[e]
                                       /\ fetch'[e] = fetch[e]
                                       /\ outcome'[e] = outcome[e]
           /\ stack'[c] # <<>> => OuterId(c)' = OuterId(c)
           /\ stack'[c] = <<>> => fetch'[c] = Idle /\ outcome'[c].id = OuterId(c)
<1>1. /\ stack[c] # <<>> /\ FetchKept(c)
      /\ ReturnOf(c) \/ GoOn(c) \/ Nest(c) \/ UNCHANGED <<stack, outcome>>
  BY StepCases
<1>2. /\ stack \in [Callers -> Seq(Dereferences)]
      /\ outcome \in [Callers -> [op : Operations, id : Urls, result : Outcomes]]
  BY DEF Inv, TypeOK
<1>3. stack[c] \in Seq(Dereferences) /\ Len(stack[c]) >= 1 /\ Len(stack[c]) \in Nat
      /\ Top(c) = stack[c][1]
  BY <1>1, TopTyped DEF Inv
<1>4. CASE ReturnOf(c)
  <2>1. PICK r \in Outcomes : Return(c, r)
    BY <1>4 DEF ReturnOf
  <2> DEFINE s == Tail(stack[c])
  <2>2. /\ s \in Seq(Dereferences) /\ Len(s) = Len(stack[c]) - 1
        /\ \A i \in 1 .. Len(s) : s[i] = stack[c][i + 1]
    BY <1>1, <1>3, HeadTailProperties
  <2>3. stack'[c] = s /\ outcome'[c].id = Top(c).id
        /\ \A e \in Callers \ {c} : stack'[e] = stack[e] /\ outcome'[e] = outcome[e]
    BY <1>2, <2>1 DEF Return
  <2> HIDE DEF s
  <2>4. CASE s = <<>>
    <3>1. Len(stack[c]) = 1
      BY <1>3, <2>2, <2>4
    <3> QED
      BY <1>1, <1>3, <1>4, <2>3, <2>4, <3>1 DEF OuterId, FetchKept, ReturnOf
  <2>5. CASE s # <<>>
    <3>1. Len(s) \in 1 .. Len(s) /\ Len(s) + 1 = Len(stack[c])
      BY <1>3, <2>2, <2>5
    <3>2. s[Len(s)] = stack[c][Len(stack[c])]
      BY <2>2, <3>1
    <3> QED
      BY <1>1, <2>3, <2>5, <3>2 DEF OuterId, FetchKept
  <2> QED
    BY <2>4, <2>5
<1>5. CASE GoOn(c)
  <2>1. PICK d \in Dereferences : d.id = Top(c).id /\ SetTop(c, d)
    BY <1>5 DEF GoOn
  <2> DEFINE s == [stack[c] EXCEPT ![1] = d]
  <2>2. /\ s \in Seq(Dereferences) /\ Len(s) = Len(stack[c])
        /\ \A j \in 1 .. Len(stack[c]) : s[j] = IF j = 1 THEN d ELSE stack[c][j]
    BY <1>3, ExceptSeq
  <2>3. stack'[c] = s /\ \A e \in Callers \ {c} : stack'[e] = stack[e]
    BY <1>2, <2>1 DEF SetTop
  <2> HIDE DEF s
  <2>4. s[Len(s)].id = stack[c][Len(stack[c])].id
    <3>1. Len(stack[c]) \in 1 .. Len(stack[c])
      BY <1>3
    <3> QED
      BY <1>3, <2>1, <2>2, <3>1
  <2>5. s # <<>>
    BY <1>3, <2>2
  <2> QED
    BY <1>1, <1>5, <2>3, <2>4, <2>5 DEF OuterId, FetchKept, GoOn
<1>6. CASE Nest(c)
  <2>1. PICK e \in Dereferences, w \in Dereferences :
           /\ w.id = Top(c).id
           /\ stack' = [stack EXCEPT ![c] = <<e>> \o [@ EXCEPT ![1] = w]]
    BY <1>6 DEF Nest
  <2> DEFINE r == [stack[c] EXCEPT ![1] = w]
             s == <<e>> \o r
  <2>2. /\ r \in Seq(Dereferences) /\ Len(r) = Len(stack[c])
        /\ \A j \in 1 .. Len(stack[c]) : r[j] = IF j = 1 THEN w ELSE stack[c][j]
    BY <1>3, ExceptSeq
  <2>3. stack'[c] = s /\ \A d \in Callers \ {c} : stack'[d] = stack[d]
    BY <1>2, <2>1
  <2> HIDE DEF r
  <2>4. <<e>> \in Seq(Dereferences) /\ Len(<<e>>) = 1
    OBVIOUS
  <2>5. /\ Len(s) = 1 + Len(r)
        /\ \A i \in 1 .. 1 + Len(r) : s[i] = IF i <= 1 THEN <<e>>[i] ELSE r[i - 1]
    BY <2>2, <2>4, ConcatProperties
  <2> HIDE DEF s
  <2>6. s[Len(s)].id = stack[c][Len(stack[c])].id
    <3>1. Len(s) \in 1 .. 1 + Len(r) /\ ~ Len(s) <= 1 /\ Len(s) - 1 = Len(r)
      BY <1>3, <2>2, <2>5
    <3>2. s[Len(s)] = r[Len(r)]
      BY <2>5, <3>1
    <3>3. r[Len(r)].id = stack[c][Len(stack[c])].id
      <4>1. Len(stack[c]) \in 1 .. Len(stack[c])
        BY <1>3
      <4> QED
        BY <1>3, <2>1, <2>2, <4>1
    <3> QED
      BY <3>2, <3>3
  <2>7. s # <<>>
    BY <1>3, <2>2, <2>5
  <2> QED
    BY <1>1, <1>6, <2>3, <2>6, <2>7 DEF OuterId, FetchKept, Nest
<1>7. CASE UNCHANGED <<stack, outcome>>
  BY <1>1, <1>7 DEF OuterId, FetchKept
<1> QED
  BY <1>1, <1>4, <1>5, <1>6, <1>7

LEMMA RestingKept ==
    ASSUME Inv, Resting, [Next]_vars
    PROVE  Resting'
<1>1. ASSUME NEW c \in Callers, Step(c) PROVE Resting'
  BY <1>1, StepIsOwn DEF Resting
<1>2. ASSUME NEW c \in Callers, Call(c) PROVE Resting'
  <2>1. fetch' = fetch /\ \A e \in Callers : stack'[e] = <<>> => stack[e] = <<>>
    BY <1>2 DEF Call, fetchVars, Inv, TypeOK
  <2> QED
    BY <2>1 DEF Resting
<1>3. ASSUME UNCHANGED <<stack, fetchVars>> PROVE Resting'
  BY <1>3 DEF Resting, fetchVars
<1> QED
  BY <1>1, <1>2, <1>3 DEF Next, Age, ReceiveDelete, vars

----------------------------------------------------------------------------
(* The theorems.                                                           *)

\* The inductive invariant of ObjectId.
THEOREM ObjectInvariant == SafeSpec => []Inv
<1>1. (Inv /\ Resting) /\ [Next]_vars => (Inv /\ Resting)'
  BY NextKeeps, StutterKeeps, RestingKept
<1>2. Init => Inv /\ Resting
  BY InitOK DEF Init, FetchInit, Resting
<1> QED
  BY <1>1, <1>2, PTL DEF SafeSpec

\* Dereferences, fetches and the database keep their types; of the fetches
\* that includes that no request beyond http_fetch_limit is executed, however
\* dereferences nest.
THEOREM ObjectTypesKept == SafeSpec => []TypeOK
<1>1. Inv => TypeOK
  BY DEF Inv
<1> QED
  BY <1>1, ObjectInvariant, PTL

\* However from_json nests dereferences, none of them sends a request to a URL
\* that verify_url_valid refuses, or takes an outcome for one of this instance.
THEOREM DereferencesVerified == SafeSpec => []OnlyVerifiedRemote
<1>1. Inv => OnlyVerifiedRemote
  BY InvVerifies DEF Inv
<1> QED
  BY <1>1, ObjectInvariant, PTL

LEMMA InvPaysForRecursion == Inv => RecursionPaidFor
<1> SUFFICES ASSUME Inv PROVE RecursionPaidFor
  OBVIOUS
<1>1. StackInv /\ PaidInv /\ sent \in Nat
  BY LimitAssumption DEF Inv, FetchInv, FetchTypeOK
<1> QED
  BY <1>1, EnclosingFinite, PaidFinite DEF PaidInv, RecursionPaidFor

\* The recursion of from_json (fetch/object_id.rs:187, traits/mod.rs) is
\* never deeper, over all callers, than the requests already used up; so
\* http_fetch_limit bounds it however objects refer to each other.
THEOREM RecursionBounded == SafeSpec => []RecursionPaidFor
BY InvPaysForRecursion, ObjectInvariant, PTL

\* The refinement: a step stores or marks as deleted one object of another
\* instance, or leaves the database alone.
LEMMA StepIsStoreStep ==
    ASSUME Inv, Next
    PROVE  Store!Next \/ UNCHANGED db
<1> DEFINE Remote == Urls \ {u \in Urls : IsLocalUrl(u)}
<1>1. ASSUME NEW c \in Callers, Delete(c)
      PROVE  Store!Next \/ UNCHANGED db
  <2>1. Top(c) \in Dereferences /\ DereferenceOK(db, Top(c)) /\ Top(c).at = "delete"
    BY <1>1, TopTyped DEF Inv, Delete, At
  <2>2. Top(c).id \in Remote /\ db[Top(c).id] # "absent"
    BY <2>1 DEF DereferenceOK, Dereferences, Stored
  <2> QED
    BY <1>1, <2>2 DEF Delete, Store!Next, Store!MarkDeleted
<1>2. ASSUME NEW c \in Callers, Write(c)
      PROVE  Store!Next \/ UNCHANGED db
  <2>1. Top(c) \in Dereferences /\ DereferenceOK(db, Top(c)) /\ Top(c).at = "write"
    BY <1>2, TopTyped DEF Inv, Write, At
  <2>2. Top(c).found \in Remote
    BY <2>1 DEF DereferenceOK, Dereferences
  <2> QED
    BY <1>2, <2>2 DEF Write, Store!Next, Store!Store
<1>3. ASSUME NEW u \in Urls, ReceiveDelete(u)
      PROVE  Store!Next
  BY <1>3 DEF ReceiveDelete, Store!Next, Store!MarkDeleted
<1>4. ASSUME NEW c \in Callers,
             \/ Call(c) \/ Read(c) \/ BeginFetch(c) \/ AwaitFetch(c) \/ Fetched(c)
             \/ VerifyObject(c) \/ Convert(c)
      PROVE  UNCHANGED db
  BY <1>4 DEF Call, Read, BeginFetch, AwaitFetch, Fetched, VerifyObject, Convert
<1>5. ASSUME NEW u \in Urls, Age(u) PROVE UNCHANGED db
  BY <1>5 DEF Age
<1> QED
  BY <1>1, <1>2, <1>3, <1>4, <1>5 DEF Next, Step

\* ObjectId implements ObjectStore: no answer of a server and no order of
\* dereferences overwrites or deletes an object of this instance.
THEOREM StoreIsKept == SafeSpec => StoreKept
<1>1. Init => Store!Init
  BY DEF Init, Store!Init
<1>2. Inv /\ [Next]_vars => [Store!Next]_db
  BY StepIsStoreStep DEF vars
<1> QED
  BY <1>1, <1>2, ObjectInvariant, PTL DEF SafeSpec, StoreKept, Store!SafeSpec
=============================================================================
