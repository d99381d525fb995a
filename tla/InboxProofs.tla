---------------------------- MODULE InboxProofs ----------------------------
(***************************************************************************)
(* Proofs about Inbox, for any actors, bodies, ways to sign, faults and    *)
(* numbers of handlers, requests and keys.                                 *)
(***************************************************************************)
EXTENDS Inbox, SequenceTheorems, TLAPS

(***************************************************************************)
(* The data.                                                               *)
(***************************************************************************)
Algorithms == {"sha-256"} \cup UNION {style.algorithms : style \in Styles}

Digests == [algorithm : Algorithms, of : Bodies]

DigestHeaders == [readable : BOOLEAN, parts : SUBSET Digests]

Fields ==
    Targets \cup {"none"} \cup Int
        \cup {MappedDigest([digest |-> d]) : d \in Seq(DigestHeaders)}

Strings == UNION {[C -> Fields] : C \in SUBSET CoveredNames}

PublicKeys == [owner : Actors, version : Nat]

KeyIds == {MainKeyId(a) : a \in Actors} \cup {KeyId[a] : a \in Actors}

Signatures ==
    [legible : BOOLEAN, keyId : KeyIds, covers : SUBSET CoveredNames, created : Int,
     expires : Int, key : PublicKeys, string : Strings]

Requests ==
    [target : Targets \cup {"none"}, date : Int, digest : Seq(DigestHeaders), body : Bodies,
     signature : Signatures]

ActorRecords == [id : Actors, key : PublicKeys, persists : BOOLEAN, publicKeyId : KeyIds]

HandlerRecords ==
    [at : Places, request : Requests, actor : ActorRecords,
     how : {"none", "resolver", "recent", "held", "fetched"}, held : CopyRecords,
     resolved : Nat, checked : Nat, answer : Answers]

(***************************************************************************)
(* The invariant.  A key was not retired before a time t; a request was    *)
(* signed with one Digest header, at its date; a copy was fetched while    *)
(* its key was in use; and of a handler, what each place relies on.        *)
(***************************************************************************)
InUseAt(a, version, t) ==
    /\ version <= Len(keys[a])
    /\ version < Len(keys[a]) => t <= keys[a][version + 1]

SignedOK(r) ==
    /\ r \in Requests /\ r.target \in Targets
    /\ r.signature.string = SigningString(r)
    /\ Len(r.digest) = 1 /\ r.digest[1].readable
    /\ \A part \in r.digest[1].parts : part.of = r.body
    /\ r.date \in Nat
    /\ "(created)" \in r.signature.covers => r.signature.created = r.date

CopyOK(a, copy) ==
    /\ copy \in CopyRecords
    /\ copy.fetched <= copy.refreshed /\ copy.refreshed <= now
    /\ InUseAt(a, copy.version, copy.fetched)

HandlerOK(k) ==
    /\ k \in HandlerRecords
    /\ k.actor.key.owner = k.actor.id /\ k.actor.publicKeyId = KeyId[k.actor.id]
    /\ k.actor.persists <=> k.actor.id \in Persists
    /\ k.actor.key.version <= Len(keys[k.actor.id])
    /\ k.at # "idle" => \E r \in net : SameSignature(k.request, r)
    /\ k.at \in {"resolve", "read", "fetch", "delete"} => k.request.body.actor \in Actors
    /\ k.at \in {"fetch", "delete"} => CopyOK(k.request.body.actor, k.held)
    /\ k.at \in {"store", "check", "verify", "verified"} =>
          k.actor.id \in {k.request.body.actor, Resolved[k.request.body.actor]}
    /\ k.at = "store" \/ (k.at = "check" /\ k.how = "fetched") =>
          k.resolved <= now /\ InUseAt(k.actor.id, k.actor.key.version, k.resolved)
    /\ k.at = "check" => k.how # "none"
    /\ k.at = "check" /\ k.how = "recent" =>
          /\ k.held.fetched <= now
          /\ k.actor.id \in Undated \/ k.resolved <= k.held.refreshed + RefetchAfter
          /\ InUseAt(k.actor.id, k.actor.key.version, k.held.fetched)
    /\ k.at \in {"verify", "verified"} =>
          /\ VerifyBodyHash(k.request) /\ ReadableDigests(k.request) # {}
          /\ "digest" \in k.request.signature.covers
          /\ k.request.signature.key = k.actor.key
          /\ k.request.signature.string = SigningString(k.request)
          /\ \E r \in net : /\ SameSignature(k.request, r)
                            /\ k.checked <= r.date + ExpiresAfter

InboxInv ==
    /\ now \in Nat
    /\ keys \in [Actors -> Seq(0 .. now)]
    /\ gone \subseteq Actors
    /\ copies \in [Actors -> CopyRecords] /\ \A a \in Actors : CopyOK(a, copies[a])
    /\ \A r \in net : SignedOK(r)
    /\ handler \in [Handlers -> HandlerRecords] /\ \A h \in Handlers : HandlerOK(handler[h])

----------------------------------------------------------------------------
(* Signing, and what the network can do.                                   *)

LEMMA SameMapped ==
    ASSUME NEW q, NEW r, q.digest = r.digest
    PROVE  MappedDigest(q) = MappedDigest(r)
<1>1. ReadableDigests(q) = ReadableDigests(r)
  BY DEF ReadableDigests
<1> QED
  BY <1>1 DEF MappedDigest

\* Both readings of a single Digest header agree.
LEMMA OneDigest ==
    ASSUME NEW r, r.digest \in Seq(DigestHeaders), Len(r.digest) = 1, ReadableDigests(r) # {}
    PROVE  MappedDigest(r) = FirstDigest(r) /\ FirstDigest(r) = r.digest[1].parts
<1>1. DOMAIN r.digest = {1} /\ r.digest # <<>> /\ Head(r.digest) = r.digest[1]
  <2>1. PICK s \in Seq(DigestHeaders) : s = r.digest
    OBVIOUS
  <2>2. DOMAIN s = 1 .. 1
    BY <2>1, LenProperties
  <2>3. s # <<>>
    <3>1. Len(s) = 1 /\ Len(<<>>) = 0
      BY <2>1
    <3> QED
      BY <3>1
  <2>4. Head(s) = s[1]
    BY <2>1, <2>3, HeadTailProperties
  <2> QED
    BY <2>1, <2>2, <2>3, <2>4
<1>2. ReadableDigests(r) = {1} /\ r.digest[1].readable
  BY <1>1 DEF ReadableDigests
<1>3. (CHOOSE i \in {1} : \A j \in {1} : j <= i) = 1
  OBVIOUS
<1>4. MappedDigest(r) = r.digest[1].parts
  BY <1>2, <1>3 DEF MappedDigest
<1> QED
  BY <1>1, <1>2, <1>4 DEF FirstDigest

LEMMA HeaderTyped ==
    ASSUME NEW algorithms, algorithms \subseteq Algorithms, NEW b \in Bodies
    PROVE  /\ DigestHeader(algorithms, b) \in DigestHeaders
           /\ DigestHeader(algorithms, b).readable
           /\ \A part \in DigestHeader(algorithms, b).parts : part.of = b
BY DEF DigestHeader, DigestHeaders, Digests

LEMMA DigestValuesTyped == DigestValues \subseteq DigestHeaders
<1>1. Unreadable \in DigestHeaders
  BY DEF Unreadable, DigestHeaders
<1>2. \A b \in Bodies : DigestHeader({"sha-256"}, b) \in DigestHeaders
  BY HeaderTyped DEF Algorithms
<1> QED
  BY <1>1, <1>2 DEF DigestValues

LEMMA StringTyped ==
    ASSUME NEW r, r.target \in Targets \cup {"none"}, r.date \in Int,
           r.digest \in Seq(DigestHeaders),
           r.signature.covers \subseteq CoveredNames,
           r.signature.created \in Int, r.signature.expires \in Int
    PROVE  SigningString(r) \in Strings
<1>0. MappedDigest(r) \in Fields
  <2>1. PICK d \in Seq(DigestHeaders) : d = r.digest
    OBVIOUS
  <2>2. MappedDigest(r) = MappedDigest([digest |-> d])
    BY <2>1, SameMapped
  <2> QED
    BY <2>2 DEF Fields
<1>1. \A name \in r.signature.covers : Field(r, name) \in Fields
  BY <1>0 DEF CoveredNames, Field, Fields
<1>2. SigningString(r) \in [r.signature.covers -> Fields]
  BY <1>1 DEF SigningString
<1> QED
  BY <1>2 DEF Strings

UnsignedSignatures ==
    [legible : BOOLEAN, keyId : KeyIds, covers : SUBSET CoveredNames, created : Int,
     expires : Int]

UnsignedRequests ==
    [target : Targets \cup {"none"}, date : Int, digest : Seq(DigestHeaders), body : Bodies,
     signature : UnsignedSignatures]

\* Sign adds the key and the string, and changes nothing that is signed.
LEMMA SignTyped ==
    ASSUME NEW u \in UnsignedRequests, NEW key \in PublicKeys, NEW r, r = Sign(u, key)
    PROVE  /\ r \in Requests /\ r.signature.string = SigningString(r)
           /\ r.target = u.target /\ r.date = u.date /\ r.digest = u.digest /\ r.body = u.body
           /\ r.signature.key = key /\ r.signature.covers = u.signature.covers
           /\ r.signature.created = u.signature.created
<1> DEFINE g == u.signature
           s == [legible |-> g.legible, keyId |-> g.keyId, covers |-> g.covers,
                 created |-> g.created, expires |-> g.expires, key |-> key,
                 string |-> SigningString(u)]
<1>1. /\ u.target \in Targets \cup {"none"} /\ u.date \in Int /\ u.digest \in Seq(DigestHeaders)
      /\ u.body \in Bodies /\ g \in UnsignedSignatures
  BY DEF UnsignedRequests
<1>2. /\ g.legible \in BOOLEAN /\ g.keyId \in KeyIds /\ g.covers \subseteq CoveredNames
      /\ g.created \in Int /\ g.expires \in Int
  BY <1>1 DEF UnsignedSignatures
<1>3. SigningString(u) \in Strings
  BY <1>1, <1>2, StringTyped
<1>4. s \in Signatures
  BY <1>2, <1>3 DEF Signatures
<1>5. /\ s.covers = g.covers /\ s.created = g.created /\ s.expires = g.expires /\ s.key = key
      /\ s.string = SigningString(u)
  OBVIOUS
<1>6. r = [u EXCEPT !.signature = s]
  BY DEF Sign
<1> HIDE DEF s
<1>7. /\ r.target = u.target /\ r.date = u.date /\ r.digest = u.digest /\ r.body = u.body
      /\ r.signature = s
  BY <1>6 DEF UnsignedRequests
<1>8. r \in Requests
  BY <1>1, <1>4, <1>6 DEF UnsignedRequests, Requests
<1>9. \A name \in CoveredNames : Field(r, name) = Field(u, name)
  <2>1. MappedDigest(r) = MappedDigest(u)
    BY <1>7, SameMapped
  <2> QED
    BY <1>5, <1>7, <2>1 DEF CoveredNames, Field
<1>10. SigningString(r) = SigningString(u)
  BY <1>2, <1>5, <1>7, <1>9 DEF SigningString
<1> QED
  BY <1>5, <1>7, <1>8, <1>10

\* Whatever becomes of a request on the way, it keeps its signature.
LEMMA ArrivalTyped ==
    ASSUME now \in Nat, NEW r \in Requests, r.target \in Targets, NEW q \in Arrivals(r)
    PROVE  q \in Requests /\ SameSignature(q, r)
<1>1. CASE q = r
  BY <1>1 DEF SameSignature
<1>2. ASSUME NEW fault \in Faults, q \in Damaged(r, fault) PROVE q \in Requests /\ SameSignature(q, r)
  <2>0. fault \in
           {"body", "digest", "repeat", "target", "date", "keyId", "covers", "legible"}
    BY InboxAssumption
  <2>1. CASE fault = "body"
    BY <1>2, <2>1 DEF Damaged, Requests, SameSignature
  <2>2. CASE fault = "digest"
    <3> DEFINE D == {<<>>} \cup {<<v>> : v \in DigestValues}
    <3>2. D \subseteq Seq(DigestHeaders)
      <4>1. \A v \in DigestValues : <<v>> \in Seq(DigestHeaders)
        BY DigestValuesTyped
      <4>2. <<>> \in Seq(DigestHeaders)
        BY EmptySeq
      <4> QED
        BY <4>1, <4>2
    <3>3. q \in Redigested(r, D)
      BY <1>2, <2>2 DEF Damaged
    <3> HIDE DEF D
    <3>1. PICK b \in Bodies, d \in D : q = [r EXCEPT !.body = b, !.digest = d]
      BY <3>3 DEF Redigested
    <3> QED
      BY <3>1, <3>2 DEF Requests, SameSignature
  <2>8. CASE fault = "repeat"
    <3> DEFINE D == {<<v>> \o r.digest : v \in DigestValues}
                       \cup {r.digest \o <<v>> : v \in DigestValues}
    <3>1. r.digest \in Seq(DigestHeaders) /\ \A v \in DigestValues : <<v>> \in Seq(DigestHeaders)
      BY DigestValuesTyped DEF Requests
    <3>2. D \subseteq Seq(DigestHeaders)
      BY <3>1, ConcatProperties
    <3>3. q \in Redigested(r, D)
      BY <1>2, <2>8 DEF Damaged
    <3> HIDE DEF D
    <3>4. PICK b \in Bodies, d \in D : q = [r EXCEPT !.body = b, !.digest = d]
      BY <3>3 DEF Redigested
    <3> QED
      BY <3>2, <3>4 DEF Requests, SameSignature
  <2>3. CASE fault = "target"
    BY <1>2, <2>3 DEF Damaged, Requests, SameSignature
  <2>4. CASE fault = "date"
    BY <1>2, <2>4 DEF Damaged, Requests, SameSignature
  <2>5. CASE fault = "keyId"
    <3>1. PICK a \in Actors : q = [r EXCEPT !.signature.keyId = KeyId[a]]
      BY <1>2, <2>5 DEF Damaged
    <3>2. KeyId[a] \in KeyIds
      BY DEF KeyIds
    <3> DEFINE s == [r.signature EXCEPT !.keyId = KeyId[a]]
    <3>3. s \in Signatures /\ s.key = r.signature.key /\ s.string = r.signature.string
      BY <3>2 DEF Requests, Signatures
    <3>4. q = [r EXCEPT !.signature = s]
      BY <3>1
    <3> HIDE DEF s
    <3> QED
      BY <3>3, <3>4 DEF Requests, SameSignature
  <2>6. CASE fault = "covers"
    <3>1. PICK name \in r.signature.covers :
             q = [r EXCEPT !.signature.covers = @ \ {name}]
      BY <1>2, <2>6 DEF Damaged
    <3> DEFINE s == [r.signature EXCEPT !.covers = r.signature.covers \ {name}]
    <3>3. s \in Signatures /\ s.key = r.signature.key /\ s.string = r.signature.string
      BY DEF Requests, Signatures
    <3>4. q = [r EXCEPT !.signature = s]
      BY <3>1
    <3> HIDE DEF s
    <3> QED
      BY <3>3, <3>4 DEF Requests, SameSignature
  <2>7. CASE fault = "legible"
    <3>1. q = [r EXCEPT !.signature.legible = FALSE]
      BY <1>2, <2>7 DEF Damaged
    <3> DEFINE s == [r.signature EXCEPT !.legible = FALSE]
    <3>3. s \in Signatures /\ s.key = r.signature.key /\ s.string = r.signature.string
      BY DEF Requests, Signatures
    <3>4. q = [r EXCEPT !.signature = s]
      BY <3>1
    <3> HIDE DEF s
    <3> QED
      BY <3>3, <3>4 DEF Requests, SameSignature
  <2> QED
    BY <2>0, <2>1, <2>2, <2>3, <2>4, <2>5, <2>6, <2>7, <2>8
<1> QED
  BY <1>1, <1>2 DEF Arrivals

----------------------------------------------------------------------------
(* A handler that is idle again.                                           *)

LEMMA DummyTyped == Dummy \in Actors
BY InboxAssumption DEF Dummy

LEMMA ActorTyped ==
    ASSUME NEW a \in Actors, NEW version \in Nat
    PROVE  /\ ActorWith(a, version) \in ActorRecords
           /\ ActorWith(a, version).id = a /\ ActorWith(a, version).key.owner = a
           /\ ActorWith(a, version).key.version = version
           /\ ActorWith(a, version).publicKeyId = KeyId[a]
           /\ ActorWith(a, version).persists <=> a \in Persists
<1>1. [owner |-> a, version |-> version] \in PublicKeys
  BY DEF PublicKeys
<1>2. KeyId[a] \in KeyIds /\ (a \in Persists) \in BOOLEAN
  BY DEF KeyIds
<1> QED
  BY <1>1, <1>2 DEF ActorWith, ActorRecords

LEMMA NoRequestTyped == NoRequest \in Requests
<1> DEFINE body == CHOOSE b \in Bodies : TRUE
           digest == <<DigestHeader({"sha-256"}, body)>>
           key == [owner |-> Dummy, version |-> 0]
           keyId == MainKeyId(Dummy)
           covers == Covered(TRUE)
           target == "none"
<1>1. body \in Bodies
  BY InboxAssumption
<1>2. digest \in Seq(DigestHeaders)
  BY <1>1, HeaderTyped DEF Algorithms
<1>3. key \in PublicKeys
  BY DummyTyped DEF PublicKeys
<1>4. keyId \in KeyIds
  BY DummyTyped DEF KeyIds
<1>5. covers \in SUBSET CoveredNames
  BY DEF Covered, CoveredNames
<1>6. Absent \in Int /\ 0 \in Int /\ target \in Targets \cup {"none"}
  BY DEF Absent
<1> DEFINE g == [legible |-> TRUE, keyId |-> keyId, covers |-> covers,
                 created |-> Absent, expires |-> Absent]
           u == [target |-> target, date |-> 0, digest |-> digest, body |-> body,
                 signature |-> g]
<1>7. NoRequest = Sign(u, key)
  BY DEF NoRequest, SignRequest, Unsigned
<1> HIDE DEF digest, body, key, keyId, covers, target
<1>8. g \in UnsignedSignatures
  BY <1>4, <1>5, <1>6 DEF UnsignedSignatures
<1> HIDE DEF g
<1>9. u \in UnsignedRequests
  BY <1>1, <1>2, <1>6, <1>8 DEF UnsignedRequests
<1> HIDE DEF u
<1> QED
  BY <1>3, <1>7, <1>9, SignTyped

LEMMA IdleTyped ==
    /\ Idle \in HandlerRecords /\ Idle.at = "idle" /\ Idle.actor = ActorWith(Dummy, 0)
    /\ Idle.how = "none" /\ Idle.held \in CopyRecords
<1>1. Absence \in CopyRecords
  BY DEF Absence, CopyRecords
<1>2. ActorWith(Dummy, 0) \in ActorRecords
  BY ActorTyped, DummyTyped
<1> QED
  BY <1>1, <1>2, NoRequestTyped DEF Idle, HandlerRecords, Places, Answers

LEMMA AnswerOK ==
    ASSUME InboxInv, NEW result \in Answers
    PROVE  HandlerOK([Idle EXCEPT !.answer = result])
<1> DEFINE k == [Idle EXCEPT !.answer = result]
<1>1. k \in HandlerRecords /\ k.at = "idle" /\ k.actor = ActorWith(Dummy, 0)
  BY IdleTyped DEF HandlerRecords
<1> HIDE DEF k
<1>2. Len(keys[Dummy]) \in Nat
  BY DummyTyped DEF InboxInv
<1> QED
  BY <1>1, <1>2, ActorTyped, DummyTyped DEF HandlerOK, k

----------------------------------------------------------------------------
(* What the clock, the network and remote servers do disturbs nothing.     *)

\* The clock runs on, requests are added and keys are added.
Grown ==
    /\ now' \in Nat /\ now <= now' /\ net \subseteq net'
    /\ \A a \in Actors :
          /\ Len(keys[a]) <= Len(keys'[a])
          /\ \A version \in Nat, t \in Int :
                InUseAt(a, version, t) /\ t <= now => InUseAt(a, version, t)'

LEMMA CopyKept ==
    ASSUME InboxInv, Grown, NEW a \in Actors, NEW copy, CopyOK(a, copy)
    PROVE  CopyOK(a, copy)'
<1>1. copy.fetched \in Nat /\ copy.refreshed \in Nat /\ copy.version \in Nat
  BY DEF CopyOK, CopyRecords
<1>2. copy.fetched <= now /\ copy.refreshed <= now'
  BY <1>1 DEF CopyOK, Grown, InboxInv
<1>3. InUseAt(a, copy.version, copy.fetched)'
  BY <1>1, <1>2 DEF CopyOK, Grown
<1> QED
  BY <1>2, <1>3 DEF CopyOK

LEMMA SignedKept ==
    ASSUME InboxInv, Grown, NEW r, SignedOK(r)
    PROVE  SignedOK(r)'
BY DEF SignedOK

LEMMA HandlerTyped ==
    ASSUME NEW k \in HandlerRecords
    PROVE  /\ k.at \in Places /\ k.request \in Requests /\ k.request.body \in Bodies
           /\ k.actor \in ActorRecords /\ k.actor.id \in Actors
           /\ k.actor.key \in PublicKeys /\ k.actor.key.version \in Nat
           /\ k.how \in {"none", "resolver", "recent", "held", "fetched"}
           /\ k.held \in CopyRecords /\ k.held.version \in Nat
           /\ k.held.fetched \in Nat /\ k.held.refreshed \in Nat
           /\ k.resolved \in Nat /\ k.checked \in Nat /\ k.answer \in Answers
<1>1. /\ k.at \in Places /\ k.request \in Requests /\ k.actor \in ActorRecords
      /\ k.how \in {"none", "resolver", "recent", "held", "fetched"}
      /\ k.held \in CopyRecords /\ k.resolved \in Nat /\ k.checked \in Nat /\ k.answer \in Answers
  BY DEF HandlerRecords
<1>2. k.request.body \in Bodies
  BY <1>1 DEF Requests
<1>3. k.actor.id \in Actors /\ k.actor.key \in PublicKeys
  BY <1>1 DEF ActorRecords
<1>4. k.held.version \in Nat /\ k.held.fetched \in Nat /\ k.held.refreshed \in Nat
  BY <1>1 DEF CopyRecords
<1>5. k.actor.key.version \in Nat
  BY <1>3 DEF PublicKeys
<1> QED
  BY <1>1, <1>2, <1>3, <1>4, <1>5

LEMMA HandlerKept ==
    ASSUME InboxInv, Grown, NEW k, HandlerOK(k)
    PROVE  HandlerOK(k)'
<1>1. k \in HandlerRecords
  BY DEF HandlerOK
<1>2. now \in Nat /\ now' \in Nat /\ now <= now' /\ ExpiresAfter \in Nat
  BY ExpiresAfterAssumption DEF Grown, InboxInv
<1>3. /\ k.actor.key.version <= Len(keys'[k.actor.id])
  <2>1. Len(keys[k.actor.id]) \in Nat /\ Len(keys[k.actor.id]) <= Len(keys'[k.actor.id])
    BY <1>1, HandlerTyped DEF Grown, InboxInv
  <2>2. k.actor.key.version <= Len(keys[k.actor.id])
    BY DEF HandlerOK
  <2> QED
    BY <2>1, <2>2, <1>1, HandlerTyped DEF Grown, InUseAt
<1>4. k.at # "idle" => \E r \in net' : SameSignature(k.request, r)
  BY DEF HandlerOK, Grown
<1>5. k.at \in {"fetch", "delete"} => CopyOK(k.request.body.actor, k.held)'
  BY CopyKept DEF HandlerOK
<1>6. k.at = "store" \/ (k.at = "check" /\ k.how = "fetched") =>
          k.resolved <= now' /\ InUseAt(k.actor.id, k.actor.key.version, k.resolved)'
  BY <1>1, <1>2, HandlerTyped DEF HandlerOK, Grown
<1>7. k.at = "check" /\ k.how = "recent" =>
          k.held.fetched <= now' /\ InUseAt(k.actor.id, k.actor.key.version, k.held.fetched)'
  BY <1>1, <1>2, HandlerTyped DEF HandlerOK, Grown
<1>8. k.at \in {"verify", "verified"} =>
          \E r \in net' : SameSignature(k.request, r) /\ k.checked <= r.date + ExpiresAfter
  BY DEF HandlerOK, Grown
<1> QED
  BY <1>3, <1>4, <1>5, <1>6, <1>7, <1>8 DEF HandlerOK

LEMMA EnvironmentStep ==
    ASSUME InboxInv, Grown, keys' \in [Actors -> Seq(0 .. now')], gone' \subseteq Actors,
           copies' = copies, handler' = handler, \A r \in net' \ net : SignedOK(r)'
    PROVE  InboxInv'
<1>1. ASSUME NEW a \in Actors PROVE CopyOK(a, copies[a])'
  <2>1. PICK copy : copy = copies[a]
    OBVIOUS
  <2>2. CopyOK(a, copy)
    BY <2>1 DEF InboxInv
  <2>3. CopyOK(a, copy)'
    BY <2>2, CopyKept
  <2> QED
    BY <2>1, <2>3
<1>2. ASSUME NEW r \in net' PROVE SignedOK(r)'
  BY SignedKept DEF InboxInv
<1>3. ASSUME NEW h \in Handlers PROVE HandlerOK(handler[h])'
  <2>1. PICK k : k = handler[h]
    OBVIOUS
  <2>2. HandlerOK(k)
    BY <2>1 DEF InboxInv
  <2>3. HandlerOK(k)'
    BY <2>2, HandlerKept
  <2> QED
    BY <2>1, <2>3
<1>4. /\ handler' \in [Handlers -> HandlerRecords] /\ copies' \in [Actors -> CopyRecords]
      /\ now' \in Nat
  BY DEF InboxInv, Grown
<1> QED
  BY <1>1, <1>2, <1>3, <1>4 DEF InboxInv

LEMMA SignedByOK ==
    ASSUME InboxInv, NEW a \in Actors, NEW alias \in Actors, NEW body \in Bodies,
           NEW target \in Targets, NEW style \in Styles,
           NEW key \in KeysOf(a), NEW r, r = SignedBy(key, alias, body, target, style)
    PROVE  SignedOK(r)
<1> DEFINE date == now
           digest == <<DigestHeader(style.algorithms, body)>>
           keyId == KeyId[alias]
           covers == style.covers
           created == IF "(created)" \in covers THEN date ELSE Absent
           expires == IF "(expires)" \in covers THEN date + ExpiresAfter ELSE Absent
<1>1. digest \in Seq(DigestHeaders) /\ Len(digest) = 1 /\ digest[1].readable
  <2>1. PICK d : d = DigestHeader(style.algorithms, body)
    OBVIOUS
  <2>2. style.algorithms \subseteq Algorithms
    BY DEF Algorithms
  <2>3. d \in DigestHeaders /\ d.readable
    BY <2>1, <2>2, HeaderTyped
  <2> QED
    BY <2>1, <2>3
<1>2. key \in PublicKeys
  BY DEF KeysOf, PublicKeys, InboxInv
<1>3. keyId \in KeyIds
  BY DEF KeyIds
<1>4. covers \in SUBSET CoveredNames
  BY InboxAssumption
<1>5. date \in Nat /\ date \in Int /\ date = now
  BY DEF InboxInv
<1>6. created \in Int /\ expires \in Int
  BY <1>5, ExpiresAfterAssumption DEF Absent
<1>7. "(created)" \in covers => created = date
  OBVIOUS
<1> DEFINE g == [legible |-> TRUE, keyId |-> keyId, covers |-> covers,
                 created |-> created, expires |-> expires]
           u == [target |-> target, date |-> date, digest |-> digest, body |-> body,
                 signature |-> g]
<1>8. r = Sign(u, key)
  BY DEF SignedBy
<1>9. \A part \in digest[1].parts : part.of = body
  BY HeaderTyped DEF Algorithms
<1>10. target \in Targets \cup {"none"}
  OBVIOUS
<1> HIDE DEF date, digest, keyId, covers, created, expires
<1>11. /\ g \in UnsignedSignatures /\ g.covers = covers /\ g.created = created
  BY <1>3, <1>4, <1>6 DEF UnsignedSignatures
<1> HIDE DEF g
<1>12. /\ u \in UnsignedRequests /\ u.target = target /\ u.date = date /\ u.digest = digest
       /\ u.body = body /\ u.signature = g
  BY <1>1, <1>5, <1>10, <1>11 DEF UnsignedRequests
<1> HIDE DEF u
<1>13. /\ r \in Requests /\ r.signature.string = SigningString(r)
       /\ r.target = target /\ r.date = date /\ r.digest = digest /\ r.body = body
       /\ r.signature.key = key /\ r.signature.covers = covers /\ r.signature.created = created
  BY <1>2, <1>8, <1>11, <1>12, SignTyped
<1> QED
  BY <1>1, <1>5, <1>7, <1>9, <1>13 DEF SignedOK

LEMMA SameKeys ==
    ASSUME InboxInv, keys' = keys, now' \in Nat, now <= now', net \subseteq net'
    PROVE  Grown
<1>1. \A a \in Actors : Len(keys[a]) \in Nat
  BY DEF InboxInv
<1> QED
  BY <1>1 DEF Grown, InUseAt

LEMMA SendStep ==
    ASSUME InboxInv, NEW a \in Actors, Send(a)
    PROVE  InboxInv'
<1>1. PICK key \in KeysOf(a), body \in Bodies, target \in Targets, style \in Styles,
           alias \in Actors : net' = net \cup {SignedBy(key, alias, body, target, style)}
  BY DEF Send
<1>2. now' = now /\ keys' = keys /\ gone' = gone /\ copies' = copies /\ handler' = handler
  BY DEF Send
<1>3. Grown
  BY <1>1, <1>2, SameKeys DEF InboxInv
<1>4. ASSUME NEW r \in net' \ net PROVE SignedOK(r)'
  <2>1. SignedOK(r)
    BY <1>1, SignedByOK
  <2> QED
    BY <2>1, <1>3, SignedKept
<1> QED
  BY <1>2, <1>3, <1>4, EnvironmentStep DEF InboxInv

LEMMA RotateStep ==
    ASSUME InboxInv, NEW a \in Actors, Rotate(a)
    PROVE  InboxInv'
<1>1. /\ now' = now /\ net' = net /\ gone' = gone /\ copies' = copies /\ handler' = handler
      /\ keys' = [keys EXCEPT ![a] = Append(keys[a], now)]
  BY DEF Rotate
<1>2. now \in Nat /\ now \in 0 .. now /\ \A b \in Actors : keys[b] \in Seq(0 .. now)
  BY DEF InboxInv
<1>3. \A b \in Actors : Len(keys[b]) \in Nat
  BY <1>2
<1>4. /\ Append(keys[a], now) \in Seq(0 .. now)
      /\ Len(Append(keys[a], now)) = Len(keys[a]) + 1
      /\ Append(keys[a], now)[Len(keys[a]) + 1] = now
      /\ \A i \in 1 .. Len(keys[a]) : Append(keys[a], now)[i] = keys[a][i]
  BY <1>2
<1>5. keys' \in [Actors -> Seq(0 .. now')]
  BY <1>1, <1>4 DEF InboxInv
<1>6. ASSUME NEW b \in Actors
      PROVE  /\ Len(keys[b]) <= Len(keys'[b])
             /\ \A version \in Nat, t \in Int :
                   InUseAt(b, version, t) /\ t <= now => InUseAt(b, version, t)'
  <2>1. CASE b = a
    <3>1. keys'[b] = Append(keys[a], now)
      BY <1>1, <2>1 DEF InboxInv
    <3>2. Len(keys'[b]) = Len(keys[a]) + 1 /\ Len(keys[a]) \in Nat
      BY <3>1, <1>3, <1>4
    <3>3. ASSUME NEW version \in Nat, NEW t \in Int, InUseAt(b, version, t), t <= now
          PROVE  InUseAt(b, version, t)'
      <4>1. version <= Len(keys[a]) /\ (version < Len(keys[a]) => t <= keys[a][version + 1])
        BY <3>3, <2>1 DEF InUseAt
      <4>2. CASE version < Len(keys[a])
        <5>1. keys'[b][version + 1] = keys[a][version + 1]
          BY <4>2, <3>1, <3>2, <1>4
        <5> QED
          BY <4>1, <4>2, <5>1, <3>2 DEF InUseAt
      <4>3. CASE version = Len(keys[a])
        <5>1. keys'[b][version + 1] = now
          BY <4>3, <3>1, <1>4
        <5> QED
          BY <4>3, <5>1, <3>2, <3>3 DEF InUseAt
      <4> QED
        BY <4>1, <4>2, <4>3, <3>2
    <3> QED
      BY <2>1, <3>2, <3>3
  <2>2. CASE b # a
    <3>1. keys'[b] = keys[b]
      BY <1>1, <2>2 DEF InboxInv
    <3> QED
      BY <3>1, <1>3 DEF InUseAt
  <2> QED
    BY <2>1, <2>2
<1>7. Grown
  BY <1>1, <1>2, <1>6 DEF Grown
<1> QED
  BY <1>1, <1>5, <1>7, EnvironmentStep DEF InboxInv

LEMMA VanishStep ==
    ASSUME InboxInv, NEW a \in Actors, Vanish(a)
    PROVE  InboxInv'
<1>1. /\ now' = now /\ keys' = keys /\ gone' \subseteq Actors /\ copies' = copies
      /\ net' = net /\ handler' = handler
  BY DEF Vanish, InboxInv
<1>2. Grown
  BY <1>1, SameKeys DEF InboxInv
<1> QED
  BY <1>1, <1>2, EnvironmentStep DEF InboxInv

LEMMA TickStep ==
    ASSUME InboxInv, Tick
    PROVE  InboxInv'
<1>1. /\ now' = now + 1 /\ keys' = keys /\ gone' = gone /\ copies' = copies
      /\ net' = net /\ handler' = handler /\ now \in Nat
  BY DEF Tick, InboxInv
<1>2. Grown
  BY <1>1, SameKeys
<1>3. 0 .. now \subseteq 0 .. now'
  BY <1>1
<1>4. \A s \in Seq(0 .. now) : s \in Seq(0 .. now')
  BY <1>3, SeqMonotonic
<1>5. keys' \in [Actors -> Seq(0 .. now')]
  BY <1>1, <1>4 DEF InboxInv
<1> QED
  BY <1>1, <1>2, <1>5, EnvironmentStep DEF InboxInv

----------------------------------------------------------------------------
(* The steps of a handler.                                                 *)

\* It is enough to look at the handler that takes the step.
LEMMA HandlerStep ==
    ASSUME InboxInv, UNCHANGED <<now, keys, gone, net>>, NEW h \in Handlers, NEW k,
           handler' = [handler EXCEPT ![h] = k], HandlerOK(k),
           copies' \in [Actors -> CopyRecords], \A a \in Actors : CopyOK(a, copies[a])'
    PROVE  InboxInv'
<1>1. Grown
  BY SameKeys DEF InboxInv
<1>2. k \in HandlerRecords
  BY DEF HandlerOK
<1>3. ASSUME NEW g \in Handlers PROVE HandlerOK(handler[g])'
  <2>1. PICK j : j = handler'[g]
    OBVIOUS
  <2>2. HandlerOK(j)
    BY <2>1 DEF InboxInv
  <2>3. HandlerOK(j)'
    BY <2>2, <1>1, HandlerKept
  <2> QED
    BY <2>1, <2>3
<1>4. ASSUME NEW r \in net' PROVE SignedOK(r)'
  BY <1>1, SignedKept DEF InboxInv
<1>5. handler' \in [Handlers -> HandlerRecords]
  BY <1>2 DEF InboxInv
<1> QED
  BY <1>3, <1>4, <1>5 DEF InboxInv

LEMMA QuietStep ==
    ASSUME InboxInv, UNCHANGED <<now, keys, gone, copies, net>>, NEW h \in Handlers, NEW k,
           handler' = [handler EXCEPT ![h] = k], HandlerOK(k)
    PROVE  InboxInv'
<1>1. Grown
  BY SameKeys DEF InboxInv
<1>2. ASSUME NEW a \in Actors PROVE CopyOK(a, copies[a])'
  <2>1. PICK copy : copy = copies[a]
    OBVIOUS
  <2>2. CopyOK(a, copy)'
    BY <2>1, <1>1, CopyKept DEF InboxInv
  <2> QED
    BY <2>1, <2>2
<1> QED
  BY <1>2, HandlerStep DEF InboxInv

LEMMA AnswerStep ==
    ASSUME InboxInv, UNCHANGED <<now, keys, gone, copies, net>>, NEW h \in Handlers,
           NEW result \in Answers, Answer(h, result)
    PROVE  InboxInv'
BY AnswerOK, QuietStep DEF Answer

LEMMA ActorFailureStep ==
    ASSUME InboxInv, UNCHANGED <<now, keys, gone, copies, net>>, NEW h \in Handlers,
           NEW class \in Answers, ActorFailure(h, class)
    PROVE  InboxInv'
<1>1. "ActorFetch" \in Answers
  BY DEF Answers, Classes
<1> QED
  BY <1>1, AnswerStep DEF ActorFailure

\* A handler moves on; nothing but its place changes.
LEMMA GoStep ==
    ASSUME InboxInv, UNCHANGED <<now, keys, gone, copies, net>>, NEW h \in Handlers,
           NEW place \in Places, Go(h, place), ~ At(h, "idle"),
           place \in {"parse", "resolve", "read", "delete", "verified"},
           place \in {"resolve", "read"} => handler[h].request.body.actor \in Actors,
           place = "delete" => At(h, "fetch"),
           place = "verified" => At(h, "verify")
    PROVE  InboxInv'
<1>1. PICK j : j = handler[h]
  OBVIOUS
<1>2. HandlerOK(j) /\ j \in HandlerRecords
  BY <1>1 DEF InboxInv, HandlerOK
<1> DEFINE k == [j EXCEPT !.at = place]
<1>3. handler' = [handler EXCEPT ![h] = k]
  BY <1>1 DEF Go, InboxInv
<1>4. /\ k \in HandlerRecords /\ k.at = place /\ k.request = j.request /\ k.actor = j.actor
      /\ k.how = j.how /\ k.held = j.held /\ k.resolved = j.resolved /\ k.checked = j.checked
  BY <1>2 DEF HandlerRecords
<1> HIDE DEF k
<1>5. HandlerOK(k)
  BY <1>1, <1>2, <1>4 DEF HandlerOK, At
<1> QED
  BY <1>3, <1>5, QuietStep

\* An actor that was not fetched just now is used.
LEMMA UseActorOK ==
    ASSUME InboxInv, NEW h \in Handlers, ~ At(h, "idle"), NEW a \in Actors, NEW version \in Nat,
           version <= Len(keys[a]), a \in {ActorId(h), Resolved[ActorId(h)]},
           NEW how \in {"resolver", "held"}, UseActor(h, ActorWith(a, version), how)
    PROVE  \E k : handler' = [handler EXCEPT ![h] = k] /\ HandlerOK(k)
<1>1. PICK j : j = handler[h]
  OBVIOUS
<1>2. HandlerOK(j) /\ j \in HandlerRecords
  BY <1>1 DEF InboxInv, HandlerOK
<1>3. PICK actor : actor = ActorWith(a, version)
  OBVIOUS
<1>4. /\ actor \in ActorRecords /\ actor.id = a /\ actor.key.owner = a
      /\ actor.key.version = version /\ actor.publicKeyId = KeyId[a]
      /\ actor.persists <=> a \in Persists
  BY <1>3, ActorTyped
<1>0. Absence \in CopyRecords
  BY DEF Absence, CopyRecords
<1> DEFINE k == [j EXCEPT !.at = "check", !.actor = actor, !.how = how, !.held = Absence]
<1>5. handler' = [handler EXCEPT ![h] = k]
  BY <1>1, <1>3 DEF UseActor, InboxInv
<1>6. /\ k \in HandlerRecords /\ k.at = "check" /\ k.request = j.request /\ k.actor = actor
      /\ k.how = how /\ k.held = Absence /\ k.resolved = j.resolved /\ k.checked = j.checked
  BY <1>0, <1>2, <1>4 DEF HandlerRecords, Places
<1> HIDE DEF k
<1>7. HandlerOK(k)
  BY <1>1, <1>2, <1>4, <1>6 DEF HandlerOK, At, ActorId
<1> QED
  BY <1>5, <1>7

LEMMA ArriveStep ==
    ASSUME InboxInv, NEW h \in Handlers, Arrive(h)
    PROVE  InboxInv'
<1>1. UNCHANGED <<now, keys, gone, copies, net>>
  BY DEF Arrive
<1>2. CASE \E status \in {"PayloadTooLarge", "InternalServerError"} : Answer(h, status)
  BY <1>1, <1>2, AnswerStep DEF Answers
<1>3. ASSUME NEW r \in net, NEW q \in Arrivals(r),
             handler' = [handler EXCEPT ![h] = [Idle EXCEPT !.at = "parse", !.request = q]]
      PROVE  InboxInv'
  <2>1. now \in Nat /\ r \in Requests /\ r.target \in Targets
    BY DEF InboxInv, SignedOK
  <2>2. q \in Requests /\ SameSignature(q, r)
    BY <2>1, <1>3, ArrivalTyped
  <2> DEFINE k == [Idle EXCEPT !.at = "parse", !.request = q]
  <2>3. k \in HandlerRecords /\ k.at = "parse" /\ k.request = q /\ k.actor = ActorWith(Dummy, 0)
    BY <2>2, IdleTyped DEF HandlerRecords, Places
  <2>4. handler' = [handler EXCEPT ![h] = k]
    BY <1>3
  <2> HIDE DEF k
  <2>5. Len(keys[Dummy]) \in Nat
    BY DummyTyped DEF InboxInv
  <2>6. HandlerOK(k)
    BY <2>2, <2>3, <2>5, ActorTyped, DummyTyped DEF HandlerOK
  <2> QED
    BY <1>1, <2>4, <2>6, QuietStep
<1> QED
  BY <1>2, <1>3 DEF Arrive

LEMMA ParseStep ==
    ASSUME InboxInv, NEW h \in Handlers, Parse(h)
    PROVE  InboxInv'
<1>1. UNCHANGED <<now, keys, gone, copies, net>> /\ ~ At(h, "idle")
  BY DEF Parse, At
<1>2. handler[h].request.body \in Bodies
  BY HandlerTyped DEF InboxInv
<1>3. CASE Answer(h, "MalformedInput")
  BY <1>1, <1>3, AnswerStep DEF Answers, Classes
<1>4. ASSUME NEW resolves \in BOOLEAN, UrlAndDomainValid(handler[h].request.body, resolves),
             NEW next \in {"resolve", "read"}, Go(h, next)
      PROVE  InboxInv'
  <2>1. handler[h].request.body.actor \in Actors
    BY <1>2, <1>4, InboxAssumption DEF UrlAndDomainValid
  <2>2. next \in Places
    BY DEF Places
  <2> QED
    BY <1>1, <1>4, <2>1, <2>2, GoStep
<1> QED
  BY <1>3, <1>4 DEF Parse

LEMMA ResolveStep ==
    ASSUME InboxInv, NEW h \in Handlers, Resolve(h)
    PROVE  InboxInv'
<1>1. UNCHANGED <<now, keys, gone, copies, net>> /\ ~ At(h, "idle")
  BY DEF Resolve, At
<1>2. Resolved[ActorId(h)] \in Actors
  BY InboxAssumption DEF Resolve, At, ActorId, InboxInv, HandlerOK
<1>3. CASE \E class \in {"ActorFetch", "DeletedActor", "RequestLimit"} : ActorFailure(h, class)
  BY <1>1, <1>3, ActorFailureStep DEF Answers, Classes
<1>4. ASSUME NEW version \in 1 .. Len(keys[Resolved[ActorId(h)]]),
             UseActor(h, ActorWith(Resolved[ActorId(h)], version), "resolver")
      PROVE  InboxInv'
  <2>1. version \in Nat /\ version <= Len(keys[Resolved[ActorId(h)]])
    BY <1>2 DEF InboxInv
  <2> QED
    BY <1>1, <1>2, <1>4, <2>1, UseActorOK, QuietStep
<1> QED
  BY <1>3, <1>4 DEF Resolve

LEMMA ReadActorStep ==
    ASSUME InboxInv, NEW h \in Handlers, ReadActor(h)
    PROVE  InboxInv'
<1>1. UNCHANGED <<now, keys, gone, copies, net>> /\ At(h, "read")
  BY DEF ReadActor
<1>2. PICK j : j = handler[h]
  OBVIOUS
<1>3. HandlerOK(j) /\ j \in HandlerRecords /\ j.at = "read"
  BY <1>1, <1>2 DEF InboxInv, HandlerOK, At
<1>4. PICK a : a = j.request.body.actor
  OBVIOUS
<1>5. a \in Actors /\ a = ActorId(h)
  BY <1>2, <1>3, <1>4 DEF HandlerOK, ActorId
<1>6. PICK copy : copy = copies[a]
  OBVIOUS
<1>7. CopyOK(a, copy) /\ copy \in CopyRecords
  BY <1>5, <1>6 DEF InboxInv, CopyOK
<1>8. /\ copy.version \in Nat /\ copy.fetched \in Nat /\ copy.refreshed \in Nat
      /\ copy.fetched <= copy.refreshed /\ copy.refreshed <= now /\ now \in Nat
      /\ InUseAt(a, copy.version, copy.fetched)
  BY <1>7 DEF CopyOK, CopyRecords, InboxInv
<1>9. CASE ActorFailure(h, IF copy.state = "deleted" THEN "DeletedActor" ELSE "ActorFetch")
  BY <1>1, <1>9, ActorFailureStep DEF Answers, Classes
<1>10. CASE /\ ~ Outdated(a, copy)
            /\ handler' = [handler EXCEPT ![h].at = "check", ![h].how = "recent",
                              ![h].actor = ActorWith(a, copy.version),
                              ![h].held = copy, ![h].resolved = now]
  <2>1. PICK actor : actor = ActorWith(a, copy.version)
    OBVIOUS
  <2>2. /\ actor \in ActorRecords /\ actor.id = a /\ actor.key.owner = a
        /\ actor.key.version = copy.version /\ actor.publicKeyId = KeyId[a]
        /\ actor.persists <=> a \in Persists
    BY <2>1, <1>5, <1>8, ActorTyped
  <2> DEFINE k == [j EXCEPT !.at = "check", !.how = "recent", !.actor = actor,
                            !.held = copy, !.resolved = now]
  <2>3. handler' = [handler EXCEPT ![h] = k]
    BY <1>2, <1>10, <2>1 DEF InboxInv
  <2>4. /\ k \in HandlerRecords /\ k.at = "check" /\ k.request = j.request /\ k.actor = actor
        /\ k.how = "recent" /\ k.held = copy /\ k.resolved = now /\ k.checked = j.checked
    BY <1>3, <1>7, <1>8, <2>2 DEF HandlerRecords, Places
  <2>5. a \in Undated \/ now <= copy.refreshed + RefetchAfter
    BY <1>8, <1>10, InboxAssumption DEF Outdated
  <2>6. copy.version <= Len(keys[a]) /\ copy.fetched <= now
    BY <1>8 DEF InUseAt
  <2> HIDE DEF k
  <2>7. HandlerOK(k)
    BY <1>3, <1>4, <1>8, <2>2, <2>4, <2>5, <2>6 DEF HandlerOK
  <2> QED
    BY <1>1, <2>3, <2>7, QuietStep
<1>11. CASE handler' = [handler EXCEPT ![h].at = "fetch", ![h].held = copy]
  <2> DEFINE k == [j EXCEPT !.at = "fetch", !.held = copy]
  <2>1. handler' = [handler EXCEPT ![h] = k]
    BY <1>2, <1>11 DEF InboxInv
  <2>2. /\ k \in HandlerRecords /\ k.at = "fetch" /\ k.request = j.request /\ k.actor = j.actor
        /\ k.how = j.how /\ k.held = copy /\ k.resolved = j.resolved /\ k.checked = j.checked
    BY <1>3, <1>7 DEF HandlerRecords, Places
  <2> HIDE DEF k
  <2>3. HandlerOK(k)
    BY <1>3, <1>4, <1>5, <1>7, <2>2 DEF HandlerOK
  <2> QED
    BY <1>1, <2>1, <2>3, QuietStep
<1> QED
  BY <1>5, <1>6, <1>9, <1>10, <1>11 DEF ReadActor

LEMMA FetchActorStep ==
    ASSUME InboxInv, NEW h \in Handlers, FetchActor(h)
    PROVE  InboxInv'
<1>1. UNCHANGED <<now, keys, gone, copies, net>> /\ At(h, "fetch") /\ ~ At(h, "idle")
  BY DEF FetchActor, At
<1>2. PICK j : j = handler[h]
  OBVIOUS
<1>3. HandlerOK(j) /\ j \in HandlerRecords /\ j.at = "fetch"
  BY <1>1, <1>2 DEF InboxInv, HandlerOK, At
<1>4. ActorId(h) \in Actors /\ ActorId(h) = j.request.body.actor
  BY <1>2, <1>3 DEF HandlerOK, ActorId
<1>5. PICK actual : actual = Resolved[ActorId(h)]
  OBVIOUS
<1>6. actual \in Actors /\ Len(keys[actual]) \in Nat /\ now \in Nat
  BY <1>4, <1>5, InboxAssumption DEF InboxInv
<1>7. ASSUME NEW class \in {"ActorFetch", "DeletedActor", "RequestLimit"}, ActorFailure(h, class)
      PROVE  InboxInv'
  BY <1>1, <1>7, ActorFailureStep DEF Answers, Classes
<1>8. CASE handler' = [handler EXCEPT ![h].at = "store", ![h].resolved = now,
                          ![h].held = Absence, ![h].actor = ActorWith(actual, Len(keys[actual]))]
  <2>1. PICK actor : actor = ActorWith(actual, Len(keys[actual]))
    OBVIOUS
  <2>2. /\ actor \in ActorRecords /\ actor.id = actual /\ actor.key.owner = actual
        /\ actor.key.version = Len(keys[actual]) /\ actor.publicKeyId = KeyId[actual]
        /\ actor.persists <=> actual \in Persists
    BY <2>1, <1>6, ActorTyped
  <2>3. Absence \in CopyRecords
    BY DEF Absence, CopyRecords
  <2> DEFINE k == [j EXCEPT !.at = "store", !.resolved = now, !.held = Absence, !.actor = actor]
  <2>4. handler' = [handler EXCEPT ![h] = k]
    BY <1>2, <1>8, <2>1 DEF InboxInv
  <2>5. /\ k \in HandlerRecords /\ k.at = "store" /\ k.request = j.request /\ k.actor = actor
        /\ k.how = j.how /\ k.held = Absence /\ k.resolved = now /\ k.checked = j.checked
    BY <1>3, <1>6, <2>2, <2>3 DEF HandlerRecords, Places
  <2>6. InUseAt(actual, Len(keys[actual]), now) /\ Len(keys[actual]) <= Len(keys[actual])
    BY <1>6 DEF InUseAt
  <2> HIDE DEF k
  <2>7. HandlerOK(k)
    BY <1>3, <1>4, <1>5, <1>6, <2>2, <2>5, <2>6 DEF HandlerOK
  <2> QED
    BY <1>1, <2>4, <2>7, QuietStep
<1>9. CASE Go(h, "delete")
  BY <1>1, <1>9, GoStep DEF Places
<1>10. CASE UseActor(h, ActorWith(ActorId(h), handler[h].held.version), "held")
  <2>1. PICK version : version = j.held.version
    OBVIOUS
  <2>2. version \in Nat /\ version <= Len(keys[ActorId(h)])
    BY <1>3, <1>4, <2>1, HandlerTyped DEF HandlerOK, CopyOK, InUseAt
  <2>3. UseActor(h, ActorWith(ActorId(h), version), "held")
    BY <1>2, <1>10, <2>1
  <2> QED
    BY <1>1, <1>4, <2>2, <2>3, UseActorOK, QuietStep
<1> QED
  BY <1>5, <1>7, <1>8, <1>9, <1>10 DEF FetchActor

LEMMA DeleteActorStep ==
    ASSUME InboxInv, NEW h \in Handlers, DeleteActor(h)
    PROVE  InboxInv'
<1>1. UNCHANGED <<now, keys, gone, net>> /\ At(h, "delete") /\ ~ At(h, "idle")
  BY DEF DeleteActor, At
<1>2. PICK j : j = handler[h]
  OBVIOUS
<1>3. HandlerOK(j) /\ j \in HandlerRecords /\ j.at = "delete"
  BY <1>1, <1>2 DEF InboxInv, HandlerOK, At
<1>4. PICK a : a = ActorId(h)
  OBVIOUS
<1>5. a \in Actors /\ a = j.request.body.actor
  BY <1>2, <1>3, <1>4 DEF HandlerOK, ActorId
<1>6. CASE ActorFailure(h, "ActorFetch") /\ UNCHANGED copies
  BY <1>1, <1>6, ActorFailureStep DEF Answers, Classes
<1>7. CASE /\ copies' = [copies EXCEPT ![a].state = "deleted"]
           /\ UseActor(h, ActorWith(a, handler[h].held.version), "held")
  <2>1. PICK version : version = j.held.version
    OBVIOUS
  <2>2. version \in Nat /\ version <= Len(keys[a])
    BY <1>3, <1>5, <2>1, HandlerTyped DEF HandlerOK, CopyOK, InUseAt
  <2>3. PICK k : handler' = [handler EXCEPT ![h] = k] /\ HandlerOK(k)
    BY <1>1, <1>2, <1>4, <1>5, <1>7, <2>1, <2>2, UseActorOK
  <2>4. PICK c : c = copies[a]
    OBVIOUS
  <2> DEFINE d == [c EXCEPT !.state = "deleted"]
  <2>5. CopyOK(a, c) /\ c \in CopyRecords
    BY <1>5, <2>4 DEF InboxInv, CopyOK
  <2>6. /\ d \in CopyRecords /\ d.version = c.version /\ d.fetched = c.fetched
        /\ d.refreshed = c.refreshed
    BY <2>5 DEF CopyRecords
  <2>7. copies' = [copies EXCEPT ![a] = d]
    BY <1>7, <2>4 DEF InboxInv
  <2> HIDE DEF d
  <2>8. CopyOK(a, d)
    BY <2>5, <2>6 DEF CopyOK
  <2>9. copies' \in [Actors -> CopyRecords]
    BY <2>6, <2>7 DEF InboxInv
  <2>10. ASSUME NEW b \in Actors PROVE CopyOK(b, copies[b])'
    <3>1. PICK e : e = copies'[b]
      OBVIOUS
    <3>2. CopyOK(b, e)
      BY <2>7, <2>8, <3>1 DEF InboxInv
    <3>3. CopyOK(b, e)'
      BY <3>2, <1>1, SameKeys, CopyKept DEF InboxInv
    <3> QED
      BY <3>1, <3>3
  <2> QED
    BY <1>1, <2>3, <2>9, <2>10, HandlerStep
<1> QED
  BY <1>4, <1>6, <1>7 DEF DeleteActor

LEMMA StoreActorStep ==
    ASSUME InboxInv, NEW h \in Handlers, StoreActor(h)
    PROVE  InboxInv'
<1>1. UNCHANGED <<now, keys, gone, net>> /\ At(h, "store")
  BY DEF StoreActor
<1>2. PICK j : j = handler[h]
  OBVIOUS
<1>3. HandlerOK(j) /\ j \in HandlerRecords /\ j.at = "store"
  BY <1>1, <1>2 DEF InboxInv, HandlerOK, At
<1>4. PICK a : a = j.actor.id
  OBVIOUS
<1>5. /\ a \in Actors /\ j.actor.key.version \in Nat /\ j.resolved \in Nat /\ now \in Nat
      /\ j.resolved <= now /\ InUseAt(a, j.actor.key.version, j.resolved)
  BY <1>3, <1>4, HandlerTyped DEF HandlerOK, InboxInv
<1>6. CASE ActorFailure(h, "ActorFetch") /\ UNCHANGED copies
  BY <1>1, <1>6, ActorFailureStep DEF Answers, Classes
<1> DEFINE d == [state |-> "stored", version |-> j.actor.key.version,
                 fetched |-> j.resolved, refreshed |-> now]
<1>7. CASE copies' = [copies EXCEPT ![a] = d] /\ UseActor(h, j.actor, "fetched")
  <2>1. /\ d \in CopyRecords /\ d.version = j.actor.key.version /\ d.fetched = j.resolved
        /\ d.refreshed = now
    BY <1>5 DEF CopyRecords
  <2>0. Absence \in CopyRecords
    BY DEF Absence, CopyRecords
  <2> DEFINE k == [j EXCEPT !.at = "check", !.actor = j.actor, !.how = "fetched",
                            !.held = Absence]
  <2>2. handler' = [handler EXCEPT ![h] = k]
    BY <1>2, <1>7 DEF UseActor, InboxInv
  <2>3. /\ k \in HandlerRecords /\ k.at = "check" /\ k.request = j.request /\ k.actor = j.actor
        /\ k.how = "fetched" /\ k.held = Absence /\ k.resolved = j.resolved
        /\ k.checked = j.checked
    BY <1>3, <2>0, HandlerTyped DEF HandlerRecords, Places
  <2>4. copies' = [copies EXCEPT ![a] = d]
    BY <1>7
  <2> HIDE DEF d, k
  <2>5. HandlerOK(k)
    BY <1>3, <1>4, <1>5, <2>3 DEF HandlerOK
  <2>6. CopyOK(a, d)
    BY <1>5, <2>1 DEF CopyOK
  <2>7. copies' \in [Actors -> CopyRecords]
    BY <2>1, <2>4 DEF InboxInv
  <2>8. ASSUME NEW b \in Actors PROVE CopyOK(b, copies[b])'
    <3>1. PICK e : e = copies'[b]
      OBVIOUS
    <3>2. CopyOK(b, e)
      BY <2>4, <2>6, <3>1 DEF InboxInv
    <3>3. CopyOK(b, e)'
      BY <3>2, <1>1, SameKeys, CopyKept DEF InboxInv
    <3> QED
      BY <3>1, <3>3
  <2> QED
    BY <1>1, <2>2, <2>5, <2>7, <2>8, HandlerStep
<1> QED
  BY <1>2, <1>4, <1>6, <1>7 DEF StoreActor

\* A signature covers a time, and that is not long ago.
LEMMA FreshSignature ==
    ASSUME InboxInv, NEW r, SignedOK(r), NEW q \in Requests, SameSignature(q, r),
           NEW key, VerifySignature(q, key, now)
    PROVE  /\ "digest" \in q.signature.covers /\ q.signature.key = key
           /\ q.signature.string = SigningString(q) /\ ReadableDigests(q) # {}
           /\ now <= r.date + ExpiresAfter
<1>1. /\ "digest" \in q.signature.covers /\ q.signature.key = key
      /\ q.signature.string = SigningString(q) /\ ReadableDigests(q) # {}
      /\ ~ Expired(q, now) /\ HasFreshnessHeader(q)
  BY DEF VerifySignature, BeginVerify
<1>2. SigningString(q) = SigningString(r)
  BY <1>1 DEF SameSignature, SignedOK
<1>3. q.signature.covers = r.signature.covers
  BY <1>2 DEF SigningString
<1>4. \A name \in q.signature.covers : Field(q, name) = Field(r, name)
  BY <1>2, <1>3 DEF SigningString
<1>5. /\ "date" \in q.signature.covers => q.date = r.date
      /\ "(created)" \in q.signature.covers => q.signature.created = r.signature.created
  BY <1>4 DEF Field
<1>6. /\ r.date \in Nat /\ now \in Nat /\ ExpiresAfter \in Nat
      /\ "(created)" \in r.signature.covers => r.signature.created = r.date
  BY ExpiresAfterAssumption DEF SignedOK, InboxInv
<1>7. now <= r.date + ExpiresAfter
  BY <1>1, <1>3, <1>5, <1>6 DEF HasFreshnessHeader, Expired
<1> QED
  BY <1>1, <1>7

LEMMA CheckStep ==
    ASSUME InboxInv, NEW h \in Handlers, Check(h)
    PROVE  InboxInv'
<1>1. UNCHANGED <<now, keys, gone, copies, net>> /\ At(h, "check")
  BY DEF Check
<1>2. PICK j : j = handler[h]
  OBVIOUS
<1>3. HandlerOK(j) /\ j \in HandlerRecords /\ j.at = "check"
  BY <1>1, <1>2 DEF InboxInv, HandlerOK, At
<1>4. ASSUME NEW verdict \in {"Digest", "Signature", "ActorKeyMismatch"}, Answer(h, verdict)
      PROVE  InboxInv'
  BY <1>1, <1>4, AnswerStep DEF Answers, Classes
<1>5. CASE /\ Verdict(j.request, j.actor) = "none"
           /\ handler' = [handler EXCEPT ![h] =
                 [@ EXCEPT !.at = "verify", !.checked = now, !.held = Absence, !.resolved = 0]]
  <2>1. Absence \in CopyRecords /\ now \in Nat
    BY DEF Absence, CopyRecords, InboxInv
  <2> DEFINE k == [j EXCEPT !.at = "verify", !.checked = now, !.held = Absence, !.resolved = 0]
  <2>2. handler' = [handler EXCEPT ![h] = k]
    BY <1>2, <1>5 DEF InboxInv
  <2>3. /\ k \in HandlerRecords /\ k.at = "verify" /\ k.request = j.request
        /\ k.actor = j.actor /\ k.how = j.how /\ k.checked = now
    BY <1>3, <2>1 DEF HandlerRecords, Places
  <2> HIDE DEF k
  <2>4. VerifyBodyHash(j.request) /\ VerifySignature(j.request, j.actor.key, now)
    BY <1>5 DEF Verdict
  <2>5. PICK r \in net : SameSignature(j.request, r)
    BY <1>3 DEF HandlerOK
  <2>6. SignedOK(r)
    BY DEF InboxInv
  <2>7. /\ "digest" \in j.request.signature.covers /\ j.request.signature.key = j.actor.key
        /\ j.request.signature.string = SigningString(j.request)
        /\ ReadableDigests(j.request) # {} /\ now <= r.date + ExpiresAfter
    BY <1>3, <2>4, <2>5, <2>6, FreshSignature, HandlerTyped
  <2>8. HandlerOK(k)
    BY <1>1, <1>3, <2>1, <2>3, <2>4, <2>5, <2>7 DEF HandlerOK
  <2> QED
    BY <1>1, <2>2, <2>8, QuietStep
<1>6. Verdict(j.request, j.actor) \in {"none", "Digest", "Signature", "ActorKeyMismatch"}
  BY DEF Verdict
<1> QED
  BY <1>2, <1>4, <1>5, <1>6 DEF Check

LEMMA BusinessVerifyStep ==
    ASSUME InboxInv, NEW h \in Handlers, BusinessVerify(h)
    PROVE  InboxInv'
BY AnswerStep, GoStep DEF BusinessVerify, Answers, Classes, Places, At

LEMMA ReceiveStep ==
    ASSUME InboxInv, NEW h \in Handlers, Receive(h)
    PROVE  InboxInv'
BY AnswerStep DEF Receive, Answers

LEMMA VerifyAgainStep ==
    ASSUME InboxInv, NEW h \in Handlers, VerifyAgain(h)
    PROVE  InboxInv'
BY GoStep DEF VerifyAgain, Places, At

----------------------------------------------------------------------------
LEMMA InitHolds == Init => InboxInv
<1> SUFFICES ASSUME Init PROVE InboxInv
  OBVIOUS
<1>1. now = 0 /\ gone = {} /\ net = {}
  BY DEF Init
<1>2. <<0>> \in Seq(0 .. 0) /\ Len(<<0>>) = 1 /\ <<0>>[1] = 0
  OBVIOUS
<1>3. keys \in [Actors -> Seq(0 .. now)] /\ \A a \in Actors : keys[a] = <<0>>
  BY <1>1, <1>2 DEF Init
<1>4. /\ Absence \in CopyRecords /\ Absence.version = 0 /\ Absence.fetched = 0
      /\ Absence.refreshed = 0
  BY DEF Absence, CopyRecords
<1>5. \A a \in Actors : CopyOK(a, Absence)
  BY <1>1, <1>2, <1>3, <1>4 DEF CopyOK, InUseAt
<1>6. copies \in [Actors -> CopyRecords] /\ \A a \in Actors : copies[a] = Absence
  BY <1>4 DEF Init
<1>7. HandlerOK(Idle)
  BY <1>2, <1>3, IdleTyped, ActorTyped, DummyTyped DEF HandlerOK
<1>8. handler \in [Handlers -> HandlerRecords] /\ \A h \in Handlers : handler[h] = Idle
  BY IdleTyped DEF Init
<1> QED
  BY <1>1, <1>3, <1>5, <1>6, <1>7, <1>8 DEF InboxInv

LEMMA NextKeeps == InboxInv /\ [Next]_vars => InboxInv'
<1> SUFFICES ASSUME InboxInv, [Next]_vars PROVE InboxInv'
  OBVIOUS
<1>1. CASE Next
  <2>1. ASSUME NEW h \in Handlers, Step(h) PROVE InboxInv'
    BY <2>1, ArriveStep, ParseStep, ResolveStep, ReadActorStep, FetchActorStep,
       DeleteActorStep, StoreActorStep, CheckStep, BusinessVerifyStep, ReceiveStep,
       VerifyAgainStep DEF Step
  <2> QED
    BY <1>1, <2>1, SendStep, RotateStep, VanishStep, TickStep DEF Next
<1>2. CASE UNCHANGED vars
  <2>1. /\ now' = now /\ keys' = keys /\ gone' = gone /\ copies' = copies /\ net' = net
        /\ handler' = handler
    BY <1>2 DEF vars
  <2> QED
    BY <2>1, SameKeys, EnvironmentStep DEF InboxInv
<1> QED
  BY <1>1, <1>2

\* The invariant holds in every reachable state: what a handler relies on at
\* each of its places stays true during the awaits between them.
THEOREM InboxInvariant == SafeSpec => []InboxInv
<1>1. Init => InboxInv
  BY InitHolds
<1>2. InboxInv /\ [Next]_vars => InboxInv'
  BY NextKeeps
<1> QED
  BY <1>1, <1>2, PTL DEF SafeSpec

----------------------------------------------------------------------------
(* What it gives.                                                          *)

LEMMA KeyTimeTyped ==
    ASSUME InboxInv, NEW a \in Actors, NEW v \in Nat, v < Len(keys[a])
    PROVE  keys[a][v + 1] \in Nat
<1>1. keys[a] \in Seq(0 .. now) /\ now \in Nat
  BY DEF InboxInv
<1>2. v + 1 \in 1 .. Len(keys[a])
  BY <1>1
<1>3. keys[a][v + 1] \in 0 .. now
  BY <1>1, <1>2, ElementOfSeq
<1> QED
  BY <1>1, <1>3

\* Every copy and every handler's actor has a key that its actor has used,
\* and no time lies ahead of the clock (inbox.rs, verify_post_resolution).
THEOREM TypesKept == SafeSpec => []TypeOK
<1>1. InboxInv => TypeOK
  <2> SUFFICES ASSUME InboxInv PROVE TypeOK
    OBVIOUS
  <2>1. ASSUME NEW a \in Actors
        PROVE  /\ copies[a].version <= Len(keys[a])
               /\ copies[a].fetched <= copies[a].refreshed /\ copies[a].refreshed <= now
    BY DEF InboxInv, CopyOK, InUseAt
  <2>2. ASSUME NEW r \in net PROVE r.body \in Bodies /\ r.target \in Targets
    BY DEF InboxInv, SignedOK, Requests
  <2>3. ASSUME NEW h \in Handlers
        PROVE  /\ handler[h].at \in Places /\ handler[h].answer \in Answers
               /\ handler[h].request.body \in Bodies
               /\ handler[h].actor.id \in Actors /\ handler[h].held \in CopyRecords
               /\ handler[h].actor.key.version <= Len(keys[handler[h].actor.id])
    <3>1. handler[h] \in HandlerRecords /\ HandlerOK(handler[h])
      BY DEF InboxInv
    <3> QED
      BY <3>1, HandlerTyped DEF HandlerOK
  <2> QED
    BY <2>1, <2>2, <2>3 DEF InboxInv, TypeOK
<1> QED
  BY <1>1, InboxInvariant, PTL

\* receive runs only on an activity for which a request was signed with a key
\* of the actor it names, to the same method and path and with the Digest
\* header that comes last; if that is the only one, the digest signed is that
\* of the activity (inbox.rs, verify_post_resolution and receive_activity;
\* http_signatures.rs, verify_signature).
THEOREM OnlySignedIsReceived == SafeSpec => []VerifiedWasSigned
<1>1. InboxInv => VerifiedWasSigned
  <2> SUFFICES ASSUME InboxInv, NEW h \in Handlers, At(h, "verified")
               PROVE  LET request == handler[h].request
                          actor == handler[h].actor
                      IN  /\ actor.id \in {request.body.actor, Resolved[request.body.actor]}
                          /\ \E r \in net :
                                /\ r.signature.key = actor.key
                                /\ "(request-target)" \in r.signature.covers
                                      => r.target = request.target
                                /\ MappedDigest(r) = MappedDigest(request)
                                /\ Len(request.digest) = 1 =>
                                      [algorithm |-> "sha-256", of |-> request.body]
                                         \in MappedDigest(r)
    BY DEF VerifiedWasSigned
  <2>1. PICK k : k = handler[h]
    OBVIOUS
  <2>2. HandlerOK(k) /\ k \in HandlerRecords /\ k.at = "verified"
    BY <2>1 DEF InboxInv, HandlerOK, At
  <2>3. PICK q : q = k.request
    OBVIOUS
  <2>4. /\ q \in Requests /\ VerifyBodyHash(q) /\ "digest" \in q.signature.covers
        /\ q.signature.key = k.actor.key /\ q.signature.string = SigningString(q)
        /\ k.actor.id \in {q.body.actor, Resolved[q.body.actor]} /\ ReadableDigests(q) # {}
    BY <2>2, <2>3, HandlerTyped DEF HandlerOK
  <2>5. PICK r \in net : SameSignature(q, r)
    BY <2>2, <2>3 DEF HandlerOK
  <2>6. SigningString(q) = SigningString(r) /\ r.signature.key = k.actor.key
    BY <2>4, <2>5 DEF InboxInv, SignedOK, SameSignature
  <2>7. q.signature.covers = r.signature.covers
    BY <2>6 DEF SigningString
  <2>8. \A name \in q.signature.covers : Field(q, name) = Field(r, name)
    BY <2>6, <2>7 DEF SigningString
  <2>9. /\ MappedDigest(r) = MappedDigest(q)
        /\ "(request-target)" \in r.signature.covers => r.target = q.target
    BY <2>4, <2>7, <2>8 DEF Field
  <2>10. ASSUME Len(q.digest) = 1
         PROVE  [algorithm |-> "sha-256", of |-> q.body] \in MappedDigest(r)
    <3>1. q.digest \in Seq(DigestHeaders) /\ q.digest[1] \in DigestHeaders
      BY <2>4, <2>10 DEF Requests
    <3>2. MappedDigest(q) = FirstDigest(q) /\ FirstDigest(q) = q.digest[1].parts
      BY <2>4, <2>10, <3>1, OneDigest
    <3>3. PICK part \in FirstDigest(q) : part.algorithm = "sha-256" /\ part.of = q.body
      BY <2>4 DEF VerifyBodyHash
    <3>4. part \in Digests
      BY <3>1, <3>2 DEF DigestHeaders
    <3>5. part = [algorithm |-> "sha-256", of |-> q.body]
      BY <3>3, <3>4 DEF Digests
    <3> QED
      BY <2>9, <3>2, <3>5
  <2> QED
    BY <2>1, <2>3, <2>4, <2>6, <2>9, <2>10
<1> QED
  BY <1>1, InboxInvariant, PTL

\* A signature is accepted no longer than EXPIRES_AFTER from the moment it was
\* made, by whichever key (http_signatures.rs, the freshness headers).
THEOREM OnlyFreshIsReceived == SafeSpec => []AcceptedWhileFresh
<1>1. InboxInv => AcceptedWhileFresh
  <2> SUFFICES ASSUME InboxInv, NEW h \in Handlers, At(h, "verified")
               PROVE  \E r \in net : /\ SameSignature(handler[h].request, r)
                                     /\ handler[h].checked <= r.date + ExpiresAfter
    BY DEF AcceptedWhileFresh
  <2> QED
    BY DEF InboxInv, HandlerOK, At
<1> QED
  BY <1>1, InboxInvariant, PTL

\* An activity that arrives as it was signed, in time and in a way this
\* library understands, is refused only if the copy used has another key
\* (inbox.rs, verify_post_resolution).
THEOREM NotRefusedWithoutCause == SafeSpec => []RefusedForCause
<1>1. InboxInv => RefusedForCause
  <2> SUFFICES ASSUME InboxInv, NEW h \in Handlers, NEW r, r = handler[h].request, r \in net,
                      BeginVerify(r, now) /\ HasFreshnessHeader(r),
                      \E part \in MappedDigest(r) : part.algorithm = "sha-256",
                      handler[h].actor.key = r.signature.key,
                      Understood(handler[h].actor.id),
                      r.signature.keyId = KeyId[handler[h].actor.id]
               PROVE  Verdict(r, handler[h].actor) = "none"
    BY DEF RefusedForCause
  <2>1. PICK actor : actor = handler[h].actor
    OBVIOUS
  <2>2. actor.publicKeyId = KeyId[actor.id] /\ (actor.persists <=> actor.id \in Persists)
    BY <2>1 DEF InboxInv, HandlerOK
  <2>3. VerifyBodyHash(r) /\ r.signature.string = SigningString(r)
    <3>1. /\ r.digest \in Seq(DigestHeaders) /\ Len(r.digest) = 1
          /\ \A part \in r.digest[1].parts : part.of = r.body
          /\ r.signature.string = SigningString(r)
      BY DEF InboxInv, SignedOK, Requests
    <3>2. ReadableDigests(r) # {}
      BY DEF BeginVerify
    <3> QED
      BY <3>1, <3>2, OneDigest DEF VerifyBodyHash
  <2>4. VerifySignature(r, actor.key, now)
    BY <2>1, <2>3 DEF VerifySignature
  <2>5. VerifyActorKeyId(actor, r.signature.keyId)
    BY <2>1, <2>2 DEF VerifyActorKeyId, Understood
  <2>6. Verdict(r, actor) = "none"
    BY <2>3, <2>4, <2>5 DEF Verdict
  <2> QED
    BY <2>1, <2>6
<1> QED
  BY <1>1, InboxInvariant, PTL

\* Which key a signature is checked against: a retired one only from a recent
\* copy, or while the actor was being stored, or because its server did not
\* answer or no time of the last refresh is kept (inbox.rs and object_id.rs,
\* should_refetch_object).
THEOREM StaleKeysExplained == SafeSpec => []StaleKeyExplained
<1>1. InboxInv => StaleKeyExplained
  <2> SUFFICES ASSUME InboxInv, NEW h \in Handlers, At(h, "check"),
                      IsRetired(handler[h].actor.key)
               PROVE  \/ handler[h].how \in {"held", "resolver"}
                      \/ handler[h].actor.key.owner \in Undated
                      \/ /\ handler[h].how = "fetched"
                         /\ RetiredAt(handler[h].actor.key) >= handler[h].resolved
                      \/ /\ handler[h].how = "recent"
                         /\ handler[h].resolved <=
                              RetiredAt(handler[h].actor.key) + RefetchAfter
                                + (handler[h].held.refreshed - handler[h].held.fetched)
    BY DEF StaleKeyExplained
  <2>1. PICK k : k = handler[h]
    OBVIOUS
  <2>2. HandlerOK(k) /\ k \in HandlerRecords /\ k.at = "check"
    BY <2>1 DEF InboxInv, HandlerOK, At
  <2>3. PICK a, v : a = k.actor.id /\ v = k.actor.key.version
    OBVIOUS
  <2>4. /\ a \in Actors /\ v \in Nat /\ k.resolved \in Nat /\ k.actor.key.owner = a
        /\ k.held.fetched \in Nat /\ k.held.refreshed \in Nat
        /\ k.how \in {"resolver", "recent", "held", "fetched"}
    BY <2>2, <2>3, HandlerTyped DEF HandlerOK
  <2>5. v < Len(keys[a]) /\ RetiredAt(k.actor.key) = keys[a][v + 1]
    BY <2>1, <2>3, <2>4 DEF IsRetired, RetiredAt
  <2>6. keys[a][v + 1] \in Nat
    BY <2>4, <2>5, KeyTimeTyped
  <2>7. CASE k.how = "fetched"
    <3>1. k.resolved <= keys[a][v + 1]
      BY <2>2, <2>3, <2>5, <2>7 DEF HandlerOK, InUseAt
    <3> QED
      BY <2>1, <2>4, <2>5, <2>6, <2>7, <3>1
  <2>8. CASE k.how = "recent" /\ a \notin Undated
    <3>1. /\ k.held.fetched <= keys[a][v + 1]
          /\ k.resolved <= k.held.refreshed + RefetchAfter
      BY <2>2, <2>3, <2>4, <2>5, <2>8 DEF HandlerOK, InUseAt
    <3>2. RefetchAfter \in Nat
      BY InboxAssumption
    <3>3. k.resolved <= keys[a][v + 1] + RefetchAfter + (k.held.refreshed - k.held.fetched)
      BY <2>4, <2>6, <3>1, <3>2
    <3> QED
      BY <2>1, <2>5, <2>8, <3>3
  <2> QED
    BY <2>1, <2>4, <2>7, <2>8
<1> QED
  BY <1>1, InboxInvariant, PTL
=============================================================================
