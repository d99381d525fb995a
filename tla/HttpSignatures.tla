--------------------------- MODULE HttpSignatures ---------------------------
(***************************************************************************)
(* HTTP signatures (http_signatures.rs): what a signed request consists of *)
(* and the checks a receiver makes of it.  Cryptography is perfect: a      *)
(* signature is the private key and the signing string it was made of, a   *)
(* digest is its algorithm and the body it was taken of, and a public key  *)
(* is written like the private key it belongs to.                          *)
(*                                                                         *)
(* A request is a record of                                                *)
(*   target     its method and path                                       *)
(*   date       the Date header, or Absent                                 *)
(*   digest     the values of its Digest headers, in order                 *)
(*   body                                                                  *)
(*   signature  [legible, keyId, covers, created, expires, key, string]    *)
(* where legible says whether the header and the key id in it parse,       *)
(* covers names the headers the signature claims to cover, and string is   *)
(* what was really signed.  The value of a Digest header is [readable,     *)
(* parts]: whether it is ASCII, and a set of [algorithm, of].  Any header  *)
(* may be repeated; only Digest is read in two ways, so the others stand   *)
(* for the value that is read, which is the last.                          *)
(***************************************************************************)
EXTENDS Integers, Sequences

CONSTANT ExpiresAfter   \* EXPIRES_AFTER, an hour, in units of the clock

ASSUME ExpiresAfterAssumption == ExpiresAfter \in Nat

Absent == -1    \* a time that is not given

\* A key id is a URL with a fragment.
MainKeyId(actor) == [url |-> actor, fragment |-> "main-key"]

CoveredNames == {"(request-target)", "date", "digest", "(created)", "(expires)"}

DigestHeader(algorithms, body) ==
    [readable |-> TRUE, parts |-> {[algorithm |-> x, of |-> body] : x \in algorithms}]

Unreadable == [readable |-> FALSE, parts |-> {}]

\* verify_signature makes a map of the headers: a later value replaces an
\* earlier one, and a value that is not ASCII is left out.
ReadableDigests(r) == {i \in DOMAIN r.digest : r.digest[i].readable}

MappedDigest(r) ==
    LET last == CHOOSE i \in ReadableDigests(r) : \A j \in ReadableDigests(r) : j <= i
    IN  IF ReadableDigests(r) = {} THEN {} ELSE r.digest[last].parts

\* What a header covered by the signature says.
Field(r, name) ==
    CASE name = "(request-target)" -> r.target
      [] name = "date"             -> r.date
      [] name = "digest"           -> MappedDigest(r)
      [] name = "(created)"        -> r.signature.created
      [] name = "(expires)"        -> r.signature.expires

SigningString(r) == [name \in r.signature.covers |-> Field(r, name)]

----------------------------------------------------------------------------
(* The sender's side: generate_request_headers and sign_request.           *)

Covered(compat) ==
    {"(request-target)", "date", "digest"} \cup
        IF compat THEN {} ELSE {"(created)", "(expires)"}

\* What is signed, before the signature is there: for compatibility with
\* Mastodon without the times, so that only the date says when.
Unsigned(target, actor, body, compat, now) ==
    [target |-> target, date |-> now,
     digest |-> <<DigestHeader({"sha-256"}, body)>>, body |-> body,
     signature |->
        [legible |-> TRUE, keyId |-> MainKeyId(actor), covers |-> Covered(compat),
         created |-> IF compat THEN Absent ELSE now,
         expires |-> IF compat THEN Absent ELSE now + ExpiresAfter]]

\* The signature of r by key.
Sign(r, key) ==
    [r EXCEPT !.signature =
        [legible |-> @.legible, keyId |-> @.keyId, covers |-> @.covers,
         created |-> @.created, expires |-> @.expires,
         key |-> key, string |-> SigningString(r)]]

SignRequest(target, actor, body, key, compat, now) ==
    Sign(Unsigned(target, actor, body, compat, now), key)

----------------------------------------------------------------------------
(* The receiver's side.                                                    *)

\* The library http_signature_normalization refuses a request when one of
\* the times it covers is too long ago.
Expired(r, now) ==
    LET s == r.signature
    IN  \/ "(expires)" \in s.covers /\ s.expires < now
        \/ "(created)" \in s.covers /\ s.created + ExpiresAfter < now
        \/ "date" \in s.covers /\ r.date + ExpiresAfter < now

\* begin_verify, with require_digest: a header that is covered must be there.
BeginVerify(r, now) ==
    /\ r.signature.legible
    /\ "digest" \in r.signature.covers
    /\ ReadableDigests(r) # {}
    /\ ~ Expired(r, now)

HasFreshnessHeader(r) ==
    "date" \in r.signature.covers \/ "(created)" \in r.signature.covers

\* Slip: a signature without a time is taken for a fresh one.
VerifySignatureTimeless(r, publicKey, now) ==
    /\ r.signature.legible
    /\ "digest" \in r.signature.covers
    /\ ReadableDigests(r) # {}
    /\ "date" \in r.signature.covers => ~ Expired(r, now)
    /\ r.signature.key = publicKey
    /\ r.signature.string = SigningString(r)

\* verify_signature and verify_signature_inner.
VerifySignature(r, publicKey, now) ==
    /\ BeginVerify(r, now)
    /\ HasFreshnessHeader(r)
    /\ r.signature.key = publicKey
    /\ r.signature.string = SigningString(r)

\* The parts of the first Digest header, which headers.get returns.
FirstDigest(r) ==
    IF r.digest # <<>> /\ Head(r.digest).readable THEN Head(r.digest).parts ELSE {}

\* Slip: only the algorithm of the digest is looked at.
VerifyBodyHashAnyDigest(r) == \E part \in FirstDigest(r) : part.algorithm = "sha-256"

\* Slip: every part must match.
VerifyBodyHashAllParts(r) ==
    /\ FirstDigest(r) # {}
    /\ \A part \in FirstDigest(r) : part.algorithm = "sha-256" /\ part.of = r.body

\* Any part with the right algorithm and the right sum will do.
VerifyBodyHash(r) ==
    \E part \in FirstDigest(r) : part.algorithm = "sha-256" /\ part.of = r.body

\* An actor is [id, key, persists, publicKeyId]: the id of its key is
\* compared if the application persists it, otherwise the key id without
\* its fragment must be the actor's id.
VerifyActorKeyId(actor, keyId) ==
    IF actor.persists THEN actor.publicKeyId = keyId ELSE keyId.url = actor.id
=============================================================================
