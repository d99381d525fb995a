---------------------------- MODULE SendOutcome ----------------------------
(***************************************************************************)
(* What one attempt to deliver an activity comes to                        *)
(* (activity_sending.rs): the answer of the remote inbox is classified     *)
(* into a SendOutcome, and the outcome is turned into the Ok or Err on     *)
(* which the activity queue decides whether to try again.                  *)
(*                                                                         *)
(* An answer is an HTTP status code, or NoResponse when the request could  *)
(* not be signed, sent or answered in time.  Bodies, Location and          *)
(* Retry-After headers do not take part in either decision.                *)
(***************************************************************************)
EXTENDS Integers

CONSTANT NoResponse     \* the request produced no HTTP response

Success      == 200 .. 299
Redirection  == 300 .. 399
ServerErrors == 500 .. 599

\* Client errors that say "later" rather than "no": request timeout, too
\* early, too many requests.
RetryableClientErrors == {408, 425, 429}

\* The variants of enum SendOutcome.
Outcomes ==
    {"Delivered", "Redirect", "Retryable", "Terminal", "TransportFailure"}

ClassifyResponse(status) ==
    CASE status \in Success                              -> "Delivered"
      [] status \in Redirection                          -> "Redirect"
      [] status \in RetryableClientErrors \cup ServerErrors -> "Retryable"
      [] OTHER                                           -> "Terminal"

\* send_once_internal: signing or transport errors never reach the
\* classification.
SendOnce(answer) ==
    IF answer = NoResponse THEN "TransportFailure" ELSE ClassifyResponse(answer)

\* Slip: a permanent rejection is an Err, and retried.
IntoLegacyResultRejects(outcome) ==
    IF outcome = "Delivered" THEN "Ok" ELSE "Err"

\* into_legacy_result: a permanent rejection is reported as Ok so that it is
\* not retried; a redirect, which is never followed, is an Err like a timeout.
IntoLegacyResult(outcome) ==
    IF outcome \in {"Delivered", "Terminal"} THEN "Ok" ELSE "Err"

\* sign_and_send_internal: the result the queue sees.
SignAndSend(answer) == IntoLegacyResult(SendOnce(answer))
=============================================================================
