-------------------------------- MODULE Net --------------------------------
(***************************************************************************)
(* net.py as operators: which signing key a request was signed with, and   *)
(* what an authenticated request to Inngest ends with. A signature is the  *)
(* key it was made with; whether a body parses is part of the request.     *)
(***************************************************************************)
EXTENDS Naturals

CONSTANTS
    None,       \* Python's None
    Keys        \* signing keys

\* What _validate_sig and validate_request_sig return instead of raising, and
\* Unreadable, which they raise: int() of a timestamp that is not a number.
Unreadable == "not a number"
SignatureErrors == {"not JSON", "header missing", "key missing", "malformed",
                    "verification failed", Unreadable}
IsError(key) == key \in SignatureErrors

\* A key is neither None nor an exception, and what it signs is well formed.
ASSUME NetAssumption ==
    None \notin Keys /\ Keys \cap (SignatureErrors \cup {"malformed"}) = {}

\* _validate_sig. Dev mode accepts anything.
ValidateSig(sig, mode, key) ==
    CASE mode = "dev"         -> None
      [] mode # "dev" /\ sig = None -> "header missing"
      [] mode # "dev" /\ sig = Unreadable -> Unreadable
      [] mode # "dev" /\ sig \notin {None, Unreadable} /\ key = None -> "key missing"
      [] mode # "dev" /\ sig = "malformed" /\ key # None -> "malformed"
      [] mode # "dev" /\ sig \in Keys /\ key # None ->
            IF sig = key THEN key ELSE "verification failed"

\* Mutant of FallbackSig: the fallback's result is not checked.
FallbackAccepted(sig, mode, fallback) == fallback

FallbackSig(sig, mode, fallback) == ValidateSig(sig, mode, fallback)

\* validate_request_sig: a body that is not JSON cannot be canonicalized, and
\* the fallback key is tried when the first key fails.
ValidateRequestSig(body, sig, conf) ==
    LET first == ValidateSig(sig, conf.mode, conf.key)
    IN  CASE body = "not JSON" -> "not JSON"
          [] body # "not JSON" /\ ~IsError(first) -> first
          [] body # "not JSON" /\ IsError(first) /\ conf.fallback = None -> first
          [] body # "not JSON" /\ IsError(first) /\ conf.fallback # None ->
                FallbackSig(sig, conf.mode, conf.fallback)

-----------------------------------------------------------------------------
(* An authenticated request: waiting for the first or the second answer,    *)
(* or what its caller got. "invalid" is a 200 whose body has the wrong      *)
(* type; "failed" is an exception of the transport.                         *)

Waiting == {"first", "second"}
Got == {"ok", "invalid", "unauthorized", "error", "failed"}
FetchStates == Waiting \cup Got

\* The key in the Authorization header of the try under way.
AuthKey(fetch, conf) == IF fetch = "first" THEN conf.key ELSE conf.fallback

\* What Inngest and the network may answer, which refuses other keys.
ApiAnswers(key, conf) ==
    IF conf.mode = "dev" \/ key \in conf.accepts THEN Got \ {"unauthorized"}
    ELSE {"unauthorized", "failed"}

\* Mutant of FetchWithAuthFallback: the fallback key is never tried.
FetchOnce(fetch, answer, fallback) == answer

\* fetch_with_auth_fallback: 401 and 403 are tried again, once, when there is
\* a fallback key.
FetchWithAuthFallback(fetch, answer, fallback) ==
    IF fetch = "first" /\ answer = "unauthorized" /\ fallback # None
    THEN "second" ELSE answer

=============================================================================
