-------------------------- MODULE PolicyEvaluation --------------------------
(***************************************************************************)
(* Whether a policy lets a request through: the ladder of token checks,    *)
(* then the required and the forbidden headers and query parameters.       *)
(*                                                                         *)
(* A policy is a record                                                    *)
(*   auth_mode, requires_auth, jwt_validate_exp    as stored               *)
(*   jwt_issuer, jwt_audience    whether one is configured                 *)
(*   jwt_clock_skew_seconds                                                *)
(*   jwt_signing_key             "none", "usable" or "unusable"            *)
(*   required, forbidden         names of headers and of parameters        *)
(*   rate_limited                whether rate_limit_per_minute is set      *)
(* and a token is a record                                                 *)
(*   form      "absent", "empty", "opaque" (not three segments),           *)
(*             "unreadable" or "jwt"                                       *)
(*   alg       "none" or "some"                                            *)
(*   exp       "missing", "malformed" or "numeric";  left: then, the       *)
(*             seconds it has left                                         *)
(*   iss, aud  whether they are the policy's;  signed: by its key          *)
(***************************************************************************)
EXTENDS Integers

AuthModes == {"none", "bearer", "jwt_structural", "jwt_claims", "jwt_signed"}

\* Policy._normalize_auth_mode()
AuthMode(p) ==
    IF p.auth_mode # "" THEN IF p.auth_mode \in AuthModes THEN p.auth_mode ELSE "none"
    ELSE IF ~p.requires_auth THEN "none"
    ELSE IF p.jwt_validate_exp THEN "jwt_claims" ELSE "jwt_structural"

\* _policy_from_row(): int(jskew or 30), then Policy.__post_init__()
ClockSkew(p) ==
    IF p.jwt_clock_skew_seconds = 0 THEN 30
    ELSE IF p.jwt_clock_skew_seconds < 0 THEN 0 ELSE p.jwt_clock_skew_seconds

Allowed == [allowed |-> TRUE, status |-> 200]
Denied(status) == [allowed |-> FALSE, status |-> status]

\* A signing key the library cannot use: what it raises is not a JWTError.
Raised == [allowed |-> FALSE, status |-> 0]

BearerPresent(t) == t.form \notin {"absent", "empty"}

\* _decode_unverified_jwt()
JwtReadable(t) == t.form = "jwt" /\ t.alg # "none"

NotExpired(p, t) == t.exp = "numeric" /\ t.left >= -ClockSkew(p)
NamesMatch(p, t) == (p.jwt_issuer => t.iss) /\ (p.jwt_audience => t.aud)

\* _validate_exp(): exp_value < time.time() - skew_seconds has expired
ClaimsPass(p, t) ==
    /\ p.jwt_validate_exp => NotExpired(p, t)
    /\ NamesMatch(p, t)

\* jwt.decode() of python-jose: it checks an exp that is there.
DecodePasses(p, t) ==
    /\ t.signed
    /\ p.jwt_validate_exp => t.exp = "missing" \/ NotExpired(p, t)
    /\ NamesMatch(p, t)

Signed(p, t) ==
    CASE p.jwt_signing_key = "none"     -> Denied(503)
      [] p.jwt_signing_key = "unusable" -> Raised
      [] OTHER -> IF DecodePasses(p, t) THEN Allowed ELSE Denied(401)

\* _evaluate_auth()
TokenResult(p, t) ==
    LET mode == AuthMode(p) IN
    CASE mode = "none"           -> Allowed
      [] ~BearerPresent(t)       -> Denied(401)
      [] mode = "bearer"         -> Allowed
      [] ~JwtReadable(t)         -> Denied(401)
      [] mode = "jwt_structural" -> Allowed
      [] mode = "jwt_claims"     -> IF ClaimsPass(p, t) THEN Allowed ELSE Denied(401)
      [] mode = "jwt_signed"     -> Signed(p, t)

\* RequiredHeadersPolicy, ForbiddenHeadersPolicy and the same for parameters
ComponentsPass(p, names) == p.required \subseteq names /\ p.forbidden \cap names = {}

\* evaluate()
Evaluate(p, t, names) ==
    IF ~TokenResult(p, t).allowed THEN TokenResult(p, t)
    ELSE IF ComponentsPass(p, names) THEN Allowed ELSE Denied(400)
=============================================================================
