---------------------------- MODULE MCForwarding ----------------------------
(***************************************************************************)
(* An instance of Forwarding for TLC: one request - requests share nothing *)
(* but the world - of many kinds, two tenants and three configurations:    *)
(* with policies on the routes, with a route moved and opened, and without *)
(* the first tenant.                                                       *)
(***************************************************************************)
EXTENDS Forwarding, TLC

CONSTANTS A, B       \* tenants, with the hosts and backends of the same name
CONSTANT Elsewhere   \* another host or backend

Policy(mode, limited) ==
    [auth_mode |-> mode, requires_auth |-> FALSE, jwt_validate_exp |-> TRUE, jwt_issuer |-> TRUE,
     jwt_audience |-> FALSE, jwt_clock_skew_seconds |-> 0, jwt_signing_key |-> "usable",
     required |-> {}, forbidden |-> {"debug"}, rate_limited |-> limited]

Route(id, tenant, prefix, methods) ==
    [id |-> id, tenant |-> tenant, prefix |-> prefix, methods |-> methods]

Guarded ==
    [tenants   |-> (A :> A @@ B :> B),
     routes    |-> <<Route("ra", A, <<"/", "a">>, {"GET"}), Route("rb", B, <<"/", "a">>, {}),
                     Route("root", A, <<"/">>, {})>>,
     backends  |-> ("ra" :> A @@ "rb" :> B @@ "root" :> A),
     policies  |-> ("ra" :> Policy("jwt_claims", TRUE)
                      @@ "rb" :> [Policy("jwt_signed", FALSE) EXCEPT !.jwt_signing_key = "none"]),
     fallbacks |-> (A :> Policy("bearer", FALSE) @@ B :> Policy("none", TRUE))]

\* Tenant A has no route "/" any more, and "/a" goes elsewhere, unprotected.
Opened ==
    [tenants   |-> (A :> A @@ B :> B),
     routes    |-> <<Route("rb", B, <<"/", "a", "/">>, {}), Route("ra", A, <<"/", "a">>, {"GET"})>>,
     backends  |-> ("ra" :> Elsewhere @@ "rb" :> B),
     policies  |-> ("rb" :> [Policy("jwt_signed", TRUE) EXCEPT !.jwt_signing_key = "unusable"]),
     fallbacks |-> (A :> [Policy("", TRUE) EXCEPT !.requires_auth = FALSE])]

WithoutA ==
    [tenants   |-> (B :> B),
     routes    |-> <<Route("rb", B, <<"/", "a">>, {})>>,
     backends  |-> ("rb" :> B),
     policies  |-> ("rb" :> [Policy("jwt_signed", FALSE) EXCEPT !.jwt_clock_skew_seconds = 300]),
     fallbacks |-> (B :> Policy("jwt_structural", FALSE))]

NoToken == [form |-> "absent", alg |-> "none", exp |-> "missing", left |-> 0,
            iss |-> FALSE, aud |-> FALSE, signed |-> FALSE]
Jwt(left, signed) == [form |-> "jwt", alg |-> "some", exp |-> "numeric", left |-> left,
                      iss |-> TRUE, aud |-> FALSE, signed |-> signed]

Input(host, method, path, token, names) ==
    [host |-> host, method |-> method, path |-> path, token |-> token, names |-> names,
     fits |-> TRUE]

SomeSnapshots == {Guarded, Opened, WithoutA}
SomeInputs ==
    {Input(A, "GET", <<"/", "a", "/", "b">>, Jwt(-30, FALSE), {}),
     Input(A, "GET", <<"/", "a">>, Jwt(-31, FALSE), {}),
     Input(A, "GET", <<"/", "a", "b">>, Jwt(0, TRUE), {}),
     Input(A, "POST", <<"/", "a", "/">>, NoToken, {}),
     Input(B, "POST", <<"/", "a", "/", "b">>, Jwt(-300, TRUE), {}),
     Input(B, "GET", <<"/", "a", "/">>, Jwt(0, TRUE), {"debug"}),
     Input(Elsewhere, "GET", <<"/">>, NoToken, {}),
     Input(A, "GET", <<"/", "a">>, [Jwt(0, FALSE) EXCEPT !.exp = "missing"], {}),
     Input(B, "GET", <<"/", "a">>, [NoToken EXCEPT !.form = "opaque"], {}),
     Input(B, "GET", <<"/", "a">>, [Jwt(0, TRUE) EXCEPT !.exp = "missing"], {}),
     [Input(A, "GET", <<"/", "c">>, Jwt(0, FALSE), {}) EXCEPT !.fits = FALSE],
     Input(A, "HEAD", <<"/", "a">>, NoToken, {})}
=============================================================================
