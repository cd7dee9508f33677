-------------------------- MODULE Forwarding_proofs --------------------------
(***************************************************************************)
(* Proofs about Forwarding, for any configurations and any requests: one   *)
(* configuration decides a request, tenants stay apart, and the events of  *)
(* an answer agree with it and are taken by the database.                  *)
(***************************************************************************)
EXTENDS Forwarding, WellFoundedInduction, NaturalsInduction, SequenceTheorems, TLAPS

-----------------------------------------------------------------------------
(***************************************************************************)
(* Paths.                                                                  *)
(***************************************************************************)
\* A set of naturals that is not empty has a least member.
LEMMA LeastOf ==
    ASSUME NEW S \in SUBSET Nat, S # {}
    PROVE  Min(S) \in S /\ \A y \in S : Min(S) <= y
<1>1. \E x \in S : \A y \in S : <<y, x>> \notin OpToRel(<, Nat)
  BY NatLessThanWellFounded, WFMin
<1>2. \E x \in S : \A y \in S : ~(y < x) BY <1>1 DEF OpToRel
<1>3. \E x \in S : \A y \in S : x <= y BY <1>2
<1>4. QED BY <1>3 DEF Min

\* A bounded set that is not empty has a greatest one.
LEMMA GreatestOf ==
    ASSUME NEW n \in Nat, NEW S \in SUBSET (1 .. n), S # {}
    PROVE  Max(S) \in S /\ \A y \in S : y <= Max(S)
<1> DEFINE T == {n - x : x \in S}
<1>0. \A x \in S : n - x \in Nat OBVIOUS
<1>1. T \in SUBSET Nat /\ T # {} BY <1>0
<1>2. Min(T) \in T /\ \A y \in T : Min(T) <= y BY <1>1, LeastOf
<1>3. PICK x \in S : Min(T) = n - x BY <1>2
<1>4. \A y \in S : n - x <= n - y BY <1>2, <1>3
<1>5. \A y \in S : x >= y BY <1>4
<1>6. QED BY <1>5 DEF Max

\* rstrip("/") leaves a prefix, and cuts off nothing but "/".
LEMMA Trailing ==
    ASSUME NEW S, NEW s \in Seq(S)
    PROVE  \E n \in 0 .. Len(s) :
              /\ WithoutTrailing(s) = SubSeq(s, 1, n)
              /\ \A j \in n + 1 .. Len(s) : s[j] = "/"
<1> DEFINE N == NotSlash(s)
<1>0. DOMAIN s = 1 .. Len(s) /\ Len(s) \in Nat BY LenProperties
<1>1. N \in SUBSET (1 .. Len(s)) /\ Len(s) \in Nat BY <1>0 DEF NotSlash
<1>2. CASE N = {}
  <2>1. WithoutTrailing(s) = SubSeq(s, 1, 0) BY <1>2 DEF WithoutTrailing
  <2>2. \A j \in 1 .. Len(s) : s[j] = "/" BY <1>2, LenProperties DEF NotSlash
  <2>3. QED BY <1>1, <2>1, <2>2
<1>3. CASE N # {}
  <2>1. Max(N) \in N /\ \A y \in N : y <= Max(N) BY <1>1, <1>3, GreatestOf
  <2>2. WithoutTrailing(s) = SubSeq(s, 1, Max(N)) BY <1>3 DEF WithoutTrailing
  <2>3. \A j \in Max(N) + 1 .. Len(s) : s[j] = "/"
    <3> SUFFICES ASSUME NEW j \in Max(N) + 1 .. Len(s) PROVE s[j] = "/" OBVIOUS
    <3>1. j \in DOMAIN s /\ ~(j <= Max(N)) BY <1>0, <1>1, <2>1
    <3>2. j \notin N BY <2>1, <3>1
    <3>3. QED BY <3>1, <3>2 DEF NotSlash
  <2>4. QED BY <1>1, <2>1, <2>2, <2>3
<1>4. QED BY <1>2, <1>3

\* What is cut off.
Slashes(k) == [j \in 1 .. k |-> "/"]

\* lstrip("/") cuts off "/" from the front.
LEMMA Leading ==
    ASSUME NEW S, "/" \in S, NEW s \in Seq(S)
    PROVE  \E k \in 0 .. Len(s) :
              /\ s = Slashes(k) \o WithoutLeading(s)
              /\ s # <<>> /\ s[1] = "/" => k > 0
<1> DEFINE N == NotSlash(s)
<1>0. DOMAIN s = 1 .. Len(s) /\ Len(s) \in Nat BY LenProperties
<1>1. N \in SUBSET (1 .. Len(s)) /\ N \in SUBSET Nat /\ Len(s) \in Nat BY <1>0 DEF NotSlash
<1>2. \A k \in Nat : Slashes(k) \in Seq(S) /\ Len(Slashes(k)) = k
  BY IsASeq DEF Slashes
<1>3. CASE N = {}
  <2>1. \A j \in 1 .. Len(s) : s[j] = "/" BY <1>3, LenProperties DEF NotSlash
  <2>2. s = Slashes(Len(s)) BY <1>1, <1>2, <2>1, SeqEqual DEF Slashes
  <2>3. WithoutLeading(s) = <<>> BY <1>3 DEF WithoutLeading
  <2>4. Slashes(Len(s)) \o <<>> = Slashes(Len(s)) BY <1>1, <1>2, ConcatEmptySeq
  <2>5. s # <<>> => Len(s) > 0 BY <1>1, EmptySeq
  <2>6. QED BY <1>1, <2>2, <2>3, <2>4, <2>5
<1>4. CASE N # {}
  <2> DEFINE m == Min(N)
  <2>1. m \in N /\ \A y \in N : m <= y BY <1>1, <1>4, LeastOf
  <2>2. m \in 1 .. Len(s) BY <1>1, <2>1
  <2>3. WithoutLeading(s) = SubSeq(s, m, Len(s)) BY <1>4 DEF WithoutLeading
  <2>4. ASSUME NEW j \in 1 .. m - 1 PROVE s[j] = "/"
    <3>1. j \in DOMAIN s /\ ~(m <= j) BY <1>0, <1>1, <2>2
    <3>2. j \notin N BY <2>1, <3>1
    <3>3. QED BY <3>1, <3>2 DEF NotSlash
  <2> HIDE DEF m, N
  <2>5. SubSeq(s, 1, m - 1) = Slashes(m - 1)
    <3>1. \A i \in 1 .. m - 1 : s[i] \in S BY <2>2, ElementOfSeq
    <3>2. SubSeq(s, 1, m - 1) \in Seq(S) /\ Len(SubSeq(s, 1, m - 1)) = m - 1
          /\ \A i \in 1 .. m - 1 : SubSeq(s, 1, m - 1)[i] = s[i]
      BY <1>1, <2>2, <3>1, SubSeqProperties
    <3>3. QED BY <1>2, <2>2, <2>4, <3>2, SeqEqual DEF Slashes
  <2>6. SubSeq(s, 1, m - 1) \o SubSeq(s, m, Len(s)) = s
    <3>1. SubSeq(s, 1, m - 1) \o SubSeq(s, (m - 1) + 1, Len(s)) = SubSeq(s, 1, Len(s))
      <4>1. 1 \in 1 .. Len(s) + 1 /\ m - 1 \in 1 - 1 .. Len(s) /\ Len(s) \in m - 1 .. Len(s)
        BY <1>1, <2>2
      <4>2. QED BY <4>1, ConcatAdjacentSubSeq
    <3>2. QED BY <2>2, <3>1, SubSeqFull
  <2>7. s[1] = "/" => m # 1 BY <2>1 DEF N, NotSlash
  <2>8. m - 1 \in 0 .. Len(s) /\ (m # 1 => m - 1 > 0) BY <1>1, <2>2
  <2>9. s = Slashes(m - 1) \o WithoutLeading(s) BY <2>3, <2>5, <2>6
  <2>10. QED BY <2>7, <2>8, <2>9
<1>5. QED BY <1>3, <1>4

\* What is left behind lstrip("/") is a sequence.
LEMMA LeadingType ==
    ASSUME NEW S, NEW s \in Seq(S)
    PROVE  WithoutLeading(s) \in Seq(S)
<1>0. DOMAIN s = 1 .. Len(s) /\ Len(s) \in Nat BY LenProperties
<1>1. CASE NotSlash(s) = {} BY <1>1, EmptySeq DEF WithoutLeading
<1>2. CASE NotSlash(s) # {}
  <2>1. NotSlash(s) \in SUBSET Nat /\ NotSlash(s) \in SUBSET (1 .. Len(s)) BY <1>0 DEF NotSlash
  <2>2. Min(NotSlash(s)) \in 1 .. Len(s) BY <1>2, <2>1, LeastOf
  <2>3. \A i \in Min(NotSlash(s)) .. Len(s) : s[i] \in S BY <1>0, <2>2, ElementOfSeq
  <2>4. QED BY <1>0, <1>2, <2>2, <2>3, SubSeqProperties DEF WithoutLeading
<1>3. QED BY <1>1, <1>2

\* A sequence may be put together from the left.
LEMMA Glued ==
    ASSUME NEW S, NEW p \in Seq(S), NEW a \in Seq(S), NEW b \in Seq(S),
           NEW rest, rest = a \o b, NEW path, path = p \o rest
    PROVE  path = p \o a \o b
<1>1. (p \o a) \o b = p \o (a \o b) BY ConcatAssociative
<1>2. QED BY <1>1

\* A path that a prefix matches is cut at a "/", or ends with the prefix.
LEMMA Cut ==
    ASSUME NEW S, "/" \in S, NEW prefix \in Seq(S), NEW path \in Seq(S),
           Len(path) > 0, path[1] = "/", PathMatches(prefix, path)
    PROVE  \E k \in 0 .. Len(path) :
              /\ path = WithoutTrailing(prefix) \o Slashes(k) \o UpstreamPath(Stripped(prefix, path))
              /\ k = 0 => UpstreamPath(Stripped(prefix, path)) = <<>>
<1> DEFINE p == WithoutTrailing(prefix)
<1>0. DOMAIN path = 1 .. Len(path) /\ Len(path) \in Nat /\ Len(prefix) \in Nat BY LenProperties
<1>1. PICK n \in 0 .. Len(prefix) : /\ p = SubSeq(prefix, 1, n)
                                    /\ \A j \in n + 1 .. Len(prefix) : prefix[j] = "/"
  BY Trailing
<1>2. \A i \in 1 .. n : prefix[i] \in S BY <1>0, ElementOfSeq
<1>3. p \in Seq(S) /\ Len(p) = n /\ \A i \in 1 .. n : p[i] = prefix[i]
  BY <1>0, <1>1, <1>2, SubSeqProperties
<1>4. WithoutTrailing(Slash) = <<>>
  <2>1. NotSlash(Slash) = {} BY DEF NotSlash, Slash
  <2>2. QED BY <2>1, SubSeqEmpty DEF WithoutTrailing
<1> HIDE DEF p
<1>5. /\ n <= Len(path) /\ \A i \in 1 .. n : path[i] = p[i]
      /\ n < Len(path) => path[n + 1] = "/"
  <2>1. CASE path = prefix BY <1>0, <1>1, <1>3, <2>1
  <2>2. CASE IsPrefix(p \o Slash, path)
    <3>1. Slash \in Seq(S) /\ Len(Slash) = 1 /\ Slash[1] = "/" BY DEF Slash
    <3>2. p \o Slash \in Seq(S) /\ Len(p \o Slash) = n + 1
          /\ \A i \in 1 .. n + 1 : (p \o Slash)[i] = IF i <= n THEN p[i] ELSE Slash[i - n]
      <4>1. /\ p \o Slash \in Seq(S) /\ Len(p \o Slash) = Len(p) + Len(Slash)
            /\ \A i \in 1 .. Len(p) + Len(Slash) :
                  (p \o Slash)[i] = IF i <= Len(p) THEN p[i] ELSE Slash[i - Len(p)]
        BY <1>3, <3>1, ConcatProperties
      <4>2. QED BY <1>3, <3>1, <4>1
    <3>3. n + 1 <= Len(path) /\ SubSeq(p \o Slash, 1, n + 1) = SubSeq(path, 1, n + 1)
      BY <2>2, <3>2 DEF IsPrefix
    <3>4. SubSeq(path, 1, n + 1) = p \o Slash BY <3>2, <3>3, SubSeqFull
    <3>5. \A i \in 1 .. n + 1 : path[i] \in S BY <1>0, <3>3, ElementOfSeq
    <3>6. \A i \in 1 .. n + 1 : SubSeq(path, 1, n + 1)[i] = path[i]
      BY <3>5, SubSeqProperties
    <3>7. \A i \in 1 .. n + 1 : path[i] = IF i <= n THEN p[i] ELSE Slash[i - n]
      BY <3>2, <3>4, <3>6
    <3>8. QED BY <3>1, <3>3, <3>7
  <2>3. CASE prefix = Slash
    <3>1. n = 0 BY <1>3, <1>4, <2>3, EmptySeq DEF p
    <3>2. Len(path) > 0 BY <1>0, EmptySeq
    <3>3. QED BY <3>1, <3>2
  <2>4. QED BY <2>1, <2>2, <2>3 DEF PathMatches, p
<1>6. SubSeq(path, 1, n) = p
  <2>1. \A i \in 1 .. n : path[i] \in S BY <1>0, <1>5, ElementOfSeq
  <2>2. SubSeq(path, 1, n) \in Seq(S) /\ Len(SubSeq(path, 1, n)) = n
        /\ \A i \in 1 .. n : SubSeq(path, 1, n)[i] = path[i]
    BY <2>1, SubSeqProperties
  <2>3. QED BY <1>3, <1>5, <2>2, SeqEqual
<1>7. IsPrefix(p, path) BY <1>3, <1>5, <1>6, SubSeqFull DEF IsPrefix
<1> DEFINE rest == SubSeq(path, n + 1, Len(path))
<1>8. path = p \o rest
  <2>1. 1 \in 1 .. Len(path) + 1 /\ n \in 1 - 1 .. Len(path) /\ Len(path) \in n .. Len(path)
    BY <1>0, <1>5
  <2>2. QED BY <1>6, <2>1, ConcatAdjacentSubSeq, SubSeqFull
<1>9. rest \in Seq(S) /\ Len(rest) = Len(path) - n /\ (n < Len(path) => rest[1] = path[n + 1])
  <2>1. \A i \in n + 1 .. Len(path) : path[i] \in S BY <1>0, <1>5, ElementOfSeq
  <2>2. /\ n + 1 \in Int /\ Len(path) \in Int /\ n \in Nat
        /\ Len(path) - (n + 1) + 1 = Len(path) - n /\ (n + 1) + 1 - 1 = n + 1
    BY <1>0, <1>5
  <2>3. /\ rest \in Seq(S) /\ Len(rest) = IF n + 1 <= Len(path) THEN Len(path) - (n + 1) + 1 ELSE 0
        /\ \A i \in 1 .. Len(path) - (n + 1) + 1 : rest[i] = path[(n + 1) + i - 1]
    BY <2>1, <2>2, SubSeqProperties
  <2>4. CASE n < Len(path)
    <3>1. n + 1 <= Len(path) /\ 1 \in 1 .. Len(path) - (n + 1) + 1 BY <1>0, <2>2, <2>4
    <3>2. (n + 1) + 1 - 1 = n + 1 BY <2>2
    <3>3. QED BY <2>2, <2>3, <3>1, <3>2
  <2>5. CASE n = Len(path)
    <3>1. ~(n + 1 <= Len(path)) /\ Len(path) - n = 0 BY <1>0, <2>5
    <3>2. QED BY <2>3, <2>5, <3>1
  <2>6. n < Len(path) \/ n = Len(path)
    <3>1. n \in Nat /\ Len(path) \in Nat /\ n <= Len(path) BY <1>0, <1>5
    <3>2. QED BY <3>1
  <2>7. QED BY <2>4, <2>5, <2>6
<1>10. Stripped(prefix, path) = IF rest = <<>> THEN Slash ELSE rest
  BY <1>3, <1>7 DEF Stripped, p
<1> HIDE DEF rest
<1>11. CASE rest = <<>>
  <2>1. WithoutLeading(Slash) = <<>>
    <3>1. NotSlash(Slash) = {} BY DEF NotSlash, Slash
    <3>2. QED BY <3>1 DEF WithoutLeading
  <2>2. Slashes(0) = <<>> BY DEF Slashes
  <2>3. p \o Slashes(0) \o <<>> = path BY <1>3, <1>8, <1>11, <2>2, ConcatEmptySeq
  <2>4. UpstreamPath(Stripped(prefix, path)) = <<>> BY <1>10, <1>11, <2>1 DEF UpstreamPath
  <2>5. path = p \o Slashes(0) \o UpstreamPath(Stripped(prefix, path)) BY <2>3, <2>4
  <2>6. 0 \in 0 .. Len(path) BY <1>0
  <2>7. QED BY <2>4, <2>5, <2>6 DEF p
<1>12. CASE rest # <<>>
  <2>1. Len(rest) > 0 /\ rest[1] = "/"
    <3>1. Len(rest) # 0 BY <1>9, <1>12, EmptySeq
    <3>2. n < Len(path)
      <4>1. n \in Nat /\ Len(path) \in Nat /\ n <= Len(path) BY <1>0, <1>5
      <4>2. Len(path) - n # 0 BY <1>9, <3>1
      <4>3. QED BY <4>1, <4>2
    <3>3. QED BY <1>0, <1>5, <1>9, <3>2
  <2>2. PICK k \in 0 .. Len(rest) : rest = Slashes(k) \o WithoutLeading(rest) /\ k > 0
    BY <1>9, <1>12, <2>1, Leading
  <2>3. WithoutLeading(rest) \in Seq(S) BY <1>9, LeadingType
  <2>4. Slashes(k) \in Seq(S) BY <1>0, <1>9, IsASeq DEF Slashes
  <2>5. path = p \o Slashes(k) \o WithoutLeading(rest)
    <3>1. rest = Slashes(k) \o WithoutLeading(rest) BY <2>2
    <3> DEFINE a == Slashes(k)
               b == WithoutLeading(rest)
    <3>2. p \in Seq(S) /\ a \in Seq(S) /\ b \in Seq(S) /\ rest = a \o b /\ path = p \o rest
      BY <1>3, <1>8, <2>3, <2>4, <3>1
    <3> HIDE DEF a, b
    <3>3. path = p \o a \o b BY ONLY <3>2, Glued, SMTT(60)
    <3>4. QED BY <3>3 DEF a, b
  <2>6. UpstreamPath(Stripped(prefix, path)) = WithoutLeading(rest)
    BY <1>10, <1>12 DEF UpstreamPath
  <2>7. k \in 0 .. Len(path) /\ k # 0 BY <1>0, <1>5, <1>9, <2>2
  <2>8. QED BY <2>5, <2>6, <2>7 DEF p
<1>13. QED BY <1>11, <1>12

-----------------------------------------------------------------------------
(***************************************************************************)
(* The lookups and the policy.                                             *)
(***************************************************************************)
\* The route that get_by_path() returns belongs to the tenant of the host,
\* and its prefix matches.
LEMMA RouteFound ==
    ASSUME NEW s \in Snapshots, NEW i, Hits(s, i) # {}
    PROVE  /\ RouteOf(s, i).tenant = TenantOf(s, i)
           /\ PathMatches(RouteOf(s, i).prefix, i.path)
           /\ RouteOf(s, i).prefix \in Seq(STRING)
<1>1. Hits(s, i) \in SUBSET Nat BY SnapshotsAssumption DEF Hits
<1>2. Min(Hits(s, i)) \in Hits(s, i) BY <1>1, LeastOf
<1>3. QED BY <1>2, PathsAssumption DEF Hits, RouteOf

\* A host has a tenant of the constants, or none.
LEMMA TenantFound ==
    ASSUME NEW s \in Snapshots, NEW i
    PROVE  /\ TenantOf(s, i) \in Tenants \cup {None}
           /\ TenantOf(s, i) # None => TenantOf(s, i) = s.tenants[i.host]
BY TenantsAssumption DEF TenantOf

\* A policy that refuses raises, or says why with a status of its own.
LEMMA VerdictOf ==
    ASSUME NEW p, NEW i
    PROVE  Verdict(p, i) \in {Allowed, Raised, Denied(400), Denied(401), Denied(503)}
<1>1. AuthMode(p) \in AuthModes BY DEF AuthMode, AuthModes
<1>2. TokenResult(p, i.token) \in {Allowed, Raised, Denied(401), Denied(503)}
  BY <1>1 DEF TokenResult, Signed, AuthModes
<1>3. QED BY <1>2 DEF Verdict, Evaluate, Allowed

Refused ==
    [outcome : {"TENANT_NOT_FOUND", "ROUTE_NOT_FOUND", "DOMAIN_NOT_FOUND", "UNEXPECTED_ERROR"}, status : {None}]
      \cup [outcome : {"POLICY_DENIED"}, status : {400, 401, 503}]

\* Whatever a request is refused for, it is one of these.
LEMMA RefusalOf ==
    ASSUME NEW s, NEW i
    PROVE  Refusal(s, i) \in Refused \cup {GoesOn}
<1> DEFINE v == Verdict(PolicyOf(s, i), i)
<1>1. v \in {Allowed, Raised, Denied(400), Denied(401), Denied(503)} BY VerdictOf
<1>2. v = Raised \/ v.allowed \/ v.status \in {400, 401, 503} BY <1>1 DEF Allowed, Raised, Denied
<1>3. (IF v = Raised THEN [outcome |-> "UNEXPECTED_ERROR", status |-> None]
       ELSE IF v.allowed THEN GoesOn
       ELSE [outcome |-> "POLICY_DENIED", status |-> v.status]) \in Refused \cup {GoesOn}
  BY <1>2 DEF Refused
<1>4. QED BY <1>3 DEF Refusal, Refused

\* A request that goes on has a tenant, a route of it and a backend.
LEMMA GoingOn ==
    ASSUME NEW s \in Snapshots, NEW i, Refusal(s, i) = GoesOn
    PROVE  /\ TenantOf(s, i) = s.tenants[i.host]
           /\ RouteOf(s, i).tenant = TenantOf(s, i)
           /\ PathMatches(RouteOf(s, i).prefix, i.path)
           /\ RouteOf(s, i).prefix \in Seq(STRING)
           /\ BackendOf(s, i) = s.backends[RouteOf(s, i).id] /\ BackendOf(s, i) # None
           /\ RouteOf(s, i).id \in DOMAIN s.policies
                 => PolicyOf(s, i) = s.policies[RouteOf(s, i).id]
<1>1. GoesOn.outcome = "NONE" BY DEF GoesOn
<1>2. TenantOf(s, i) # None /\ Hits(s, i) # {} /\ BackendOf(s, i) # None
  BY <1>1 DEF Refusal
<1>3. QED BY <1>2, TenantFound, RouteFound DEF BackendOf, PolicyOf

-----------------------------------------------------------------------------
(***************************************************************************)
(* The events.                                                             *)
(***************************************************************************)
\* How a request may end.
Endings ==
    Refused
      \cup [outcome : {"POLICY_DENIED"}, status : {429}]
      \cup [outcome : {"SUCCESS"}, status : Statuses]
      \cup [outcome : {"UNEXPECTED_ERROR"} \cup UpstreamErrors, status : {None}]

\* An ending has a status for the log, and one or none for the audit event;
\* the router's status is the log's unless a backend was too slow, and only a
\* success has no code.
LEMMA EndingOf ==
    ASSUME NEW o, NEW status, [outcome |-> o, status |-> status] \in Endings
    PROVE  /\ o \in {"TENANT_NOT_FOUND", "ROUTE_NOT_FOUND", "DOMAIN_NOT_FOUND", "POLICY_DENIED",
                     "SUCCESS", "UNEXPECTED_ERROR"} \cup UpstreamErrors
           /\ LogStatus(o, status) \in 100..599
           /\ AuditStatus(o, status) \in {LogStatus(o, status), None}
           /\ Answer(o, status).code = "NONE" <=> o = "SUCCESS"
           /\ \/ Answer(o, status).status = LogStatus(o, status)
              \/ o = "UPSTREAM_TIMEOUT" /\ Answer(o, status).status = 504 /\ LogStatus(o, status) = 502
<1>1. \/ o = "POLICY_DENIED" /\ status \in {400, 401, 503, 429}
      \/ o = "SUCCESS" /\ status \in 100..599
      \/ o \in {"TENANT_NOT_FOUND", "ROUTE_NOT_FOUND", "DOMAIN_NOT_FOUND", "UNEXPECTED_ERROR"} \cup UpstreamErrors
  <2> DEFINE e == [outcome |-> o, status |-> status]
  <2>0. e.outcome = o /\ e.status = status OBVIOUS
  <2>1. CASE e \in Refused BY <2>0, <2>1 DEF Refused
  <2>2. CASE e \in [outcome : {"POLICY_DENIED"}, status : {429}] BY <2>0, <2>2
  <2>3. CASE e \in [outcome : {"SUCCESS"}, status : Statuses] BY <2>0, <2>3, StatusesAssumption
  <2>4. CASE e \in [outcome : {"UNEXPECTED_ERROR"} \cup UpstreamErrors, status : {None}]
    BY <2>0, <2>4
  <2>5. QED BY <2>1, <2>2, <2>3, <2>4 DEF Endings
<1>2. CASE o \in {"POLICY_DENIED", "SUCCESS"}
  <2>1. status \in 100..599 BY <1>1, <1>2 DEF UpstreamErrors
  <2>2. LogStatus(o, status) = status /\ AuditStatus(o, status) = status BY <1>2 DEF LogStatus, AuditStatus
  <2>3. Answer(o, status).status = status /\ (Answer(o, status).code = "NONE" <=> o = "SUCCESS")
    <3>1. CASE o = "POLICY_DENIED" BY <3>1 DEF Answer, UpstreamErrors
    <3>2. CASE o = "SUCCESS" BY <3>2 DEF Answer, UpstreamErrors
    <3>3. QED BY <1>2, <3>1, <3>2
  <2>4. QED BY <1>2, <2>1, <2>2, <2>3
<1>3. CASE o \in {"TENANT_NOT_FOUND", "ROUTE_NOT_FOUND", "DOMAIN_NOT_FOUND", "UNEXPECTED_ERROR"} \cup UpstreamErrors
  <2>1. LogStatus(o, status) = IF o \in {"TENANT_NOT_FOUND", "ROUTE_NOT_FOUND"} THEN 404 ELSE 502
    BY <1>3 DEF LogStatus, UpstreamErrors
  <2>2. AuditStatus(o, status) \in {LogStatus(o, status), None}
    BY <1>3 DEF LogStatus, AuditStatus, UpstreamErrors
  <2>3. /\ Answer(o, status).code # "NONE" /\ o # "SUCCESS"
        /\ Answer(o, status).status =
              IF o = "UPSTREAM_TIMEOUT" THEN 504
              ELSE IF o \in {"TENANT_NOT_FOUND", "ROUTE_NOT_FOUND"} THEN 404 ELSE 502
    BY <1>3 DEF Answer, UpstreamErrors
  <2>4. QED BY <1>3, <2>1, <2>2, <2>3
<1>4. QED BY <1>1, <1>2, <1>3

-----------------------------------------------------------------------------
(***************************************************************************)
(* The invariant.                                                          *)
(***************************************************************************)
\* The functions TypeOK says nothing of have an entry for each request.
Entries ==
    /\ target = [r \in Requests |-> target[r]]
    /\ sent = [r \in Requests |-> sent[r]]
    /\ answer = [r \in Requests |-> answer[r]]

TargetOf(s, i) ==
    [tenant |-> TenantOf(s, i), route |-> RouteOf(s, i),
     policy |-> PolicyOf(s, i), backend |-> BackendOf(s, i)]

\* What a request has been through fits what was looked up when it came.
CourseOf(r) ==
    /\ at[r] = "idle" => sent[r] = NoCopy /\ verdict[r] = "none"
    /\ at[r] # "answered" => log[r] = NoEvent /\ audit[r] = NoEvent
    /\ at[r] \in {"limiting", "forwarding"} \/ Sent(r) \/ verdict[r] # "none" =>
          /\ seen[r] \in Snapshots /\ input[r] \in Inputs
          /\ Refusal(seen[r], input[r]) = GoesOn
          /\ target[r] = TargetOf(seen[r], input[r])
    /\ at[r] = "limiting" => RateLimited(target[r].policy) /\ sent[r] = NoCopy /\ verdict[r] = "none"
    /\ at[r] = "forwarding" => Sent(r) /\ verdict[r] \in {"none", "allowed"}
    /\ verdict[r] # "none" => RateLimited(target[r].policy)
    /\ Sent(r) =>
          /\ sent[r].backend = target[r].backend
          /\ sent[r].path = UpstreamPath(Stripped(target[r].route.prefix, input[r].path))
          /\ RateLimited(target[r].policy) => verdict[r] = "allowed"

\* The two events of an answer.
ToldOf(r) == log[r].state # "none" => at[r] = "answered" /\ TellsTheCourse(r)

Course == \A r \in Requests : CourseOf(r) /\ ToldOf(r)

IInv == TypeOK /\ Entries /\ Course /\ RejectedForACause

\* No request, no event.
LEMMA NoEventType == NoEvent \in Event /\ NoEvent.state = "none"
BY DEF NoEvent, Event

LEMMA InitInv == Init => IInv
<1> SUFFICES ASSUME Init PROVE IInv OBVIOUS
<1>1. TypeOK BY NoEventType DEF Init, TypeOK
<1>2. Entries BY DEF Init, Entries
<1>3. Course BY NoEventType DEF Init, Course, CourseOf, ToldOf, Sent, NoCopy
<1>4. RejectedForACause BY NoEventType DEF Init, RejectedForACause
<1>5. QED BY <1>1, <1>2, <1>3, <1>4 DEF IInv

\* What an ending does to the events and to the answer.
LEMMA Ending ==
    ASSUME TypeOK, Entries, NEW r \in Requests, NEW t \in Tenants \cup {None}, NEW o, NEW status,
           [outcome |-> o, status |-> status] \in Endings, Ends(r, t, o, status)
    PROVE  /\ at' = [at EXCEPT ![r] = "answered"]
           /\ log' \in [Requests -> Event] /\ audit' \in [Requests -> Event]
           /\ answer' = [q \in Requests |-> answer'[q]]
           /\ \A q \in Requests : q # r =>
                 log'[q] = log[q] /\ audit'[q] = audit[q] /\ answer'[q] = answer[q]
           /\ log'[r].outcome = o /\ log'[r].tenant = t /\ log'[r].status = LogStatus(o, status)
           /\ auditing => audit'[r].outcome = o /\ audit'[r].tenant = t
           /\ answer'[r] = Answer(o, status)
           /\ audit'[r].state = "scheduled" \/ audit'[r] = audit[r]
<1> DEFINE l == [state |-> "scheduled", outcome |-> o, tenant |-> t, status |-> LogStatus(o, status)]
           a == [state |-> "scheduled", outcome |-> o, tenant |-> t, status |-> AuditStatus(o, status)]
<1>1. l \in Event /\ a \in Event BY EndingOf DEF Event
<1>2. /\ at' = [at EXCEPT ![r] = "answered"] /\ log' = [log EXCEPT ![r] = l]
      /\ audit' = [audit EXCEPT ![r] = IF ~auditing THEN audit[r] ELSE a]
      /\ answer' = [answer EXCEPT ![r] = Answer(o, status)]
  BY DEF Ends
<1>3. log'[r] = l /\ audit'[r] = (IF ~auditing THEN audit[r] ELSE a)
      /\ answer'[r] = Answer(o, status)
  BY <1>2 DEF TypeOK, Entries
<1>4. /\ l.outcome = o /\ l.tenant = t /\ l.status = LogStatus(o, status)
      /\ a.outcome = o /\ a.tenant = t /\ a.state = "scheduled"
  OBVIOUS
<1> HIDE DEF l, a
<1>5. log' \in [Requests -> Event] /\ audit' \in [Requests -> Event] BY <1>1, <1>2 DEF TypeOK
<1>6. answer' = [q \in Requests |-> answer'[q]] BY <1>2 DEF Entries
<1>7. \A q \in Requests : q # r =>
         log'[q] = log[q] /\ audit'[q] = audit[q] /\ answer'[q] = answer[q]
  BY <1>2 DEF TypeOK, Entries
<1>8. QED BY <1>2, <1>3, <1>4, <1>5, <1>6, <1>7

-----------------------------------------------------------------------------
(***************************************************************************)
(* The steps.                                                              *)
(***************************************************************************)
\* A request none of whose variables change stays as it is.
LEMMA Untouched ==
    ASSUME NEW q \in Requests, CourseOf(q), ToldOf(q), auditing' = auditing,
           at'[q] = at[q], input'[q] = input[q], seen'[q] = seen[q], target'[q] = target[q],
           verdict'[q] = verdict[q], sent'[q] = sent[q], answer'[q] = answer[q],
           audit'[q] = audit[q], log'[q] = log[q]
    PROVE  CourseOf(q)' /\ ToldOf(q)'
BY DEF CourseOf, ToldOf, TellsTheCourse, Sent

\* What every step of one request has to show.
Kept(r) ==
    /\ TypeOK' /\ Entries'
    /\ CourseOf(r)' /\ ToldOf(r)'
    /\ audit'[r].state = "rejected" => audit'[r].tenant \in Tenants \ tenants \/ ~input'[r].fits
    /\ tenants' = tenants /\ auditing' = auditing
    /\ \A q \in Requests : q # r =>
          /\ at'[q] = at[q] /\ input'[q] = input[q] /\ seen'[q] = seen[q] /\ target'[q] = target[q]
          /\ verdict'[q] = verdict[q] /\ sent'[q] = sent[q] /\ answer'[q] = answer[q]
          /\ audit'[q] = audit[q] /\ log'[q] = log[q]

\* The requests handle() refuses to parse.
LEMMA UnparsedStep ==
    ASSUME IInv, NEW r \in Requests, NEW i \in Inputs, Unparsed(r, i)
    PROVE  Kept(r)
<1> USE DEF IInv, Unparsed, world
<1>1. TypeOK' BY DEF TypeOK
<1>2. Entries' BY DEF Entries
<1>3. at[r] = "idle" /\ CourseOf(r) BY DEF Course
<1>4. ~Sent(r) /\ ~Sent(r)' BY <1>3 DEF CourseOf, Sent, NoCopy
<1>5. CourseOf(r)' BY <1>3, <1>4, NoEventType DEF CourseOf, TypeOK
<1>6. ToldOf(r)' BY <1>3, NoEventType DEF CourseOf, ToldOf, TypeOK
<1>7. audit'[r].state # "rejected" BY <1>3, NoEventType DEF CourseOf
<1>8. QED BY <1>1, <1>2, <1>5, <1>6, <1>7 DEF Kept, TypeOK, Entries

\* A request that comes and is refused.
LEMMA RefusedStep ==
    ASSUME IInv, NEW r \in Requests, NEW i \in Inputs, Arrives(r, i),
           Refusal(snapshot, i) # GoesOn
    PROVE  Kept(r)
<1> DEFINE no == Refusal(snapshot, i)
           t == TenantOf(snapshot, i)
<1>1. /\ at[r] = "idle" /\ UNCHANGED <<world, verdict, target, sent>>
      /\ input' = [input EXCEPT ![r] = i] /\ seen' = [seen EXCEPT ![r] = snapshot]
      /\ Ends(r, t, no.outcome, no.status)
  BY DEF Arrives
<1>2. no \in Refused BY RefusalOf
<1>3. [outcome |-> no.outcome, status |-> no.status] \in Endings BY <1>2 DEF Endings, Refused
<1>4. t \in Tenants \cup {None} BY TenantFound DEF IInv, TypeOK
<1>5. no # GoesOn OBVIOUS
<1> HIDE DEF no, t
<1>6. /\ at' = [at EXCEPT ![r] = "answered"]
      /\ log' \in [Requests -> Event] /\ audit' \in [Requests -> Event]
      /\ answer' = [q \in Requests |-> answer'[q]]
      /\ \A q \in Requests : q # r =>
            log'[q] = log[q] /\ audit'[q] = audit[q] /\ answer'[q] = answer[q]
      /\ audit'[r].state = "scheduled" \/ audit'[r] = audit[r]
      /\ log'[r].outcome = no.outcome /\ log'[r].tenant = t /\ log'[r].status = LogStatus(no.outcome, no.status)
      /\ auditing => audit'[r].outcome = no.outcome /\ audit'[r].tenant = t
      /\ answer'[r] = Answer(no.outcome, no.status)
  BY <1>1, <1>3, <1>4, Ending DEF IInv
<1>7. TypeOK' BY <1>1, <1>6 DEF IInv, TypeOK, world
<1>8. Entries' BY <1>1, <1>6 DEF IInv, Entries
<1>9. CourseOf(r) BY DEF IInv, Course
<1>10. at'[r] = "answered" /\ sent'[r] = NoCopy /\ verdict'[r] = "none" /\ ~Sent(r)'
  BY <1>1, <1>6, <1>9 DEF CourseOf, IInv, TypeOK, Sent, NoCopy
<1>11. CourseOf(r)' BY <1>10 DEF CourseOf
<1>12. ToldOf(r)'
  <2>1. seen'[r] = snapshot /\ input'[r] = i /\ auditing' = auditing
    BY <1>1 DEF IInv, TypeOK, world
  <2>2. Refusal(seen[r], input[r])' = no /\ TenantOf(seen[r], input[r])' = t
    BY <2>1 DEF no, t
  <2>3. TellsTheCourse(r)' BY <1>3, <1>5, <1>6, <1>10, <2>1, <2>2, EndingOf DEF TellsTheCourse
  <2>4. QED BY <1>10, <2>3 DEF ToldOf
<1>13. audit'[r].state # "rejected" BY <1>1, <1>6, <1>9, NoEventType DEF CourseOf
<1>14. QED
  BY <1>1, <1>6, <1>7, <1>8, <1>11, <1>12, <1>13 DEF Kept, IInv, TypeOK, world

\* A request that comes and goes on, to the limiter or to the backend.
LEMMA GoingOnStep ==
    ASSUME IInv, NEW r \in Requests, NEW i \in Inputs, Arrives(r, i),
           Refusal(snapshot, i) = GoesOn
    PROVE  Kept(r)
<1> DEFINE t == TargetOf(snapshot, i)
           copied == [backend |-> t.backend, path |-> UpstreamPath(Stripped(t.route.prefix, i.path))]
<1>1. /\ at[r] = "idle" /\ UNCHANGED <<world, verdict, answer, audit, log>>
      /\ input' = [input EXCEPT ![r] = i] /\ seen' = [seen EXCEPT ![r] = snapshot]
      /\ target' = [target EXCEPT ![r] = t]
      /\ \/ RateLimited(t.policy) /\ at' = [at EXCEPT ![r] = "limiting"] /\ sent' = sent
         \/ /\ ~RateLimited(t.policy) /\ at' = [at EXCEPT ![r] = "forwarding"]
            /\ sent' = [sent EXCEPT ![r] = copied]
  BY DEF Arrives, Forwards, TargetOf
<1>2. CourseOf(r) /\ ToldOf(r) BY DEF IInv, Course
<1> HIDE DEF t
<1>3. TypeOK' BY <1>1 DEF IInv, TypeOK, world
<1>4. Entries' BY <1>1 DEF IInv, Entries
<1>5. /\ input'[r] = i /\ seen'[r] = snapshot /\ target'[r] = t
      /\ at'[r] \in {"limiting", "forwarding"} /\ verdict'[r] = "none"
      /\ log'[r] = NoEvent /\ audit'[r] = NoEvent
      /\ \/ at'[r] = "limiting" /\ RateLimited(t.policy) /\ sent'[r] = NoCopy
         \/ at'[r] = "forwarding" /\ ~RateLimited(t.policy) /\ sent'[r] = copied
  BY <1>1, <1>2 DEF IInv, TypeOK, Entries, CourseOf
<1>6. snapshot \in Snapshots /\ t = TargetOf(snapshot, i) BY DEF IInv, TypeOK, t
<1>7. copied.backend = t.backend /\ copied.path = UpstreamPath(Stripped(t.route.prefix, i.path))
  OBVIOUS
<1> HIDE DEF copied
<1>8. t.backend # None BY <1>6, GoingOn DEF TargetOf
<1>9. Sent(r)' <=> at'[r] = "forwarding" BY <1>5, <1>7, <1>8 DEF Sent, NoCopy
<1>10. CourseOf(r)' BY <1>5, <1>6, <1>7, <1>9 DEF CourseOf
<1>11. ToldOf(r)' BY <1>5, NoEventType DEF ToldOf
<1>12. QED BY <1>1, <1>3, <1>4, <1>5, <1>10, <1>11, NoEventType DEF Kept, IInv, TypeOK, Entries, world

\* The tenant a request was found to have.
LEMMA TargetTenant ==
    ASSUME IInv, NEW r \in Requests, at[r] \in {"limiting", "forwarding"}
    PROVE  target[r].tenant \in Tenants \cup {None}
<1>1. seen[r] \in Snapshots /\ target[r] = TargetOf(seen[r], input[r])
  BY DEF IInv, Course, CourseOf
<1>2. QED BY <1>1, TenantFound DEF TargetOf

\* The limiter refuses, or fails.
LEMMA LimitedStep ==
    ASSUME IInv, NEW r \in Requests, NEW v \in {"refused", "raised"}, LimiterAnswers(r, v)
    PROVE  Kept(r)
<1> DEFINE t == target[r].tenant
           o == IF v = "refused" THEN "POLICY_DENIED" ELSE "UNEXPECTED_ERROR"
           status == IF v = "refused" THEN 429 ELSE None
<1>1. /\ at[r] = "limiting" /\ UNCHANGED <<world, input, seen, target, sent>>
      /\ verdict' = [verdict EXCEPT ![r] = v]
      /\ Ends(r, t, o, status)
  BY DEF LimiterAnswers
<1>2. [outcome |-> o, status |-> status] \in Endings BY DEF Endings
<1>3. t \in Tenants \cup {None} BY <1>1, TargetTenant
<1>4. CourseOf(r) BY DEF IInv, Course
<1>5. t = TenantOf(seen[r], input[r]) /\ Refusal(seen[r], input[r]) = GoesOn /\ ~Sent(r)
  BY <1>1, <1>4 DEF CourseOf, TargetOf, Sent, NoCopy
<1>6. /\ v = "refused" => o = "POLICY_DENIED" /\ Answer(o, status).status = 429
      /\ v = "raised" => o = "UNEXPECTED_ERROR" /\ Answer(o, status).code = "UPSTREAM_ERROR"
  BY DEF Answer, UpstreamErrors
<1> HIDE DEF t, o, status
<1>7. /\ at' = [at EXCEPT ![r] = "answered"]
      /\ log' \in [Requests -> Event] /\ audit' \in [Requests -> Event]
      /\ answer' = [q \in Requests |-> answer'[q]]
      /\ \A q \in Requests : q # r =>
            log'[q] = log[q] /\ audit'[q] = audit[q] /\ answer'[q] = answer[q]
      /\ audit'[r].state = "scheduled" \/ audit'[r] = audit[r]
      /\ log'[r].outcome = o /\ log'[r].tenant = t /\ log'[r].status = LogStatus(o, status)
      /\ auditing => audit'[r].outcome = o /\ audit'[r].tenant = t
      /\ answer'[r] = Answer(o, status)
  BY <1>1, <1>2, <1>3, Ending DEF IInv
<1>8. TypeOK' BY <1>1, <1>7 DEF IInv, TypeOK, world
<1>9. Entries' BY <1>1, <1>7 DEF IInv, Entries
<1>10. at'[r] = "answered" /\ verdict'[r] = v BY <1>1, <1>7 DEF IInv, TypeOK
<1>11. ~Sent(r)' BY <1>1, <1>5 DEF Sent
<1>12. CourseOf(r)' BY <1>1, <1>4, <1>10, <1>11 DEF CourseOf
<1>13. ToldOf(r)'
  <2>1. seen'[r] = seen[r] /\ input'[r] = input[r] /\ auditing' = auditing BY <1>1 DEF world
  <2>2. Refusal(seen[r], input[r])' = GoesOn /\ TenantOf(seen[r], input[r])' = t
    BY <1>5, <2>1
  <2>3. TellsTheCourse(r)'
    BY <1>2, <1>6, <1>7, <1>10, <1>11, <2>1, <2>2, EndingOf DEF TellsTheCourse
  <2>4. QED BY <1>10, <2>3 DEF ToldOf
<1>14. QED
  BY <1>1, <1>7, <1>8, <1>9, <1>12, <1>13 DEF Kept, IInv, TypeOK, RejectedForACause, world

\* The limiter lets the request pass.
LEMMA AdmittedStep ==
    ASSUME IInv, NEW r \in Requests, LimiterAnswers(r, "allowed")
    PROVE  Kept(r)
<1> DEFINE copied == [backend |-> target[r].backend,
                      path |-> UpstreamPath(Stripped(target[r].route.prefix, input[r].path))]
<1>1. /\ at[r] = "limiting" /\ UNCHANGED <<world, input, seen, target, answer, audit, log>>
      /\ verdict' = [verdict EXCEPT ![r] = "allowed"]
      /\ at' = [at EXCEPT ![r] = "forwarding"] /\ sent' = [sent EXCEPT ![r] = copied]
  BY DEF LimiterAnswers, Forwards
<1>2. CourseOf(r) /\ ToldOf(r) BY DEF IInv, Course
<1>3. copied.backend = target[r].backend
      /\ copied.path = UpstreamPath(Stripped(target[r].route.prefix, input[r].path))
  OBVIOUS
<1> HIDE DEF copied
<1>4. TypeOK' BY <1>1 DEF IInv, TypeOK, world
<1>5. Entries' BY <1>1 DEF IInv, Entries
<1>6. at'[r] = "forwarding" /\ sent'[r] = copied /\ verdict'[r] = "allowed"
  BY <1>1 DEF IInv, TypeOK, Entries
<1>7. Sent(r)'
  <2>1. target[r].backend # None BY <1>1, <1>2, GoingOn DEF CourseOf, TargetOf
  <2>2. QED BY <1>3, <1>6, <2>1 DEF Sent
<1>8. CourseOf(r)' BY <1>1, <1>2, <1>3, <1>6, <1>7 DEF CourseOf
<1>9. ToldOf(r)' BY <1>1, <1>2, NoEventType DEF CourseOf, ToldOf
<1>10. QED
  BY <1>1, <1>2, <1>4, <1>5, <1>8, <1>9, NoEventType DEF Kept, IInv, TypeOK, Entries, CourseOf, world

\* The backend has answered, or not.
LEMMA UpstreamStep ==
    ASSUME IInv, NEW r \in Requests, NEW o \in {"SUCCESS", "UNEXPECTED_ERROR"} \cup UpstreamErrors,
           NEW status \in Statuses \cup {None}, UpstreamAnswers(r, o, status)
    PROVE  Kept(r)
<1> DEFINE t == target[r].tenant
<1>1. /\ at[r] = "forwarding" /\ UNCHANGED <<world, input, seen, target, verdict, sent>>
      /\ Ends(r, t, o, status) /\ (o = "SUCCESS" <=> status # None)
  BY DEF UpstreamAnswers
<1>2. [outcome |-> o, status |-> status] \in Endings
  <2>1. CASE o = "SUCCESS" BY <1>1, <2>1 DEF Endings
  <2>2. CASE o # "SUCCESS"
    <3>1. o \in {"UNEXPECTED_ERROR"} \cup UpstreamErrors /\ status = None BY <1>1, <2>2
    <3>2. QED BY <3>1 DEF Endings
  <2>3. QED BY <2>1, <2>2
<1>3. t \in Tenants \cup {None} BY <1>1, TargetTenant
<1>4. CourseOf(r) BY DEF IInv, Course
<1>5. /\ t = TenantOf(seen[r], input[r]) /\ Refusal(seen[r], input[r]) = GoesOn
      /\ Sent(r) /\ verdict[r] \in {"none", "allowed"}
  BY <1>1, <1>4 DEF CourseOf, TargetOf
<1> HIDE DEF t
<1>6. /\ at' = [at EXCEPT ![r] = "answered"]
      /\ log' \in [Requests -> Event] /\ audit' \in [Requests -> Event]
      /\ answer' = [q \in Requests |-> answer'[q]]
      /\ \A q \in Requests : q # r =>
            log'[q] = log[q] /\ audit'[q] = audit[q] /\ answer'[q] = answer[q]
      /\ audit'[r].state = "scheduled" \/ audit'[r] = audit[r]
      /\ log'[r].outcome = o /\ log'[r].tenant = t /\ log'[r].status = LogStatus(o, status)
      /\ auditing => audit'[r].outcome = o /\ audit'[r].tenant = t
      /\ answer'[r] = Answer(o, status)
  BY <1>1, <1>2, <1>3, Ending DEF IInv
<1>7. TypeOK' BY <1>1, <1>6 DEF IInv, TypeOK, world
<1>8. Entries' BY <1>1, <1>6 DEF IInv, Entries
<1>9. at'[r] = "answered" BY <1>6 DEF IInv, TypeOK
<1>10. Sent(r)' /\ verdict'[r] = verdict[r] BY <1>1, <1>5 DEF Sent
<1>11. CourseOf(r)' BY <1>1, <1>4, <1>5, <1>9, <1>10 DEF CourseOf
<1>12. ToldOf(r)'
  <2>1. seen'[r] = seen[r] /\ input'[r] = input[r] /\ auditing' = auditing BY <1>1 DEF world
  <2>2. Refusal(seen[r], input[r])' = GoesOn /\ TenantOf(seen[r], input[r])' = t
    BY <1>5, <2>1
  <2>3. TellsTheCourse(r)'
    BY <1>2, <1>5, <1>6, <1>10, <2>1, <2>2, EndingOf DEF TellsTheCourse
  <2>4. QED BY <1>9, <2>3 DEF ToldOf
<1>13. QED
  BY <1>1, <1>6, <1>7, <1>8, <1>11, <1>12 DEF Kept, IInv, TypeOK, RejectedForACause, world

\* The audit event is written, or refused for a tenant without a row or a
\* value without room.
LEMMA AuditStep ==
    ASSUME IInv, NEW r \in Requests, AuditWrite(r)
    PROVE  Kept(r)
<1> DEFINE now == IF ~postgres THEN "unreachable"
                  ELSE IF Insertable(r) THEN "written" ELSE "rejected"
<1>1. /\ audit[r].state = "scheduled" /\ audit' = [audit EXCEPT ![r].state = now]
      /\ UNCHANGED <<world, at, input, seen, target, verdict, sent, answer, log>>
  BY DEF AuditWrite
<1>2. CourseOf(r) /\ ToldOf(r) /\ audit[r] \in Event BY DEF IInv, Course, TypeOK
<1>3. now \in {"unreachable", "written", "rejected"} OBVIOUS
<1>4. now = "rejected" => audit[r].tenant \in Tenants \ tenants \/ ~input[r].fits
  <2>1. StatusColumn(audit[r].status) # None
    BY <1>2, StatusesAssumption DEF Event, StatusColumn
  <2>2. audit[r].tenant \in Tenants \cup {None} BY <1>2 DEF Event
  <2>3. QED BY <2>1, <2>2 DEF Insertable
<1> HIDE DEF now
<1>5. [audit[r] EXCEPT !.state = now] \in Event BY <1>2, <1>3 DEF Event
<1>6. audit'[r] = [audit[r] EXCEPT !.state = now] /\ audit' \in [Requests -> Event]
  BY <1>1, <1>5 DEF IInv, TypeOK
<1>7. /\ audit'[r].state = now /\ audit'[r].tenant = audit[r].tenant
      /\ audit'[r].outcome = audit[r].outcome /\ audit'[r].status = audit[r].status
  BY <1>2, <1>6 DEF Event
<1>8. TypeOK' BY <1>1, <1>6 DEF IInv, TypeOK, world
<1>9. Entries' BY <1>1 DEF IInv, Entries
<1>10. CourseOf(r)'
  <2>1. at[r] = "answered" BY <1>1, <1>2, NoEventType DEF CourseOf
  <2>2. QED BY <1>1, <1>2, <2>1 DEF CourseOf, Sent
<1>11. ToldOf(r)' BY <1>1, <1>2, <1>7 DEF ToldOf, TellsTheCourse, Sent, world
<1>12. QED
  BY <1>1, <1>4, <1>7, <1>8, <1>9, <1>10, <1>11 DEF Kept, IInv, TypeOK, world

\* The operational log is written or skipped.
LEMMA LogStep ==
    ASSUME IInv, NEW r \in Requests, LogWrite(r)
    PROVE  Kept(r)
<1>1. /\ log[r].state = "scheduled" /\ log' = [log EXCEPT ![r].state = "settled"]
      /\ UNCHANGED <<world, at, input, seen, target, verdict, sent, answer, audit>>
  BY DEF LogWrite
<1>2. CourseOf(r) /\ ToldOf(r) /\ log[r] \in Event BY DEF IInv, Course, TypeOK
<1>3. [log[r] EXCEPT !.state = "settled"] \in Event BY <1>2 DEF Event
<1>4. log'[r] = [log[r] EXCEPT !.state = "settled"] /\ log' \in [Requests -> Event]
  BY <1>1, <1>3 DEF IInv, TypeOK
<1>5. /\ log'[r].tenant = log[r].tenant
      /\ log'[r].outcome = log[r].outcome /\ log'[r].status = log[r].status
  BY <1>2, <1>4 DEF Event
<1>6. TypeOK' BY <1>1, <1>4 DEF IInv, TypeOK, world
<1>7. Entries' BY <1>1 DEF IInv, Entries
<1>8. CourseOf(r)'
  <2>1. at[r] = "answered" BY <1>1, <1>2, NoEventType DEF CourseOf
  <2>2. QED BY <1>1, <1>2, <2>1 DEF CourseOf, Sent
<1>9. ToldOf(r)' BY <1>1, <1>2, <1>5 DEF ToldOf, TellsTheCourse, Sent, world
<1>10. QED
  BY <1>1, <1>6, <1>7, <1>8, <1>9 DEF Kept, IInv, TypeOK, RejectedForACause, world

\* A step of one request keeps the invariant.
LEMMA KeptInv ==
    ASSUME IInv, NEW r \in Requests, Kept(r)
    PROVE  IInv'
<1>1. Course'
  <2> SUFFICES ASSUME NEW q \in Requests PROVE (CourseOf(q) /\ ToldOf(q))' BY DEF Course
  <2>1. CASE q = r BY <2>1 DEF Kept
  <2>2. CASE q # r
    <3>1. CourseOf(q) /\ ToldOf(q) BY DEF IInv, Course
    <3>2. QED BY <2>2, <3>1, Untouched DEF Kept
  <2>3. QED BY <2>1, <2>2
<1>2. RejectedForACause'
  <2> SUFFICES ASSUME NEW q \in Requests, audit'[q].state = "rejected"
               PROVE  audit'[q].tenant \in Tenants \ tenants' \/ ~input'[q].fits
    BY DEF RejectedForACause
  <2>1. CASE q = r BY <2>1 DEF Kept
  <2>2. CASE q # r BY <2>2 DEF Kept, IInv, RejectedForACause
  <2>3. QED BY <2>1, <2>2
<1>3. QED BY <1>1, <1>2 DEF IInv, Kept

\* What happens around the requests leaves them alone.
LEMMA WorldInv ==
    ASSUME IInv, auditing' = auditing, fail_open' = fail_open, up' \in BOOLEAN, postgres' \in BOOLEAN,
           tenants' \subseteq tenants, snapshot' \in Snapshots,
           UNCHANGED <<at, input, seen, target, verdict, sent, answer, audit, log>>
    PROVE  IInv'
<1>1. TypeOK' BY DEF IInv, TypeOK
<1>2. Entries' BY DEF IInv, Entries
<1>3. Course' BY DEF IInv, Course, CourseOf, ToldOf, TellsTheCourse, Sent
<1>4. RejectedForACause' BY DEF IInv, RejectedForACause
<1>5. QED BY <1>1, <1>2, <1>3, <1>4 DEF IInv

\* A stop loses what was scheduled.
LEMMA StopInv ==
    ASSUME IInv, Stops
    PROVE  IInv'
<1>1. \A e \in Event : /\ Lost(e) \in Event /\ Lost(e).outcome = e.outcome /\ Lost(e).tenant = e.tenant
                       /\ Lost(e).status = e.status /\ (Lost(e).state = "none" <=> e.state = "none")
                       /\ Lost(e).state = "rejected" => e.state = "rejected"
  BY DEF Lost, Event
<1>2. Lost(NoEvent) = NoEvent BY NoEventType DEF Lost
<1>3. /\ at' = [r \in Requests |-> IF at[r] \in {"idle", "answered"} THEN at[r] ELSE "cut"]
      /\ audit' = [r \in Requests |-> Lost(audit[r])] /\ log' = [r \in Requests |-> Lost(log[r])]
      /\ UNCHANGED <<auditing, fail_open, postgres, tenants, snapshot, input, seen, target, verdict, sent, answer>>
      /\ up' = FALSE
  BY DEF Stops
<1>4. TypeOK' BY <1>1, <1>3 DEF IInv, TypeOK
<1>5. Entries' BY <1>3 DEF IInv, Entries
<1>6. ASSUME NEW r \in Requests PROVE CourseOf(r)' /\ ToldOf(r)'
  <2>1. CourseOf(r) /\ ToldOf(r) /\ log[r] \in Event /\ audit[r] \in Event BY DEF IInv, Course, TypeOK
  <2>2. /\ at'[r] = at[r] \/ (at'[r] = "cut" /\ at[r] \notin {"idle", "answered"})
        /\ audit'[r] = Lost(audit[r]) /\ log'[r] = Lost(log[r])
    BY <1>3
  <2>3. CourseOf(r)' BY <1>2, <1>3, <2>1, <2>2 DEF CourseOf, Sent
  <2>4. ToldOf(r)'
    <3>1. log[r].state # "none" => at[r] = "answered" BY <2>1 DEF ToldOf
    <3>2. QED BY <1>1, <1>3, <2>1, <2>2, <3>1 DEF ToldOf, TellsTheCourse, Sent
  <2>5. QED BY <2>3, <2>4
<1>7. RejectedForACause' BY <1>1, <1>3 DEF IInv, RejectedForACause, TypeOK
<1>8. QED BY <1>4, <1>5, <1>6, <1>7 DEF IInv, Course

LEMMA NextInv == IInv /\ [Next]_vars => IInv'
<1> SUFFICES ASSUME IInv, [Next]_vars PROVE IInv' OBVIOUS
<1>1. ASSUME NEW r \in Requests, NEW i \in Inputs, Unparsed(r, i) PROVE IInv'
  BY <1>1, UnparsedStep, KeptInv
<1>2. ASSUME NEW r \in Requests, NEW i \in Inputs, Arrives(r, i) PROVE IInv'
  BY <1>2, RefusedStep, GoingOnStep, KeptInv
<1>3. ASSUME NEW r \in Requests, NEW v \in {"allowed", "refused", "raised"}, LimiterAnswers(r, v)
      PROVE  IInv'
  <2>1. CASE v = "allowed" BY <1>3, <2>1, AdmittedStep, KeptInv
  <2>2. CASE v \in {"refused", "raised"} BY <1>3, <2>2, LimitedStep, KeptInv
  <2>3. QED BY <2>1, <2>2
<1>4. ASSUME NEW r \in Requests, NEW o \in {"SUCCESS", "UNEXPECTED_ERROR"} \cup UpstreamErrors,
             NEW status \in Statuses \cup {None}, UpstreamAnswers(r, o, status)
      PROVE  IInv'
  BY <1>4, UpstreamStep, KeptInv
<1>5. ASSUME NEW r \in Requests, AuditWrite(r) \/ LogWrite(r) PROVE IInv'
  BY <1>5, AuditStep, LogStep, KeptInv
<1>6. ASSUME NEW s \in Snapshots, Reload(s) PROVE IInv'
  BY <1>6, WorldInv DEF Reload, IInv, TypeOK
<1>7. ASSUME NEW t \in Tenants, TenantDeleted(t) PROVE IInv'
  BY <1>7, WorldInv DEF TenantDeleted, IInv, TypeOK
<1>8. CASE PostgresTurns BY <1>8, WorldInv DEF PostgresTurns, IInv, TypeOK
<1>9. CASE Stops BY <1>9, StopInv
<1>10. CASE UNCHANGED vars BY <1>10, WorldInv DEF vars, world, IInv, TypeOK
<1>11. QED BY <1>1, <1>2, <1>3, <1>4, <1>5, <1>6, <1>7, <1>8, <1>9, <1>10 DEF Next

\* The invariant always holds.
LEMMA Invariant == Spec => []IInv
BY InitInv, NextInv, PTL DEF Spec

\* Every variable keeps its type.
THEOREM TypeCorrect == Spec => []TypeOK
<1>1. IInv => TypeOK BY DEF IInv
<1>2. QED BY Invariant, <1>1, PTL

\* What reached a backend was decided by the snapshot of its arrival.
THEOREM OneSnapshot == Spec => []OneConfigurationDecides
<1>1. IInv => OneConfigurationDecides
  <2> SUFFICES ASSUME IInv, NEW r \in Requests
               PROVE  LET s == seen[r]
                          i == input[r]
                      IN  /\ Sent(r) =>
                                /\ Refusal(s, i) = GoesOn
                                /\ sent[r].backend = s.backends[RouteOf(s, i).id]
                                /\ RateLimited(PolicyOf(s, i)) => verdict[r] = "allowed"
                          /\ verdict[r] # "none" => Refusal(s, i) = GoesOn /\ RateLimited(PolicyOf(s, i))
    BY DEF OneConfigurationDecides
  <2>1. CourseOf(r) BY DEF IInv, Course
  <2>2. CASE Sent(r) \/ verdict[r] # "none"
    <3>1. /\ seen[r] \in Snapshots /\ Refusal(seen[r], input[r]) = GoesOn
          /\ target[r].backend = BackendOf(seen[r], input[r])
          /\ target[r].policy = PolicyOf(seen[r], input[r])
      BY <2>1, <2>2 DEF CourseOf, TargetOf
    <3>2. BackendOf(seen[r], input[r]) = seen[r].backends[RouteOf(seen[r], input[r]).id]
      BY <3>1, GoingOn
    <3>3. QED BY <2>1, <3>1, <3>2 DEF CourseOf
  <2>3. QED BY <2>2
<1>2. QED BY Invariant, <1>1, PTL

\* A request reaches a backend of its own tenant, under its route's policy.
THEOREM TenantsApart == Spec => []TenantsKeepApart
<1>1. IInv => TenantsKeepApart
  <2> SUFFICES ASSUME IInv, NEW r \in Requests, Sent(r)
               PROVE  /\ target[r].tenant = seen[r].tenants[input[r].host]
                      /\ target[r].route.tenant = target[r].tenant
                      /\ target[r].route.id \in DOMAIN seen[r].policies
                            => target[r].policy = seen[r].policies[target[r].route.id]
    BY DEF TenantsKeepApart
  <2>1. /\ seen[r] \in Snapshots /\ Refusal(seen[r], input[r]) = GoesOn
        /\ target[r] = TargetOf(seen[r], input[r])
    BY DEF IInv, Course, CourseOf
  <2>2. QED BY <2>1, GoingOn DEF TargetOf
<1>2. QED BY Invariant, <1>1, PTL

\* The events of an answer tell what the request went through, whatever was
\* loaded while it waited, and agree with what the client was told.
THEOREM EventsTell == Spec => []EventsTellTheCourse
<1>1. IInv => EventsTellTheCourse BY DEF IInv, Course, ToldOf, EventsTellTheCourse
<1>2. QED BY Invariant, <1>1, PTL

\* The database refuses an audit event only for a tenant that has no row, or
\* for a path or an address of the client that the columns have no room for.
THEOREM RejectionsHaveCauses == Spec => []RejectedForACause
<1>1. IInv => RejectedForACause BY DEF IInv
<1>2. QED BY Invariant, <1>1, PTL

\* The backend sees the client's path, cut at a "/" behind the prefix.
THEOREM PathsCutAtSlash == Spec => []CutAtSlash
<1>1. IInv => CutAtSlash
  <2> SUFFICES ASSUME IInv, NEW r \in Requests, Sent(r)
               PROVE  \E k \in 0 .. Len(input[r].path) :
                          /\ input[r].path = WithoutTrailing(target[r].route.prefix)
                                                \o Slashes(k) \o sent[r].path
                          /\ k = 0 => sent[r].path = <<>>
    BY DEF CutAtSlash, Slashes
  <2> DEFINE prefix == target[r].route.prefix
             path == input[r].path
  <2>1. /\ seen[r] \in Snapshots /\ input[r] \in Inputs
        /\ Refusal(seen[r], input[r]) = GoesOn
        /\ target[r] = TargetOf(seen[r], input[r])
        /\ sent[r].path = UpstreamPath(Stripped(prefix, path))
    BY DEF IInv, Course, CourseOf
  <2>2. prefix = RouteOf(seen[r], input[r]).prefix BY <2>1 DEF TargetOf
  <2>3. prefix \in Seq(STRING) /\ PathMatches(prefix, path) BY <2>1, <2>2, GoingOn
  <2>4. path \in Seq(STRING) /\ Len(path) > 0 /\ path[1] = "/" BY <2>1, PathsAssumption
  <2> HIDE DEF prefix, path
  <2>5. "/" \in STRING BY <2>4, ElementOfSeq, LenProperties
  <2>6. \E k \in 0 .. Len(path) :
           /\ path = WithoutTrailing(prefix) \o Slashes(k) \o UpstreamPath(Stripped(prefix, path))
           /\ k = 0 => UpstreamPath(Stripped(prefix, path)) = <<>>
    BY <2>3, <2>4, <2>5, Cut
  <2>7. QED BY <2>1, <2>6 DEF prefix, path
<1>2. QED BY Invariant, <1>1, PTL
=============================================================================
