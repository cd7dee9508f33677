------------------------------ MODULE RoutePath ------------------------------
(***************************************************************************)
(* Paths of requests and routes, as sequences of characters: a route's     *)
(* prefix must match at a "/" and be cut off there.  Any other character   *)
(* is as good as the next.                                                 *)
(***************************************************************************)
EXTENDS Naturals, Sequences, SequencesExt

Slash == <<"/">>

NotSlash(s) == {i \in DOMAIN s : s[i] # "/"}

\* s.rstrip("/"), s.lstrip("/")
WithoutTrailing(s) == SubSeq(s, 1, IF NotSlash(s) = {} THEN 0 ELSE Max(NotSlash(s)))
WithoutLeading(s) == IF NotSlash(s) = {} THEN <<>> ELSE SubSeq(s, Min(NotSlash(s)), Len(s))

\* Mutant: the prefix may end in the middle of a name.
PathMatchesAnywhere(prefix, path) == IsPrefix(WithoutTrailing(prefix), path)

\* Route.matches(), as far as the path goes
PathMatches(prefix, path) ==
    \/ path = prefix
    \/ IsPrefix(WithoutTrailing(prefix) \o Slash, path)
    \/ prefix = Slash

\* Route.strip_prefix()
Stripped(prefix, path) ==
    LET p == WithoutTrailing(prefix)
        remainder == SubSeq(path, Len(p) + 1, Len(path))
    IN  IF ~IsPrefix(p, path) THEN path
        ELSE IF remainder = <<>> THEN Slash ELSE remainder

\* BackendUrl.build_upstream(): what is appended to the backend's URL, after
\* one "/"
UpstreamPath(path) == WithoutLeading(path)
=============================================================================
