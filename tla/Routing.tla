------------------------------- MODULE Routing -------------------------------
(***************************************************************************)
(* How the gateway picks a route and rewrites the path of a request.  Paths *)
(* are sequences of characters, because the code compares and strips them   *)
(* character by character; "/" is the only character with a meaning.  Where *)
(* only comparisons matter a name may stand for its characters, as long as  *)
(* no name begins another.  Paths have no dot segments and nothing          *)
(* percent-encoded.                                                         *)
(*                                                                          *)
(* A route is a record of enabled, prefix and base, the path of its         *)
(* upstream_base_url; more fields do not matter here.                       *)
(***************************************************************************)
EXTENDS Naturals, Sequences, SequencesExt

CONSTANT Nowhere  \* no route

Path == Seq(STRING)
Slash == "/"

\* A prefix matches itself and what continues it with a slash.
Matches(prefix, p) ==
  \/ p = prefix
  \/ IsStrictPrefix(prefix, p) /\ p[Len(prefix) + 1] = Slash

\* the first path segment of everything the server answers itself
ReservedPrefixes ==
  {<<Slash, name>> : name \in
     {"health", "token", "authorize", "register", "admin", ".well-known",
      "userinfo", "introspect", "revoke", "device", "error"}}

\* slip: the list names whole paths
ReservedWordForWord(prefix) == prefix \in ReservedPrefixes
Reserved(prefix) == \E reserved \in ReservedPrefixes : Matches(reserved, prefix)

\* What validate_gateway accepts as a prefix
ValidPrefix(prefix) ==
  /\ Len(prefix) > 1
  /\ prefix[1] = Slash
  /\ ~Reserved(prefix)

\* sort_by_key with Reverse, a stable sort: longest prefix first, then file order
BeforeAsListed(routes, i, j) == i < j
Before(routes, i, j) ==
  \/ Len(routes[i].prefix) > Len(routes[j].prefix)
  \/ Len(routes[i].prefix) = Len(routes[j].prefix) /\ i < j

\* the enabled routes that match
Hits(routes, p) ==
  {i \in DOMAIN routes : routes[i].enabled /\ Matches(routes[i].prefix, p)}

\* the first of them in the sorted table
FindRoute(routes, p) ==
  LET hits == Hits(routes, p)
  IN  IF hits = {} THEN Nowhere
      ELSE routes[CHOOSE i \in hits : \A j \in hits \ {i} : Before(routes, i, j)]

\* str::trim_start_matches: the prefix goes as often as it stands in front
TrimStart(s, prefix) ==
  LET size == Len(prefix)
      copies == {n \in 0..Len(s) :
                   /\ n * size <= Len(s)
                   /\ \A k \in 1..n : SubSeq(s, (k - 1) * size + 1, k * size) = prefix}
  IN  SubSeq(s, Max(copies) * size + 1, Len(s))

\* str::trim_end_matches('/')
TrimEnd(s) ==
  LET kept == {i \in DOMAIN s : s[i] # Slash}
  IN  SubSeq(s, 1, Max(kept \cup {0}))

\* Url::set_path puts a missing leading slash
UrlPathVerbatim(s) == s
UrlPath(s) == IF s # <<>> /\ s[1] = Slash THEN s ELSE <<Slash>> \o s

\* build_upstream_url, the path of it; the query is passed through
UpstreamPathBaseAsIs(route, p) ==
  UrlPath(route.base \o TrimStart(p, route.prefix))
UpstreamPath(route, p) == UrlPath(TrimEnd(route.base) \o TrimStart(p, route.prefix))
=============================================================================
