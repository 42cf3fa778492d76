---------------------------- MODULE GatewayRoutes ----------------------------
(***************************************************************************)
(* The first part of a proxied request: the route it selects in a validated *)
(* table and the path the upstream is asked for, against a reference that   *)
(* sees paths as lists of segments.                                         *)
(***************************************************************************)
EXTENDS Naturals, Sequences, FiniteSets, SequencesExt, Routing

CONSTANTS
  Tables,  \* gateway.routes of the configurations considered, in file order
  Paths    \* request paths considered

TablesAssumption ==
  \A routes \in Tables : \A i \in DOMAIN routes :
    i \in Nat /\ routes[i].prefix \in Path /\ routes[i].base \in Path
\* the path of a URL is absolute
PathsAssumption == \A p \in Paths : p \in Path /\ p # <<>> /\ p[1] = Slash
\* Nowhere is neither a route nor what the gateway makes of one
NowhereAssumption ==
  \A routes \in Tables : \A i \in DOMAIN routes :
    /\ routes[i] # Nowhere
    /\ \A p \in Paths :
         [route |-> routes[i], upstream |-> UpstreamPath(routes[i], p)] # Nowhere
ASSUME TablesAssumption
ASSUME PathsAssumption
ASSUME NowhereAssumption

VARIABLES
  table,  \* the configured routes
  path,   \* path of the request routed last
  target  \* what the gateway makes of it: route and upstream path, or Nowhere

vars == <<table, path, target>>

-----------------------------------------------------------------------------
Init ==
  /\ table \in {routes \in Tables : \A i \in DOMAIN routes : ValidPrefix(routes[i].prefix)}
  /\ path = <<>>
  /\ target = Nowhere

\* the first part of proxy_request, up to the call
RouteRequest(p) ==
  LET route == FindRoute(table, p)
  IN  /\ path' = p
      /\ target' = IF route = Nowhere THEN Nowhere
                   ELSE [route |-> route, upstream |-> UpstreamPath(route, p)]
      /\ UNCHANGED table

Next == \E p \in Paths : RouteRequest(p)

Spec == Init /\ [][Next]_vars

-----------------------------------------------------------------------------
\* The reference: paths as lists of segments.

Slashes(p) == {i \in DOMAIN p : p[i] = Slash}

\* the slash that segment k follows, and the end of what follows slash i
SlashAt(p, k) == CHOOSE i \in Slashes(p) : Cardinality({j \in Slashes(p) : j <= i}) = k
EndAfter(p, i) == Min({j \in Slashes(p) : j > i} \cup {Len(p) + 1}) - 1

Segments(p) ==
  [k \in 1..Cardinality(Slashes(p)) |->
     SubSeq(p, SlashAt(p, k) + 1, EndAfter(p, SlashAt(p, k)))]

\* enabled routes whose prefix is made of the first segments of p
Under(p) ==
  {i \in DOMAIN table :
     table[i].enabled /\ IsPrefix(Segments(table[i].prefix), Segments(p))}

Deeper(i, j) == Len(Segments(table[i].prefix)) > Len(Segments(table[j].prefix))

AfterPrefix(p, prefix) == SubSeq(p, Len(prefix) + 1, Len(p))
Expected(route, p) == UrlPath(TrimEnd(route.base) \o AfterPrefix(p, route.prefix))

\* The routes are ones validation accepts, and a routed request names one of them
\* and an absolute path.
TypeOK ==
  /\ table \in Tables
  /\ \A i \in DOMAIN table : ValidPrefix(table[i].prefix)
  /\ path \in Paths \cup {<<>>}
  /\ target # Nowhere =>
       /\ \E i \in DOMAIN table : target.route = table[i]
       /\ target.upstream # <<>> /\ target.upstream[1] = Slash

\* Comparing characters and sorting by length picks the enabled route with most
\* segments in common, the first in the file among equals; a path no enabled
\* route is above is not proxied.
DeepestRouteWins ==
  path # <<>> =>
    IF target = Nowhere
    THEN Under(path) = {}
    ELSE \E i \in Under(path) :
           /\ target.route = table[i]
           /\ \A j \in Under(path) : Deeper(i, j) \/ (~Deeper(j, i) /\ i <= j)

\* When the rest of the path does not begin with the prefix again, the upstream
\* is asked for exactly that rest below its base path, with one slash between.
RestIsForwarded ==
  target # Nowhere =>
    LET rest == AfterPrefix(path, target.route.prefix)
    IN  ~IsPrefix(target.route.prefix, rest) =>
          target.upstream = Expected(target.route, path)

\* What the gateway guide says: the prefix is stripped and the request goes to
\* the rest of its path below the base.
PrefixStrippedOnce ==
  target # Nowhere => target.upstream = Expected(target.route, path)
=============================================================================
