------------------------- MODULE GatewayRoutesProofs -------------------------
(***************************************************************************)
(* What GatewayRoutes promises of a routed request, for every table that     *)
(* validation accepts and every path.                                       *)
(***************************************************************************)
EXTENDS GatewayRoutes, RoutingProofs, FiniteSetTheorems

\* The table is a configured one that passed validation.
TableFits == table \in Tables /\ \A i \in DOMAIN table : ValidPrefix(table[i].prefix)

\* The target is what the table makes of the path routed last.
TargetFits ==
  IF path = <<>> THEN target = Nowhere
  ELSE /\ path \in Paths
       /\ LET route == FindRoute(table, path)
          IN  target = IF route = Nowhere THEN Nowhere
                       ELSE [route |-> route, upstream |-> UpstreamPath(route, path)]

RoutesInv == TableFits /\ TargetFits

-----------------------------------------------------------------------------
LEMMA UrlPathAbsolute ==
  ASSUME NEW s \in Path
  PROVE  UrlPath(s) # <<>> /\ UrlPath(s)[1] = Slash
<1>1. CASE s # <<>> /\ s[1] = Slash
  BY <1>1 DEF UrlPath
<1>2. CASE ~(s # <<>> /\ s[1] = Slash)
  <2>1. UrlPath(s) = <<Slash>> \o s
    BY <1>2 DEF UrlPath
  <2>2. Len(<<Slash>> \o s) = 1 + Len(s) /\ Len(s) \in Nat /\ (<<Slash>> \o s)[1] = Slash
    BY DEF Path
  <2> QED
    BY <2>1, <2>2
<1> QED
  BY <1>1, <1>2

LEMMA TrimEndPath ==
  ASSUME NEW s \in Path
  PROVE  TrimEnd(s) \in Path
<1> DEFINE kept == {i \in DOMAIN s : s[i] # Slash}
<1>1. kept \cup {0} \subseteq 0..Len(s) /\ Len(s) \in Nat
  BY DEF Path
<1> HIDE DEF kept
<1>2. Max(kept \cup {0}) \in kept \cup {0}
  BY <1>1, GreatestNumber
<1> DEFINE last == Max(kept \cup {0})
<1>3. SubSeq(s, 1, last) \in Path
  <2>1. last \in 0..Len(s)
    BY <1>1, <1>2
  <2> HIDE DEF last
  <2> QED
    BY <1>1, <2>1 DEF Path
<1> QED
  BY <1>3 DEF TrimEnd, kept

LEMMA RoutesInit ==
  ASSUME Init
  PROVE  RoutesInv
BY DEF Init, RoutesInv, TableFits, TargetFits

LEMMA RouteRequestKeeps ==
  ASSUME RoutesInv, NEW p \in Paths, RouteRequest(p)
  PROVE  RoutesInv'
<1> DEFINE route == FindRoute(table, p)
<1>1. table' = table /\ path' = p /\ p # <<>>
  BY PathsAssumption DEF RouteRequest, PathsAssumption
<1>2. target' = IF route = Nowhere THEN Nowhere
                ELSE [route |-> route, upstream |-> UpstreamPath(route, p)]
  BY DEF RouteRequest
<1> QED
  BY <1>1, <1>2 DEF RoutesInv, TableFits, TargetFits

LEMMA RoutesInvariant == Spec => []RoutesInv
<1>1. RoutesInv /\ [Next]_vars => RoutesInv'
  <2>1. RoutesInv /\ UNCHANGED vars => RoutesInv'
    BY DEF RoutesInv, TableFits, TargetFits, vars
  <2> QED
    BY <2>1, RouteRequestKeeps DEF Next
<1> QED
  BY RoutesInit, <1>1, PTL DEF Spec

\* The route of a routed request and its path, as the assumptions type them.
LEMMA RoutedTyped ==
  ASSUME RoutesInv, target # Nowhere
  PROVE  /\ \E i \in DOMAIN table : target.route = table[i]
         /\ path \in Paths /\ path \in Path
         /\ target.route.prefix \in Path /\ target.route.base \in Path
         /\ Len(target.route.prefix) > 0
         /\ IsPrefix(target.route.prefix, path)
         /\ target.upstream = UpstreamPath(target.route, path)
<1> DEFINE route == FindRoute(table, path)
<1>1. /\ path \in Paths /\ route # Nowhere
      /\ target = [route |-> route, upstream |-> UpstreamPath(route, path)]
  BY DEF RoutesInv, TargetFits
<1>2. path \in Path /\ \A i \in DOMAIN table : /\ i \in Nat /\ table[i].prefix \in Path
                                               /\ table[i].base \in Path
  BY <1>1, PathsAssumption, TablesAssumption
     DEF RoutesInv, TableFits, PathsAssumption, TablesAssumption
<1>3. PICK i \in DOMAIN table : route = table[i] /\ Matches(table[i].prefix, path)
  BY <1>1, <1>2, FoundMatches
<1> HIDE DEF route
<1>4. ValidPrefix(table[i].prefix)
  BY DEF RoutesInv, TableFits
<1>5. Len(table[i].prefix) > 0
  <2>1. Len(table[i].prefix) \in Nat /\ Len(table[i].prefix) > 1
    BY <1>2, <1>4 DEF ValidPrefix, Path
  <2> QED
    BY <2>1
<1>6. IsPrefix(table[i].prefix, path)
  BY <1>2, <1>3, MatchBegins
<1> QED
  BY <1>1, <1>2, <1>3, <1>5, <1>6

-----------------------------------------------------------------------------
\* Paths as lists of segments

Absolute(p) == p \in Path /\ Len(p) > 0 /\ p[1] = Slash

\* how many of the slashes of p come up to position i
Rank(p, i) == Cardinality({j \in Slashes(p) : j <= i})

LEMMA SlashesFinite ==
  ASSUME NEW p \in Path
  PROVE  /\ Slashes(p) \subseteq 1..Len(p) /\ Len(p) \in Nat
         /\ IsFiniteSet(Slashes(p)) /\ Cardinality(Slashes(p)) \in Nat
         /\ \A S \in SUBSET Slashes(p) :
              /\ IsFiniteSet(S) /\ Cardinality(S) \in Nat
              /\ Cardinality(S) <= Cardinality(Slashes(p))
              /\ Cardinality(S) = Cardinality(Slashes(p)) => S = Slashes(p)
<1>1. Len(p) \in Nat /\ Slashes(p) \subseteq 1..Len(p)
  BY DEF Path, Slashes
<1>2. IsFiniteSet(Slashes(p)) /\ Cardinality(Slashes(p)) \in Nat
  <2>1. IsFiniteSet(1..Len(p))
    BY <1>1, FS_Interval
  <2> QED
    BY <1>1, <2>1, FS_Subset, FS_CardinalityType
<1> QED
  BY <1>1, <1>2, FS_Subset, FS_CardinalityType

\* Ranks tell slashes apart.
LEMMA RanksDiffer ==
  ASSUME NEW p \in Path, NEW i \in Slashes(p), NEW j \in Slashes(p), Rank(p, i) = Rank(p, j)
  PROVE  i = j
<1>1. ASSUME NEW x \in Slashes(p), NEW y \in Slashes(p), x < y PROVE Rank(p, x) # Rank(p, y)
  <2> DEFINE X == {k \in Slashes(p) : k <= x}
             Y == {k \in Slashes(p) : k <= y}
  <2>0. x \in Nat /\ y \in Nat /\ \A k \in Slashes(p) : k \in Nat
    BY SlashesFinite
  <2>1. X \in SUBSET Y /\ y \in Y /\ y \notin X /\ IsFiniteSet(Y)
    BY <1>1, <2>0, SlashesFinite
  <2>2. Cardinality(X) # Cardinality(Y)
    <3> HIDE DEF X, Y
    <3> QED
      BY <2>1, FS_Subset
  <2> QED
    BY <2>2 DEF Rank
<1>2. i \in Nat /\ j \in Nat
  BY SlashesFinite
<1> QED
  BY <1>1, <1>2

\* After a slash that is not the last comes the one of the next rank.
LEMMA NextSlash ==
  ASSUME NEW p \in Path, NEW i \in Slashes(p)
  PROVE  /\ Rank(p, i) \in 1..Cardinality(Slashes(p))
         /\ i <= EndAfter(p, i) /\ EndAfter(p, i) <= Len(p) /\ EndAfter(p, i) \in Nat
         /\ \A j \in Slashes(p) : j > i => EndAfter(p, i) < j
         /\ Rank(p, i) = Cardinality(Slashes(p)) => EndAfter(p, i) = Len(p)
         /\ Rank(p, i) # Cardinality(Slashes(p)) =>
              /\ EndAfter(p, i) + 1 \in Slashes(p)
              /\ Rank(p, EndAfter(p, i) + 1) = Rank(p, i) + 1
<1> DEFINE S == Slashes(p)
           upto == {j \in S : j <= i}
           later == {j \in S : j > i}
           next == Min(later \cup {Len(p) + 1})
<1>1. S \subseteq 1..Len(p) /\ Len(p) \in Nat /\ IsFiniteSet(S) /\ i \in 1..Len(p)
  BY SlashesFinite
<1> HIDE DEF S
<1>2. Rank(p, i) = Cardinality(upto) /\ i \in S
  BY DEF Rank, S
<1>3. /\ upto \in SUBSET S /\ i \in upto /\ IsFiniteSet(upto)
      /\ Cardinality(upto) \in Nat /\ Cardinality(S) \in Nat /\ Cardinality(upto) <= Cardinality(S)
      /\ (Cardinality(upto) = Cardinality(S) => upto = S)
  <2>1. upto \in SUBSET S /\ i \in upto
    BY <1>1, <1>2
  <2> HIDE DEF upto
  <2> QED
    BY <1>1, <2>1, SlashesFinite DEF S
<1>4. Cardinality(upto) # 0
  <2> HIDE DEF upto
  <2> QED
    BY <1>3, FS_EmptySet
<1>5. next \in later \cup {Len(p) + 1} /\ \A j \in later \cup {Len(p) + 1} : next <= j
  <2>1. later \cup {Len(p) + 1} \subseteq Nat /\ later \cup {Len(p) + 1} # {}
    <3>1. \A j \in S : j \in Nat
      BY <1>1
    <3>2. Len(p) + 1 \in Nat
      BY <1>1
    <3> QED
      BY <3>1, <3>2
  <2> HIDE DEF later
  <2> QED
    BY <2>1, LeastNumber
<1>6. EndAfter(p, i) = next - 1
  BY DEF EndAfter, S
<1> HIDE DEF next
<1>7. next \in i + 1..Len(p) + 1
  BY <1>1, <1>5
<1>8. \A j \in S : j > i => next - 1 < j
  BY <1>1, <1>5, <1>7
<1>9. ASSUME Cardinality(upto) = Cardinality(S) PROVE next - 1 = Len(p)
  <2>1. later = {}
    <3>1. \A j \in S : j \in Nat
      BY <1>1
    <3>2. upto = S
      <4> HIDE DEF upto
      <4> QED
        BY <1>3, <1>9
    <3>3. \A j \in S : j <= i
      BY <3>2
    <3>4. i \in Nat
      BY <1>1
    <3>5. \A j \in later : FALSE
      BY <3>1, <3>3, <3>4
    <3> HIDE DEF later
    <3> QED
      BY <3>5
  <2> QED
    BY <1>1, <1>5, <1>7, <2>1
<1>10. ASSUME Cardinality(upto) # Cardinality(S)
       PROVE  next \in S /\ Rank(p, next) = Cardinality(upto) + 1
  <2>1. PICK j \in S : j \notin upto
    <3> HIDE DEF upto
    <3> QED
      BY <1>3, <1>10
  <2>2. j \in later
    BY <1>1, <2>1
  <2>3. next \in later
    <3>1. next <= j /\ j <= Len(p)
      BY <1>1, <1>5, <2>2
    <3> QED
      BY <1>1, <1>5, <3>1
  <2>4. {k \in S : k <= next} = upto \cup {next}
    <3>1. i \in Nat /\ next \in Nat /\ next > i /\ \A k \in S : k \in Nat
      BY <1>1, <1>7
    <3>2. \A k \in S : k <= next => k <= i \/ k = next
      BY <1>5, <3>1
    <3>3. \A k \in S : k <= i => k <= next
      BY <3>1
    <3>4. \A k \in S : k <= next <=> k \in upto \/ k = next
      BY <3>1, <3>2, <3>3
    <3>5. next \in S /\ upto \subseteq S
      BY <2>3
    <3> HIDE DEF upto
    <3> QED
      BY <3>4, <3>5
  <2>5. next \notin upto
    BY <1>1, <1>7
  <2>6. Cardinality(upto \cup {next}) = Cardinality(upto) + 1
    <3> HIDE DEF upto
    <3> QED
      BY <1>3, <2>5, FS_AddElement
  <2> QED
    BY <2>3, <2>4, <2>6 DEF Rank, S
<1>11. next - 1 + 1 = next
  BY <1>7, <1>1
<1> HIDE DEF upto
<1> QED
  BY <1>1, <1>2, <1>3, <1>4, <1>6, <1>7, <1>8, <1>9, <1>10, <1>11 DEF S

\* The slashes of an absolute path, one for each segment.
LEMMA SlashesInOrder ==
  ASSUME NEW p, Absolute(p)
  PROVE  /\ Cardinality(Slashes(p)) \in Nat /\ Cardinality(Slashes(p)) >= 1
         /\ SlashAt(p, 1) = 1
         /\ \A k \in 1..Cardinality(Slashes(p)) :
              SlashAt(p, k) \in Slashes(p) /\ Rank(p, SlashAt(p, k)) = k
<1> DEFINE n == Cardinality(Slashes(p))
           ranked == {k \in Nat : k + 1 <= n => \E i \in Slashes(p) : Rank(p, i) = k + 1}
<1>1. p \in Path /\ n \in Nat /\ 1 \in Slashes(p) /\ Len(p) \in Nat
  <2>1. p \in Path /\ Len(p) \in Nat /\ 1 \in DOMAIN p
    BY DEF Absolute, Path
  <2> QED
    BY <2>1, SlashesFinite DEF Absolute, Slashes
<1>2. Rank(p, 1) = 1
  <2>1. \A j \in Slashes(p) : j \in Nat /\ j >= 1
    BY <1>1, SlashesFinite
  <2>2. {j \in Slashes(p) : j <= 1} = {1}
    <3>1. \A j \in Slashes(p) : j <= 1 <=> j = 1
      BY <2>1
    <3> QED
      BY <1>1, <3>1
  <2> QED
    BY <2>2, FS_Singleton DEF Rank
<1>3. n >= 1
  BY <1>1, <1>2, NextSlash
<1> HIDE DEF n
<1>4. 0 \in ranked
  BY <1>1, <1>2
<1>5. ASSUME NEW k \in Nat, k \in ranked PROVE k + 1 \in ranked
  <2> SUFFICES ASSUME k + 1 + 1 <= n
               PROVE  \E i \in Slashes(p) : Rank(p, i) = k + 1 + 1
    OBVIOUS
  <2>1. PICK i \in Slashes(p) : Rank(p, i) = k + 1
    BY <1>1, <1>5
  <2>2. Rank(p, i) # n
    BY <1>1, <2>1
  <2> QED
    BY <1>1, <2>1, <2>2, NextSlash DEF n
<1>6. \A k \in 1..n : \E i \in Slashes(p) : Rank(p, i) = k
  <2>1. Nat \subseteq ranked
    <3> HIDE DEF ranked
    <3> QED
      BY <1>4, <1>5, Induction
  <2> SUFFICES ASSUME NEW k \in 1..n PROVE \E i \in Slashes(p) : Rank(p, i) = k
    OBVIOUS
  <2>2. k - 1 \in Nat /\ k - 1 + 1 = k /\ k <= n
    BY <1>1
  <2>3. k - 1 \in ranked
    <3> HIDE DEF ranked
    <3> QED
      BY <2>1, <2>2
  <2> QED
    BY <2>2, <2>3
<1>7. \A k \in 1..n : SlashAt(p, k) \in Slashes(p) /\ Rank(p, SlashAt(p, k)) = k
  BY <1>6 DEF SlashAt, Rank
<1>8. SlashAt(p, 1) = 1
  <2>1. 1 \in 1..n
    BY <1>1, <1>3
  <2> QED
    BY <1>1, <1>2, <1>7, <2>1, RanksDiffer
<1> QED
  BY <1>1, <1>3, <1>7, <1>8 DEF n

\* Segment k is what stands between its slash and the next, or the end of the path.
LEMMA SegmentsInOrder ==
  ASSUME NEW p, Absolute(p)
  PROVE  LET n == Cardinality(Slashes(p))
             at(k) == SlashAt(p, k)
             end(k) == EndAfter(p, at(k))
         IN  /\ n \in Nat /\ n >= 1 /\ at(1) = 1
             /\ Segments(p) \in Seq(Path) /\ Len(Segments(p)) = n
             /\ \A k \in 1..n :
                  /\ at(k) \in Slashes(p) /\ at(k) \in 1..Len(p)
                  /\ end(k) \in at(k)..Len(p)
                  /\ end(k) = IF k = n THEN Len(p) ELSE at(k + 1) - 1
                  /\ Segments(p)[k] = SubSeq(p, at(k) + 1, end(k))
<1> DEFINE n == Cardinality(Slashes(p))
           at(k) == SlashAt(p, k)
           end(k) == EndAfter(p, at(k))
<1>1. p \in Path /\ Len(p) \in Nat /\ Slashes(p) \subseteq 1..Len(p)
  BY SlashesFinite DEF Absolute
<1>2. n \in Nat /\ n >= 1 /\ at(1) = 1
  BY SlashesInOrder
<1>3. ASSUME NEW k \in 1..n
      PROVE  /\ at(k) \in Slashes(p) /\ at(k) \in 1..Len(p)
             /\ end(k) \in at(k)..Len(p)
             /\ end(k) = IF k = n THEN Len(p) ELSE at(k + 1) - 1
  <2>1. at(k) \in Slashes(p) /\ Rank(p, at(k)) = k
    BY SlashesInOrder
  <2> HIDE DEF n, at
  <2>2. at(k) \in 1..Len(p)
    BY <1>1, <2>1
  <2>3. end(k) \in Nat /\ at(k) <= end(k) /\ end(k) <= Len(p)
    BY <1>1, <2>1, NextSlash
  <2>4. CASE k = n
    <3>1. end(k) = Len(p)
      BY <1>1, <2>1, <2>4, NextSlash DEF n
    <3> QED
      BY <1>1, <2>1, <2>2, <2>3, <2>4, <3>1
  <2>5. CASE k # n
    <3>1. end(k) + 1 \in Slashes(p) /\ Rank(p, end(k) + 1) = k + 1
      BY <1>1, <2>1, <2>5, NextSlash DEF n
    <3>2. k + 1 \in 1..n
      BY <1>2, <2>5
    <3>3. at(k + 1) \in Slashes(p) /\ Rank(p, at(k + 1)) = k + 1
      BY <3>2, SlashesInOrder DEF at, n
    <3>4. at(k + 1) = end(k) + 1
      BY <1>1, <3>1, <3>3, RanksDiffer
    <3> QED
      BY <1>1, <2>1, <2>2, <2>3, <2>5, <3>4
  <2> QED
    BY <2>4, <2>5
<1>4. Segments(p) = [k \in 1..n |-> SubSeq(p, at(k) + 1, end(k))]
  BY DEF Segments
<1>5. Segments(p) \in Seq(Path) /\ Len(Segments(p)) = n
  <2>1. \A k \in 1..n : SubSeq(p, at(k) + 1, end(k)) \in Path
    <3> HIDE DEF n, at, end
    <3> QED
      BY <1>1, <1>3 DEF Path
  <2> HIDE DEF n, at, end
  <2> QED
    BY <1>2, <1>4, <2>1
<1> QED
  BY <1>2, <1>3, <1>4, <1>5

LEMMA SameSegment ==
  ASSUME NEW q \in Path, NEW p \in Path, NEW i \in Nat,
         NEW m \in i..Len(q), NEW n \in i..Len(p),
         SubSeq(q, i + 1, m) = SubSeq(p, i + 1, n)
  PROVE  m = n /\ \A j \in i + 1..m : q[j] = p[j]
<1>1. Len(q) \in Nat /\ Len(p) \in Nat /\ m \in Nat /\ n \in Nat
  BY DEF Path
<1>2. Len(SubSeq(q, i + 1, m)) = m - i /\ Len(SubSeq(p, i + 1, n)) = n - i
  BY <1>1 DEF Path
<1>3. m = n
  BY <1>1, <1>2
<1>4. ASSUME NEW j \in i + 1..m PROVE q[j] = p[j]
  <2>1. /\ SubSeq(q, i + 1, m)[j - i] = q[j]
        /\ SubSeq(p, i + 1, m)[j - i] = p[j]
    BY <1>1, <1>3 DEF Path
  <2> QED
    BY <1>3, <2>1
<1> QED
  BY <1>3, <1>4

\* A path whose first segments are those of another lies below it.
LEMMA SegmentsMatch ==
  ASSUME NEW q, Absolute(q), NEW p, Absolute(p), IsPrefix(Segments(q), Segments(p))
  PROVE  Matches(q, p)
<1> DEFINE m == Cardinality(Slashes(q))
           n == Cardinality(Slashes(p))
           qat(k) == SlashAt(q, k)
           pat(k) == SlashAt(p, k)
           qend(k) == EndAfter(q, qat(k))
           pend(k) == EndAfter(p, pat(k))
<1>1. /\ m \in Nat /\ m >= 1 /\ qat(1) = 1
      /\ Segments(q) \in Seq(Path) /\ Len(Segments(q)) = m
      /\ \A k \in 1..m :
           /\ qat(k) \in Slashes(q) /\ qat(k) \in 1..Len(q)
           /\ qend(k) \in qat(k)..Len(q)
           /\ qend(k) = IF k = m THEN Len(q) ELSE qat(k + 1) - 1
           /\ Segments(q)[k] = SubSeq(q, qat(k) + 1, qend(k))
  BY SegmentsInOrder
<1>2. /\ n \in Nat /\ n >= 1 /\ pat(1) = 1
      /\ Segments(p) \in Seq(Path) /\ Len(Segments(p)) = n
      /\ \A k \in 1..n :
           /\ pat(k) \in Slashes(p) /\ pat(k) \in 1..Len(p)
           /\ pend(k) \in pat(k)..Len(p)
           /\ pend(k) = IF k = n THEN Len(p) ELSE pat(k + 1) - 1
           /\ Segments(p)[k] = SubSeq(p, pat(k) + 1, pend(k))
  BY SegmentsInOrder
<1>3. /\ q \in Path /\ p \in Path /\ Len(q) \in Nat /\ Len(p) \in Nat
      /\ q[1] = Slash /\ p[1] = Slash
      /\ (\A i \in Slashes(q) : q[i] = Slash) /\ (\A i \in Slashes(p) : p[i] = Slash)
  BY DEF Absolute, Path, Slashes
<1>4. m <= n /\ \A k \in 1..m : Segments(q)[k] = Segments(p)[k]
  <2> DEFINE s == Segments(q)
             t == Segments(p)
  <2>1. s \in Seq(Path) /\ t \in Seq(Path) /\ Len(s) = m /\ Len(t) = n
    BY <1>1, <1>2
  <2>2. Len(s) <= Len(t) /\ SubSeq(s, 1, Len(s)) = SubSeq(t, 1, Len(s))
    BY DEF IsPrefix
  <2> HIDE DEF m, n, s, t
  <2>3. \A k \in 1..m : SubSeq(s, 1, m)[k] = s[k] /\ SubSeq(t, 1, m)[k] = t[k]
    BY <1>1, <1>2, <2>1, <2>2
  <2> QED
    BY <2>1, <2>2, <2>3 DEF s, t
<1> HIDE DEF m, n, qat, pat, qend, pend
<1> DEFINE agree == {k \in Nat : k + 1 <= m =>
                       /\ qat(k + 1) = pat(k + 1)
                       /\ \A j \in 1..qat(k + 1) : q[j] = p[j]}
<1>5. ASSUME NEW k \in 1..m, qat(k) = pat(k), \A j \in 1..qat(k) : q[j] = p[j]
      PROVE  qend(k) = pend(k) /\ \A j \in 1..qend(k) : q[j] = p[j]
  <2>1. k \in 1..n /\ qat(k) \in Nat
    <3>1. k \in 1..n
      BY <1>1, <1>2, <1>4
    <3>2. qat(k) \in 1..Len(q)
      BY <1>1
    <3> QED
      BY <3>1, <3>2
  <2>2. SubSeq(q, qat(k) + 1, qend(k)) = SubSeq(p, qat(k) + 1, pend(k))
    <3>1. Segments(q)[k] = SubSeq(q, qat(k) + 1, qend(k))
      BY <1>1
    <3>2. Segments(p)[k] = SubSeq(p, pat(k) + 1, pend(k))
      BY <1>2, <2>1
    <3> QED
      BY <1>4, <1>5, <3>1, <3>2
  <2>3. qend(k) \in qat(k)..Len(q) /\ pend(k) \in qat(k)..Len(p)
    BY <1>1, <1>2, <1>5, <2>1
  <2>4. qend(k) = pend(k) /\ \A j \in qat(k) + 1..qend(k) : q[j] = p[j]
    <3> DEFINE i == qat(k)
               a == qend(k)
               b == pend(k)
    <3>1. i \in Nat /\ a \in i..Len(q) /\ b \in i..Len(p)
          /\ SubSeq(q, i + 1, a) = SubSeq(p, i + 1, b)
      BY <2>1, <2>2, <2>3
    <3> HIDE DEF i, a, b
    <3>2. a = b /\ \A j \in i + 1..a : q[j] = p[j]
      BY <1>3, <3>1, SameSegment
    <3> QED
      BY <3>2 DEF i, a, b
  <2>5. \A j \in 1..qend(k) : j \in 1..qat(k) \/ j \in qat(k) + 1..qend(k)
    BY <2>1
  <2> QED
    BY <1>5, <2>4, <2>5
<1>6. 0 \in agree
  <2>1. 0 + 1 = 1 /\ \A j \in 1..1 : j = 1
    OBVIOUS
  <2> QED
    BY <1>1, <1>2, <1>3, <2>1
<1>7. ASSUME NEW k \in Nat, k \in agree PROVE k + 1 \in agree
  <2> SUFFICES ASSUME k + 1 + 1 <= m
               PROVE  /\ qat(k + 1 + 1) = pat(k + 1 + 1)
                      /\ \A j \in 1..qat(k + 1 + 1) : q[j] = p[j]
    OBVIOUS
  <2> DEFINE c == k + 1
  <2>1. c \in 1..m /\ c # m /\ c \in 1..n /\ c # n /\ c + 1 \in 1..m /\ c + 1 \in 1..n
    BY <1>1, <1>2, <1>4
  <2>2. qend(c) = pend(c) /\ \A j \in 1..qend(c) : q[j] = p[j]
    <3>1. qat(c) = pat(c) /\ \A j \in 1..qat(c) : q[j] = p[j]
      BY <1>1, <1>7
    <3> HIDE DEF c
    <3> QED
      BY <1>5, <2>1, <3>1
  <2> HIDE DEF c
  <2>3. qend(c) = qat(c + 1) - 1 /\ pend(c) = pat(c + 1) - 1
    BY <1>1, <1>2, <2>1
  <2>4. /\ qat(c + 1) \in Nat /\ pat(c + 1) \in Nat
        /\ q[qat(c + 1)] = Slash /\ p[pat(c + 1)] = Slash
    <3>1. qat(c + 1) \in Slashes(q) /\ qat(c + 1) \in 1..Len(q)
      BY <1>1, <2>1
    <3>2. pat(c + 1) \in Slashes(p) /\ pat(c + 1) \in 1..Len(p)
      BY <1>2, <2>1
    <3> QED
      BY <1>3, <3>1, <3>2
  <2>5. qat(c + 1) = pat(c + 1)
    <3>1. \A x, y \in Nat : x - 1 = y - 1 => x = y
      OBVIOUS
    <3>2. qat(c + 1) - 1 = pat(c + 1) - 1
      BY <2>2, <2>3
    <3> QED
      BY <2>4, <3>1, <3>2
  <2>6. \A j \in 1..qat(c + 1) : j \in 1..qend(c) \/ j = qat(c + 1)
    <3>1. \A x \in Nat : \A j \in 1..x : j \in 1..x - 1 \/ j = x
      OBVIOUS
    <3> QED
      BY <2>3, <2>4, <3>1
  <2> QED
    BY <2>2, <2>4, <2>5, <2>6 DEF c
<1>8. qend(m) = pend(m) /\ \A j \in 1..qend(m) : q[j] = p[j]
  <2>1. Nat \subseteq agree
    <3> HIDE DEF agree
    <3> QED
      BY <1>6, <1>7, Induction
  <2>2. m - 1 \in Nat /\ m - 1 + 1 = m /\ m \in 1..m
    BY <1>1
  <2>3. m - 1 \in agree
    <3> HIDE DEF agree
    <3> QED
      BY <2>1, <2>2
  <2> QED
    BY <1>5, <2>2, <2>3
<1>9. Len(q) = pend(m) /\ \A j \in 1..Len(q) : q[j] = p[j]
  <2>1. m \in 1..m
    BY <1>1
  <2> QED
    BY <1>1, <1>8, <2>1
<1>10. CASE m = n
  <2>1. Len(p) = Len(q)
    BY <1>2, <1>9, <1>10
  <2>2. p = q
    BY <1>3, <1>9, <2>1 DEF Path
  <2> QED
    BY <2>2 DEF Matches
<1>11. CASE m # n
  <2>1. m \in 1..n /\ m + 1 \in 1..n
    BY <1>1, <1>2, <1>4, <1>11
  <2>2. Len(q) = pat(m + 1) - 1 /\ pat(m + 1) \in 1..Len(p) /\ p[pat(m + 1)] = Slash
    BY <1>2, <1>3, <1>9, <1>11, <2>1
  <2>3. Len(q) + 1 = pat(m + 1) /\ Len(q) < Len(p)
    BY <1>3, <2>2
  <2>4. SubSeq(q, 1, Len(q)) = SubSeq(p, 1, Len(q))
    BY <1>3, <1>9, <2>3 DEF Path
  <2> QED
    BY <1>3, <2>2, <2>3, <2>4 DEF Matches, IsStrictPrefix, IsPrefix
<1> QED
  BY <1>10, <1>11

LEMMA SamePart ==
  ASSUME NEW q \in Path, NEW p \in Path, Len(q) < Len(p), \A j \in 1..Len(q) : q[j] = p[j],
         NEW a \in Nat \ {0}, NEW b \in 0..Len(q)
  PROVE  SubSeq(q, a, b) = SubSeq(p, a, b)
<1> DEFINE s == SubSeq(q, a, b)
           t == SubSeq(p, a, b)
<1>1. Len(q) \in Nat /\ Len(p) \in Nat /\ b \in Nat /\ b <= Len(q) /\ b <= Len(p)
  BY DEF Path
<1>2. /\ s \in Seq(STRING) /\ t \in Seq(STRING) /\ Len(s) = Len(t)
      /\ \A j \in 1..Len(s) : /\ s[j] = q[a + j - 1] /\ t[j] = p[a + j - 1]
                             /\ a + j - 1 \in 1..Len(q)
  BY <1>1 DEF Path
<1> HIDE DEF s, t
<1>3. \A j \in 1..Len(s) : s[j] = t[j]
  BY <1>2
<1>4. s = t
  BY <1>2, <1>3
<1> QED
  BY <1>4 DEF s, t

LEMMA SubSlashes ==
  ASSUME NEW q, Absolute(q), NEW p, Absolute(p), Len(q) < Len(p),
         \A j \in 1..Len(q) : q[j] = p[j], p[Len(q) + 1] = Slash
  PROVE  /\ Slashes(q) = {j \in Slashes(p) : j <= Len(q)}
         /\ Len(q) + 1 \in Slashes(p)
         /\ Cardinality(Slashes(q)) < Cardinality(Slashes(p))
<1>1. /\ q \in Path /\ p \in Path /\ Len(q) \in Nat /\ Len(p) \in Nat
      /\ DOMAIN q = 1..Len(q) /\ DOMAIN p = 1..Len(p)
  BY DEF Absolute, Path
<1>2. Slashes(q) = {j \in Slashes(p) : j <= Len(q)} /\ Len(q) + 1 \in Slashes(p)
  BY <1>1 DEF Slashes
<1>3. Slashes(q) \in SUBSET Slashes(p) /\ Slashes(q) # Slashes(p)
  BY <1>1, <1>2
<1> QED
  BY <1>1, <1>2, <1>3, SlashesFinite

\* The segments of a path are the first ones of every path below it.
LEMMA MatchSegments ==
  ASSUME NEW q, Absolute(q), NEW p, Absolute(p), Matches(q, p)
  PROVE  IsPrefix(Segments(q), Segments(p))
<1> DEFINE m == Cardinality(Slashes(q))
           n == Cardinality(Slashes(p))
<1>1. /\ m \in Nat /\ Segments(q) \in Seq(Path) /\ Len(Segments(q)) = m
      /\ \A k \in 1..m :
           /\ SlashAt(q, k) \in Slashes(q)
           /\ Segments(q)[k] = SubSeq(q, SlashAt(q, k) + 1, EndAfter(q, SlashAt(q, k)))
  BY SegmentsInOrder
<1>2. /\ n \in Nat /\ Segments(p) \in Seq(Path) /\ Len(Segments(p)) = n
      /\ \A k \in 1..n :
           /\ SlashAt(p, k) \in Slashes(p)
           /\ Segments(p)[k] = SubSeq(p, SlashAt(p, k) + 1, EndAfter(p, SlashAt(p, k)))
  BY SegmentsInOrder
<1>3. /\ q \in Path /\ p \in Path /\ Len(q) \in Nat /\ Len(p) \in Nat
      /\ Slashes(q) \subseteq 1..Len(q) /\ Slashes(p) \subseteq 1..Len(p)
  BY SlashesFinite DEF Absolute
<1>4. CASE p = q
  BY <1>1, <1>4 DEF IsPrefix
<1>5. CASE p # q
  <2>1. /\ Len(q) < Len(p) /\ p[Len(q) + 1] = Slash
        /\ \A j \in 1..Len(q) : q[j] = p[j]
    <3>1. IsPrefix(q, p) /\ q # p /\ p[Len(q) + 1] = Slash
      BY <1>5 DEF Matches, IsStrictPrefix
    <3>2. Len(q) <= Len(p) /\ \A j \in 1..Len(q) : q[j] = p[j]
      BY <1>3, <3>1 DEF IsPrefix, Path
    <3>3. Len(q) # Len(p)
      BY <1>3, <3>1, <3>2 DEF Path
    <3> QED
      BY <1>3, <3>1, <3>2, <3>3
  <2>2. /\ Slashes(q) = {j \in Slashes(p) : j <= Len(q)}
        /\ Len(q) + 1 \in Slashes(p) /\ m < n
    BY <2>1, SubSlashes
  <2>3. ASSUME NEW i \in Slashes(q) PROVE Rank(q, i) = Rank(p, i)
    <3>1. {j \in Slashes(q) : j <= i} = {j \in Slashes(p) : j <= i}
      <4>1. i \in Nat /\ i <= Len(q) /\ \A j \in Slashes(p) : j \in Nat
        BY <1>3, <2>2
      <4> QED
        BY <1>3, <2>2, <4>1
    <3> QED
      BY <3>1 DEF Rank
  <2>4. ASSUME NEW i \in Slashes(q) PROVE EndAfter(q, i) = EndAfter(p, i)
    <3> DEFINE Q == {j \in Slashes(q) : j > i} \cup {Len(q) + 1}
               P == {j \in Slashes(p) : j > i} \cup {Len(p) + 1}
    <3>1. i \in Nat /\ i <= Len(q) /\ \A j \in Slashes(p) : j \in Nat
      BY <1>3, <2>2
    <3>2. Q \subseteq P /\ Len(q) + 1 \in Q /\ \A j \in P : j \in Q \/ j > Len(q) + 1
      BY <1>3, <2>1, <2>2, <3>1
    <3>3. P \subseteq Nat /\ Q \subseteq Nat
      BY <1>3, <2>2, <3>1
    <3> HIDE DEF Q, P
    <3>4. Min(Q) \in Q /\ (\A j \in Q : Min(Q) <= j) /\ Min(P) \in P /\ \A j \in P : Min(P) <= j
      BY <3>2, <3>3, LeastNumber
    <3>5. Min(P) <= Len(q) + 1 /\ Min(P) \in Q
      <4>1. Min(P) <= Len(q) + 1 /\ Min(P) \in Nat
        BY <3>2, <3>3, <3>4
      <4>2. Min(P) \in Q \/ Min(P) > Len(q) + 1
        BY <3>2, <3>4
      <4> QED
        BY <1>3, <4>1, <4>2
    <3>6. Min(P) = Min(Q)
      <4>1. Min(Q) <= Min(P) /\ Min(P) <= Min(Q)
        BY <3>2, <3>4, <3>5
      <4>2. Min(P) \in Nat /\ Min(Q) \in Nat
        BY <3>3, <3>4
      <4> QED
        BY <4>1, <4>2
    <3> QED
      BY <3>6 DEF EndAfter, Q, P
  <2>5. ASSUME NEW k \in 1..m PROVE Segments(q)[k] = Segments(p)[k]
    <3>1. k \in 1..n
      BY <1>1, <1>2, <2>2
    <3>2. SlashAt(q, k) \in Slashes(q) /\ Rank(q, SlashAt(q, k)) = k
      BY SlashesInOrder
    <3>3. SlashAt(p, k) \in Slashes(p) /\ Rank(p, SlashAt(p, k)) = k
      BY <3>1, SlashesInOrder
    <3>4. SlashAt(q, k) \in Slashes(p) /\ Rank(p, SlashAt(q, k)) = k
      BY <2>2, <2>3, <3>2
    <3>5. SlashAt(q, k) = SlashAt(p, k)
      BY <1>3, <3>3, <3>4, RanksDiffer
    <3>6. EndAfter(q, SlashAt(q, k)) = EndAfter(p, SlashAt(p, k))
      BY <2>4, <3>2, <3>5
    <3>7. SlashAt(q, k) \in 1..Len(q) /\ EndAfter(q, SlashAt(q, k)) \in 0..Len(q)
      <4>1. /\ SlashAt(q, k) \in 1..Len(q)
            /\ EndAfter(q, SlashAt(q, k)) \in SlashAt(q, k)..Len(q)
        BY SegmentsInOrder
      <4> QED
        BY <4>1
    <3>8. SubSeq(q, SlashAt(q, k) + 1, EndAfter(q, SlashAt(q, k)))
            = SubSeq(p, SlashAt(p, k) + 1, EndAfter(p, SlashAt(p, k)))
      <4> DEFINE a == SlashAt(q, k) + 1
                 b == EndAfter(q, SlashAt(q, k))
      <4>1. a \in Nat \ {0} /\ b \in 0..Len(q)
        BY <3>7
      <4> HIDE DEF a, b
      <4>2. SubSeq(q, a, b) = SubSeq(p, a, b)
        BY <1>3, <2>1, <4>1, SamePart
      <4> QED
        BY <3>5, <3>6, <4>2 DEF a, b
    <3> QED
      BY <1>1, <1>2, <3>1, <3>8
  <2>6. IsPrefix(Segments(q), Segments(p))
    <3> DEFINE s == Segments(q)
               t == Segments(p)
    <3>1. s \in Seq(Path) /\ t \in Seq(Path) /\ Len(s) = m /\ Len(t) = n
      BY <1>1, <1>2
    <3> HIDE DEF m, n
    <3>2. \A k \in 1..m : s[k] = t[k]
      BY <2>5
    <3> HIDE DEF s, t
    <3>3. SubSeq(s, 1, m) = SubSeq(t, 1, m)
      BY <1>1, <1>2, <2>2, <3>1, <3>2
    <3>4. IsPrefix(s, t)
      BY <1>1, <1>2, <2>2, <3>1, <3>3 DEF IsPrefix
    <3> QED
      BY <3>4 DEF s, t
  <2> QED
    BY <2>6
<1> QED
  BY <1>4, <1>5

\* Of two prefixes of one path the longer one has more segments.
LEMMA LongerIsDeeper ==
  ASSUME NEW long, Absolute(long), NEW short, Absolute(short), NEW p, Absolute(p),
         Matches(long, p), Matches(short, p), Len(long) > Len(short)
  PROVE  Len(Segments(long)) > Len(Segments(short))
<1>1. /\ long \in Path /\ short \in Path /\ p \in Path
      /\ Len(long) \in Nat /\ Len(short) \in Nat /\ Len(p) \in Nat
  BY DEF Absolute, Path
<1>2. Len(long) <= Len(p) /\ \A j \in 1..Len(long) : long[j] = p[j]
  <2>1. Len(long) <= Len(p) /\ IsPrefix(long, p)
    BY <1>1, MatchBegins
  <2> QED
    BY <1>1, <2>1 DEF IsPrefix, Path
<1>3. \A j \in 1..Len(short) : short[j] = p[j]
  <2>1. Len(short) <= Len(p) /\ IsPrefix(short, p)
    BY <1>1, MatchBegins
  <2> QED
    BY <1>1, <2>1 DEF IsPrefix, Path
<1>4. p[Len(short) + 1] = Slash
  <2>1. Len(p) # Len(short)
    BY <1>1, <1>2
  <2> QED
    BY <2>1 DEF Matches
<1>5. Len(short) < Len(long) /\ Len(short) + 1 \in 1..Len(long)
  BY <1>1
<1>6. \A j \in 1..Len(short) : short[j] = long[j]
  BY <1>1, <1>2, <1>3
<1>7. Cardinality(Slashes(short)) < Cardinality(Slashes(long))
  BY <1>2, <1>4, <1>5, <1>6, SubSlashes
<1>8. /\ Len(Segments(long)) = Cardinality(Slashes(long))
      /\ Len(Segments(short)) = Cardinality(Slashes(short))
      /\ Cardinality(Slashes(long)) \in Nat /\ Cardinality(Slashes(short)) \in Nat
  BY SegmentsInOrder
<1> QED
  BY <1>7, <1>8

-----------------------------------------------------------------------------
\* A request is proxied only by a route of the configuration, and the upstream is
\* asked for an absolute path, whatever base and path are.
THEOREM TypeInvariant == Spec => []TypeOK
<1>1. ASSUME RoutesInv, target # Nowhere
      PROVE  target.upstream # <<>> /\ target.upstream[1] = Slash
  <2>1. /\ path \in Path
        /\ target.route.prefix \in Path /\ target.route.base \in Path
        /\ target.upstream = UpstreamPath(target.route, path)
    BY <1>1, RoutedTyped
  <2>2. TrimEnd(target.route.base) \in Path
    BY <2>1, TrimEndPath
  <2>3. TrimStart(path, target.route.prefix) \in Path
    BY <2>1, TrimStartPath
  <2>4. TrimEnd(target.route.base) \o TrimStart(path, target.route.prefix) \in Path
    BY <2>2, <2>3 DEF Path
  <2> QED
    BY <2>1, <2>4, UrlPathAbsolute DEF UpstreamPath
<1>2. RoutesInv => TypeOK
  BY <1>1, RoutedTyped DEF RoutesInv, TableFits, TargetFits, TypeOK
<1> QED
  BY RoutesInvariant, <1>2, PTL

\* When the rest of a path does not begin with the prefix again, the upstream is asked
\* for exactly that rest below the base path, for any table and any path.
THEOREM RestForwarded == Spec => []RestIsForwarded
<1>1. RoutesInv => RestIsForwarded
  <2> SUFFICES ASSUME RoutesInv, target # Nowhere,
                      ~IsPrefix(target.route.prefix, AfterPrefix(path, target.route.prefix))
               PROVE  target.upstream = Expected(target.route, path)
    BY DEF RestIsForwarded
  <2> DEFINE prefix == target.route.prefix
  <2>1. /\ path \in Path /\ prefix \in Path /\ Len(prefix) > 0 /\ IsPrefix(prefix, path)
        /\ target.upstream = UpstreamPath(target.route, path)
    BY RoutedTyped
  <2>2. TrimStart(path, prefix) = AfterPrefix(path, prefix)
    BY <2>1, TrimOnce DEF AfterPrefix
  <2> QED
    BY <2>1, <2>2 DEF UpstreamPath, Expected
<1> QED
  BY RoutesInvariant, <1>1, PTL

\* Matching character by character in a table sorted by length gives, for any table
\* and any path, the enabled route with most segments in common, the first in the file
\* among equals; nothing is proxied that no enabled route is above.
THEOREM DeepestFound == Spec => []DeepestRouteWins
<1>1. ASSUME RoutesInv, path # <<>>
      PROVE  IF target = Nowhere
             THEN Under(path) = {}
             ELSE \E i \in Under(path) :
                    /\ target.route = table[i]
                    /\ \A j \in Under(path) : Deeper(i, j) \/ (~Deeper(j, i) /\ i <= j)
  <2> DEFINE hits == Hits(table, path)
  <2>1. path \in Paths /\ Absolute(path)
    BY <1>1, PathsAssumption DEF RoutesInv, TargetFits, PathsAssumption, Absolute, Path
  <2>2. \A i \in DOMAIN table : i \in Nat /\ Absolute(table[i].prefix)
    BY <1>1, TablesAssumption
       DEF RoutesInv, TableFits, TablesAssumption, ValidPrefix, Absolute, Path
  <2>3. \A i \in DOMAIN table : i \in Nat /\ table[i].prefix \in Path
    BY <2>2 DEF Absolute
  <2>4. Under(path) = hits
    BY <2>1, <2>2, SegmentsMatch, MatchSegments DEF Under, Hits
  <2>5. CASE hits = {}
    <3>1. target = Nowhere
      BY <1>1, <2>5 DEF RoutesInv, TargetFits, FindRoute
    <3> QED
      BY <2>4, <2>5, <3>1
  <2>6. CASE hits # {}
    <3>1. PICK i \in hits : /\ FindRoute(table, path) = table[i]
                            /\ \A j \in hits \ {i} : Before(table, i, j)
      BY <2>1, <2>3, <2>6, FoundFirst DEF Absolute
    <3>2. i \in DOMAIN table /\ table \in Tables
      BY <1>1 DEF Hits, RoutesInv, TableFits
    <3>3. target = [route |-> table[i], upstream |-> UpstreamPath(table[i], path)]
            /\ target # Nowhere
      BY <1>1, <2>1, <3>1, <3>2, NowhereAssumption DEF RoutesInv, TargetFits, NowhereAssumption
    <3>4. ASSUME NEW j \in hits PROVE Deeper(i, j) \/ (~Deeper(j, i) /\ i <= j)
      <4> DEFINE own == table[i].prefix
                 other == table[j].prefix
      <4>1. /\ Absolute(own) /\ Absolute(other) /\ Matches(own, path) /\ Matches(other, path)
            /\ i \in Nat /\ j \in Nat
        BY <2>2 DEF Hits
      <4>2. own \in Path /\ other \in Path /\ path \in Path /\ Len(own) \in Nat
        BY <2>1, <4>1 DEF Absolute, Path
      <4>3. Len(Segments(own)) \in Nat
        BY <4>1, SegmentsInOrder
      <4>4. CASE Len(own) > Len(other)
        BY <2>1, <4>1, <4>4, LongerIsDeeper DEF Deeper
      <4>5. CASE Len(own) = Len(other) /\ i <= j
        <5>1. \A k \in 1..Len(own) : own[k] = path[k] /\ other[k] = path[k]
          BY <4>1, <4>2, <4>5, MatchBegins DEF IsPrefix, Path
        <5>2. own = other
          <6>1. own \in Seq(STRING) /\ other \in Seq(STRING) /\ Len(own) = Len(other)
            BY <4>2, <4>5 DEF Path
          <6>2. \A k \in 1..Len(own) : own[k] = other[k]
            BY <5>1
          <6> HIDE DEF own, other
          <6> QED
            BY <6>1, <6>2
        <5> QED
          BY <4>3, <4>5, <5>2 DEF Deeper
      <4>6. Len(own) > Len(other) \/ (Len(own) = Len(other) /\ i <= j)
        <5>1. CASE i = j
          BY <4>1, <5>1
        <5>2. CASE i # j
          BY <3>1, <4>1, <5>2 DEF Before
        <5> QED
          BY <5>1, <5>2
      <4> QED
        BY <4>4, <4>5, <4>6
    <3>5. target.route = table[i]
      BY <3>3
    <3> QED
      BY <2>4, <3>3, <3>4, <3>5
  <2> QED
    BY <2>5, <2>6
<1>2. RoutesInv => DeepestRouteWins
  BY <1>1 DEF DeepestRouteWins
<1> QED
  BY RoutesInvariant, <1>2, PTL
=============================================================================
