---------------------------- MODULE RoutingProofs ----------------------------
(***************************************************************************)
(* Facts about the operators of Routing, for any routes and any path.       *)
(***************************************************************************)
EXTENDS Routing, NumberFacts

\* A prefix that matches is no longer than the path, and the path begins with it.
LEMMA MatchBegins ==
  ASSUME NEW prefix \in Path, NEW p \in Path, Matches(prefix, p)
  PROVE  Len(prefix) <= Len(p) /\ IsPrefix(prefix, p)
BY DEF Path, Matches, IsStrictPrefix, IsPrefix

\* Whenever an enabled route matches, one of those comes before all others: find_route
\* has a first hit in the sorted table, whatever the table.
LEMMA FirstHitExists ==
  ASSUME NEW routes, NEW p \in Path,
         \A i \in DOMAIN routes : i \in Nat /\ routes[i].prefix \in Path,
         Hits(routes, p) # {}
  PROVE  \E i \in Hits(routes, p) : \A j \in Hits(routes, p) \ {i} : Before(routes, i, j)
<1> DEFINE hits == Hits(routes, p)
           left(i) == Len(p) - Len(routes[i].prefix)
           lefts == {left(i) : i \in hits}
<1>1. \A i \in hits : i \in Nat /\ routes[i].prefix \in Path /\ Len(routes[i].prefix) \in Nat
  BY DEF Hits, Path
<1>2. \A i \in hits : left(i) \in Nat
  <2> SUFFICES ASSUME NEW i \in hits PROVE left(i) \in Nat
    OBVIOUS
  <2>1. Matches(routes[i].prefix, p)
    BY DEF Hits
  <2>2. Len(routes[i].prefix) <= Len(p)
    BY <1>1, <2>1, MatchBegins
  <2> QED
    BY <1>1, <2>2 DEF Path
<1> HIDE DEF hits, left
<1>3. PICK least \in lefts : \A n \in lefts : least <= n
  <2>1. lefts \subseteq Nat /\ lefts # {}
    BY <1>2 DEF hits
  <2> QED
    BY <2>1, LeastNumber
<1> DEFINE longest == {i \in hits : left(i) = least}
<1>4. PICK i \in longest : \A j \in longest : i <= j
  <2>1. longest \subseteq Nat /\ longest # {}
    BY <1>1, <1>3
  <2> HIDE DEF longest
  <2> QED
    BY <2>1, LeastNumber
<1>5. ASSUME NEW j \in hits, j # i PROVE Before(routes, i, j)
  <2>1. left(i) <= left(j) /\ (left(i) = left(j) => i <= j)
    BY <1>3, <1>4, <1>5
  <2>2. Len(p) \in Nat
    BY DEF Path
  <2>3. /\ Len(routes[i].prefix) \in Nat /\ Len(routes[j].prefix) \in Nat
        /\ i \in Nat /\ j \in Nat
    BY <1>1, <1>4
  <2>4. Len(routes[i].prefix) >= Len(routes[j].prefix)
    BY <2>1, <2>2, <2>3 DEF left
  <2>5. Len(routes[i].prefix) = Len(routes[j].prefix) => i < j
    BY <1>5, <2>1, <2>3 DEF left
  <2> QED
    BY <2>3, <2>4, <2>5 DEF Before
<1> QED
  BY <1>4, <1>5 DEF hits

\* The route found is the first hit.
LEMMA FoundFirst ==
  ASSUME NEW routes, NEW p \in Path,
         \A i \in DOMAIN routes : i \in Nat /\ routes[i].prefix \in Path,
         Hits(routes, p) # {}
  PROVE  \E i \in Hits(routes, p) :
           /\ FindRoute(routes, p) = routes[i]
           /\ \A j \in Hits(routes, p) \ {i} : Before(routes, i, j)
<1> DEFINE hits == Hits(routes, p)
           first(i) == \A j \in hits \ {i} : Before(routes, i, j)
           found == CHOOSE i \in hits : first(i)
<1>1. \E i \in hits : first(i)
  BY FirstHitExists
<1>2. FindRoute(routes, p) = routes[found]
  BY DEF FindRoute
<1>3. found \in hits /\ first(found)
  <2> HIDE DEF hits, first
  <2> QED
    BY <1>1
<1> HIDE DEF found
<1> QED
  BY <1>2, <1>3

\* The route found is an enabled one that matches.
LEMMA FoundMatches ==
  ASSUME NEW routes, NEW p \in Path,
         \A i \in DOMAIN routes : i \in Nat /\ routes[i].prefix \in Path,
         FindRoute(routes, p) # Nowhere
  PROVE  \E i \in DOMAIN routes :
           /\ FindRoute(routes, p) = routes[i]
           /\ routes[i].enabled
           /\ Matches(routes[i].prefix, p)
<1>1. Hits(routes, p) # {}
  BY DEF FindRoute
<1> QED
  BY <1>1, FoundFirst DEF Hits

\* No prefix that validation accepts matches a path below a reserved one.
LEMMA ReservedNeverMatched ==
  ASSUME NEW prefix \in Path, NEW p \in Path, ValidPrefix(prefix),
         NEW reserved \in ReservedPrefixes, Matches(reserved, p)
  PROVE  ~Matches(prefix, p)
<1> SUFFICES ASSUME Matches(prefix, p) PROVE Matches(reserved, prefix)
  BY DEF ValidPrefix, Reserved
<1>1. PICK name : reserved = <<Slash, name>>
  BY Zenon DEF ReservedPrefixes
<1>2. reserved \in Seq({Slash, name}) /\ Len(reserved) = 2
  BY <1>1
<1>3. /\ Len(prefix) \in Nat /\ Len(p) \in Nat
      /\ Len(prefix) > 1 /\ Len(prefix) <= Len(p)
  BY MatchBegins DEF ValidPrefix, Path
<1>4. \A i \in 1..Len(prefix) : prefix[i] = p[i]
  BY <1>3 DEF Matches, IsStrictPrefix, IsPrefix, Path
<1>5. \A i \in 1..2 : reserved[i] = p[i]
  BY <1>2, <1>3 DEF Matches, IsStrictPrefix, IsPrefix, Path
<1>6. CASE Len(prefix) = 2
  <2>1. prefix \in Seq(STRING) /\ reserved \in Seq({Slash, name})
    BY <1>2 DEF Path
  <2>2. \A i \in 1..2 : prefix[i] = reserved[i]
    BY <1>4, <1>5, <1>6
  <2>3. prefix = reserved
    BY <1>2, <1>6, <2>1, <2>2
  <2> QED
    BY <2>3 DEF Matches
<1>7. CASE Len(prefix) > 2
  <2>1. p # reserved /\ prefix # reserved
    <3>1. Len(p) # 2 /\ Len(prefix) # 2
      <4>1. \A m, n \in Nat : m > 2 /\ m <= n => n # 2 /\ m # 2
        OBVIOUS
      <4> QED
        BY <1>3, <1>7, <4>1, Zenon
    <3> QED
      BY <1>2, <3>1, Zenon
  <2>2. prefix[3] = Slash
    BY <1>2, <1>3, <1>4, <1>7, <2>1 DEF Matches
  <2>3. SubSeq(prefix, 1, 2) = reserved
    <3> DEFINE start == SubSeq(prefix, 1, 2)
    <3>1. start \in Seq(STRING) /\ Len(start) = 2
      BY <1>3, <1>7 DEF Path
    <3>2. \A i \in 1..2 : start[i] = prefix[i] /\ prefix[i] = reserved[i]
      BY <1>3, <1>4, <1>5, <1>7 DEF Path
    <3> HIDE DEF start
    <3>3. \A i \in 1..2 : start[i] = reserved[i]
      BY <3>2
    <3> QED
      BY <1>2, <3>1, <3>3 DEF start
  <2>4. IsPrefix(reserved, prefix)
    <3>1. SubSeq(reserved, 1, 2) = reserved
      BY <1>2
    <3> QED
      BY <1>2, <1>3, <2>3, <3>1 DEF IsPrefix
  <2> QED
    BY <1>2, <2>1, <2>2, <2>4 DEF Matches, IsStrictPrefix
<1>8. Len(prefix) = 2 \/ Len(prefix) > 2
  <2>1. \A n \in Nat : n > 1 => n = 2 \/ n > 2
    OBVIOUS
  <2> QED
    BY <1>3, <2>1, Zenon
<1> QED
  BY <1>6, <1>7, <1>8, Zenon

\* A prefix that the rest of the path does not begin with is taken off once.
LEMMA TrimOnce ==
  ASSUME NEW prefix \in Path, NEW p \in Path, Len(prefix) > 0, IsPrefix(prefix, p),
         ~IsPrefix(prefix, SubSeq(p, Len(prefix) + 1, Len(p)))
  PROVE  TrimStart(p, prefix) = SubSeq(p, Len(prefix) + 1, Len(p))
<1> DEFINE size == Len(prefix)
           copy(k) == SubSeq(p, (k - 1) * size + 1, k * size) = prefix
           copies == {n \in 0..Len(p) : n * size <= Len(p) /\ \A k \in 1..n : copy(k)}
           rest == SubSeq(p, size + 1, Len(p))
<1>1. size \in Nat /\ size >= 1 /\ Len(p) \in Nat /\ size <= Len(p)
  BY DEF Path, IsPrefix
<1>2. 1 \in copies
  <2>1. copy(1)
    BY <1>1 DEF IsPrefix, Path
  <2> HIDE DEF copy
  <2> QED
    BY <1>1, <2>1
<1>3. \A n \in copies : n <= 1
  <2> SUFFICES ASSUME NEW n \in copies, n > 1 PROVE IsPrefix(prefix, rest)
    <3>1. \A n \in copies : n \in Nat
      OBVIOUS
    <3> HIDE DEF copies
    <3> QED
      BY <3>1
  <2>1. copy(2)
    <3>1. n \in Nat /\ \A k \in 1..n : copy(k)
      <4> HIDE DEF copy
      <4> QED
        BY <1>1
    <3>2. 2 \in 1..n
      BY <3>1
    <3> QED
      BY <3>1, <3>2
  <2>2. 2 * size <= Len(p)
    <3>1. n \in Nat /\ n * size <= Len(p) /\ n >= 2
      <4> HIDE DEF copy
      <4> QED
        OBVIOUS
    <3>2. n * size >= 2 * size
      BY <1>1, <3>1
    <3> QED
      BY <1>1, <3>1, <3>2
  <2>3. SubSeq(p, size + 1, 2 * size) = prefix
    BY <1>1, <2>1
  <2>4. Len(rest) = Len(p) - size
    BY <1>1 DEF Path
  <2>5. SubSeq(rest, 1, size) = SubSeq(p, size + 1, 2 * size)
    BY <1>1, <2>2 DEF Path
  <2> QED
    <3>1. SubSeq(prefix, 1, size) = prefix
      BY DEF Path
    <3>2. size <= Len(rest)
      BY <1>1, <2>2, <2>4
    <3> HIDE DEF rest
    <3> QED
      BY <2>3, <2>5, <3>1, <3>2 DEF IsPrefix
<1>4. Max(copies) = 1
  <2>1. \A n \in copies : n \in Nat
    OBVIOUS
  <2> HIDE DEF copies
  <2> QED
    BY <1>2, <1>3, <2>1 DEF Max
<1>5. TrimStart(p, prefix) = SubSeq(p, Max(copies) * size + 1, Len(p))
  BY DEF TrimStart
<1> QED
  <2> HIDE DEF copies
  <2> QED
    BY <1>1, <1>4, <1>5

\* What is left of a path is a path.
LEMMA TrimStartPath ==
  ASSUME NEW p \in Path, NEW prefix \in Path
  PROVE  TrimStart(p, prefix) \in Path
<1> DEFINE size == Len(prefix)
           copies == {n \in 0..Len(p) :
                        /\ n * size <= Len(p)
                        /\ \A k \in 1..n : SubSeq(p, (k - 1) * size + 1, k * size) = prefix}
<1>1. size \in Nat /\ Len(p) \in Nat
  BY DEF Path
<1>2. copies \subseteq 0..Len(p)
  OBVIOUS
<1>3. 0 \in copies
  BY <1>1
<1> HIDE DEF copies
<1>4. Max(copies) \in copies
  BY <1>1, <1>2, <1>3, GreatestNumber
<1>5. Max(copies) * size + 1 \in Nat \ {0}
  <2>1. Max(copies) \in Nat
    <3>1. \A n \in copies : n \in Nat
      BY <1>1, <1>2
    <3> QED
      BY <1>4, <3>1
  <2> HIDE DEF size
  <2> QED
    BY <1>1, <2>1
<1> DEFINE start == Max(copies) * size + 1
<1>6. SubSeq(p, start, Len(p)) \in Path
  <2> HIDE DEF start
  <2> QED
    BY <1>1, <1>5 DEF Path, start
<1> QED
  BY <1>6 DEF TrimStart, copies
=============================================================================
