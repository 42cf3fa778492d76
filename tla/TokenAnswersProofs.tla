-------------------------- MODULE TokenAnswersProofs --------------------------
(***************************************************************************)
(* Types, scopes, renewals and claims, for any clients, users and            *)
(* configurations.                                                          *)
(***************************************************************************)
EXTENDS TokenAnswers, NumberFacts

\* The configuration passed validation.
ConfigFits == config \in Configs /\ Valid(config)

IsTicket(t) ==
  t = [kind |-> t.kind, client |-> t.client, subject |-> t.subject,
       scope |-> t.scope, asked |-> t.asked]

\* The scopes of a ticket were asked for and are registered.
TicketFits ==
  ticket # None =>
    /\ IsTicket(ticket)
    /\ ticket.scope \subseteq RegisteredScopes(ticket.client) \cap ticket.asked

\* The token of the authorization is the one its refresh token would give.
FirstFits ==
  first # None =>
    /\ ticket.kind = "refresh"
    /\ first = AccessToken(ticket.client, ticket.subject, ticket.scope)

\* The token of an answer is what would be issued now: the configuration is the same.
AnswerFits ==
  answer # None =>
    LET token == answer.token
    IN  token = AccessToken(token.client, token.subject, token.scope)

AnswersInv ==
  /\ TypeOK /\ ConfigFits /\ TicketFits /\ FirstFits /\ AnswerFits
  /\ ScopesWithinGrant /\ RenewalSaysTheSame

\* The sources that merged_claims takes, in its order.
Taken(id, sub) == ClientSources(EnabledClient(id)) \o UserSources(EnabledUserBySub(sub))

\* Where in that order a ranked source is.
Place(id, sub, source) ==
  LET ofClient == Len(ClientSources(EnabledClient(id)))
      i == source.rank[2]
  IN  CASE source.rank[1] = 1 -> i
        [] source.rank[1] = 2 -> ofClient
        [] source.rank[1] = 3 -> ofClient + 1
        [] source.rank[1] = 4 -> ofClient + 1 + i
        [] source.rank[1] = 5 -> Len(Taken(id, sub))

\* every set of claims that the configuration has
SourcesOf(c) ==
  {c.templates[t] : t \in DOMAIN c.templates} \cup {client.custom : client \in Range(c.clients)}
    \cup UNION {{user.standard, user.custom} : user \in Range(c.users)}

-----------------------------------------------------------------------------
\* A client that is found is one of the configured ones.
LEMMA FoundIsConfigured ==
  ASSUME ConfigFits, NEW id, EnabledClient(id) # None
  PROVE  EnabledClient(id) \in Range(config.clients)
<1> DEFINE hits == {i \in DOMAIN config.clients :
                      config.clients[i].enabled /\ config.clients[i].id = id}
<1>1. EnabledClient(id) = IF hits = {} THEN None ELSE config.clients[Min(hits)]
  BY DEF EnabledClient, FirstSuch
<1>2. hits # {} /\ hits \subseteq Nat
  BY <1>1, ListsAssumption DEF ConfigFits, ListsAssumption
<1>3. Min(hits) \in hits
  BY <1>2, LeastNumber
<1> QED
  BY <1>1, <1>2, <1>3 DEF Range

\* Validation keeps the scopes of configured clients among the supported ones,
\* whether they come from allowed_scopes or default_scopes.
LEMMA RegisteredAreSupported ==
  ASSUME ConfigFits, NEW id, EnabledClient(id) # None
  PROVE  RegisteredScopes(id) \subseteq config.supported
<1>1. EnabledClient(id) \in Range(config.clients)
  BY FoundIsConfigured
<1>2. ValidScopes(config, EnabledClient(id))
  BY <1>1 DEF ConfigFits, Valid, ValidClient
<1> QED
  BY <1>2 DEF RegisteredScopes, ValidScopes

\* A client of the store that the configuration does not name came by /register.
LEMMA OthersAreRegistered ==
  ASSUME ConfigFits, NEW id \in Stored, EnabledClient(id) = None
  PROVE  id \in DOMAIN Runtime
<1> DEFINE hits == {i \in DOMAIN config.clients :
                      config.clients[i].enabled /\ config.clients[i].id = id}
<1>1. EnabledClient(id) = IF hits = {} THEN None ELSE config.clients[Min(hits)]
  BY DEF EnabledClient, FirstSuch
<1>2. hits \subseteq Nat /\ None \notin Range(config.clients)
  BY ListsAssumption DEF ConfigFits, ListsAssumption
<1>3. hits = {}
  <2> SUFFICES ASSUME hits # {} PROVE FALSE
    OBVIOUS
  <2>1. Min(hits) \in hits
    BY <1>2, LeastNumber
  <2> QED
    BY <1>1, <1>2, <2>1 DEF Range
<1>4. id \notin {client.id : client \in Seeded}
  BY <1>3 DEF Seeded, Range
<1> QED
  BY <1>4 DEF Stored

\* Scopes of any client of the store are scopes a caller may name.
LEMMA RegisteredAreScopes ==
  ASSUME ConfigFits, NEW id \in Stored
  PROVE  RegisteredScopes(id) \subseteq Scopes
<1>1. CASE EnabledClient(id) = None
  <2>1. id \in DOMAIN Runtime /\ RegisteredScopes(id) = Runtime[id]
    BY <1>1, OthersAreRegistered DEF RegisteredScopes
  <2> QED
    BY <2>1, ScopesAssumption DEF ScopesAssumption
<1>2. CASE EnabledClient(id) # None
  <2>1. config.supported \subseteq Scopes
    BY ScopesAssumption DEF ConfigFits, ScopesAssumption
  <2> QED
    BY <1>2, <2>1, RegisteredAreSupported
<1> QED
  BY <1>1, <1>2

\* What is derived from the configuration never changes.
LEMMA ConfigConstant ==
  ASSUME config' = config
  PROVE  /\ Stored' = Stored
         /\ \A id : EnabledClient(id)' = EnabledClient(id)
         /\ \A id : RegisteredScopes(id)' = RegisteredScopes(id)
         /\ \A id, sub, scope :
              AccessToken(id, sub, scope)' = AccessToken(id, sub, scope)
<1>1. \A id : EnabledClient(id)' = EnabledClient(id)
  BY DEF EnabledClient, FirstSuch
<1>2. \A id : RegisteredScopes(id)' = RegisteredScopes(id)
  BY <1>1 DEF RegisteredScopes
<1>3. \A client : ClientSources(client)' = ClientSources(client)
  BY DEF ClientSources
<1>4. \A user : UserSources(user)' = UserSources(user)
  BY DEF UserSources
<1>5. \A sub : EnabledUserBySub(sub)' = EnabledUserBySub(sub)
  BY DEF EnabledUserBySub, FirstSuch
<1>6. \A id, sub : ClaimsForSubject(id, sub)' = ClaimsForSubject(id, sub)
  BY <1>1, <1>3, <1>4, <1>5 DEF ClaimsForSubject
<1>7. \A id, sub, scope : AccessToken(id, sub, scope)' = AccessToken(id, sub, scope)
  BY <1>6 DEF AccessToken
<1>8. Stored' = Stored
  BY DEF Stored, Seeded
<1> QED
  BY <1>1, <1>2, <1>7, <1>8

-----------------------------------------------------------------------------
\* What the fold of MergedClaims goes through: the claims of the sources so far.
LEMMA MergeSteps ==
  ASSUME NEW X, NEW sources \in Seq(X)
  PROVE  \E merged :
           /\ merged[{}] = NoClaims
           /\ \A k \in 0..Len(sources) - 1 :
                merged[1..k + 1] = ApplyClaims(merged[1..k], sources[k + 1])
           /\ MergedClaims(sources) = merged[1..Len(sources)]
<1> DEFINE D == DOMAIN sources
           Recurses(f) ==
             f = [s \in SUBSET D |->
                    IF s = {} THEN NoClaims
                    ELSE ApplyClaims(f[s \ {Max(s)}], sources[Max(s)])]
           names(s) == UNION {DOMAIN sources[i] : i \in s}
           naming(s, name) == {i \in s : name \in DOMAIN sources[i]}
           last == [s \in SUBSET D |->
                      [name \in names(s) |-> sources[Max(naming(s, name))][name]]]
<1>1. Len(sources) \in Nat /\ D = 1..Len(sources)
  OBVIOUS
<1>2. \A s \in SUBSET D : s # {} => Max(s) \in s /\ \A i \in s : Max(s) >= i
  <2> SUFFICES ASSUME NEW s \in SUBSET D, s # {} PROVE Max(s) \in s /\ \A i \in s : Max(s) >= i
    OBVIOUS
  <2>1. s \subseteq 0..Len(sources)
    BY <1>1
  <2> QED
    BY <1>1, <2>1, GreatestNumber
<1>3. Recurses(last)
  <2>1. last[{}] = NoClaims
    BY DEF NoClaims
  <2>2. ASSUME NEW s \in SUBSET D, s # {}
        PROVE  last[s] = ApplyClaims(last[s \ {Max(s)}], sources[Max(s)])
    <3> DEFINE m == Max(s)
               r == s \ {m}
    <3>1. m \in s /\ \A i \in s : m >= i
      BY <1>2, <2>2
    <3>2. r \in SUBSET D /\ s = r \cup {m} /\ m \notin r
      BY <3>1
    <3>3. names(s) = names(r) \cup DOMAIN sources[m]
      BY <3>2
    <3>4. ASSUME NEW name \in DOMAIN sources[m] PROVE Max(naming(s, name)) = m
      <4>1. m \in naming(s, name) /\ \A i \in naming(s, name) : m >= i
        BY <3>1, <3>4
      <4>2. naming(s, name) \in SUBSET D /\ naming(s, name) # {}
        BY <4>1
      <4> HIDE DEF naming
      <4>3. Max(naming(s, name)) \in naming(s, name) /\ Max(naming(s, name)) >= m
        BY <1>2, <4>1, <4>2
      <4>4. Max(naming(s, name)) \in Nat /\ m \in Nat /\ m >= Max(naming(s, name))
        BY <1>1, <3>1, <4>1, <4>2, <4>3
      <4> QED
        BY <4>3, <4>4
    <3>5. ASSUME NEW name, name \notin DOMAIN sources[m] PROVE naming(s, name) = naming(r, name)
      BY <3>2, <3>5
    <3>6. DOMAIN last[s] = DOMAIN ApplyClaims(last[r], sources[m])
      BY <3>2, <3>3 DEF ApplyClaims
    <3>7. ASSUME NEW name \in names(s) PROVE last[s][name] = ApplyClaims(last[r], sources[m])[name]
      <4>1. CASE name \in DOMAIN sources[m]
        BY <3>2, <3>4, <4>1 DEF ApplyClaims
      <4>2. CASE name \notin DOMAIN sources[m]
        BY <3>2, <3>3, <3>5, <4>2 DEF ApplyClaims
      <4> QED
        BY <4>1, <4>2
    <3> QED
      BY <3>2, <3>3, <3>7 DEF ApplyClaims
  <2> DEFINE again == [s \in SUBSET D |->
                         IF s = {} THEN NoClaims
                         ELSE ApplyClaims(last[s \ {Max(s)}], sources[Max(s)])]
  <2>3. \A s \in SUBSET D : last[s] = again[s]
    BY <2>1, <2>2
  <2> HIDE DEF again
  <2>4. DOMAIN last = SUBSET D /\ last = [s \in SUBSET D |-> last[s]]
    OBVIOUS
  <2>5. again = [s \in SUBSET D |-> again[s]]
    BY DEF again
  <2> HIDE DEF last, D
  <2>6. last = again
    BY <2>3, <2>4, <2>5
  <2> QED
    BY <2>6 DEF again
<1> HIDE DEF last
<1> DEFINE merged == CHOOSE f : Recurses(f)
<1>4. Recurses(merged)
  <2> HIDE DEF Recurses
  <2> QED
    BY <1>3
<1>5. MergedClaims(sources) = merged[D]
  BY DEF MergedClaims, FoldLeft, MapThenFoldSet
<1> HIDE DEF merged
<1>6. merged[{}] = NoClaims
  BY <1>4
<1>7. ASSUME NEW k \in 0..Len(sources) - 1
      PROVE  merged[1..k + 1] = ApplyClaims(merged[1..k], sources[k + 1])
  <2>1. 1..k + 1 \in SUBSET D /\ 1..k + 1 # {} /\ k + 1 \in 1..k + 1
    BY <1>1
  <2>2. Max(1..k + 1) = k + 1
    <3>1. Max(1..k + 1) \in 1..k + 1 /\ Max(1..k + 1) >= k + 1
      BY <1>2, <2>1
    <3> QED
      BY <3>1
  <2>3. (1..k + 1) \ {k + 1} = 1..k
    OBVIOUS
  <2> QED
    BY <1>4, <2>1, <2>2, <2>3
<1> QED
  BY <1>1, <1>5, <1>6, <1>7
\* Merging sources in turn gives each claim the value of the last source that names it.
LEMMA LastSourceWins ==
  ASSUME NEW X, NEW sources \in Seq(X)
  PROVE  /\ DOMAIN MergedClaims(sources) = UNION {DOMAIN sources[i] : i \in DOMAIN sources}
         /\ \A name \in DOMAIN MergedClaims(sources) :
              \E i \in DOMAIN sources :
                /\ name \in DOMAIN sources[i]
                /\ MergedClaims(sources)[name] = sources[i][name]
                /\ \A j \in DOMAIN sources : name \in DOMAIN sources[j] => j <= i
<1>1. Len(sources) \in Nat /\ DOMAIN sources = 1..Len(sources)
  OBVIOUS
<1>2. PICK merged :
        /\ merged[{}] = NoClaims
        /\ \A k \in 0..Len(sources) - 1 :
             merged[1..k + 1] = ApplyClaims(merged[1..k], sources[k + 1])
        /\ MergedClaims(sources) = merged[1..Len(sources)]
  BY MergeSteps
<1> DEFINE ByLast(k) ==
             /\ DOMAIN merged[1..k] = UNION {DOMAIN sources[i] : i \in 1..k}
             /\ \A name \in DOMAIN merged[1..k] :
                  \E i \in 1..k :
                    /\ name \in DOMAIN sources[i]
                    /\ merged[1..k][name] = sources[i][name]
                    /\ \A j \in 1..k : name \in DOMAIN sources[j] => j <= i
           done == {k \in Nat : k <= Len(sources) => ByLast(k)}
<1>3. 0 \in done
  <2>1. 1..0 = {}
    OBVIOUS
  <2>2. DOMAIN merged[1..0] = {}
    BY <1>2, <2>1 DEF NoClaims
  <2> QED
    BY <2>1, <2>2
<1>4. ASSUME NEW k \in Nat, k \in done PROVE k + 1 \in done
  <2> SUFFICES ASSUME k + 1 <= Len(sources) PROVE ByLast(k + 1)
    OBVIOUS
  <2> DEFINE before == merged[1..k]
             after == merged[1..k + 1]
  <2>1. ByLast(k)
    BY <1>1, <1>4
  <2>2. after = ApplyClaims(before, sources[k + 1])
    BY <1>1, <1>2
  <2>3. 1..k + 1 = 1..k \cup {k + 1}
    OBVIOUS
  <2>4. DOMAIN after = DOMAIN before \cup DOMAIN sources[k + 1]
    BY <2>2 DEF ApplyClaims
  <2>5. DOMAIN after = UNION {DOMAIN sources[i] : i \in 1..k + 1}
    BY <2>1, <2>3, <2>4
  <2>6. ASSUME NEW name \in DOMAIN after
        PROVE  \E i \in 1..k + 1 :
                 /\ name \in DOMAIN sources[i]
                 /\ after[name] = sources[i][name]
                 /\ \A j \in 1..k + 1 : name \in DOMAIN sources[j] => j <= i
    <3>1. CASE name \in DOMAIN sources[k + 1]
      <4>1. after[name] = sources[k + 1][name]
        BY <2>2, <3>1 DEF ApplyClaims
      <4> QED
        BY <3>1, <4>1
    <3>2. CASE name \notin DOMAIN sources[k + 1]
      <4>1. name \in DOMAIN before /\ after[name] = before[name]
        BY <2>2, <2>4, <3>2 DEF ApplyClaims
      <4>2. PICK i \in 1..k :
              /\ name \in DOMAIN sources[i]
              /\ before[name] = sources[i][name]
              /\ \A j \in 1..k : name \in DOMAIN sources[j] => j <= i
        BY <2>1, <4>1
      <4>3. i \in 1..k + 1 /\ \A j \in 1..k + 1 : name \in DOMAIN sources[j] => j <= i
        BY <2>3, <3>2, <4>2
      <4> QED
        BY <4>1, <4>2, <4>3
    <3> QED
      BY <3>1, <3>2
  <2> QED
    BY <2>5, <2>6
<1>5. ByLast(Len(sources))
  <2> HIDE DEF ByLast
  <2>1. Nat \subseteq done
    <3> HIDE DEF done
    <3> QED
      BY <1>3, <1>4, Induction
  <2> QED
    BY <1>1, <2>1
<1> QED
  BY <1>1, <1>2, <1>5
\* A user that is found is one of the configured ones.
LEMMA FoundUserIsConfigured ==
  ASSUME ConfigFits, NEW sub, EnabledUserBySub(sub) # None
  PROVE  EnabledUserBySub(sub) \in Range(config.users)
<1> DEFINE hits == {i \in DOMAIN config.users :
                      config.users[i].enabled /\ config.users[i].sub = sub}
<1>1. EnabledUserBySub(sub) = IF hits = {} THEN None ELSE config.users[Min(hits)]
  BY DEF EnabledUserBySub, FirstSuch
<1>2. hits # {} /\ hits \subseteq Nat
  BY <1>1, ListsAssumption DEF ConfigFits, ListsAssumption
<1>3. Min(hits) \in hits
  BY <1>2, LeastNumber
<1> QED
  BY <1>1, <1>2, <1>3 DEF Range

\* No template that an owner refers to is missing from a validated configuration.
LEMMA BundlesKnown ==
  ASSUME NEW refs \in Seq(STRING), ValidRefs(config, refs)
  PROVE  LET bundles == Bundles(config.templates, refs)
         IN  /\ bundles \in Seq(SourcesOf(config)) /\ Len(bundles) = Len(refs)
             /\ \A i \in 1..Len(refs) : bundles[i] = config.templates[refs[i]]
<1>1. DOMAIN refs = 1..Len(refs) /\ Len(refs) \in Nat
  OBVIOUS
<1>2. \A i \in 1..Len(refs) : refs[i] \in DOMAIN config.templates
  BY <1>1 DEF Range, ValidRefs
<1>3. Bundles(config.templates, refs) = [i \in 1..Len(refs) |-> config.templates[refs[i]]]
  BY <1>1, <1>2 DEF Bundles
<1>4. \A i \in 1..Len(refs) : config.templates[refs[i]] \in SourcesOf(config)
  BY <1>2 DEF SourcesOf
<1> HIDE DEF SourcesOf
<1> QED
  BY <1>1, <1>3, <1>4

\* The sources of a client, one by one.
LEMMA ClientInOrder ==
  ASSUME ConfigFits, NEW client \in Range(config.clients)
  PROVE  LET refs == client.refs
             sources == ClientSources(client)
         IN  /\ refs \in Seq(STRING) /\ Len(refs) \in Nat
             /\ sources \in Seq(SourcesOf(config))
             /\ Len(sources) = Len(refs) + 1
             /\ \A i \in 1..Len(refs) : sources[i] = config.templates[refs[i]]
             /\ sources[Len(refs) + 1] = client.custom
<1> DEFINE refs == client.refs
           bundles == Bundles(config.templates, refs)
<1>1. client # None /\ refs \in Seq(STRING)
  BY ListsAssumption DEF ConfigFits, ListsAssumption
<1>2. ValidRefs(config, refs)
  BY DEF ConfigFits, Valid, ValidClient
<1>3. /\ bundles \in Seq(SourcesOf(config)) /\ Len(bundles) = Len(refs)
      /\ \A i \in 1..Len(refs) : bundles[i] = config.templates[refs[i]]
  BY <1>1, <1>2, BundlesKnown
<1>4. ClientSources(client) = bundles \o <<client.custom>>
  BY <1>1 DEF ClientSources
<1> HIDE DEF bundles
<1>5. client.custom \in SourcesOf(config) /\ Len(refs) \in Nat
  BY <1>1 DEF SourcesOf
<1> HIDE DEF refs
<1> QED
  BY <1>1, <1>3, <1>4, <1>5 DEF refs

\* The sources of a user, one by one.
LEMMA UserInOrder ==
  ASSUME ConfigFits, NEW user \in Range(config.users)
  PROVE  LET refs == user.refs
             sources == UserSources(user)
         IN  /\ refs \in Seq(STRING) /\ Len(refs) \in Nat
             /\ sources \in Seq(SourcesOf(config))
             /\ Len(sources) = Len(refs) + 2
             /\ sources[1] = user.standard
             /\ \A i \in 1..Len(refs) : sources[i + 1] = config.templates[refs[i]]
             /\ sources[Len(refs) + 2] = user.custom
<1> DEFINE refs == user.refs
           bundles == Bundles(config.templates, refs)
<1>1. user # None /\ refs \in Seq(STRING)
  BY ListsAssumption DEF ConfigFits, ListsAssumption
<1>2. ValidRefs(config, refs)
  BY DEF ConfigFits, Valid, ValidUser
<1>3. /\ bundles \in Seq(SourcesOf(config)) /\ Len(bundles) = Len(refs)
      /\ \A i \in 1..Len(refs) : bundles[i] = config.templates[refs[i]]
  BY <1>1, <1>2, BundlesKnown
<1>4. UserSources(user) = <<user.standard>> \o bundles \o <<user.custom>>
  BY <1>1 DEF UserSources
<1> HIDE DEF bundles
<1>5. /\ user.standard \in SourcesOf(config) /\ user.custom \in SourcesOf(config)
      /\ Len(refs) \in Nat
  BY <1>1 DEF SourcesOf
<1> HIDE DEF refs
<1>6. /\ <<user.standard>> \o bundles \in Seq(SourcesOf(config))
      /\ Len(<<user.standard>> \o bundles) = Len(refs) + 1
      /\ (<<user.standard>> \o bundles)[1] = user.standard
      /\ \A i \in 1..Len(refs) :
           (<<user.standard>> \o bundles)[i + 1] = config.templates[refs[i]]
  BY <1>3, <1>5
<1>7. UserSources(user) \in Seq(SourcesOf(config)) /\ Len(UserSources(user)) = Len(refs) + 2
  BY <1>4, <1>5, <1>6
<1>8. \A i \in 1..Len(refs) + 1 : UserSources(user)[i] = (<<user.standard>> \o bundles)[i]
  BY <1>4, <1>5, <1>6
<1>9. UserSources(user)[Len(refs) + 2] = user.custom
  BY <1>4, <1>5, <1>6
<1>10. 1 \in 1..Len(refs) + 1 /\ \A i \in 1..Len(refs) : i + 1 \in 1..Len(refs) + 1
  BY <1>5
<1> QED
  BY <1>1, <1>5, <1>6, <1>7, <1>8, <1>9, <1>10 DEF refs
\* The ranked sources are the sources taken, and those of higher rank come later.
LEMMA SourcesInOrder ==
  ASSUME ConfigFits, NEW id, NEW sub
  PROVE  LET ranked == RankedSources(id, sub)
             sources == Taken(id, sub)
             place(s) == Place(id, sub, s)
         IN  /\ sources \in Seq(SourcesOf(config))
             /\ \A s \in ranked : place(s) \in DOMAIN sources /\ sources[place(s)] = s.claims
             /\ \A i \in DOMAIN sources : \E s \in ranked : place(s) = i
             /\ \A s, t \in ranked : Outranks(t, s) => place(t) > place(s)
<1> DEFINE client == EnabledClient(id)
           user == EnabledUserBySub(sub)
           ofClient == ClientSources(client)
           ofUser == UserSources(user)
           sources == Taken(id, sub)
           place(s) == Place(id, sub, s)
           m == Len(ofClient)
           u == Len(ofUser)
           ranked == RankedSources(id, sub)
           bundle(kind, owner, i) ==
             [rank |-> <<kind, i>>, claims |-> config.templates[owner.refs[i]]]
           clientCustom == [rank |-> <<2, 0>>, claims |-> client.custom]
           userStandard == [rank |-> <<3, 0>>, claims |-> user.standard]
           userCustom == [rank |-> <<5, 0>>, claims |-> user.custom]
<1>1. /\ client = None => ofClient = <<>> /\ m = 0
      /\ client # None =>
           /\ ofClient \in Seq(SourcesOf(config)) /\ m \in Nat /\ m >= 1
           /\ DOMAIN client.refs = 1..m - 1
           /\ \A i \in 1..m - 1 : ofClient[i] = config.templates[client.refs[i]]
           /\ ofClient[m] = client.custom
  <2>1. CASE client = None
    BY <2>1 DEF ClientSources
  <2>2. CASE client # None
    <3>1. client \in Range(config.clients)
      BY <2>2, FoundIsConfigured
    <3> HIDE DEF client
    <3>2. /\ client.refs \in Seq(STRING) /\ ofClient \in Seq(SourcesOf(config))
          /\ m = Len(client.refs) + 1 /\ Len(client.refs) \in Nat
          /\ \A i \in 1..Len(client.refs) : ofClient[i] = config.templates[client.refs[i]]
          /\ ofClient[Len(client.refs) + 1] = client.custom
      BY <3>1, ClientInOrder
    <3>3. m - 1 = Len(client.refs) /\ DOMAIN client.refs = 1..m - 1
      BY <3>2
    <3> QED
      BY <2>2, <3>2, <3>3
  <2> QED
    BY <2>1, <2>2
<1>2. /\ user = None => ofUser = <<>> /\ u = 0
      /\ user # None =>
           /\ ofUser \in Seq(SourcesOf(config)) /\ u \in Nat /\ u >= 2
           /\ DOMAIN user.refs = 1..u - 2
           /\ ofUser[1] = user.standard
           /\ \A i \in 1..u - 2 : ofUser[i + 1] = config.templates[user.refs[i]]
           /\ ofUser[u] = user.custom
  <2>1. CASE user = None
    BY <2>1 DEF UserSources
  <2>2. CASE user # None
    <3>1. user \in Range(config.users)
      BY <2>2, FoundUserIsConfigured
    <3> HIDE DEF user
    <3> QED
      BY <2>2, <3>1, UserInOrder
  <2> QED
    BY <2>1, <2>2
<1>3. /\ sources = ofClient \o ofUser
      /\ ofClient \in Seq(SourcesOf(config)) /\ ofUser \in Seq(SourcesOf(config))
  <2>1. sources = ofClient \o ofUser
    BY DEF Taken
  <2>2. <<>> \in Seq(SourcesOf(config))
    OBVIOUS
  <2> HIDE DEF ofClient, ofUser, client, user, sources
  <2> QED
    BY <1>1, <1>2, <2>1, <2>2
<1>4. \A s : s \in ranked <=>
        \/ client # None /\ \E i \in 1..m - 1 : s = bundle(1, client, i)
        \/ client # None /\ s = clientCustom
        \/ user # None /\ s = userStandard
        \/ user # None /\ \E i \in 1..u - 2 : s = bundle(4, user, i)
        \/ user # None /\ s = userCustom
  <2> HIDE DEF client, user, m, u
  <2> QED
    BY <1>1, <1>2, Zenon DEF RankedSources, client, user
<1> HIDE DEF ranked, client, user, ofClient, ofUser
<1>5. /\ m \in Nat /\ u \in Nat
      /\ sources \in Seq(SourcesOf(config)) /\ Len(sources) = m + u
      /\ \A i \in 1..m : sources[i] = ofClient[i]
      /\ \A i \in 1..u : sources[m + i] = ofUser[i]
  <2> HIDE DEF sources
  <2> QED
    BY <1>3
<1>6. /\ \A i : place(bundle(1, client, i)) = i
      /\ place(clientCustom) = m /\ place(userStandard) = m + 1
      /\ \A i : place(bundle(4, user, i)) = m + 1 + i
      /\ place(userCustom) = m + u
  BY <1>5 DEF Place, client, user, ofClient, ofUser
<1> HIDE DEF place, sources, m, u
<1>7. ASSUME NEW s \in ranked PROVE place(s) \in DOMAIN sources /\ sources[place(s)] = s.claims
  <2>1. CASE client # None /\ \E i \in 1..m - 1 : s = bundle(1, client, i)
    <3>1. PICK i \in 1..m - 1 : s = bundle(1, client, i)
      BY <2>1
    <3>2. /\ place(s) = i /\ s.claims = config.templates[client.refs[i]]
          /\ i \in 1..m /\ i \in 1..m + u
      BY <1>5, <1>6, <3>1
    <3>3. sources[i] = s.claims /\ DOMAIN sources = 1..m + u
      BY <1>1, <1>5, <2>1, <3>1, <3>2
    <3> QED
      BY <3>2, <3>3
  <2>2. CASE client # None /\ s = clientCustom
    BY <1>1, <1>5, <1>6, <2>2
  <2>3. CASE user # None /\ s = userStandard
    BY <1>2, <1>5, <1>6, <2>3
  <2>4. CASE user # None /\ \E i \in 1..u - 2 : s = bundle(4, user, i)
    <3>1. PICK i \in 1..u - 2 : s = bundle(4, user, i)
      BY <2>4
    <3>2. /\ i + 1 \in 1..u /\ m + (i + 1) \in 1..m + u
          /\ m + 1 + i = m + (i + 1)
      BY <1>5
    <3>4. place(s) = m + (i + 1) /\ s.claims = config.templates[user.refs[i]]
      BY <1>6, <3>1, <3>2
    <3>3. sources[m + (i + 1)] = s.claims /\ DOMAIN sources = 1..m + u
      BY <1>2, <1>5, <2>4, <3>1, <3>2, <3>4
    <3> QED
      BY <3>2, <3>3, <3>4
  <2>5. CASE user # None /\ s = userCustom
    BY <1>2, <1>5, <1>6, <2>5
  <2> QED
    BY <1>4, <2>1, <2>2, <2>3, <2>4, <2>5
<1>8. ASSUME NEW i \in DOMAIN sources PROVE \E s \in ranked : place(s) = i
  <2>1. i \in 1..m + u
    BY <1>5
  <2>2. CASE i <= m
    <3>1. client # None
      BY <1>1, <1>5, <2>1, <2>2
    <3>2. CASE i = m
      BY <1>4, <1>6, <3>1, <3>2
    <3>3. CASE i < m
      <4>1. i \in 1..m - 1
        BY <1>5, <2>1, <3>3
      <4> QED
        BY <1>4, <1>6, <3>1, <4>1
    <3> QED
      BY <1>5, <2>1, <2>2, <3>2, <3>3
  <2>3. CASE i > m
    <3>1. user # None
      BY <1>2, <1>5, <2>1, <2>3
    <3>2. CASE i = m + 1
      BY <1>4, <1>6, <3>1, <3>2
    <3>3. CASE i = m + u
      BY <1>4, <1>6, <3>1, <3>3
    <3>4. CASE i \in m + 2..m + u - 1
      <4>1. i - m - 1 \in 1..u - 2 /\ m + 1 + (i - m - 1) = i
        BY <1>5, <2>1, <3>4
      <4>2. bundle(4, user, i - m - 1) \in ranked
        BY <1>4, <3>1, <4>1
      <4> QED
        BY <1>6, <4>1, <4>2
    <3> QED
      BY <1>5, <2>1, <2>3, <3>2, <3>3, <3>4
  <2> QED
    BY <1>5, <2>1, <2>2, <2>3
<1>9. ASSUME NEW s \in ranked, NEW t \in ranked, Outranks(t, s) PROVE place(t) > place(s)
  <2> DEFINE Has(x, kind, i, at) ==
               x.rank[1] = kind /\ x.rank[2] = i /\ place(x) = at
             Fits(kind, i, at) ==
               /\ kind = 1 => i >= 1 /\ i <= m - 1 /\ at = i
               /\ kind = 2 => m >= 1 /\ i = 0 /\ at = m
               /\ kind = 3 => u >= 2 /\ i = 0 /\ at = m + 1
               /\ kind = 4 => i >= 1 /\ i <= u - 2 /\ at = m + 1 + i
               /\ kind = 5 => u >= 2 /\ i = 0 /\ at = m + u
  <2>1. ASSUME NEW x \in ranked
        PROVE  \E kind \in 1..5, i \in 0..m + u, at \in 0..m + u :
                 Has(x, kind, i, at) /\ Fits(kind, i, at)
    <3>1. CASE client # None /\ \E i \in 1..m - 1 : x = bundle(1, client, i)
      <4>1. PICK i \in 1..m - 1 : Has(x, 1, i, i)
        BY <1>6, <3>1
      <4>2. i \in 0..m + u /\ i >= 1 /\ i <= m - 1
        BY <1>5
      <4> HIDE DEF Has
      <4> QED
        BY <4>1, <4>2
    <3>2. CASE client # None /\ x = clientCustom
      <4>1. Has(x, 2, 0, m) /\ m >= 1
        BY <1>1, <1>6, <3>2
      <4> HIDE DEF Has
      <4> QED
        BY <1>5, <4>1
    <3>3. CASE user # None /\ x = userStandard
      <4>1. Has(x, 3, 0, m + 1) /\ u >= 2
        BY <1>2, <1>6, <3>3
      <4> HIDE DEF Has
      <4> QED
        BY <1>5, <4>1
    <3>4. CASE user # None /\ \E i \in 1..u - 2 : x = bundle(4, user, i)
      <4>1. PICK i \in 1..u - 2 : Has(x, 4, i, m + 1 + i)
        BY <1>6, <3>4
      <4>2. i \in 0..m + u /\ m + 1 + i \in 0..m + u /\ i >= 1 /\ i <= u - 2
        BY <1>5
      <4> HIDE DEF Has
      <4> QED
        BY <4>1, <4>2
    <3>5. CASE user # None /\ x = userCustom
      <4>1. Has(x, 5, 0, m + u) /\ u >= 2
        BY <1>2, <1>6, <3>5
      <4> HIDE DEF Has
      <4> QED
        BY <1>5, <4>1
    <3> QED
      BY <1>4, <3>1, <3>2, <3>3, <3>4, <3>5
  <2>2. PICK k1 \in 1..5, i1 \in 0..m + u, a1 \in 0..m + u : Has(s, k1, i1, a1) /\ Fits(k1, i1, a1)
    BY <2>1
  <2>3. PICK k2 \in 1..5, i2 \in 0..m + u, a2 \in 0..m + u : Has(t, k2, i2, a2) /\ Fits(k2, i2, a2)
    BY <2>1
  <2>4. k2 > k1 \/ (k2 = k1 /\ i2 > i1)
    BY <1>9, <2>2, <2>3 DEF Outranks
  <2>5. a2 > a1
    <3>1. Fits(k1, i1, a1) /\ Fits(k2, i2, a2)
      BY <2>2, <2>3
    <3>2. k1 \in {1, 2, 3, 4, 5} /\ k2 \in {1, 2, 3, 4, 5}
      OBVIOUS
    <3> HIDE DEF Has
    <3> QED
      BY <1>5, <2>4, <3>1, <3>2
  <2> QED
    BY <2>2, <2>3, <2>5
<1> QED
  BY <1>5, <1>7, <1>8, <1>9 DEF ranked, place, sources

\* The claims of a token that /token issues now.
LEMMA IssuedByRank ==
  ASSUME ConfigFits, NEW id, NEW sub, NEW scope
  PROVE  LET claims == AccessToken(id, sub, scope).claims
             ranked == RankedSources(id, sub)
         IN  /\ DOMAIN claims = ServerNames \cup UNION {DOMAIN s.claims : s \in ranked}
             /\ \A name \in ServerNames : claims[name] = "server"
             /\ \A name \in DOMAIN claims \ ServerNames :
                  \E s \in ranked :
                    /\ name \in DOMAIN s.claims /\ claims[name] = s.claims[name]
                    /\ \A t \in ranked : name \in DOMAIN t.claims => ~Outranks(t, s)
<1> DEFINE claims == AccessToken(id, sub, scope).claims
           ranked == RankedSources(id, sub)
           sources == Taken(id, sub)
           place(s) == Place(id, sub, s)
           merged == MergedClaims(sources)
<1>1. /\ sources \in Seq(SourcesOf(config))
      /\ \A s \in ranked : place(s) \in DOMAIN sources /\ sources[place(s)] = s.claims
      /\ \A i \in DOMAIN sources : \E s \in ranked : place(s) = i
      /\ \A s, t \in ranked : Outranks(t, s) => place(t) > place(s)
  BY SourcesInOrder
<1>2. claims = ApplyClaims(merged, [n \in ServerNames |-> "server"])
  BY DEF AccessToken, ClaimsForSubject, Taken
<1>3. DOMAIN claims = DOMAIN merged \cup ServerNames
  BY <1>2 DEF ApplyClaims
<1>4. \A name \in ServerNames : claims[name] = "server"
  BY <1>2 DEF ApplyClaims
<1>5. \A name \in DOMAIN claims \ ServerNames :
        name \in DOMAIN merged /\ claims[name] = merged[name]
  BY <1>2, <1>3 DEF ApplyClaims
<1> HIDE DEF claims, ranked, sources, place
<1>6. /\ DOMAIN merged = UNION {DOMAIN sources[i] : i \in DOMAIN sources}
      /\ \A name \in DOMAIN merged :
           \E i \in DOMAIN sources :
             /\ name \in DOMAIN sources[i] /\ merged[name] = sources[i][name]
             /\ \A j \in DOMAIN sources : name \in DOMAIN sources[j] => j <= i
  BY <1>1, LastSourceWins
<1> HIDE DEF merged
<1>7. DOMAIN merged = UNION {DOMAIN s.claims : s \in ranked}
  <2>1. ASSUME NEW s \in ranked PROVE DOMAIN s.claims \subseteq DOMAIN merged
    BY <1>1, <1>6
  <2>2. ASSUME NEW i \in DOMAIN sources
        PROVE  DOMAIN sources[i] \subseteq UNION {DOMAIN s.claims : s \in ranked}
    <3>1. PICK s \in ranked : place(s) = i
      BY <1>1
    <3>2. s.claims = sources[i]
      BY <1>1, <3>1
    <3> QED
      BY <3>2
  <2> QED
    BY <1>6, <2>1, <2>2
<1>8. ASSUME NEW name \in DOMAIN claims \ ServerNames
      PROVE  \E s \in ranked :
               /\ name \in DOMAIN s.claims /\ claims[name] = s.claims[name]
               /\ \A t \in ranked : name \in DOMAIN t.claims => ~Outranks(t, s)
  <2>1. name \in DOMAIN merged /\ claims[name] = merged[name]
    BY <1>5
  <2>2. PICK i \in DOMAIN sources :
          /\ name \in DOMAIN sources[i] /\ merged[name] = sources[i][name]
          /\ \A j \in DOMAIN sources : name \in DOMAIN sources[j] => j <= i
    BY <1>6, <2>1
  <2>3. PICK s \in ranked : place(s) = i
    BY <1>1
  <2>4. s.claims = sources[i]
    BY <1>1, <2>3
  <2>5. ASSUME NEW t \in ranked, name \in DOMAIN t.claims PROVE ~Outranks(t, s)
    <3>1. place(t) \in DOMAIN sources /\ sources[place(t)] = t.claims
      BY <1>1
    <3>2. place(t) <= i
      BY <2>2, <2>5, <3>1
    <3>3. place(t) \in Nat /\ i \in Nat
      BY <1>1, <3>1
    <3>4. ~(place(t) > place(s))
      BY <2>3, <3>2, <3>3
    <3> QED
      BY <1>1, <3>4
  <2> QED
    BY <2>1, <2>2, <2>4, <2>5
<1> QED
  BY <1>3, <1>4, <1>7, <1>8 DEF claims, ranked

-----------------------------------------------------------------------------
LEMMA AnswersInit ==
  ASSUME Init
  PROVE  AnswersInv
BY DEF Init, AnswersInv, TypeOK, ConfigFits, TicketFits, FirstFits, AnswerFits,
       ScopesWithinGrant, RenewalSaysTheSame

LEMMA SubmitKeeps ==
  ASSUME AnswersInv, NEW id \in Stored, NEW user, NEW asked \in SUBSET Scopes,
         Submit(id, user, asked)
  PROVE  AnswersInv'
<1>1. config' = config /\ answer' = None /\ first' = None
  BY DEF Submit
<1>2. TicketFits'
  <2>1. RegisteredScopes(id)' = RegisteredScopes(id)
    BY <1>1, ConfigConstant
  <2> QED
    BY <2>1 DEF Submit, TicketFits, IsTicket
<1>3. TypeOK'
  <2>1. /\ ticket'.kind = "code" /\ ticket'.client = id
        /\ ticket'.scope = asked \cap RegisteredScopes(id)
    BY DEF Submit
  <2> QED
    BY <1>1, <2>1, ConfigConstant DEF AnswersInv, TypeOK
<1> QED
  BY <1>1, <1>2, <1>3 DEF AnswersInv, ConfigFits, FirstFits, AnswerFits, ScopesWithinGrant,
                    RenewalSaysTheSame

\* A token answered for the ticket keeps within it.
LEMMA TicketAnswerCovered ==
  ASSUME AnswersInv, ticket # None, config' = config, NEW kind, NEW fields,
         kind \in {"code", "refresh"},
         answer' = Answer(kind, ticket,
                          AccessToken(ticket.client, ticket.subject, ticket.scope), fields)
  PROVE  ScopesWithinGrant'
<1> DEFINE token == AccessToken(ticket.client, ticket.subject, ticket.scope)
<1>1. /\ answer'.kind = kind /\ answer'.token = token /\ answer'.asked = ticket.asked
      /\ token.client = ticket.client /\ token.scope = ticket.scope
  BY DEF Answer, AccessToken
<1>2. ticket.scope \subseteq RegisteredScopes(ticket.client) \cap ticket.asked
  BY DEF AnswersInv, TicketFits
<1>3. EnabledClient(ticket.client) # None =>
        RegisteredScopes(ticket.client) \subseteq config.supported
  BY RegisteredAreSupported DEF AnswersInv
<1>4. /\ \A id : RegisteredScopes(id)' = RegisteredScopes(id)
      /\ \A id : EnabledClient(id)' = EnabledClient(id)
  BY ConfigConstant
<1> HIDE DEF token
<1> QED
  BY <1>1, <1>2, <1>3, <1>4 DEF ScopesWithinGrant

\* The token of an answer is the one its client, subject and scope give.
LEMMA AnswerIssued ==
  ASSUME config' = config, NEW kind, NEW from, NEW id, NEW sub, NEW scope, NEW fields,
         answer' = Answer(kind, from, AccessToken(id, sub, scope), fields)
  PROVE  AnswerFits'
<1> DEFINE token == AccessToken(id, sub, scope)
<1>1. answer'.token = token
  BY DEF Answer
<1>2. token.client = id /\ token.subject = sub /\ token.scope = scope
  BY DEF AccessToken
<1>3. AccessToken(id, sub, scope)' = AccessToken(id, sub, scope)
  BY ConfigConstant
<1> HIDE DEF token
<1> QED
  BY <1>1, <1>2, <1>3 DEF AnswerFits, token

\* An answer for scopes of a client of the store has its type.
LEMMA AnswerTyped ==
  ASSUME config' = config, NEW kind, NEW from, NEW id \in Stored, NEW sub,
         NEW scope \in SUBSET Scopes, NEW fields \in SUBSET TokenFields,
         answer' = Answer(kind, from, AccessToken(id, sub, scope), fields)
  PROVE  /\ answer'.token.client \in Stored'
         /\ answer'.token.scope \subseteq Scopes
         /\ answer'.output.headers \subseteq answer'.fields
         /\ answer'.fields \subseteq TokenFields
<1> DEFINE token == AccessToken(id, sub, scope)
<1>1. token.client = id /\ token.scope = scope
  BY DEF AccessToken
<1> HIDE DEF token
<1>2. Shaped(token.client, fields).headers \subseteq fields
  BY DEF Shaped
<1>3. /\ answer'.token = token /\ answer'.fields = fields
      /\ answer'.output = Shaped(token.client, fields)
  BY DEF Answer, token
<1> QED
  BY <1>1, <1>2, <1>3, ConfigConstant

LEMMA RedeemCodeKeeps ==
  ASSUME AnswersInv, RedeemCode
  PROVE  AnswersInv'
<1> DEFINE token == AccessToken(ticket.client, ticket.subject, ticket.scope)
<1>1. /\ ticket # None /\ config' = config /\ first' = token
      /\ \E fields \in SUBSET TokenFields : answer' = Answer("code", ticket, token, fields)
  BY DEF RedeemCode, IdentityFields, TokenFields
<1>2. /\ ticket' # None => IsTicket(ticket)'
      /\ ticket'.kind = "refresh" /\ ticket'.client = ticket.client
      /\ ticket'.subject = ticket.subject /\ ticket'.scope = ticket.scope
      /\ ticket'.asked = ticket.asked
  BY <1>1 DEF RedeemCode, AnswersInv, TicketFits, IsTicket
<1>3. TicketFits'
  BY <1>1, <1>2, ConfigConstant DEF AnswersInv, TicketFits
<1>4. FirstFits'
  BY <1>1, <1>2, ConfigConstant DEF FirstFits
<1>5. ScopesWithinGrant'
  BY <1>1, TicketAnswerCovered
<1>6. RenewalSaysTheSame'
  BY <1>1 DEF RenewalSaysTheSame, Answer
<1>7. TypeOK'
  <2>1. ticket.client \in Stored /\ ticket.scope \in SUBSET Scopes
    BY <1>1 DEF AnswersInv, TypeOK
  <2>2. Stored' = Stored
    BY <1>1, ConfigConstant
  <2> QED
    BY <1>1, <1>2, <2>1, <2>2, AnswerTyped DEF AnswersInv, TypeOK
<1> QED
  BY <1>1, <1>3, <1>4, <1>5, <1>6, <1>7, AnswerIssued DEF AnswersInv, ConfigFits

LEMMA RefreshKeeps ==
  ASSUME AnswersInv, Refresh
  PROVE  AnswersInv'
<1> DEFINE token == AccessToken(ticket.client, ticket.subject, ticket.scope)
<1>1. /\ ticket # None /\ ticket' = ticket /\ config' = config /\ first' = first
      /\ \E fields \in SUBSET TokenFields : answer' = Answer("refresh", ticket, token, fields)
  BY DEF Refresh, TokenFields
<1>2. TicketFits'
  BY <1>1, ConfigConstant DEF AnswersInv, TicketFits, IsTicket
<1>3. FirstFits'
  BY <1>1, ConfigConstant DEF AnswersInv, FirstFits
<1>4. ScopesWithinGrant'
  BY <1>1, TicketAnswerCovered
<1>5. RenewalSaysTheSame'
  <2>1. answer'.token = token
    BY <1>1 DEF Answer
  <2> QED
    BY <1>1, <2>1 DEF AnswersInv, FirstFits, RenewalSaysTheSame
<1>6. TypeOK'
  <2>1. ticket.client \in Stored /\ ticket.scope \in SUBSET Scopes
    BY <1>1 DEF AnswersInv, TypeOK
  <2>2. Stored' = Stored
    BY <1>1, ConfigConstant
  <2> QED
    BY <1>1, <2>1, <2>2, AnswerTyped DEF AnswersInv, TypeOK
<1> QED
  BY <1>1, <1>2, <1>3, <1>4, <1>5, <1>6, AnswerIssued DEF AnswersInv, ConfigFits

LEMMA ClientCredentialsKeeps ==
  ASSUME AnswersInv, NEW id \in Stored, NEW asked \in SUBSET Scopes,
         ClientCredentials(id, asked)
  PROVE  AnswersInv'
<1> DEFINE scope == IF asked = {} THEN RegisteredScopes(id) ELSE asked
           token == AccessToken(id, "client", scope)
<1>1. /\ ticket' = ticket /\ config' = config /\ first' = first
      /\ answer' = Answer("client_credentials", [asked |-> asked],
                          token, {"access_token"})
      /\ asked \subseteq RegisteredScopes(id)
  BY DEF ClientCredentials
<1>2. TicketFits'
  BY <1>1, ConfigConstant DEF AnswersInv, TicketFits, IsTicket
<1>3. FirstFits'
  BY <1>1, ConfigConstant DEF AnswersInv, FirstFits
<1>4. /\ answer'.kind = "client_credentials" /\ answer'.asked = asked
      /\ answer'.token.client = id /\ answer'.token.scope = scope
  BY <1>1 DEF Answer, AccessToken
<1>5. ScopesWithinGrant'
  <2>1. EnabledClient(id) # None => RegisteredScopes(id) \subseteq config.supported
    BY RegisteredAreSupported DEF AnswersInv
  <2>2. /\ \A i : RegisteredScopes(i)' = RegisteredScopes(i)
        /\ \A i : EnabledClient(i)' = EnabledClient(i)
    BY <1>1, ConfigConstant
  <2> QED
    BY <1>1, <1>4, <2>1, <2>2 DEF ScopesWithinGrant
<1>6. RenewalSaysTheSame'
  BY <1>4 DEF RenewalSaysTheSame
<1>7. TypeOK'
  <2>1. scope \in SUBSET Scopes
    BY RegisteredAreScopes DEF AnswersInv
  <2>2. {"access_token"} \in SUBSET TokenFields
    BY DEF TokenFields
  <2>3. Stored' = Stored
    BY <1>1, ConfigConstant
  <2> HIDE DEF scope
  <2> QED
    BY <1>1, <2>1, <2>2, <2>3, AnswerTyped DEF AnswersInv, TypeOK
<1> QED
  BY <1>1, <1>2, <1>3, <1>5, <1>6, <1>7, AnswerIssued DEF AnswersInv, ConfigFits

LEMMA AnswersStutter ==
  ASSUME AnswersInv, UNCHANGED vars
  PROVE  AnswersInv'
<1>1. config' = config /\ ticket' = ticket /\ answer' = answer /\ first' = first
  BY DEF vars
<1>2. ConfigFits' /\ TicketFits' /\ FirstFits'
  BY <1>1, ConfigConstant DEF AnswersInv, ConfigFits, TicketFits, IsTicket, FirstFits
<1>3. ScopesWithinGrant' /\ RenewalSaysTheSame' /\ TypeOK' /\ AnswerFits'
  BY <1>1, ConfigConstant DEF AnswersInv, ScopesWithinGrant, RenewalSaysTheSame, TypeOK,
                              AnswerFits
<1> QED
  BY <1>2, <1>3 DEF AnswersInv

LEMMA AnswersInvariant == Spec => []AnswersInv
<1>1. AnswersInv /\ [Next]_vars => AnswersInv'
  <2> SUFFICES ASSUME AnswersInv, [Next]_vars
               PROVE  AnswersInv'
    OBVIOUS
  <2>1. CASE \E id \in Stored, asked \in SUBSET Scopes :
               \E user \in Eligible(id) : Submit(id, user, asked)
    BY <2>1, SubmitKeeps
  <2>2. CASE RedeemCode
    BY <2>2, RedeemCodeKeeps
  <2>3. CASE Refresh
    BY <2>3, RefreshKeeps
  <2>4. CASE \E id \in Stored, asked \in SUBSET Scopes : ClientCredentials(id, asked)
    BY <2>4, ClientCredentialsKeeps
  <2>5. CASE UNCHANGED vars
    BY <2>5, AnswersStutter
  <2> QED
    BY <2>1, <2>2, <2>3, <2>4, <2>5 DEF Next
<1> QED
  BY AnswersInit, <1>1, PTL DEF Spec

\* A ticket names a client of the store, tokens have no scope that is not one, and
\* headers show fields the answer has: what /token writes for any configuration.
THEOREM TypeInvariant == Spec => []TypeOK
<1>1. AnswersInv => TypeOK
  BY DEF AnswersInv
<1> QED
  BY AnswersInvariant, <1>1, PTL

\* Over an authorization and any number of renewals no token gains a scope: it stays
\* within what the request named, the client is registered for and, for configured
\* clients, the server supports.
THEOREM ScopesNeverGrow == Spec => []ScopesWithinGrant
<1>1. AnswersInv => ScopesWithinGrant
  BY DEF AnswersInv
<1> QED
  BY AnswersInvariant, <1>1, PTL

\* Every renewed token has the client, subject, scope and claims of the token that
\* was granted for the code.
THEOREM RenewalsAgree == Spec => []RenewalSaysTheSame
<1>1. AnswersInv => RenewalSaysTheSame
  BY DEF AnswersInv
<1> QED
  BY AnswersInvariant, <1>1, PTL

\* However a client and a user spread their claims over templates, standard and custom
\* claims, each claim of an access token has the value of the highest source that names
\* it, none is lost, and what the server says of a token is never overridden.
THEOREM RanksDecide == Spec => []HighestRankWins
<1>1. AnswersInv => HighestRankWins
  <2> SUFFICES ASSUME AnswersInv, answer # None PROVE HighestRankWins
    BY DEF HighestRankWins
  <2> DEFINE token == answer.token
  <2>1. token = AccessToken(token.client, token.subject, token.scope) /\ ConfigFits
    BY DEF AnswersInv, AnswerFits
  <2> QED
    BY <2>1, IssuedByRank DEF HighestRankWins
<1> QED
  BY AnswersInvariant, <1>1, PTL
=============================================================================
