-------------------------- MODULE OAuthGrantsProofs --------------------------
(* Theorems about OAuthGrants, for every set of requests and configuration. *)
EXTENDS OAuthGrants, TLAPS


-----------------------------------------------------------------------------
\* A reset that is still seeding has a client left to seed.
SeedingBounded ==
  \A r \in Requests : pc[r] = "seed" => progress[r] < Len(Preloaded)

\* The label a handler has reached tells what kind of request it serves, and
\* the object it holds at that label.
LabelsFit ==
  \A r \in Requests :
    /\ pc[r] = "idle" => job[r].kind = "none"
    /\ pc[r] \in {"lookup", "insertCode"} => job[r].kind = "authorize"
    /\ pc[r] = "auth" => job[r].kind \in {"code", "refresh", "client"}
    /\ pc[r] = "take" => job[r].kind = "code"
    /\ pc[r] \in {"read", "retire"} => job[r].kind = "refresh"
    /\ pc[r] \in {"putAccess", "putRefresh"} => job[r].kind \in GrantKinds
    /\ pc[r] = "readClient" => job[r].kind = "client"
    /\ pc[r] = "register" => job[r].kind = "register"
    /\ pc[r] = "revoke" => job[r].kind = "revoke"
    /\ pc[r] \in {"clear", "seed", "count"} => job[r].kind = "reset"
    /\ pc[r] = "insertCode" => held[r] \in Code
    /\ pc[r] \in {"putAccess", "putRefresh", "retire"} => held[r] \in Token

Typed == TypeOK /\ SeedingBounded /\ LabelsFit

-----------------------------------------------------------------------------
\* A label a request of this kind starts at.
Fits(kind, first) ==
  \/ first = "lookup" /\ kind = "authorize"
  \/ first = "auth" /\ kind \in {"code", "refresh", "client"}
  \/ first = "register" /\ kind = "register"
  \/ first = "revoke" /\ kind = "revoke"
  \/ first = "clear" /\ kind = "reset"

\* The ticket a request presents was told to its caller, or never issued.
TicketTold(r, input) ==
  /\ input.kind = "code" => input.ticket \in Told({"authorize"}) \cup {r}
  /\ input.kind = "refresh" => input.ticket \in Told(GrantKinds) \cup {r}

Arrives(r) ==
  \E kind \in Kinds, first \in InFlight, input \in Job :
    /\ Begin(r, kind, first, input)
    /\ input.kind = kind
    /\ Fits(kind, first)
    /\ TicketTold(r, input)

\* A request that arrives keeps the job well typed and fits its first label.
LEMMA BeginTyped ==
  ASSUME Typed, NEW r \in Requests, NEW kind \in Kinds, NEW first \in InFlight,
         NEW input \in Job, Begin(r, kind, first, input), input.kind = kind,
         Fits(kind, first)
  PROVE  Typed'
<1>1. /\ pc' = [pc EXCEPT ![r] = first]
      /\ job' = [job EXCEPT ![r] = input]
      /\ late' \subseteq Requests
      /\ UNCHANGED <<gone, held, progress, clients, codes, tokens, refresh,
                     lapsed, origin, wiped, cleared, ttl>>
  BY DEF Begin, Goto, Typed, TypeOK, store
<1>2. TypeOK'
  BY <1>1 DEF Typed, TypeOK, PcValues
<1>3. SeedingBounded'
  BY <1>1 DEF Typed, TypeOK, SeedingBounded, Fits
<1>4. LabelsFit'
  BY <1>1 DEF Typed, TypeOK, LabelsFit, Fits
<1> QED BY <1>2, <1>3, <1>4 DEF Typed

\* Every request that can arrive does so as Arrives says.
LEMMA StartArrives ==
  ASSUME Typed, NEW r \in Requests, Start(r)
  PROVE  Arrives(r)
<1>0. /\ \A ks : Told(ks) \subseteq Requests
      /\ KnownClients \subseteq ClientIds
      /\ \A c : Presentable(r, c) \subseteq Stamps
      /\ job[r] \in Job
  BY DEF Told, KnownClients, ClientIds, Presentable, KnownSecrets, Stamps,
         Typed, TypeOK
<1>1. CASE StartAuthorize(r)
  <2>1. PICK c \in KnownClients, u \in Users, p \in BOOLEAN, picks \in {PickerEnabled, FALSE} :
          Begin(r, "authorize", "lookup",
                [job[r] EXCEPT !.kind = "authorize", !.client = c, !.user = u,
                               !.pkce = p, !.picks = picks])
    BY <1>1 DEF StartAuthorize
  <2> DEFINE j == [job[r] EXCEPT !.kind = "authorize", !.client = c, !.user = u,
                                 !.pkce = p, !.picks = picks]
  <2>p. picks \in BOOLEAN
    BY ConfigAssumption
  <2>2. j \in Job /\ j.kind = "authorize"
    BY <1>0, <2>p DEF Job, Kinds
  <2>b. Begin(r, "authorize", "lookup", j)
    BY <2>1
  <2>t. TicketTold(r, j)
    BY <2>2 DEF TicketTold
  <2>k. "authorize" \in Kinds /\ "lookup" \in InFlight /\ Fits("authorize", "lookup")
    BY DEF Kinds, InFlight, Fits
  <2> HIDE DEF j
  <2> QED BY <2>2, <2>b, <2>t, <2>k DEF Arrives
<1>2. CASE StartCode(r)
  <2>1. PICK c \in KnownClients, k \in Told({"authorize"}) \cup {r} :
          \E s \in Presentable(r, c), v \in Verifying(k) :
            Begin(r, "code", "auth",
                  [job[r] EXCEPT !.kind = "code", !.client = c, !.secret = s,
                                 !.ticket = k, !.verifier = v])
    BY <1>2 DEF StartCode
  <2>2. PICK s \in Presentable(r, c), v \in Verifying(k) :
          Begin(r, "code", "auth",
                [job[r] EXCEPT !.kind = "code", !.client = c, !.secret = s,
                               !.ticket = k, !.verifier = v])
    BY <2>1
  <2> DEFINE j == [job[r] EXCEPT !.kind = "code", !.client = c, !.secret = s,
                                 !.ticket = k, !.verifier = v]
  <2>3. v \in Verifiers /\ k \in Requests
    BY <1>0 DEF Verifying, Verifiers
  <2>4. j \in Job /\ j.kind = "code"
    BY <1>0, <2>3 DEF Job, Kinds
  <2>b. Begin(r, "code", "auth", j)
    BY <2>2
  <2>t. TicketTold(r, j)
    BY <2>4 DEF TicketTold
  <2>k. "code" \in Kinds /\ "auth" \in InFlight /\ Fits("code", "auth")
    BY DEF Kinds, InFlight, Fits
  <2> HIDE DEF j
  <2> QED BY <2>4, <2>b, <2>t, <2>k DEF Arrives
<1>3. CASE StartRefresh(r)
  <2>1. PICK c \in KnownClients, k \in Told(GrantKinds) \cup {r} :
          \E s \in Presentable(r, c) :
            Begin(r, "refresh", "auth",
                  [job[r] EXCEPT !.kind = "refresh", !.client = c, !.secret = s,
                                 !.ticket = k])
    BY <1>3 DEF StartRefresh
  <2>2. PICK s \in Presentable(r, c) :
          Begin(r, "refresh", "auth",
                [job[r] EXCEPT !.kind = "refresh", !.client = c, !.secret = s,
                               !.ticket = k])
    BY <2>1
  <2> DEFINE j == [job[r] EXCEPT !.kind = "refresh", !.client = c, !.secret = s,
                                 !.ticket = k]
  <2>3. j \in Job /\ j.kind = "refresh"
    BY <1>0 DEF Job, Kinds
  <2>b. Begin(r, "refresh", "auth", j)
    BY <2>2
  <2>t. TicketTold(r, j)
    BY <2>3 DEF TicketTold
  <2>k. "refresh" \in Kinds /\ "auth" \in InFlight /\ Fits("refresh", "auth")
    BY DEF Kinds, InFlight, Fits
  <2> HIDE DEF j
  <2> QED BY <2>3, <2>b, <2>t, <2>k DEF Arrives
<1>4. CASE StartClientCredentials(r)
  <2>1. PICK c \in KnownClients : \E s \in Presentable(r, c) :
          Begin(r, "client", "auth",
                [job[r] EXCEPT !.kind = "client", !.client = c, !.secret = s])
    BY <1>4 DEF StartClientCredentials
  <2>2. PICK s \in Presentable(r, c) :
          Begin(r, "client", "auth",
                [job[r] EXCEPT !.kind = "client", !.client = c, !.secret = s])
    BY <2>1
  <2> DEFINE j == [job[r] EXCEPT !.kind = "client", !.client = c, !.secret = s]
  <2>3. j \in Job /\ j.kind = "client"
    BY <1>0 DEF Job, Kinds
  <2>b. Begin(r, "client", "auth", j)
    BY <2>2
  <2>t. TicketTold(r, j)
    BY <2>3 DEF TicketTold
  <2>k. "client" \in Kinds /\ "auth" \in InFlight /\ Fits("client", "auth")
    BY DEF Kinds, InFlight, Fits
  <2> HIDE DEF j
  <2> QED BY <2>3, <2>b, <2>t, <2>k DEF Arrives
<1>5. CASE StartRegister(r)
  <2>1. PICK a \in {"open", "generated"} :
          Begin(r, "register", "register",
                [job[r] EXCEPT !.kind = "register", !.auth = a])
    BY <1>5 DEF StartRegister
  <2> DEFINE j == [job[r] EXCEPT !.kind = "register", !.auth = a]
  <2>2. j \in Job /\ j.kind = "register"
    BY <1>0 DEF Job, Kinds, AuthKinds
  <2>b. Begin(r, "register", "register", j)
    BY <2>1
  <2>t. TicketTold(r, j)
    BY <2>2 DEF TicketTold
  <2>k. "register" \in Kinds /\ "register" \in InFlight /\ Fits("register", "register")
    BY DEF Kinds, InFlight, Fits
  <2> HIDE DEF j
  <2> QED BY <2>2, <2>b, <2>t, <2>k DEF Arrives
<1>6. CASE StartRevoke(r)
  <2>1. PICK k \in Told(GrantKinds) :
          Begin(r, "revoke", "revoke",
                [job[r] EXCEPT !.kind = "revoke", !.ticket = k])
    BY <1>6 DEF StartRevoke
  <2> DEFINE j == [job[r] EXCEPT !.kind = "revoke", !.ticket = k]
  <2>2. j \in Job /\ j.kind = "revoke"
    BY <1>0 DEF Job, Kinds
  <2>b. Begin(r, "revoke", "revoke", j)
    BY <2>1
  <2>t. TicketTold(r, j)
    BY <2>2 DEF TicketTold
  <2>k. "revoke" \in Kinds /\ "revoke" \in InFlight /\ Fits("revoke", "revoke")
    BY DEF Kinds, InFlight, Fits
  <2> HIDE DEF j
  <2> QED BY <2>2, <2>b, <2>t, <2>k DEF Arrives
<1>7. CASE StartReset(r)
  <2> DEFINE j == [job[r] EXCEPT !.kind = "reset"]
  <2>1. j \in Job /\ j.kind = "reset"
    BY <1>0 DEF Job, Kinds
  <2>b. Begin(r, "reset", "clear", j)
    BY <1>7 DEF StartReset
  <2>t. TicketTold(r, j)
    BY <2>1 DEF TicketTold
  <2>k. "reset" \in Kinds /\ "clear" \in InFlight /\ Fits("reset", "clear")
    BY DEF Kinds, InFlight, Fits
  <2> HIDE DEF j
  <2> QED BY <2>1, <2>b, <2>t, <2>k DEF Arrives
<1> QED BY <1>1, <1>2, <1>3, <1>4, <1>5, <1>6, <1>7 DEF Start

\* Every store call, and what the environment does, keeps the types.
LEMMA StepTyped ==
  ASSUME Typed, [Next]_vars
  PROVE  Typed'
<1> USE DEF Typed, TypeOK, SeedingBounded, LabelsFit, Goto, At, store, history,
            PcValues, InFlight, Answered, WithoutEnd
<1>1. ASSUME NEW r \in Requests, Start(r)
      PROVE  Typed'
  <2>1. PICK kind \in Kinds, first \in InFlight, input \in Job :
          /\ Begin(r, kind, first, input)
          /\ input.kind = kind
          /\ Fits(kind, first)
    BY <1>1, StartArrives DEF Arrives
  <2> QED BY <2>1, BeginTyped
<1>2. ASSUME NEW r \in Requests, ValidateAuthorize(r)
      PROVE  Typed'
  <2>0. [client |-> job[r].client, user |-> job[r].user, pkce |-> job[r].pkce]
          \in Code
    BY DEF Job, Code
  <2>h. held' \in [Requests -> Code \cup Token \cup {Absent}]
    BY <1>2, <2>0 DEF ValidateAuthorize
  <2>p. pc' = [pc EXCEPT ![r] = "insertCode"] \/ pc' = [pc EXCEPT ![r] = "fail"]
    BY <1>2 DEF ValidateAuthorize
  <2>1. TypeOK'
    BY <1>2, <2>h, <2>p DEF ValidateAuthorize
  <2>2. SeedingBounded'
    BY <1>2, <2>0 DEF ValidateAuthorize
  <2>3. LabelsFit'
    BY <1>2, <2>0 DEF ValidateAuthorize
  <2> QED BY <2>1, <2>2, <2>3
<1>3. ASSUME NEW r \in Requests, UpstreamAuthorize(r)
      PROVE  Typed'
  <2>0. [client |-> job[r].client, user |-> DefaultUser, pkce |-> job[r].pkce]
          \in Code
    BY ConfigAssumption DEF Job, Code
  <2>h. held' \in [Requests -> Code \cup Token \cup {Absent}]
    BY <1>3, <2>0 DEF UpstreamAuthorize
  <2>p. pc' = [pc EXCEPT ![r] = "insertCode"] \/ pc' = [pc EXCEPT ![r] = "fail"]
    BY <1>3 DEF UpstreamAuthorize
  <2>1. TypeOK'
    BY <1>3, <2>h, <2>p DEF UpstreamAuthorize
  <2>2. SeedingBounded'
    BY <1>3, <2>0 DEF UpstreamAuthorize
  <2>3. LabelsFit'
    BY <1>3, <2>0 DEF UpstreamAuthorize
  <2> QED BY <2>1, <2>2, <2>3
<1>4. ASSUME NEW r \in Requests, InsertCode(r)
      PROVE  Typed'
  <2>1. \E label \in {"ok", "dropped"} : pc' = [pc EXCEPT ![r] = label]
    BY <1>4 DEF InsertCode
  <2>2. /\ codes' \in [Requests -> Code \cup {Absent}]
        /\ UNCHANGED <<gone, job, held, progress, clients, tokens, refresh, lapsed, origin,
                       wiped, late, cleared, ttl>>
    BY <1>4 DEF InsertCode
  <2> QED BY <2>1, <2>2
<1>5. ASSUME NEW r \in Requests, Authenticate(r)
      PROVE  Typed'
  BY <1>5 DEF Authenticate, HandlerStart
<1>6. ASSUME NEW r \in Requests, TakeCode(r)
      PROVE  Typed'
  <2>0. job[r].ticket \in Requests /\ Absent \notin Requests
    BY AbsentAssumption DEF Job, Stamps
  <2>a. \A code \in Code : AsToken(code) \in Token
    BY DEF AsToken, Code, Token
  <2>b. codes[job[r].ticket] # Absent => AsToken(codes[job[r].ticket]) \in Token
    BY <2>0, <2>a
  <2>h. held' \in [Requests -> Code \cup Token \cup {Absent}]
    BY <1>6, <2>b DEF TakeCode, RemoveCode
  <2>p. \E label \in {"putAccess", "fail", "dropped"} : pc' = [pc EXCEPT ![r] = label]
    BY <1>6 DEF TakeCode, RemoveCode
  <2>c. /\ codes' \in [Requests -> Code \cup {Absent}]
        /\ origin' \in [Requests -> Requests \cup {Absent}]
    BY <1>6, <2>0 DEF TakeCode, RemoveCode
  <2>u. UNCHANGED <<gone, job, progress, clients, tokens, refresh, lapsed, wiped, late,
                    cleared, ttl>>
    BY <1>6 DEF TakeCode, RemoveCode
  <2>1. TypeOK'
    BY <2>u, <2>c, <2>h, <2>p
  <2>2. SeedingBounded'
    BY <1>6, <2>0, <2>b DEF TakeCode, RemoveCode, GrantKinds
  <2>3. LabelsFit'
    BY <1>6, <2>0, <2>b DEF TakeCode, RemoveCode, GrantKinds
  <2> QED BY <2>1, <2>2, <2>3
<1>7. ASSUME NEW r \in Requests, ReadRefresh(r)
      PROVE  Typed'
  <2>0. job[r].ticket \in Requests
    BY DEF Job
  <2>a. refresh[job[r].ticket] # Absent => refresh[job[r].ticket] \in Token
    BY <2>0
  <2>1. TypeOK'
    BY <1>7, <2>0, <2>a DEF ReadRefresh, GrantKinds
  <2>2. SeedingBounded'
    BY <1>7, <2>0, <2>a DEF ReadRefresh, GrantKinds
  <2>3. LabelsFit'
    BY <1>7, <2>0, <2>a DEF ReadRefresh, GrantKinds
  <2> QED BY <2>1, <2>2, <2>3
<1>8. ASSUME NEW r \in Requests, PutAccess(r)
      PROVE  Typed'
  BY <1>8 DEF PutAccess
<1>9. ASSUME NEW r \in Requests, PutRefresh(r)
      PROVE  Typed'
  BY <1>9 DEF PutRefresh
<1>10. ASSUME NEW r \in Requests, RetireRefresh(r)
       PROVE  Typed'
  <2>0. job[r].ticket \in Requests
    BY DEF Job
  <2>a. \A token \in Token : Revoked(token) \in Token
    BY DEF Revoked, Token
  <2>b. /\ pc[r] = "retire" /\ pc' = [pc EXCEPT ![r] = "ok"]
        /\ UNCHANGED <<gone, job, held, progress, clients, codes, tokens, lapsed, origin,
                       wiped, late, cleared, ttl>>
    BY <1>10 DEF RetireRefresh
  <2>c. held[r] \in Token
    BY <2>b
  <2>d. \/ refresh' = [refresh EXCEPT ![job[r].ticket] = Revoked(held[r])]
        \/ UNCHANGED refresh
    BY <1>10 DEF RetireRefresh
  <2>e. refresh' \in [Requests -> Token \cup {Absent}]
    BY <2>0, <2>a, <2>c, <2>d
  <2>1. TypeOK'
    BY <2>b, <2>e
  <2>2. SeedingBounded'
    BY <2>b
  <2>3. LabelsFit'
    BY <2>b
  <2> QED BY <2>1, <2>2, <2>3
<1>11. ASSUME NEW r \in Requests, IssueClientToken(r)
       PROVE  Typed'
  <2>1. TypeOK'
    BY <1>11 DEF IssueClientToken
  <2>2. SeedingBounded'
    BY <1>11 DEF IssueClientToken
  <2>3. LabelsFit'
    BY <1>11 DEF IssueClientToken
  <2> QED BY <2>1, <2>2, <2>3
<1>12. ASSUME NEW r \in Requests, RegisterClient(r)
       PROVE  Typed'
  BY <1>12 DEF RegisterClient, Stamps, ClientIds
<1>13. ASSUME NEW r \in Requests, RevokeToken(r)
       PROVE  Typed'
  <2>0. job[r].ticket \in Requests
    BY DEF Job
  <2>a. \A token \in Token : Revoked(token) \in Token
    BY DEF Revoked, Token
  <2>b. \A k \in Requests : /\ Kill(tokens[k]) \subseteq Token \cup {Absent}
                            /\ Kill(refresh[k]) \subseteq Token \cup {Absent}
    BY <2>a DEF Kill
  <2>1. TypeOK'
    BY <1>13, <2>0, <2>b DEF RevokeToken
  <2>2. SeedingBounded'
    BY <1>13, <2>0, <2>b DEF RevokeToken
  <2>3. LabelsFit'
    BY <1>13, <2>0, <2>b DEF RevokeToken
  <2> QED BY <2>1, <2>2, <2>3
<1>14. ASSUME NEW r \in Requests, ClearAll(r)
       PROVE  Typed'
  BY <1>14 DEF ClearAll, NoClients, NoCodes, AfterSeeding
<1>15. ASSUME NEW r \in Requests, SeedClient(r)
       PROVE  Typed'
  BY <1>15 DEF SeedClient, AfterSeeding, Stamps, ClientIds, PreloadedIds
<1>16. ASSUME NEW r \in Requests, CountClients(r)
       PROVE  Typed'
  BY <1>16 DEF CountClients
<1>17. ASSUME NEW r \in Requests, Lapse(r)
       PROVE  Typed'
  BY <1>17 DEF Lapse
<1>18. ASSUME NEW r \in Requests, Disconnect(r)
       PROVE  Typed'
  BY <1>18 DEF Disconnect
<1>19. CASE UNCHANGED vars
  BY <1>19 DEF vars
<1> QED
  BY <1>1, <1>2, <1>3, <1>4, <1>5, <1>6, <1>7, <1>8, <1>9, <1>10, <1>11, <1>12,
     <1>13, <1>14, <1>15, <1>16, <1>17, <1>18, <1>19
  DEF Next, Serve, Rest

\* The initial state is typed.
LEMMA InitTyped == Init => Typed
BY StampAssumption, ConfigAssumption DEF Init, Typed, TypeOK, SeedingBounded, LabelsFit, PcValues, InFlight,
       Answered, Job, Stamps, ClientIds, Verifiers, AuthKinds

\* Type correctness: no interleaving of handlers, resets, hang-ups and expiries
\* puts an ill-typed entry in the store or indexes past the configured clients.
THEOREM TypeCorrect == Spec => []TypeOK
<1>1. Spec => []Typed
  BY InitTyped, StepTyped, PTL DEF Spec
<1>2. Typed => TypeOK
  BY DEF Typed
<1> QED BY <1>1, <1>2, PTL

-----------------------------------------------------------------------------
\* The inductive invariant behind the ticket theorems.  Each part is about what
\* a handler relies on across the store calls in which it does not look.

Dead(k) == refresh[k] = Absent \/ refresh[k].revoked

\* only tickets that were issued are in the store
StoreBacked ==
  \A k \in Requests :
    /\ codes[k] # Absent => CodeIssued(k)
    /\ refresh[k] # Absent => RefreshIssued(k)

\* callers present tickets they were told of, or values never issued
TicketsTold ==
  \A r \in Requests :
    /\ job[r].kind = "code" => job[r].ticket = r \/ CodeIssued(job[r].ticket)
    /\ job[r].kind = "refresh" =>
         \/ job[r].ticket = r
         \/ job[job[r].ticket].kind \in GrantKinds /\ pc[job[r].ticket] = "ok"

\* a handler is past its read exactly when it was granted the ticket
HoldersAdvanced ==
  \A r \in Requests :
    /\ Holds(r) => /\ job[r].kind \in GrantKinds
                   /\ pc[r] \in {"putAccess", "putRefresh", "retire", "ok"}
                   /\ job[r].ticket # r
    /\ pc[r] \in {"putAccess", "putRefresh", "retire"} => Holds(r)
    /\ pc[r] = "ok" /\ job[r].kind \in GrantKinds => Holds(r)

\* a code that backs a grant has left the store for good
CodesUsedUp ==
  \A r \in Requests :
    job[r].kind = "code" /\ Holds(r) => codes[job[r].ticket] = Absent

\* a handler grants from a token that was not revoked when it was read
HeldFresh ==
  \A r \in Requests : pc[r] \in {"putAccess", "putRefresh"} => ~held[r].revoked

\* what a reset wiped stays out of use
WipedAreDead ==
  \A k \in wiped : pc[k] = "ok" /\ codes[k] = Absent /\ Dead(k)

LateAreWiped ==
  \A r \in late : pc[r] # "idle" /\ job[r].ticket \in wiped

TicketInv == /\ StoreBacked /\ TicketsTold /\ HoldersAdvanced /\ CodesUsedUp
             /\ HeldFresh
             /\ WipedAreDead /\ LateAreWiped
             /\ CodeBacksOneGrant /\ SpentRefreshIsDead /\ WipedTicketsAreDead

\* A request that arrives presents a ticket that is told or worthless.
LEMMA BeginTickets ==
  ASSUME Typed, TicketInv, NEW r \in Requests, Arrives(r)
  PROVE  TicketInv'
<1>1. PICK kind \in Kinds, first \in InFlight, input \in Job :
        /\ Begin(r, kind, first, input)
        /\ input.kind = kind
        /\ Fits(kind, first)
        /\ TicketTold(r, input)
  BY DEF Arrives
<1>2. /\ pc[r] = "idle"
      /\ pc' = [pc EXCEPT ![r] = first]
      /\ job' = [job EXCEPT ![r] = input]
      /\ late' = IF input.ticket \in wiped THEN late \cup {r} ELSE late
      /\ UNCHANGED <<codes, refresh, origin, wiped>>
  BY <1>1 DEF Begin, Goto, store
<1>3. /\ pc \in [Requests -> PcValues]
      /\ job \in [Requests -> Job]
      /\ \A q \in Requests : job[q].ticket \in Requests
      /\ input.ticket \in Requests
  BY DEF Typed, TypeOK, Job
<1>4. first \in {"lookup", "auth", "register", "revoke", "clear"}
  BY <1>1 DEF Fits
<1>5. ~Holds(r) /\ codes[r] = Absent /\ refresh[r] = Absent /\ r \notin wiped
  BY <1>2 DEF TicketInv, StoreBacked, CodeIssued, RefreshIssued, HoldersAdvanced,
              WipedAreDead
<1> USE <1>2, <1>3 DEF Holds, Dead, CodeIssued, RefreshIssued
<1>6. /\ \A k \in Requests : CodeIssued(k) => CodeIssued(k)'
      /\ \A k \in Requests : RefreshIssued(k) => RefreshIssued(k)'
      /\ \A k \in Requests : pc[k] = "ok" => pc'[k] = "ok" /\ job'[k] = job[k]
  BY <1>2
<1>7. StoreBacked'
  BY <1>6 DEF TicketInv, StoreBacked
<1>8. TicketsTold'
  <2>1. ASSUME NEW q \in Requests, q # r
        PROVE  /\ job'[q].kind = "code" =>
                    job'[q].ticket = q \/ CodeIssued(job[q].ticket)'
               /\ job'[q].kind = "refresh" =>
                    \/ job'[q].ticket = q
                    \/ /\ job'[job'[q].ticket].kind \in GrantKinds
                       /\ pc'[job'[q].ticket] = "ok"
    <3>1. job'[q] = job[q] /\ job[q].ticket \in Requests
      BY <2>1
    <3>2. job[q].kind = "refresh" =>
            \/ job[q].ticket = q
            \/ job[job[q].ticket].kind \in GrantKinds /\ pc[job[q].ticket] = "ok"
      BY DEF TicketInv, TicketsTold
    <3>3. job[q].kind = "code" => job[q].ticket = q \/ CodeIssued(job[q].ticket)
      BY DEF TicketInv, TicketsTold
    <3>4. job[q].kind = "code" =>
            job'[q].ticket = q \/ CodeIssued(job[q].ticket)'
      BY <3>1, <3>3, <1>6
    <3> QED BY <3>1, <3>2, <3>4, <1>6
  <2>2. /\ input.kind = "code" => input.ticket = r \/ CodeIssued(input.ticket)'
        /\ input.kind = "refresh" =>
             \/ input.ticket = r
             \/ job'[input.ticket].kind \in GrantKinds /\ pc'[input.ticket] = "ok"
    BY <1>1, <1>6 DEF TicketTold, Told
  <2>3. job'[r] = input
    OBVIOUS
  <2> QED BY <2>1, <2>2, <2>3 DEF TicketsTold
<1>9. HoldersAdvanced'
  BY <1>4, <1>5 DEF TicketInv, HoldersAdvanced
<1>10. CodesUsedUp' /\ CodeBacksOneGrant'
  BY <1>5 DEF TicketInv, CodesUsedUp, CodeBacksOneGrant
<1>11. WipedAreDead'
  BY <1>5 DEF TicketInv, WipedAreDead
<1>l. LateAreWiped' /\ WipedTicketsAreDead'
  <2>1. late' \subseteq late \cup {r} /\ (r \in late' => r \in late \/ input.ticket \in wiped)
    OBVIOUS
  <2>2. r \notin late
    BY <1>2 DEF TicketInv, LateAreWiped, WipedAreDead
  <2> QED BY <2>1, <2>2, <1>4, <1>5 DEF TicketInv, LateAreWiped, WipedTicketsAreDead
<1>h. HeldFresh'
  BY <1>1, <1>4 DEF TicketInv, HeldFresh, Begin
<1>12. SpentRefreshIsDead'
  BY <1>4 DEF TicketInv, SpentRefreshIsDead
<1> QED BY <1>7, <1>8, <1>9, <1>10, <1>11, <1>l, <1>h, <1>12 DEF TicketInv

\* No store call and no hang-up breaks what handlers rely on about tickets.
LEMMA StepTickets ==
  ASSUME Typed, TicketInv, [Next]_vars
  PROVE  TicketInv'
<1>0. /\ pc \in [Requests -> PcValues]
      /\ job \in [Requests -> Job]
      /\ codes \in [Requests -> Code \cup {Absent}]
      /\ refresh \in [Requests -> Token \cup {Absent}]
      /\ origin \in [Requests -> Requests \cup {Absent}]
      /\ held \in [Requests -> Code \cup Token \cup {Absent}]
      /\ wiped \subseteq Requests /\ late \subseteq Requests
      /\ \A q \in Requests : job[q].ticket \in Requests /\ q # Absent
      /\ Absent \notin Code \cup Token
      /\ \A token \in Token : Revoked(token).revoked /\ Revoked(token) \in Token
  BY AbsentAssumption DEF Typed, TypeOK, Job, Stamps, Revoked, Token
<1> USE <1>0 DEF TicketInv, StoreBacked, TicketsTold, HoldersAdvanced, CodesUsedUp,
      HeldFresh, WipedAreDead, LateAreWiped, CodeBacksOneGrant, SpentRefreshIsDead,
      WipedTicketsAreDead, Holds, Dead, CodeIssued, RefreshIssued,
      Goto, At, store, history
<1>1. ASSUME NEW r \in Requests, Start(r)
      PROVE  TicketInv'
  BY <1>1, StartArrives, BeginTickets
<1>2. ASSUME NEW r \in Requests, ValidateAuthorize(r)
      PROVE  TicketInv'
  BY <1>2 DEF ValidateAuthorize, LabelsFit, Typed, GrantKinds
<1>3. ASSUME NEW r \in Requests, UpstreamAuthorize(r)
      PROVE  TicketInv'
  BY <1>3 DEF UpstreamAuthorize, LabelsFit, Typed, GrantKinds
<1>4. ASSUME NEW r \in Requests, InsertCode(r)
      PROVE  TicketInv'
  BY <1>4 DEF InsertCode, LabelsFit, Typed, GrantKinds
<1>5. ASSUME NEW r \in Requests, Authenticate(r)
      PROVE  TicketInv'
  BY <1>5 DEF Authenticate, HandlerStart, LabelsFit, Typed, GrantKinds
<1>6. ASSUME NEW r \in Requests, TakeCode(r)
      PROVE  TicketInv'
  BY <1>6 DEF TakeCode, RemoveCode, AsToken, WithoutEnd, LabelsFit, Typed, GrantKinds
<1>7. ASSUME NEW r \in Requests, ReadRefresh(r)
      PROVE  TicketInv'
  BY <1>7 DEF ReadRefresh, WithoutEnd, LabelsFit, Typed, GrantKinds
<1>8. ASSUME NEW r \in Requests, PutAccess(r)
      PROVE  TicketInv'
  BY <1>8 DEF PutAccess, LabelsFit, Typed, GrantKinds
<1>9. ASSUME NEW r \in Requests, PutRefresh(r)
      PROVE  TicketInv'
  BY <1>9 DEF PutRefresh, LabelsFit, Typed, GrantKinds
<1>10. ASSUME NEW r \in Requests, RetireRefresh(r)
      PROVE  TicketInv'
  <2>k. PICK k \in Requests : k = job[r].ticket
    OBVIOUS
  <2>1. /\ pc[r] = "retire" /\ pc' = [pc EXCEPT ![r] = "ok"]
        /\ job[r].kind = "refresh" /\ Holds(r)
        /\ UNCHANGED <<job, codes, held, origin, wiped, late>>
    BY <1>10 DEF RetireRefresh, LabelsFit, Typed
  <2>2. /\ refresh' \in [Requests -> Token \cup {Absent}]
        /\ Dead(k)' /\ RefreshIssued(k)
        /\ \A q \in Requests : q # k => refresh'[q] = refresh[q]
    BY <1>10, <2>k, <2>1 DEF RetireRefresh, LabelsFit, Typed, GrantKinds
  <2>3. HeldFresh' /\ HoldersAdvanced' /\ CodesUsedUp' /\ CodeBacksOneGrant'
    BY <2>1 DEF GrantKinds
  <2>4. StoreBacked' /\ TicketsTold'
    BY <2>1, <2>2 DEF GrantKinds
  <2>5. WipedAreDead' /\ LateAreWiped' /\ WipedTicketsAreDead'
    BY <2>1, <2>2 DEF GrantKinds
  <2>6. SpentRefreshIsDead'
    BY <2>1, <2>2, <2>k DEF GrantKinds
  <2> QED BY <2>3, <2>4, <2>5, <2>6
<1>11. ASSUME NEW r \in Requests, IssueClientToken(r)
      PROVE  TicketInv'
  BY <1>11 DEF IssueClientToken, WithoutEnd, LabelsFit, Typed, GrantKinds
<1>12. ASSUME NEW r \in Requests, RegisterClient(r)
      PROVE  TicketInv'
  BY <1>12 DEF RegisterClient, LabelsFit, Typed, GrantKinds
<1>13. ASSUME NEW r \in Requests, RevokeToken(r)
      PROVE  TicketInv'
  <2>1. /\ pc' = [pc EXCEPT ![r] = "ok"] /\ pc[r] = "revoke"
        /\ job[r].kind = "revoke"
        /\ UNCHANGED <<job, codes, origin, wiped, late>>
    BY <1>13 DEF RevokeToken, LabelsFit, Typed
  <2>2. /\ refresh' \in [Requests -> Token \cup {Absent}]
        /\ \A k \in Requests :
             \/ refresh'[k] = refresh[k]
             \/ refresh[k] # Absent /\ Dead(k)'
    BY <1>13 DEF RevokeToken, Kill
  <2>3. HeldFresh' /\ HoldersAdvanced' /\ CodesUsedUp' /\ CodeBacksOneGrant'
    BY <1>13, <2>1 DEF RevokeToken, GrantKinds
  <2>4. StoreBacked' /\ TicketsTold'
    BY <2>1, <2>2 DEF GrantKinds
  <2>5. WipedAreDead' /\ LateAreWiped' /\ WipedTicketsAreDead'
    BY <2>1, <2>2 DEF GrantKinds
  <2>6. SpentRefreshIsDead'
    BY <2>1, <2>2 DEF GrantKinds
  <2> QED BY <2>3, <2>4, <2>5, <2>6
<1>14. ASSUME NEW r \in Requests, ClearAll(r)
      PROVE  TicketInv'
  BY <1>14 DEF ClearAll, NoClients, NoCodes, AfterSeeding, LabelsFit, Typed, GrantKinds
<1>15. ASSUME NEW r \in Requests, SeedClient(r)
      PROVE  TicketInv'
  BY <1>15 DEF SeedClient, AfterSeeding, LabelsFit, Typed, GrantKinds
<1>16. ASSUME NEW r \in Requests, CountClients(r)
      PROVE  TicketInv'
  BY <1>16 DEF CountClients, LabelsFit, Typed, GrantKinds
<1>17. ASSUME NEW r \in Requests, Lapse(r)
      PROVE  TicketInv'
  BY <1>17 DEF Lapse, LabelsFit, Typed, GrantKinds
<1>18. ASSUME NEW r \in Requests, Disconnect(r)
      PROVE  TicketInv'
  BY <1>18 DEF Disconnect, LabelsFit, Typed, GrantKinds
<1>19. CASE UNCHANGED vars
  BY <1>19 DEF vars
<1> QED
  BY <1>1, <1>2, <1>3, <1>4, <1>5, <1>6, <1>7, <1>8, <1>9, <1>10, <1>11, <1>12, <1>13, <1>14, <1>15, <1>16, <1>17, <1>18, <1>19
  DEF Next, Serve, Rest

\* Before the first request no ticket exists.
LEMMA InitTickets == Init => TicketInv
BY AbsentAssumption
DEF Init, TicketInv, StoreBacked, TicketsTold, HoldersAdvanced, CodesUsedUp,
    HeldFresh, WipedAreDead, LateAreWiped, CodeBacksOneGrant, SpentRefreshIsDead,
    WipedTicketsAreDead, Holds, Dead, CodeIssued, RefreshIssued, GrantKinds

\* What handlers rely on about codes and refresh tokens holds in every behaviour.
LEMMA TicketsInvariant == Spec => [](Typed /\ TicketInv)
BY InitTyped, InitTickets, StepTyped, StepTickets, PTL DEF Spec

\* remove_code hands a code to one request: whatever interleaves, a second
\* grant for the same code is impossible.
THEOREM CodeRedeemedOnce == Spec => []CodeBacksOneGrant
<1>1. TicketInv => CodeBacksOneGrant
  BY DEF TicketInv
<1> QED BY <1>1, TicketsInvariant, PTL

\* get, insert, insert, update: although rotation is not atomic, the presented
\* refresh token is out of use by the time the request is answered, for good.
THEOREM RotationRetires == Spec => []SpentRefreshIsDead
<1>1. TicketInv => SpentRefreshIsDead
  BY DEF TicketInv
<1> QED BY <1>1, TicketsInvariant, PTL

\* clear_all takes effect on every ticket a caller had been given: requests that
\* arrive later are refused, even if handlers in flight write to the store.
THEOREM ResetEndsTickets == Spec => []WipedTicketsAreDead
<1>1. TicketInv => WipedTicketsAreDead
  BY DEF TicketInv
<1> QED BY <1>1, TicketsInvariant, PTL

-----------------------------------------------------------------------------
\* Where configured clients can be missing, and runtime clients never return.

WipedAreAnswered == \A k \in wiped : pc[k] = "ok"
ClientInv ==
  PreloadedPresentOrPending /\ ClearedClientsStayAway /\ WipedAreAnswered

\* Resets, their seeding and registrations keep what is relied on about clients.
LEMMA StepClients ==
  ASSUME Typed, ClientInv, [Next]_vars
  PROVE  ClientInv'
<1>0. /\ pc \in [Requests -> PcValues]
      /\ job \in [Requests -> Job]
      /\ progress \in [Requests -> 0..Len(Preloaded)]
      /\ clients \in [ClientIds -> Stamps \cup {Absent}]
      /\ wiped \subseteq Requests
      /\ cleared \in Requests \cup {Absent}
      /\ Requests \subseteq ClientIds
      /\ \A q \in Stamps : q # Absent
      /\ Requests \subseteq Stamps
  BY AbsentAssumption DEF Typed, TypeOK, ClientIds, Stamps
<1>p. /\ Len(Preloaded) \in Nat
      /\ \A i \in 1..Len(Preloaded) :
           Preloaded[i] \in ClientIds /\ Preloaded[i] \notin Requests
  <2>1. Len(Preloaded) \in Nat
    BY ConfigAssumption
  <2>2. \A i \in 1..Len(Preloaded) : Preloaded[i] \in PreloadedIds
    BY DEF PreloadedIds
  <2> QED BY <2>1, <2>2, ConfigAssumption DEF ClientIds
<1> USE <1>0, <1>p DEF ClientInv, PreloadedPresentOrPending, ClearedClientsStayAway,
        WipedAreAnswered, Goto, At, store, history
<1>1. ASSUME NEW r \in Requests, Start(r)
      PROVE  ClientInv'
  <2>1. PICK kind \in Kinds, first \in InFlight, input \in Job :
          Begin(r, kind, first, input)
    BY <1>1, StartArrives DEF Arrives
  <2>2. /\ pc[r] = "idle"
        /\ pc' = [pc EXCEPT ![r] = first]
        /\ job' = [job EXCEPT ![r] = input]
        /\ UNCHANGED <<clients, progress, wiped, cleared>>
    BY <2>1 DEF Begin
  <2> QED BY <2>2
<1>2. ASSUME NEW r \in Requests, ValidateAuthorize(r)
      PROVE  ClientInv'
  BY <1>2 DEF ValidateAuthorize, LabelsFit, Typed
<1>3. ASSUME NEW r \in Requests, UpstreamAuthorize(r)
      PROVE  ClientInv'
  BY <1>3 DEF UpstreamAuthorize, LabelsFit, Typed
<1>4. ASSUME NEW r \in Requests, InsertCode(r)
      PROVE  ClientInv'
  BY <1>4 DEF InsertCode, LabelsFit, Typed
<1>5. ASSUME NEW r \in Requests, Authenticate(r)
      PROVE  ClientInv'
  BY <1>5 DEF Authenticate, HandlerStart, LabelsFit, Typed
<1>6. ASSUME NEW r \in Requests, TakeCode(r)
      PROVE  ClientInv'
  BY <1>6 DEF TakeCode, RemoveCode, WithoutEnd, LabelsFit, Typed
<1>7. ASSUME NEW r \in Requests, ReadRefresh(r)
      PROVE  ClientInv'
  BY <1>7 DEF ReadRefresh, WithoutEnd, LabelsFit, Typed
<1>8. ASSUME NEW r \in Requests, PutAccess(r)
      PROVE  ClientInv'
  BY <1>8 DEF PutAccess, LabelsFit, Typed
<1>9. ASSUME NEW r \in Requests, PutRefresh(r)
      PROVE  ClientInv'
  BY <1>9 DEF PutRefresh, LabelsFit, Typed
<1>10. ASSUME NEW r \in Requests, RetireRefresh(r)
      PROVE  ClientInv'
  BY <1>10 DEF RetireRefresh, LabelsFit, Typed
<1>11. ASSUME NEW r \in Requests, IssueClientToken(r)
      PROVE  ClientInv'
  BY <1>11 DEF IssueClientToken, WithoutEnd, LabelsFit, Typed
<1>12. ASSUME NEW r \in Requests, RegisterClient(r)
      PROVE  ClientInv'
  BY <1>12 DEF RegisterClient, LabelsFit, Typed
<1>13. ASSUME NEW r \in Requests, RevokeToken(r)
      PROVE  ClientInv'
  BY <1>13 DEF RevokeToken, LabelsFit, Typed
<1>14. ASSUME NEW r \in Requests, ClearAll(r)
      PROVE  ClientInv'
  BY <1>14 DEF ClearAll, NoClients, NoCodes, AfterSeeding, LabelsFit, Typed
<1>15. ASSUME NEW r \in Requests, SeedClient(r)
      PROVE  ClientInv'
  BY <1>15 DEF SeedClient, AfterSeeding, SeedingBounded, LabelsFit, Typed
<1>16. ASSUME NEW r \in Requests, CountClients(r)
      PROVE  ClientInv'
  BY <1>16 DEF CountClients, LabelsFit, Typed
<1>17. ASSUME NEW r \in Requests, Lapse(r)
      PROVE  ClientInv'
  BY <1>17 DEF Lapse, LabelsFit, Typed
<1>18. ASSUME NEW r \in Requests, Disconnect(r)
      PROVE  ClientInv'
  BY <1>18 DEF Disconnect, LabelsFit, Typed
<1>19. CASE UNCHANGED vars
  BY <1>19 DEF vars
<1> QED
  BY <1>1, <1>2, <1>3, <1>4, <1>5, <1>6, <1>7, <1>8, <1>9, <1>10, <1>11, <1>12, <1>13, <1>14, <1>15, <1>16, <1>17, <1>18, <1>19
  DEF Next, Serve, Rest

\* Start-up has seeded every configured client before the first request.
LEMMA InitClients == Init => ClientInv
BY AbsentAssumption, ConfigAssumption
DEF Init, ClientInv, PreloadedPresentOrPending, ClearedClientsStayAway,
    WipedAreAnswered, ClientIds, PreloadedIds, Stamps

\* What is relied on about the client store holds in every behaviour.
LEMMA ClientsInvariant == Spec => [](Typed /\ ClientInv)
BY InitTyped, InitClients, StepTyped, StepClients, PTL DEF Spec

\* Any number of overlapping resets: the clear_all of one may undo the seeding
\* of another, but then its own loop still has the client ahead.
THEOREM PreloadedRestored == Spec => []PreloadedPresentOrPending
<1>1. ClientInv => PreloadedPresentOrPending
  BY DEF ClientInv
<1> QED BY <1>1, ClientsInvariant, PTL

\* A cleared runtime client stays unknown to the server.
THEOREM RuntimeClientsCleared == Spec => []ClearedClientsStayAway
<1>1. ClientInv => ClearedClientsStayAway
  BY DEF ClientInv
<1> QED BY <1>1, ClientsInvariant, PTL

-----------------------------------------------------------------------------
\* Whose tokens they are: the authorization is passed on from object to object.

Stems(object, a) ==
  /\ object.client = job[a].client
  /\ IF job[a].picks
     THEN object.user = job[a].user /\ object.user \in Eligible(object.client)
     ELSE object.user = DefaultUser

LineageInv ==
  \A r \in Requests :
    /\ pc[r] = "insertCode" => Stems(held[r], r)
    /\ codes[r] # Absent => Stems(codes[r], r)
    /\ pc[r] \in {"putAccess", "putRefresh", "retire"} => Stems(held[r], origin[r])
    /\ tokens[r] # Absent => Holds(r) /\ Stems(tokens[r], origin[r])
    /\ refresh[r] # Absent => Holds(r) /\ Stems(refresh[r], origin[r])
    /\ Holds(r) => CodeIssued(origin[r])
    /\ Holds(r) /\ job[r].kind = "refresh" => origin[r] = origin[job[r].ticket]

\* Each store call hands the authorization's client and user on unchanged.
LEMMA StepLineage ==
  ASSUME Typed, TicketInv, LineageInv, [Next]_vars
  PROVE  LineageInv'
<1>0. /\ pc \in [Requests -> PcValues]
      /\ job \in [Requests -> Job]
      /\ codes \in [Requests -> Code \cup {Absent}]
      /\ tokens \in [Requests -> Token \cup {Absent}]
      /\ refresh \in [Requests -> Token \cup {Absent}]
      /\ origin \in [Requests -> Requests \cup {Absent}]
      /\ held \in [Requests -> Code \cup Token \cup {Absent}]
      /\ \A q \in Requests : job[q].ticket \in Requests /\ q # Absent
      /\ Absent \notin Code \cup Token
      /\ \A token \in Token : /\ Revoked(token).client = token.client
                              /\ Revoked(token).user = token.user
                              /\ Revoked(token) \in Token
      /\ \A code \in Code : /\ AsToken(code).client = code.client
                            /\ AsToken(code).user = code.user
  BY AbsentAssumption DEF Typed, TypeOK, Job, Stamps, Revoked, Token, AsToken, Code
<1>a. /\ \A q \in Requests : codes[q] # Absent => CodeIssued(q)
      /\ \A q \in Requests : Holds(q) => pc[q] # "take"
      /\ \A q \in Requests :
           Holds(q) /\ job[q].kind = "refresh" => pc[job[q].ticket] = "ok"
  BY DEF TicketInv, StoreBacked, HoldersAdvanced, TicketsTold
<1> USE <1>0 DEF LineageInv, Stems, Holds, CodeIssued, Goto, At, store, history
<1>1. ASSUME NEW r \in Requests, Start(r)
      PROVE  LineageInv'
  <2>1. PICK kind \in Kinds, first \in InFlight, input \in Job :
          Begin(r, kind, first, input) /\ Fits(kind, first)
    BY <1>1, StartArrives DEF Arrives
  <2>2. /\ pc[r] = "idle"
        /\ pc' = [pc EXCEPT ![r] = first]
        /\ job' = [job EXCEPT ![r] = input]
        /\ first \notin {"insertCode", "putAccess", "putRefresh", "retire"}
        /\ UNCHANGED <<held, codes, tokens, refresh, origin>>
    BY <2>1 DEF Begin, Fits
  <2>3. ~Holds(r) /\ codes[r] = Absent
    BY <2>2 DEF TicketInv, HoldersAdvanced, StoreBacked
  <2>4. \A q \in Requests : q # r => job'[q] = job[q] /\ pc'[q] = pc[q]
    BY <2>2
  <2> QED BY <2>2, <2>3, <2>4
<1>2. ASSUME NEW r \in Requests, ValidateAuthorize(r)
      PROVE  LineageInv'
  BY <1>2 DEF ValidateAuthorize, LabelsFit, Typed, GrantKinds
<1>3. ASSUME NEW r \in Requests, UpstreamAuthorize(r)
      PROVE  LineageInv'
  BY <1>3 DEF UpstreamAuthorize, LabelsFit, Typed, GrantKinds
<1>4. ASSUME NEW r \in Requests, InsertCode(r)
      PROVE  LineageInv'
  BY <1>4 DEF InsertCode, LabelsFit, Typed, GrantKinds
<1>5. ASSUME NEW r \in Requests, Authenticate(r)
      PROVE  LineageInv'
  BY <1>5 DEF Authenticate, HandlerStart, LabelsFit, Typed, GrantKinds
<1>6. ASSUME NEW r \in Requests, TakeCode(r)
      PROVE  LineageInv'
  <2>k. PICK k \in Requests : k = job[r].ticket
    OBVIOUS
  <2>1. /\ pc[r] = "take" /\ job[r].kind = "code"
        /\ codes' = [codes EXCEPT ![k] = Absent]
        /\ UNCHANGED <<job, tokens, refresh>>
    BY <1>6, <2>k DEF TakeCode, RemoveCode, LabelsFit, Typed
  <2>2. CASE /\ \E label \in {"fail", "dropped"} : pc' = [pc EXCEPT ![r] = label]
             /\ UNCHANGED <<held, origin>>
    BY <2>1, <2>2
  <2>3. CASE /\ codes[k] # Absent
             /\ held' = [held EXCEPT ![r] = AsToken(codes[k])]
             /\ origin' = [origin EXCEPT ![r] = k]
             /\ pc' = [pc EXCEPT ![r] = "putAccess"]
    <3>1. CodeIssued(k) /\ ~Holds(r) /\ k # r
      BY <2>1, <2>3, <1>a
    <3>2. Stems(AsToken(codes[k]), k)
      BY <2>3
    <3>3. \A q \in Requests : CodeIssued(q) <=> CodeIssued(q)'
      BY <2>1, <2>3
    <3>4. \A q \in Requests :
            q # r => /\ origin'[q] = origin[q] /\ held'[q] = held[q]
                     /\ pc'[q] = pc[q] /\ (codes'[q] # Absent => codes'[q] = codes[q])
      BY <2>3, <2>1
    <3>5. ASSUME NEW q \in Requests, q # r, Holds(q), job[q].kind = "refresh"
          PROVE  job[q].ticket # r
      BY <3>5, <2>1, <1>a
    <3> QED BY <2>1, <2>3, <3>1, <3>2, <3>3, <3>4, <3>5
  <2> QED BY <1>6, <2>k, <2>2, <2>3 DEF TakeCode, RemoveCode, WithoutEnd
<1>7. ASSUME NEW r \in Requests, ReadRefresh(r)
      PROVE  LineageInv'
  BY <1>7 DEF ReadRefresh, WithoutEnd, LabelsFit, Typed, GrantKinds
<1>8. ASSUME NEW r \in Requests, PutAccess(r)
      PROVE  LineageInv'
  <2>1. /\ pc[r] = "putAccess" /\ pc' = [pc EXCEPT ![r] = "putRefresh"]
        /\ tokens' = [tokens EXCEPT ![r] = held[r]]
        /\ UNCHANGED <<job, held, codes, refresh, origin>>
    BY <1>8 DEF PutAccess
  <2>2. Holds(r)
    BY <2>1 DEF TicketInv, HoldersAdvanced
  <2> QED BY <2>1, <2>2
<1>9. ASSUME NEW r \in Requests, PutRefresh(r)
      PROVE  LineageInv'
  <2>1. /\ pc[r] = "putRefresh" /\ pc'[r] \in {"retire", "ok"}
        /\ \A q \in Requests : q # r => pc'[q] = pc[q]
        /\ pc' \in [Requests -> PcValues]
        /\ refresh' = [refresh EXCEPT ![r] = held[r]]
        /\ UNCHANGED <<job, held, codes, tokens, origin>>
    BY <1>9 DEF PutRefresh, PcValues, InFlight, Answered
  <2>2. Holds(r) /\ job[r].kind # "authorize"
    BY <2>1 DEF TicketInv, HoldersAdvanced, GrantKinds
  <2> QED BY <2>1, <2>2
<1>10. ASSUME NEW r \in Requests, RetireRefresh(r)
      PROVE  LineageInv'
  <2>k. PICK k \in Requests : k = job[r].ticket
    OBVIOUS
  <2>1. /\ pc[r] = "retire" /\ pc' = [pc EXCEPT ![r] = "ok"]
        /\ job[r].kind = "refresh" /\ held[r] \in Token
        /\ UNCHANGED <<job, held, codes, tokens, origin>>
    BY <1>10 DEF RetireRefresh, LabelsFit, Typed
  <2>2. Holds(r) /\ origin[r] = origin[k] /\ Holds(k)
    BY <2>1, <2>k DEF TicketInv, HoldersAdvanced
  <2>3. Stems(Revoked(held[r]), origin[k])
    BY <2>1, <2>2
  <2>4. \A q \in Requests : refresh'[q] # Absent =>
          \/ refresh'[q] = refresh[q]
          \/ q = k /\ refresh'[q] = Revoked(held[r])
    BY <1>10, <2>k DEF RetireRefresh
  <2> QED BY <2>1, <2>2, <2>3, <2>4
<1>11. ASSUME NEW r \in Requests, IssueClientToken(r)
      PROVE  LineageInv'
  BY <1>11 DEF IssueClientToken, WithoutEnd, LabelsFit, Typed, GrantKinds
<1>12. ASSUME NEW r \in Requests, RegisterClient(r)
      PROVE  LineageInv'
  BY <1>12 DEF RegisterClient, LabelsFit, Typed, GrantKinds
<1>13. ASSUME NEW r \in Requests, RevokeToken(r)
      PROVE  LineageInv'
  BY <1>13 DEF RevokeToken, Kill, LabelsFit, Typed, GrantKinds
<1>14. ASSUME NEW r \in Requests, ClearAll(r)
      PROVE  LineageInv'
  BY <1>14 DEF ClearAll, NoClients, NoCodes, AfterSeeding, LabelsFit, Typed, GrantKinds
<1>15. ASSUME NEW r \in Requests, SeedClient(r)
      PROVE  LineageInv'
  BY <1>15 DEF SeedClient, AfterSeeding, LabelsFit, Typed, GrantKinds
<1>16. ASSUME NEW r \in Requests, CountClients(r)
      PROVE  LineageInv'
  BY <1>16 DEF CountClients, LabelsFit, Typed, GrantKinds
<1>17. ASSUME NEW r \in Requests, Lapse(r)
      PROVE  LineageInv'
  BY <1>17 DEF Lapse, LabelsFit, Typed, GrantKinds
<1>18. ASSUME NEW r \in Requests, Disconnect(r)
      PROVE  LineageInv'
  BY <1>18 DEF Disconnect, LabelsFit, Typed, GrantKinds
<1>19. CASE UNCHANGED vars
  BY <1>19 DEF vars
<1> QED
  BY <1>1, <1>2, <1>3, <1>4, <1>5, <1>6, <1>7, <1>8, <1>9, <1>10, <1>11, <1>12, <1>13, <1>14, <1>15, <1>16, <1>17, <1>18, <1>19
  DEF Next, Serve, Rest

\* Before the first request nothing has been minted.
LEMMA InitLineage == Init => LineageInv
BY DEF Init, LineageInv, Holds

\* Who a token is for never changes hands: not when another client redeems the
\* code, not over any number of refreshes, not when handlers interleave.
THEOREM TokensKeepLineage == Spec => []LineageKept
<1>1. Spec => [](Typed /\ TicketInv /\ LineageInv)
  BY InitTyped, InitTickets, InitLineage, StepTyped, StepTickets, StepLineage, PTL
  DEF Spec
<1>2. Typed /\ TicketInv /\ LineageInv => LineageKept
  BY DEF LineageInv, LineageKept, Stems, CodeIssued
<1> QED BY <1>1, <1>2, PTL
=============================================================================
