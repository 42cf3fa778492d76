----------------------------- MODULE OAuthGrants -----------------------------
(***************************************************************************)
(* The stateful core of o2ms: the HTTP handlers that read and write the     *)
(* in-memory OAuth store (authorize, token, register, revoke, admin reset), *)
(* run concurrently by the tokio executor.  A handler suspends at every     *)
(* .await on the store and no lock spans two calls, so each store call is   *)
(* one action and handlers interleave between them.  What a handler does    *)
(* between two calls touches no shared state and belongs to the action      *)
(* before it.                                                               *)
(*                                                                          *)
(* Identifiers drawn at random by the code are the name of the request that *)
(* draws them: request r issues code r, access token r, refresh token r and *)
(* runtime client r.  A request is therefore used once.                     *)
(*                                                                          *)
(* A definition with a second form just before it (RemoveCodeReadOnly,      *)
(* RevokedNever, ...) is paired with a slip the code could have; nothing    *)
(* uses that form, it documents which property would notice the slip.       *)
(***************************************************************************)
EXTENDS Naturals, Sequences, FiniteSets

CONSTANTS
  Requests,       \* the HTTP requests of a behaviour
  Preloaded,      \* enabled clients of the configuration, in file order
  ConfiguredAuth, \* how each of them authenticates at /token
  Users,          \* declared users and the fallback user, named by their subjects,
                  \* which differ
  EnabledUsers,   \* the subjects of the enabled users
  Linked,         \* linked_users of each configured client
  DefaultUser,    \* the subject the upstream handler signs in
  PickerEnabled,  \* oauth.authorization_user_picker_enabled
  Ttls,           \* the lifetimes that access tokens and codes may be configured with
  Budget,         \* bound: how many requests of each kind a behaviour has
  Boot,           \* stamp of what start-up seeded
  Absent          \* no entry, no value

VARIABLES
  ttl,      \* the configured lifetimes: [access, code]
  pc,       \* the next store call of each request
  gone,     \* requests whose caller hung up: axum drops the handler
  job,      \* the input of each request
  held,     \* the code or token object a handler has read
  progress, \* how far a reset's seeding loop has come
  clients,  \* store: client id -> stamp of the entry, or Absent
  codes,    \* store: authorization codes
  tokens,   \* store: access tokens
  refresh,  \* store: refresh tokens
  lapsed,   \* codes whose expires_at has passed
  origin,   \* history: the authorization each minting request goes back to
  wiped,    \* history: the tickets answered before some clear_all
  late,     \* history: requests that present a ticket already in wiped
  cleared   \* history: the reset that cleared the store last, or Absent

store == <<clients, codes, tokens, refresh>>
history == <<origin, wiped, late, cleared>>
vars == <<ttl, pc, gone, job, held, progress, store, lapsed, history>>

-----------------------------------------------------------------------------
PreloadedIds == {Preloaded[i] : i \in 1..Len(Preloaded)}
ClientIds == PreloadedIds \cup Requests
Stamps == Requests \cup {Boot}

AuthKinds == {"open", "fixed", "generated", "unsupported"}
Kinds == {"authorize", "code", "refresh", "client", "register", "revoke", "reset"}
GrantKinds == {"code", "refresh"}
Verifiers == {"none", "match", "mismatch"}

Code == [client: ClientIds, user: Users, pkce: BOOLEAN]
Token == [client: ClientIds, user: Users, revoked: BOOLEAN]
Job == [kind: Kinds \cup {"none"}, client: ClientIds, secret: Stamps,
        user: Users, ticket: Requests, pkce: BOOLEAN, picks: BOOLEAN,
        verifier: Verifiers, auth: AuthKinds]

InFlight == {"lookup", "insertCode", "auth", "take", "read", "putAccess",
             "putRefresh", "retire", "readClient", "register", "revoke",
             "clear", "seed", "count"}
Answered == {"ok", "fail"}
\* dropped: the handler panicked, and its connection is closed without an answer
PcValues == InFlight \cup Answered \cup {"idle", "dropped"}

\* a lifetime in seconds may end at no date, or be no i64
Lifetimes == {"fits", "no_date", "no_i64"}

ASSUME StampAssumption == Boot \notin Requests
ASSUME AbsentAssumption ==
  /\ Absent \notin Stamps
  /\ Absent \notin Code \cup Token
ASSUME ConfigAssumption ==
  /\ Preloaded \in Seq(PreloadedIds)
  /\ \A i, j \in 1..Len(Preloaded) : Preloaded[i] = Preloaded[j] => i = j
  /\ PreloadedIds \cap Requests = {}
  /\ ConfiguredAuth \in [PreloadedIds -> AuthKinds]
  /\ Linked \in [PreloadedIds -> SUBSET Users]
  /\ EnabledUsers \subseteq Users
  /\ DefaultUser \in Users
  /\ PickerEnabled \in BOOLEAN
  /\ Ttls \subseteq [access : Lifetimes, code : Lifetimes]
  /\ Budget \in [Kinds -> Nat]

-----------------------------------------------------------------------------
\* Users the picker offers: the enabled ones, only the linked ones of them when
\* the client is configured and links any.
Eligible(c) == IF c \in PreloadedIds /\ Linked[c] # {}
               THEN Linked[c] \cap EnabledUsers
               ELSE EnabledUsers

\* token_endpoint_auth_method of a client, configured or registered at run time
AuthOf(c) == IF c \in PreloadedIds THEN ConfiguredAuth[c] ELSE job[c].auth

\* validate_client_auth.  A secret is named by the stamp of the entry that
\* carries it; a request that holds a wrong secret presents its own name.
\* A configured secret survives reseeding, a generated one does not.
Authenticates(r) ==
  LET c == job[r].client
  IN  /\ clients[c] # Absent
      /\ \/ AuthOf(c) = "open"
         \/ AuthOf(c) = "fixed" /\ job[r].secret # r
         \/ AuthOf(c) = "generated" /\ job[r].secret = clients[c]

\* PKCE is only compared when the code has a challenge and the caller a verifier
PkceAccepts(code, r) == ~(code.pkce /\ job[r].verifier = "mismatch")

CodeStoredAsIs(code) == code
AsToken(code) == [client |-> code.client, user |-> code.user, revoked |-> FALSE]
RevokedNever(token) == token
Revoked(token) == [token EXCEPT !.revoked = TRUE]

Goto(r, next) == pc' = [pc EXCEPT ![r] = next]
At(r, label) == r \notin gone /\ pc[r] = label

-----------------------------------------------------------------------------
Init ==
  /\ ttl \in Ttls
  /\ pc = [r \in Requests |-> "idle"]
  /\ gone = {}
  /\ job = [r \in Requests |->
             [kind |-> "none", client |-> r, secret |-> r, user |-> DefaultUser,
              ticket |-> r, pkce |-> FALSE, picks |-> FALSE, verifier |-> "none", auth |-> "open"]]
  /\ held = [r \in Requests |-> Absent]
  /\ progress = [r \in Requests |-> Len(Preloaded)]
  /\ clients = [c \in ClientIds |-> IF c \in PreloadedIds THEN Boot ELSE Absent]
  /\ codes = [r \in Requests |-> Absent]
  /\ tokens = [r \in Requests |-> Absent]
  /\ refresh = [r \in Requests |-> Absent]
  /\ lapsed = {}
  /\ origin = [r \in Requests |-> Absent]
  /\ wiped = {}
  /\ late = {}
  /\ cleared = Absent

-----------------------------------------------------------------------------
\* Arrival of requests.  What a caller can present is what it has been told:
\* ids of answered requests, or (r itself) a value the server never issued.

Begin(r, kind, first, input) ==
  /\ pc[r] = "idle"
  /\ Cardinality({q \in Requests : job[q].kind = kind}) < Budget[kind]
  /\ job' = [job EXCEPT ![r] = input]
  /\ Goto(r, first)
  /\ late' = IF input.ticket \in wiped THEN late \cup {r} ELSE late
  /\ UNCHANGED <<gone, held, progress, store, lapsed, origin, wiped, cleared, ttl>>

Told(kinds) == {q \in Requests : pc[q] = "ok" /\ job[q].kind \in kinds}
KnownClients == PreloadedIds \cup Told({"register"})
KnownSecrets(r) == {r, Boot} \cup Told({"register", "reset"})
\* without a challenge in the code a verifier is never looked at
Verifying(k) == IF job[k].pkce THEN Verifiers ELSE {"none"}
Presentable(r, c) == IF AuthOf(c) = "open" THEN {r} ELSE KnownSecrets(r)

\* picks: the picker is on, and response_type is "code"
StartAuthorize(r) ==
  \E c \in KnownClients, u \in Users, p \in BOOLEAN, picks \in {PickerEnabled, FALSE} :
    /\ picks \/ u = DefaultUser
    /\ Begin(r, "authorize", "lookup",
             [job[r] EXCEPT !.kind = "authorize", !.client = c, !.user = u, !.pkce = p,
                            !.picks = picks])

StartCode(r) ==
  \E c \in KnownClients, k \in Told({"authorize"}) \cup {r} :
    \E s \in Presentable(r, c), v \in Verifying(k) :
      Begin(r, "code", "auth",
            [job[r] EXCEPT !.kind = "code", !.client = c, !.secret = s,
                           !.ticket = k, !.verifier = v])

StartRefresh(r) ==
  \E c \in KnownClients, k \in Told(GrantKinds) \cup {r} :
    \E s \in Presentable(r, c) :
      Begin(r, "refresh", "auth",
            [job[r] EXCEPT !.kind = "refresh", !.client = c, !.secret = s,
                           !.ticket = k])

StartClientCredentials(r) ==
  \E c \in KnownClients : \E s \in Presentable(r, c) :
    Begin(r, "client", "auth",
          [job[r] EXCEPT !.kind = "client", !.client = c, !.secret = s])

StartRegister(r) ==
  \E a \in {"open", "generated"} :
    Begin(r, "register", "register", [job[r] EXCEPT !.kind = "register", !.auth = a])

StartRevoke(r) ==
  \E k \in Told(GrantKinds) :
    Begin(r, "revoke", "revoke", [job[r] EXCEPT !.kind = "revoke", !.ticket = k])

StartReset(r) == Begin(r, "reset", "clear", [job[r] EXCEPT !.kind = "reset"])

-----------------------------------------------------------------------------
\* POST /authorize, and GET /authorize where it stores a code

ValidateAuthorizeAnyUser(r) ==
  /\ At(r, "lookup") /\ job[r].picks
  /\ \/ /\ clients[job[r].client] # Absent
        /\ held' = [held EXCEPT ![r] = [client |-> job[r].client,
                                        user |-> job[r].user, pkce |-> job[r].pkce]]
        /\ Goto(r, "insertCode")
     \/ Goto(r, "fail") /\ UNCHANGED held
  /\ UNCHANGED <<gone, job, progress, store, lapsed, history, ttl>>

\* validate_authorize_request, then the choice of the user: get_client, the
\* checks of the other parameters (their outcome is the environment's), and the
\* selected user must be one the picker offers.
ValidateAuthorize(r) ==
  /\ At(r, "lookup") /\ job[r].picks
  /\ \/ /\ clients[job[r].client] # Absent
        /\ job[r].user \in Eligible(job[r].client)
        /\ held' = [held EXCEPT ![r] = [client |-> job[r].client,
                                        user |-> job[r].user, pkce |-> job[r].pkce]]
        /\ Goto(r, "insertCode")
     \/ Goto(r, "fail") /\ UNCHANGED held
  /\ UNCHANGED <<gone, job, progress, store, lapsed, history, ttl>>

\* GET /authorize with the picker disabled, or for another response_type than "code":
\* the upstream handler, which may refuse, signs in its default user.
UpstreamAuthorize(r) ==
  /\ At(r, "lookup") /\ ~job[r].picks
  /\ \/ /\ clients[job[r].client] # Absent
        /\ held' = [held EXCEPT ![r] = [client |-> job[r].client,
                                        user |-> DefaultUser, pkce |-> job[r].pkce]]
        /\ Goto(r, "insertCode")
     \/ Goto(r, "fail") /\ UNCHANGED held
  /\ UNCHANGED <<gone, job, progress, store, lapsed, history, ttl>>

\* issue_authorization_code_response: a lifetime that is no i64 is replaced by 600
\* seconds, one that ends at no date panics before the code is stored.  What the
\* upstream handler does with either is external.
InsertCode(r) ==
  /\ At(r, "insertCode")
  /\ \/ /\ ttl.code = "no_date" => ~job[r].picks
        /\ codes' = [codes EXCEPT ![r] = held[r]]
        /\ Goto(r, "ok")
     \/ /\ ttl.code = "no_date" \/ (ttl.code = "no_i64" /\ ~job[r].picks)
        /\ Goto(r, "dropped")
        /\ UNCHANGED codes
  /\ UNCHANGED <<gone, job, held, progress, clients, tokens, refresh, lapsed, history, ttl>>

-----------------------------------------------------------------------------
\* POST /token

HandlerStart(kind) == CASE kind = "code" -> "take"
                        [] kind = "refresh" -> "read"
                        [] OTHER -> "readClient"

\* validate_client_auth, then the dispatch on grant_type
Authenticate(r) ==
  /\ At(r, "auth")
  /\ Goto(r, IF Authenticates(r) THEN HandlerStart(job[r].kind) ELSE "fail")
  /\ UNCHANGED <<gone, job, held, progress, store, lapsed, history, ttl>>

\* the store's remove_code, which takes the code out and returns it
RemoveCodeReadOnly(k) == codes
RemoveCode(k) == [codes EXCEPT ![k] = Absent]

\* issue_access_token and the token's expires_at: a lifetime that is no i64 is an
\* error, one that ends at no date panics
WithoutEnd == IF ttl.access = "no_date" THEN "dropped" ELSE "fail"

\* The code leaves the store before anything is checked: one that has expired or
\* fails PKCE is lost as well, and so is one whose token can have no end.
TakeCode(r) ==
  LET k == job[r].ticket
      code == codes[k]
      accepted == code # Absent /\ k \notin lapsed /\ PkceAccepts(code, r)
  IN  /\ At(r, "take")
      /\ codes' = RemoveCode(k)
      /\ IF accepted /\ ttl.access = "fits"
         THEN /\ held' = [held EXCEPT ![r] = AsToken(code)]
              /\ origin' = [origin EXCEPT ![r] = k]
              /\ Goto(r, "putAccess")
         ELSE /\ Goto(r, IF accepted THEN WithoutEnd ELSE "fail")
              /\ UNCHANGED <<held, origin>>
      /\ UNCHANGED <<gone, job, progress, clients, tokens, refresh, lapsed, wiped, late,
                     cleared, ttl>>

\* get_refresh_token only reads: the token stays usable until RetireRefresh
ReadRefresh(r) ==
  LET k == job[r].ticket
      token == refresh[k]
      accepted == token # Absent /\ ~token.revoked
  IN  /\ At(r, "read")
      /\ IF accepted /\ ttl.access = "fits"
         THEN /\ held' = [held EXCEPT ![r] = token]
              /\ origin' = [origin EXCEPT ![r] = origin[k]]
              /\ Goto(r, "putAccess")
         ELSE /\ Goto(r, IF accepted THEN WithoutEnd ELSE "fail")
              /\ UNCHANGED <<held, origin>>
      /\ UNCHANGED <<gone, job, progress, store, lapsed, wiped, late, cleared, ttl>>

\* insert_token: the new token carries the client and user of the ticket, not
\* those of the authenticated caller
PutAccess(r) ==
  /\ At(r, "putAccess")
  /\ tokens' = [tokens EXCEPT ![r] = held[r]]
  /\ Goto(r, "putRefresh")
  /\ UNCHANGED <<gone, job, held, progress, clients, codes, refresh, lapsed, history, ttl>>

\* insert_refresh_token
PutRefresh(r) ==
  /\ At(r, "putRefresh")
  /\ refresh' = [refresh EXCEPT ![r] = held[r]]
  /\ Goto(r, IF job[r].kind = "refresh" THEN "retire" ELSE "ok")
  /\ UNCHANGED <<gone, job, held, progress, clients, codes, tokens, lapsed, history, ttl>>

\* update_refresh_token writes the object read by ReadRefresh back, revoked.
\* Whether the store's update inserts an entry cleared meanwhile is external.
RetireRefresh(r) ==
  LET k == job[r].ticket
  IN  /\ At(r, "retire")
      /\ \/ refresh' = [refresh EXCEPT ![k] = Revoked(held[r])]
         \/ refresh[k] = Absent /\ UNCHANGED refresh
      /\ Goto(r, "ok")
      /\ UNCHANGED <<gone, job, held, progress, clients, codes, tokens, lapsed, history, ttl>>

IssueClientTokenPolling(r) ==
  /\ At(r, "readClient")
  /\ IF clients[job[r].client] # Absent THEN Goto(r, "ok") ELSE UNCHANGED pc
  /\ UNCHANGED <<gone, job, held, progress, store, lapsed, history, ttl>>

\* client_credentials reads the client a second time; the scope checks may
\* refuse; the access token is signed and returned but never stored
IssueClientToken(r) ==
  /\ At(r, "readClient")
  /\ \/ clients[job[r].client] # Absent
        /\ Goto(r, IF ttl.access = "fits" THEN "ok" ELSE WithoutEnd)
     \/ Goto(r, "fail")
  /\ UNCHANGED <<gone, job, held, progress, store, lapsed, history, ttl>>

-----------------------------------------------------------------------------
\* POST /register and POST /revoke are upstream handlers behind a proxy

RegisterClient(r) ==
  /\ At(r, "register")
  /\ clients' = [clients EXCEPT ![r] = r]
  /\ Goto(r, "ok")
  /\ UNCHANGED <<gone, job, held, progress, codes, tokens, refresh, lapsed, history, ttl>>

\* either kind of token may be the one presented; it is marked, or deleted
Kill(entry) == IF entry = Absent THEN {Absent} ELSE {Absent, Revoked(entry)}

RevokeToken(r) ==
  LET k == job[r].ticket
  IN  /\ At(r, "revoke")
      /\ \/ /\ \E dead \in Kill(tokens[k]) : tokens' = [tokens EXCEPT ![k] = dead]
            /\ UNCHANGED refresh
         \/ /\ \E dead \in Kill(refresh[k]) : refresh' = [refresh EXCEPT ![k] = dead]
            /\ UNCHANGED tokens
      /\ Goto(r, "ok")
      /\ UNCHANGED <<gone, job, held, progress, clients, codes, lapsed, history, ttl>>

-----------------------------------------------------------------------------
\* POST /admin/reset: clear_all, then one insert_client per configured client,
\* then the count.  The four counts before clear_all only feed the answer.

AfterSeedingOneShort(done) ==
  IF done + 1 >= Len(Preloaded) THEN "count" ELSE "seed"
AfterSeeding(done) == IF done = Len(Preloaded) THEN "count" ELSE "seed"

NoPreloadedClients == [c \in ClientIds |-> IF c \in PreloadedIds THEN Absent ELSE clients[c]]
NoClients == [c \in ClientIds |-> Absent]

CodesKept == codes
NoCodes == [k \in Requests |-> Absent]

ClearAll(r) ==
  /\ At(r, "clear")
  /\ clients' = NoClients
  /\ codes' = NoCodes
  /\ tokens' = [q \in Requests |-> Absent]
  /\ refresh' = [q \in Requests |-> Absent]
  /\ progress' = [progress EXCEPT ![r] = 0]
  /\ wiped' = wiped \cup {q \in Requests : pc[q] = "ok"}
  /\ cleared' = r
  /\ Goto(r, AfterSeeding(0))
  /\ UNCHANGED <<gone, job, held, lapsed, origin, late, ttl>>

SeedClient(r) ==
  LET i == progress[r] + 1
  IN  /\ At(r, "seed")
      /\ clients' = [clients EXCEPT ![Preloaded[i]] = r]
      /\ progress' = [progress EXCEPT ![r] = i]
      /\ Goto(r, AfterSeeding(i))
      /\ UNCHANGED <<gone, job, held, codes, tokens, refresh, lapsed, history, ttl>>

CountClients(r) ==
  /\ At(r, "count")
  /\ Goto(r, "ok")
  /\ UNCHANGED <<gone, job, held, progress, store, lapsed, history, ttl>>

-----------------------------------------------------------------------------
\* The environment

\* a code in the store reaches its expires_at
Lapse(k) ==
  /\ codes[k] # Absent
  /\ k \notin lapsed
  /\ lapsed' = lapsed \cup {k}
  /\ UNCHANGED <<pc, gone, job, held, progress, store, history, ttl>>

\* the caller closes the connection and the handler is dropped at an .await
Disconnect(r) ==
  /\ pc[r] \in InFlight
  /\ r \notin gone
  /\ gone' = gone \cup {r}
  /\ UNCHANGED <<pc, job, held, progress, store, lapsed, history, ttl>>

\* no request is left to serve; the server idles
Rest ==
  /\ \A r \in Requests : r \in gone \/ pc[r] \notin InFlight
  /\ UNCHANGED vars

Start(r) ==
  \/ StartAuthorize(r) \/ StartCode(r) \/ StartRefresh(r)
  \/ StartClientCredentials(r) \/ StartRegister(r) \/ StartRevoke(r)
  \/ StartReset(r)

Serve(r) ==
  \/ ValidateAuthorize(r) \/ UpstreamAuthorize(r) \/ InsertCode(r)
  \/ Authenticate(r) \/ TakeCode(r) \/ ReadRefresh(r) \/ PutAccess(r)
  \/ PutRefresh(r) \/ RetireRefresh(r) \/ IssueClientToken(r)
  \/ RegisterClient(r) \/ RevokeToken(r)
  \/ ClearAll(r) \/ SeedClient(r) \/ CountClients(r)

Next ==
  \/ \E r \in Requests : Start(r) \/ Serve(r) \/ Lapse(r) \/ Disconnect(r)
  \/ Rest

Spec == Init /\ [][Next]_vars

\* tokio polls every handler that can run until it completes
FairSpec == Spec /\ \A r \in Requests : WF_vars(Serve(r))

-----------------------------------------------------------------------------
\* What callers are promised about tickets, whatever the handlers do in between:
\* the refinement mapping to GrantLedger.

Usable(k) == codes[k] # Absent \/ (refresh[k] # Absent /\ ~refresh[k].revoked)

CodeIssued(k) == job[k].kind = "authorize" /\ pc[k] = "ok"
RefreshIssued(k) == job[k].kind \in GrantKinds /\ pc[k] \in {"retire", "ok"}

TicketStatus(k) == IF Usable(k) THEN "live"
                   ELSE IF CodeIssued(k) \/ RefreshIssued(k) THEN "spent"
                   ELSE "unissued"

\* requests that were handed a grant, by remove_code or by get_refresh_token
Holds(r) == origin[r] # Absent

Ledger == INSTANCE GrantLedger WITH
  Tickets <- Requests,
  None <- Absent,
  status <- [k \in Requests |-> TicketStatus(k)],
  roots <- {k \in Requests : CodeIssued(k)},
  claim <- [r \in Requests |-> IF Holds(r) THEN job[r].ticket ELSE Absent],
  settled <- {r \in Requests : job[r].kind = "refresh" /\ pc[r] = "ok"}

\* The handlers implement the ledger: tickets are issued once, claimed only
\* while live, codes spent by their claim, and a spent ticket never comes back,
\* although redeeming takes up to five store calls that others interleave.
LedgerSpec == Ledger!Spec

-----------------------------------------------------------------------------
\* Every variable stays within its type.
TypeOK ==
  /\ ttl \in Ttls
  /\ pc \in [Requests -> PcValues]
  /\ gone \subseteq Requests
  /\ job \in [Requests -> Job]
  /\ held \in [Requests -> Code \cup Token \cup {Absent}]
  /\ progress \in [Requests -> 0..Len(Preloaded)]
  /\ clients \in [ClientIds -> Stamps \cup {Absent}]
  /\ codes \in [Requests -> Code \cup {Absent}]
  /\ tokens \in [Requests -> Token \cup {Absent}]
  /\ refresh \in [Requests -> Token \cup {Absent}]
  /\ lapsed \subseteq Requests
  /\ origin \in [Requests -> Requests \cup {Absent}]
  /\ wiped \subseteq Requests
  /\ late \subseteq Requests
  /\ cleared \in Requests \cup {Absent}

\* At most one request is ever granted tokens for an authorization code, in any
\* interleaving of callers, resets, hang-ups and expiries.
CodeBacksOneGrant ==
  \A q, r \in Requests :
    /\ q # r
    /\ job[q].kind = "code" /\ Holds(q)
    /\ job[r].kind = "code" /\ Holds(r)
    => job[q].ticket # job[r].ticket

\* Across code, access token and every generation of refresh token, a stored
\* token names the client and the user of the authorization it goes back to,
\* and that user was one the picker offers for that client (or the default user
\* when the authorization went past the picker).
LineageKept ==
  \A r \in Requests : \A token \in {tokens[r], refresh[r]} :
    token # Absent =>
      /\ Holds(r)
      /\ job[origin[r]].kind = "authorize"
      /\ token.client = job[origin[r]].client
      /\ IF job[origin[r]].picks
         THEN /\ token.user = job[origin[r]].user
              /\ token.user \in Eligible(token.client)
         ELSE token.user = DefaultUser

\* Once a refresh request has been answered, the token it presented is never
\* usable again: two uses of one refresh token must overlap in time.
SpentRefreshIsDead ==
  \A r \in Requests :
    job[r].kind = "refresh" /\ pc[r] = "ok" =>
      LET token == refresh[job[r].ticket]
      IN  token = Absent \/ token.revoked

\* A code or refresh token that a reset found in the hands of a caller can no
\* longer be redeemed by any request that arrives after the reset cleared it.
WipedTicketsAreDead == \A r \in late : ~Holds(r)

\* A configured client is missing from the store only while the last reset to clear it
\* is seeding and has the client ahead.  If that reset was hung up on, the client stays
\* missing until the next one; once that is answered all are back, whatever other
\* resets were cut short before it.
PreloadedPresentOrPending ==
  \A i \in 1..Len(Preloaded) :
    clients[Preloaded[i]] = Absent =>
      cleared # Absent /\ pc[cleared] = "seed" /\ progress[cleared] < i

\* A client registered at run time before a reset cleared the store never
\* reappears, however resets, seeding and registrations interleave.
ClearedClientsStayAway ==
  \A c \in wiped : job[c].kind = "register" => clients[c] = Absent

\* What the documentation says of /admin/reset: it clears the tokens.  A token
\* that goes back to an authorization answered before clear_all is gone.
ResetClearsTokens ==
  \A r \in Requests : tokens[r] # Absent => origin[r] \notin wiped

\* a lifetime the handler of r may be stopped by
Unending(r) == IF job[r].kind = "authorize" THEN ttl.code # "fits" ELSE ttl.access = "no_date"

\* Every request that arrives is answered, unless its caller hangs up, or the lifetime
\* of what it asks for ends at no date.
EveryRequestAnswered ==
  \A r \in Requests :
    pc[r] \in InFlight ~>
      \/ pc[r] \in Answered \/ r \in gone
      \/ pc[r] = "dropped" /\ Unending(r)
=============================================================================
