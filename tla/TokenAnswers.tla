----------------------------- MODULE TokenAnswers -----------------------------
(***************************************************************************)
(* What the tokens and answers of one authorization say: scopes from the     *)
(* picker through its redemption and renewals, claims merged from client,    *)
(* templates and user, and the shape of the answer.  A behaviour has one     *)
(* validated configuration.  Requests that are refused, and the fate of      *)
(* tickets when requests overlap, are in OAuthGrants.                        *)
(***************************************************************************)
EXTENDS Naturals, Sequences, FiniteSets, FiniteSetsExt, SequencesExt, TLC

CONSTANTS
  Configs,  \* configurations considered, valid or not
  Scopes,   \* scopes a caller may name
  Runtime,  \* registered scopes of clients that /register has added, by client_id
  None      \* an absent value

\* clients and users are lists, and each of them lists the templates it refers to
ListsAssumption ==
  \A c \in Configs :
    /\ DOMAIN c.clients \cup DOMAIN c.users \subseteq Nat
    /\ None \notin Range(c.clients) \cup Range(c.users)
    /\ \A owner \in Range(c.clients) \cup Range(c.users) : owner.refs \in Seq(STRING)
\* there are no other scopes
ScopesAssumption ==
  /\ \A c \in Configs : c.supported \subseteq Scopes
  /\ \A id \in DOMAIN Runtime : Runtime[id] \subseteq Scopes
ASSUME ListsAssumption
ASSUME ScopesAssumption

VARIABLES
  config,  \* AppConfig
  ticket,  \* the code or refresh token that is live
  answer,  \* the answer of /token, if that was the last request
  first    \* history: the token granted for the code of this authorization

vars == <<config, ticket, answer, first>>

-----------------------------------------------------------------------------
\* A set of claims is a function from claim names to where their value comes from.

NoClaims == [name \in {} |-> None]
Protected == {"iss", "aud", "exp", "iat", "jti"}
ServerNames ==
  Protected \cup {"sub", "scope", "typ", "azp", "sid", "auth_time"}
TokenFields == {"access_token", "refresh_token", "id_token"}

FirstSuch(seq, Test(_)) ==
  LET hits == {i \in DOMAIN seq : Test(seq[i])}
  IN  IF hits = {} THEN None ELSE seq[Min(hits)]

EnabledClient(id) ==
  FirstSuch(config.clients, LAMBDA client : client.enabled /\ client.id = id)
EnabledUserBySub(sub) ==
  FirstSuch(config.users, LAMBDA user : user.enabled /\ user.sub = sub)

-----------------------------------------------------------------------------
\* Validation, as far as claims, scopes, users and answers depend on it.

ValidClaimNames(claims) == DOMAIN claims \cap Protected = {}
ValidRefs(c, refs) == Range(refs) \subseteq DOMAIN c.templates
ValidResponse(response) == response.body \/ response.headers # {}
UniqueIds(seq) == \A i, j \in DOMAIN seq : seq[i].id = seq[j].id => i = j

\* slip: default_scopes are not looked at when allowed_scopes is empty
ValidAllowedScopes(c, client) ==
  client.allowed \subseteq c.supported

ValidScopes(c, client) ==
  /\ client.allowed \subseteq c.supported
  /\ client.default \subseteq c.supported
  /\ client.allowed # {} => client.default \subseteq client.allowed

ValidClient(c, client) ==
  /\ ValidScopes(c, client)
  /\ client.override # None => ValidResponse(client.override)
  /\ client.linked \subseteq {user.id : user \in Range(c.users)}
  /\ ValidClaimNames(client.custom)
  /\ ValidRefs(c, client.refs)

ValidUser(c, user) ==
  /\ user.default \subseteq c.supported
  /\ ValidClaimNames(user.custom)
  /\ ValidRefs(c, user.refs)

Valid(c) ==
  /\ ValidResponse(c.response)
  /\ UniqueIds(c.clients) /\ \A client \in Range(c.clients) : ValidClient(c, client)
  /\ UniqueIds(c.users) /\ \A user \in Range(c.users) : ValidUser(c, user)
  /\ \A name \in DOMAIN c.templates : ValidClaimNames(c.templates[name])

-----------------------------------------------------------------------------
\* Clients in the store, and the scopes they are registered with

Seeded == {client \in Range(config.clients) : client.enabled}
Stored == {client.id : client \in Seeded} \cup DOMAIN Runtime

RegisteredScopes(id) ==
  LET client == EnabledClient(id)
  IN  IF client = None THEN Runtime[id]
      ELSE IF client.allowed = {} THEN client.default ELSE client.allowed

Eligible(id) ==
  LET client == EnabledClient(id)
      enabled == {user \in Range(config.users) : user.enabled}
  IN  IF client = None \/ client.linked = {} THEN enabled
      ELSE {user \in enabled : user.id \in client.linked}

\* slip: an entry that is there stays
ApplyClaimsOnce(claims, source) ==
  [name \in DOMAIN claims \cup DOMAIN source |->
     IF name \in DOMAIN claims THEN claims[name] ELSE source[name]]

\* Map::insert overwrites
ApplyClaims(claims, source) ==
  [name \in DOMAIN claims \cup DOMAIN source |->
     IF name \in DOMAIN source THEN source[name] ELSE claims[name]]

\* a template that is not there has no claims
Bundles(templates, refs) ==
  [i \in DOMAIN refs |->
     IF refs[i] \in DOMAIN templates THEN templates[refs[i]] ELSE NoClaims]

\* merged_claims takes source after source
ClientSources(client) ==
  IF client = None THEN <<>>
  ELSE Bundles(config.templates, client.refs) \o <<client.custom>>
UserSources(user) ==
  IF user = None THEN <<>>
  ELSE <<user.standard>> \o Bundles(config.templates, user.refs) \o <<user.custom>>

MergedClaims(sources) == FoldLeft(ApplyClaims, NoClaims, sources)

ClaimsForSubject(id, sub) ==
  MergedClaims(ClientSources(EnabledClient(id)) \o UserSources(EnabledUserBySub(sub)))

\* issue_access_token: the server's claims are inserted last
AccessToken(id, sub, scope) ==
  [client |-> id, subject |-> sub, scope |-> scope,
   claims |-> ApplyClaims(ClaimsForSubject(id, sub), [n \in ServerNames |-> "server"])]

\* shape_response: the client's own policy replaces the global one as a whole;
\* headers, each named by the field it shows, are skipped for fields the answer
\* does not have
Response(id) ==
  LET client == EnabledClient(id)
  IN  IF client = None \/ client.override = None THEN config.response ELSE client.override

\* slip: a header for every entry
ShapedInFull(id, fields) ==
  LET response == Response(id)
  IN  [body |-> response.body, headers |-> response.headers]

Shaped(id, fields) ==
  LET response == Response(id)
  IN  [body |-> response.body,
       headers |-> response.headers \cap fields]

\* issue_optional_id_token: whether there is one
IdentityFields(scope) == {field \in {"id_token"} : "openid" \in scope}

Answer(kind, from, token, fields) ==
  [kind |-> kind, token |-> token, asked |-> from.asked,
   fields |-> fields, output |-> Shaped(token.client, fields)]

-----------------------------------------------------------------------------
Init ==
  /\ config \in {c \in Configs : Valid(c)}
  /\ ticket = None
  /\ answer = None
  /\ first = None

\* slip: the code carries what was asked for
SubmitUnchecked(id, user, asked) ==
  /\ id \in Stored
  /\ user \in Eligible(id)
  /\ ticket' = [kind |-> "code", client |-> id, subject |-> user.sub, scope |-> asked,
                asked |-> asked]
  /\ answer' = None
  /\ first' = None
  /\ UNCHANGED config

\* POST /authorize: the user picked for the client, and the scopes both of the
\* request and of the client.  The code keeps the sub; asked is history.
Submit(id, user, asked) ==
  /\ id \in Stored
  /\ user \in Eligible(id)
  /\ ticket' = [kind |-> "code", client |-> id, subject |-> user.sub,
                scope |-> asked \cap RegisteredScopes(id),
                asked |-> asked]
  /\ answer' = None
  /\ first' = None
  /\ UNCHANGED config

\* POST /token, authorization code
RedeemCode ==
  /\ ticket # None /\ ticket.kind = "code"
  /\ LET token == AccessToken(ticket.client, ticket.subject, ticket.scope)
     IN  /\ answer' = Answer("code", ticket, token,
                             {"access_token", "refresh_token"} \cup IdentityFields(ticket.scope))
         /\ first' = token
  /\ ticket' = [ticket EXCEPT !.kind = "refresh"]
  /\ UNCHANGED config

\* slip: a renewal is for the default user
RefreshForDefaultUser ==
  /\ ticket # None /\ ticket.kind = "refresh"
  /\ LET user == FirstSuch(config.users, LAMBDA u : u.enabled)
     IN  answer' = Answer("refresh", ticket,
                          AccessToken(ticket.client, user.sub, ticket.scope),
                          {"access_token", "refresh_token"})
  /\ UNCHANGED <<config, ticket, first>>

\* POST /token, refresh token
Refresh ==
  /\ ticket # None /\ ticket.kind = "refresh"
  /\ answer' = Answer("refresh", ticket,
                      AccessToken(ticket.client, ticket.subject, ticket.scope),
                      {"access_token", "refresh_token"})
  /\ UNCHANGED <<config, ticket, first>>

\* POST /token, client credentials: all scopes of the client unless it asks for some
ClientCredentials(id, asked) ==
  /\ id \in Stored
  /\ asked \subseteq RegisteredScopes(id)
  /\ LET scope == IF asked = {} THEN RegisteredScopes(id) ELSE asked
     IN  answer' = Answer("client_credentials", [asked |-> asked],
                          AccessToken(id, "client", scope), {"access_token"})
  /\ UNCHANGED <<config, ticket, first>>

Next ==
  \/ \E id \in Stored, asked \in SUBSET Scopes :
       \E user \in Eligible(id) : Submit(id, user, asked)
  \/ RedeemCode
  \/ Refresh
  \/ \E id \in Stored, asked \in SUBSET Scopes : ClientCredentials(id, asked)

Spec == Init /\ [][Next]_vars

-----------------------------------------------------------------------------
\* A ticket names a client of the store, scopes are those callers may name, and
\* headers show fields the answer has.
TypeOK ==
  /\ config \in Configs
  /\ ticket # None =>
       /\ ticket.kind \in {"code", "refresh"}
       /\ ticket.client \in Stored
       /\ ticket.scope \subseteq Scopes
  /\ answer # None =>
       /\ answer.token.client \in Stored
       /\ answer.token.scope \subseteq Scopes
       /\ answer.output.headers \subseteq answer.fields
       /\ answer.fields \subseteq TokenFields

\* From the authorization to any renewal, a token has no scope that its client is
\* not registered for, that the request it goes back to did not name, or, for a
\* configured client, that the server does not support.
ScopesWithinGrant ==
  answer # None =>
    LET token == answer.token
    IN  /\ token.scope \subseteq RegisteredScopes(token.client)
        /\ answer.kind # "client_credentials" \/ answer.asked # {} =>
             token.scope \subseteq answer.asked
        /\ EnabledClient(token.client) # None => token.scope \subseteq config.supported

\* A renewed token says what the token of its authorization said.
RenewalSaysTheSame ==
  answer # None /\ answer.kind = "refresh" /\ first # None => answer.token = first

\* The sources of claims for a client and a subject, each with its rank in the
\* configuration guide: the kind of source, and its place among its kind.
RankedSources(id, sub) ==
  LET client == EnabledClient(id)
      user == EnabledUserBySub(sub)
      bundles(kind, owner) ==
        {[rank |-> <<kind, i>>, claims |-> config.templates[owner.refs[i]]] :
           i \in DOMAIN owner.refs}
      ofClient == bundles(1, client) \cup {[rank |-> <<2, 0>>, claims |-> client.custom]}
      ofUser == bundles(4, user) \cup {[rank |-> <<3, 0>>, claims |-> user.standard],
                                       [rank |-> <<5, 0>>, claims |-> user.custom]}
  IN  (IF client = None THEN {} ELSE ofClient) \cup (IF user = None THEN {} ELSE ofUser)

Outranks(s, t) ==
  \/ s.rank[1] > t.rank[1]
  \/ s.rank[1] = t.rank[1] /\ s.rank[2] > t.rank[2]

\* Each claim of an access token has the value of the source of highest rank that
\* names it, no source is forgotten, and nothing overrides what the server says.
HighestRankWins ==
  answer # None =>
    LET claims == answer.token.claims
        sources == RankedSources(answer.token.client, answer.token.subject)
    IN  /\ DOMAIN claims = ServerNames \cup UNION {DOMAIN s.claims : s \in sources}
        /\ \A name \in ServerNames : claims[name] = "server"
        /\ \A name \in DOMAIN claims \ ServerNames :
             \E s \in sources :
               /\ name \in DOMAIN s.claims /\ claims[name] = s.claims[name]
               /\ \A t \in sources : name \in DOMAIN t.claims => ~Outranks(t, s)
=============================================================================
