# o2ms in TLA+

o2ms is a mock OAuth 2 / OpenID Connect server for development and tests: an axum
application on tokio that wraps the crate `oauth2-test-server` (its in-memory store, its
keys, and some handlers), adds its own `/authorize` user picker and `/token` endpoint,
seeds clients from YAML, offers `/admin/reset`, and can act as an API gateway. This
directory holds a model of it, the model-checking runs, and machine-checked proofs.
Paths below are relative to the repository; Rust files are under `crate/src/`.

## 1. Inventory

| Part | State it keeps | Operations | Talks to |
|---|---|---|---|
| OAuth handlers (`http/oauth/*`) | none of their own; each request has its locals across `.await`s | authorize, submit, token (code, refresh, client credentials), register, revoke | the store, configuration, claims |
| Store (external, `state.upstream.store`) | clients, codes, access tokens, refresh tokens | get, insert, remove, update, `clear_all`; each call atomic | every handler |
| Admin (`http/admin.rs`) | none | list clients, reset, show configuration | the store, the client registry |
| Client and user registry (`registry/*`) | the configuration, read only | enabled clients, seeding, eligible users, default user | the store |
| Gateway (`gateway/mod.rs`) | route table and HTTP client, read only | route, check the token, call the upstream under a deadline, relay | signing keys, upstream APIs |
| Claims (`claims/*`) | none | merge user, client and server claims, sign | configuration, keys |
| Token response (`http/token_response.rs`) | policy, read only | shape the answer of `/token` | configuration |
| Configuration (`config/*`, `cli.rs`) | the loaded configuration | load from defaults, file, environment, command line; validate | everything |
| Start-up (`app/*`, `upstream/adapter.rs`, `main.rs`) | the listener task | validate, bind, build keys and store, seed, serve, shut down | everything |
| Router (`http/router.rs`, `health.rs`) | none | which routes exist; CORS; body limit | handlers |

What is hard here, and what makes each part correct:

- **Handlers interleave at every `.await`.** No lock spans two store calls. A redemption
  is up to four calls, a refresh five, a reset five and one per configured client. Correct means: one
  grant per authorization code, a refresh token is dead once its use was answered, tokens
  keep the client and the user of the authorization whoever presents the tickets.
- **A reset crosses everything.** It clears the store between any two calls of other
  handlers, and then seeds one client at a time. Correct means: tickets cleared by it are
  worthless, configured clients come back, runtime clients do not, and (the documentation's
  view, which the code does not meet) no token survives.
- **A caller may hang up.** axum drops the handler wherever it is suspended: half a
  redemption, half a seeding.
- **The gateway faces an upstream that owes it nothing.** It must answer within its
  deadline, say the truth about what happened, and let no dead token through.
- **Start-up takes callers before it is ready.** The listener exists while clients are still
  seeded and no router is there; shutdown and signals come at any time. Correct means: nobody
  is handled early, nobody is left waiting, and a start that fails says so (it does not always:
  what validation accepts may still fail, or panic, once the listener is bound).
- **Pure decisions** (routing, URL rewriting, claim precedence, configuration precedence
  and validation, which endpoint a path belongs to) have overlapping cases that a handful of
  unit tests do not reach, and several lists that must agree without anything making them.

`PROJECT.json` lists every component and every hazard at its line.

## 2. Modules

| Module | Role |
|---|---|
| `OAuthGrants` | the handlers that touch the store, one action per store call |
| `GrantLedger` | what those handlers promise about tickets, without handlers or store calls |
| `OAuthGrantsProofs` | its invariants proved for every value of the constants |
| `OAuthGrantsRefinement` | `OAuthGrants` implements `GrantLedger`, proved |
| `NumberFacts` | least and greatest numbers and induction, for the other proofs |
| `Routing` | operators: which prefixes are valid, which route a path has, how the path is rewritten |
| `RoutingProofs` | lemmas about them |
| `GatewayRoutes` | routing of one request, against a reference by segments |
| `GatewayRoutesProofs` | types, the route found, and what is forwarded, proved |
| `Gateway` | proxied requests with tokens, deadline, upstream, hang-ups, restarts |
| `GatewayProofs` | safety of `Gateway`, proved |
| `TokenAnswers` | scopes, claims and answers of one authorization, for validated configurations |
| `TokenAnswersProofs` | its types, scope, renewal and claim properties, proved |
| `AppConfig` | operators: command line, sources and their precedence, validation |
| `Server` | the life of the process, and what its router makes of requests |
| `ServerProofs` | safety of `Server`, proved |
| `MC*` | constants of the model-checking instances |

`Server` and `GatewayRoutes` build on `Routing`, `Server` on `AppConfig`. The parts meet at
narrow places: the state `Server` has when it serves is the `Init` of `OAuthGrants` and
`Gateway`; the configurations it serves are those `TokenAnswers` starts from; the handler
it picks for a request is where the other modules begin.

### OAuthGrants

A request is a member of `Requests` and is used once. The random identifiers of the code
(code, access token, refresh token, client id) are named by the request that draws them,
so they are distinct, as `generate_code` and `generate_token_string` make them.

| Variable | Code |
|---|---|
| `pc`, `job`, `held` | where a handler is suspended, its form, the object it has read (`code_obj`, `token`) |
| `gone` | handlers dropped because their caller hung up |
| `progress` | the loop variable of `seed_clients` |
| `clients`, `codes`, `tokens`, `refresh` | the maps of the store; a client entry carries the name of the seeding that wrote it, because `to_upstream_client` draws a new secret for a client without a configured one |
| `lapsed` | codes past `expires_at` |
| `ttl` | the configured lifetimes of access tokens and codes, each of which fits a date, ends at none, or is no `i64`; never changes |
| `origin`, `wiped`, `late`, `cleared` | history, read by properties only |

| Actions | Code |
|---|---|
| `StartAuthorize`, `ValidateAuthorize`, `InsertCode` | a request that picks, `authorize_submit`: `validate_authorize_request` and the choice of the user, then `insert_code` |
| `UpstreamAuthorize`, `InsertCode` | GET `/authorize` with the picker disabled, or for another `response_type` than `code`: the upstream's handler, which signs in the default user |
| `StartCode`, `Authenticate`, `TakeCode`, `PutAccess`, `PutRefresh` | `/token`, authorization code: `get_client`, `remove_code`, `insert_token`, `insert_refresh_token` |
| `StartRefresh`, `Authenticate`, `ReadRefresh`, `PutAccess`, `PutRefresh`, `RetireRefresh` | `/token`, refresh: `get_client`, `get_refresh_token`, two inserts, `update_refresh_token` |
| `StartClientCredentials`, `Authenticate`, `IssueClientToken` | `/token`, client credentials: `get_client` twice; the token is not stored |
| `StartRegister`, `RegisterClient`; `StartRevoke`, `RevokeToken` | upstream handlers behind `proxy.rs` |
| `StartReset`, `ClearAll`, `SeedClient`, `CountClients` | `reset_state` and `seed_clients` |
| `Lapse`, `Disconnect`, `Rest` | time, callers, an idle server |

The code between two store calls touches only locals and the read-only configuration, so it
belongs to the action before it. What the model abstracts:

- Authentication is decided by who carries which secret (`AuthOf`): a public client, a
  configured secret, a generated one, an unsupported method. How Basic and post encode the
  secret is left out.
- The checks of `/authorize` other than client and user only decide between going on and an
  error, so the model may refuse at that point. Scopes are left out, and so is the refusal
  of `client_credentials` for its scopes, which may happen whenever the handler gets there.
- A lifetime is a member of `Lifetimes`. One of an access token that is no `i64` is an error; one
  that ends at no date makes chrono panic, and the connection is dropped without an answer. Either
  way the presented code is already out of the store. For a code, the first is replaced by 600
  seconds, and the second panics before the code is stored. Validation only refuses 0. What the
  upstream's `/authorize` does with either is external, so both outcomes are modelled there.
- Shaping the answer does not fail for a configuration that passed validation, so `PutRefresh`
  and `RetireRefresh` end with the answer.
- Subjects name users; `sub` values of different users are taken to differ.
- The four counts taken before `clear_all` only appear in the answer.

What is external, and assumed: each store call is atomic, `clear_all` among them;
`remove_code` removes and returns; `update_refresh_token` of an entry that is gone either
writes it or does nothing (both are modelled); `/revoke` marks or deletes one of the two
kinds of token (all four outcomes are modelled); the upstream's `/authorize` stores a code or
refuses, tokens it may issue without one are not modelled. The upstream's clean-up of expired entries
is not modelled, nor are its device, introspection and userinfo handlers.

Callers present what answers have told them, or values the server never issued. A caller
without the secret of a client presents a wrong one.

### GrantLedger and the refinement

`GrantLedger` is the whole promise: a ticket is issued once and granted only while live; a
code is spent by its grant; a refresh token is granted any number of times until one of its
uses is settled, then it is spent for good; tickets may be withdrawn, never revived. The
mapping (`Ledger` at the end of `OAuthGrants`) reads the status of a ticket from the store
and from what has been issued. A redemption that takes a code and is then dropped, a
revocation that is overwritten with a revoked object, a reset between any two calls: all
must map to steps of the ledger.

### Gateway and GatewayRoutes

`Routing` is the pure part of `proxy_request`: `from_config` sorts the enabled routes,
`find_route` compares prefixes character by character, `build_upstream_url` strips and
joins. Paths are sequences of characters for that reason, and `FindRoute` takes the first hit
in the order the table is sorted into instead of sorting it. `GatewayRoutes` routes one
request; its reference, `Under` and `Deeper`, works on segments. Dot segments and
percent-encoding are not modelled.

`Gateway` follows requests through `proxy_request`. `upstream[r]` is what the other side has
done, whether or not the gateway has seen it, with the length of a body below, at or above
`max_body_bytes`; `deadline` is reqwest's timeout, which runs
from the call to the end of the body; `starts` numbers the starts of the process, each of
which draws a new key. `Restart` ends all handlers. `revoked` is what the OAuth store would
say of a token; no action of the gateway reads it, because the code does not.

### TokenAnswers

One authorization, seen from what its tokens say. `config` is any record of `Configs` that
passes `Valid`, the part of `validate` that clients, users, templates, scopes and
`token_response` are subject to; it never changes. `Submit` is the picker and the code it
stores, `RedeemCode`, `Refresh` and `ClientCredentials` are the three grants of `/token`
from the ticket to the shaped answer: `ticket` is the code or refresh token that is live,
`answer` what the caller sees. `first` and the field `asked` are history.

Claims are functions from names to the source a value comes from, which is all that
precedence tells apart. Scopes are sets, as the handlers treat them. Secrets, expiry, refused
requests and overlapping ones are left to `OAuthGrants`; resets do not change what a token
says, and so are not repeated here. Clients that `/register` has added (`Runtime`) have
scopes but no configuration entry. The upstream's own check of the scopes of client
credentials is taken to accept what the client is registered for. What the upstream crate
puts into an ID token is not modelled, only whether there is one.

`HighestRankWins` compares the sequence of inserts with the ranking of the configuration
guide: `RankedSources` gives each source its kind and its place in the list, `Outranks` compares
them. Both look
users up by `sub`, as the code does: validation accepts two users with one `sub`, and a token
for the second then has the claims of the first.

### AppConfig and Server

`AppConfig` has no state: `ParseArgs` folds `parse_from` over the arguments, `Effective` is
what `load_from_sources_with_overrides` builds, `ValidConfig` what `validate` accepts, and
`Verdict` how `main` gets from a command line to `run` or to its end. A source is a function
from some keys to values, so that precedence, key by key, is the choice of the first function
that has the key. `Text` stands for any words where a number, URL or header name is due.
What validation says of clients, users, templates, scopes and answers is one key,
`registry_valid`; `TokenAnswers` has its details.

| Variable of `Server` | Code |
|---|---|
| `phase` | where `main` is: before `TcpListener::bind`, in `seed_clients`, serving but not yet at `ctrl_c().await`, waiting there, stopping, or no process |
| `exit`, `starts` | how the last process ended; how many there have been |
| `sources`, `config` | what the start found, and what it made of it |
| `addr`, `issuer` | `RunningServer::addr`; scheme, host and port of `IssuerConfig` |
| `seeded`, `store` | loop of `seed_clients`, and the clients it has put into the store |
| `pc`, `call`, `target` | a connection, what it asks, and the handler and route it gets |

| Actions | Code |
|---|---|
| `Launch` | `main` and `run` up to the bind in `spawn`, loading and validation included |
| `Bind`, `FailBind`, `SeedClient` | `spawn` from the bind to the last client seeded |
| `Serve` | `WrapperState::new`, `build_router`, and the task that serves |
| `FailRuntime`, `PanicOnWildcard` | what may end `spawn` instead: the gateway cannot be built from the configuration, or its HTTP client cannot; `AllowOrigin::list` panics for the origin `*` |
| `AwaitSignal`, `FailSignal`, `Stop`, `Finish` | `run` from `spawn` to the signal or the failure to wait for it, `shutdown`, the end of `main` |
| `Kill` | Ctrl-C before `run` listens for it, or another signal |
| `Connect`, `Accept`, `Receive`, `Dispatch`, `Answer` | the system's backlog, `axum::serve`, what the caller sends, the router with body limit and extraction, a handler |

`shutdown` aborts the task that accepts. Connections it has accepted are tasks of their own
that go on until `main` returns, which is right after, so `Finish` closes whatever is left.
`Mounted` lists the endpoints `build_router` adds; `HandlerOf` is axum's rule that the most
specific path decides before the method does, so that a wrong method on a mounted path is 405
and never reaches the gateway's catch-all. HEAD and OPTIONS, tracing, and what CORS adds to answers
are left out. Whether reqwest's client can be built depends on the machine (its TLS and resolver
set-up), so `FailRuntime` may happen whenever the gateway is enabled.
The store is shown up to the start of service only; after that it belongs to `OAuthGrants`.

## 3. Runs

| Run | Instance | Shows |
|---|---|---|
| `grants_tickets` | 5 requests, no picker: 1 authorization, and of 2 redemptions, 2 refreshes, a revocation and a reset any 4; access tokens whose lifetime fits, or ends at no date | types; a code backs one grant; an answered refresh has killed its token; wiped tickets admit nobody; `GrantLedger` is implemented |
| `grants_clients` | 4 requests, 2 configured clients with generated and fixed secret, no picker: 2 resets, a registration, a client-credentials call, an authorization | which clients can be missing, and when: only ahead of the last reset that cleared them |
| `grants_live` | any 3 requests, at most 2 of a kind (registration, revocation, reset, client credentials: 1), 2 users of whom the client is linked to one and the other is the default, with and past the picker, lifetimes that fit or end at no date, hang-ups, fairness | stored tokens keep client and user, and the user was eligible; every request is answered, or dropped by a panic over its lifetime |
| `grants_reset_overlap` | 3 requests | **violated**: the reset leaves tokens behind |
| `gateway_routes` | all tables of up to 2 routes over 4 prefixes and 2 bases, all paths of up to 5 characters | deepest route wins; the rest of the path is forwarded |
| `gateway_prefix_twice` | the same | **violated**: the prefix is stripped more than once |
| `gateway_calls` | 2 requests, guarded and open route, 1 token, 2 starts, fairness | answers tell what happened; dead tokens do not pass; every request read is answered |
| `gateway_revoked` | the same | **violated**: a revoked token passes |
| `answers` | 194 valid configurations, 2 scopes, a configured and a runtime client, 2 users | scopes never grow, renewals repeat the first token, claims have the right source |
| `server` | 2 starts over some 250 sets of sources, 1 request of 11 kinds, fairness | the source of highest rank wins per key; nothing is handled early; admin endpoints stay local; built-in paths are not proxied; every connection is taken, and every request that has come in is answered or cut off |
| `server_cors_wildcard` | the same | **violated**: a validated configuration makes the process panic after the bind |
| `server_body_cap` | the same | **violated**: the gateway's body limit caps OAuth endpoints |

Bounds. `Requests` and `Budget` bound how many requests a behaviour has and of which kinds; nothing
else in `OAuthGrants` grows. Each budget holds the smallest set of requests in which its property's
interesting case happens: two competitors for a ticket, one generation of refresh tokens beyond the
first, a reset in the middle, two resets against one registration. In `grants_tickets` the five
requests leave out two of the seven the budget names, in every way. The theorems remove the bound.
`MaxStarts` bounds restarts in `Gateway`; two starts give a token of the past. In `GatewayRoutes`
the prefixes cover containment, a shared first segment prefix without a boundary, a trailing slash,
and duplicates; five characters are enough to repeat a two-character prefix and go on. The
configurations of `TokenAnswers` vary one part of a base at a time (scopes, sources of claims,
users, answers), which is where the code's cases interact, and keep invalid ones for `Valid` to
reject; two scopes, two templates in both orders and two users with one `sub` are the least that let
each rule lose to another. The sources of `Server` vary one thing at a time: `bind_host` from each
of three sources, the file from each place that names one, all pairs of a dozen arguments, one bad
value of each kind, seven route tables with endpoints on and off, origins with and without the
wildcard, clients to seed. One request is enough there, because requests of `Server` share nothing
but the process; two starts let a process meet what the one before it has left. Requests are
interchangeable in `OAuthGrants`, and symmetry over them is used in its runs without liveness.

Deadlock is checked everywhere: a server whose requests are all done takes `Rest`, so
a deadlock would be a handler that cannot go on.

Fairness. `grants_live` has weak fairness of `Serve(r)` for each request: tokio polls a
woken task until it completes, and store calls complete. Nothing is assumed of callers,
of resets ever being sent, or of expiry. `gateway_calls` has weak fairness of the handler
and of its timer; neither the upstream nor the caller must act, so that
the deadline has to do the work. The wait for the caller's body has no timeout in the code,
which is why the property starts after it. `server` has weak fairness of start-up as a whole, of
`main` returning, and of the server's steps for each connection: to accept it, to dispatch a request
that has come in, to answer it. `Receive` has no fairness: nothing in the code limits how long a
caller takes over head and body, so `EveryCallerServed` ends when a connection is taken and starts
again when its request has come in. Nobody has to launch, call or stop the server, and a start may
fail.

Every property has a mutant: a second form of one definition with a slip (a read instead of
a remove, an off-by-one in the loop, a check left out), kept next to the definition, under
which the run fails.

## 4. Proofs

All statements are for every set of requests, clients, users, routes, tokens and budgets,
from the assumptions named in the modules (`ConfigAssumption`, `StampAssumption`,
`AbsentAssumption`; `StartsAssumption`, `GuardedAssumption`, `NoneAssumption`), which say
that the configuration is one that validation accepts and that model values are distinct; of
the later modules only that lists are lists (`ListsAssumption`, `ArgumentsAssumption`,
`TablesAssumption`), that an argument without a flag is a word and that no value is
`Absent` or `Nowhere` by chance (`AbsentAssumption`, `NowhereAssumption`), that request paths are
absolute sequences of characters, ports numbers, and that the three loopback names resolve to this
machine.

`OAuthGrantsProofs`:

- `TypeCorrect`. `TypeOK` alone is not inductive. `LabelsFit` adds which kind of request can
  be at which call and what it holds there; `SeedingBounded` that a reset still seeding has a
  client ahead. Together they are `Typed`.
- `CodeRedeemedOnce`, `RotationRetires`, `ResetEndsTickets` rest on `TicketInv`: only issued
  tickets are in the store, a presented ticket was told to its caller or is worthless, a
  handler that was granted one has moved past the grant, codes that were granted are gone
  from the store, a wiped ticket is not live, and nobody who arrives later holds it.
- `PreloadedRestored` and `RuntimeClientsCleared` rest on `ClientInv`. The reset whose loop has to
  bring a client back is `cleared`, the last one; another that is still seeding may have been cut
  short and counts for nothing. `TokensKeepLineage` rests on `LineageInv`, which follows client and
  user through `codes`, `held`, `tokens`, `refresh`.

`OAuthGrantsRefinement`: `Refinement` is `Spec => LedgerSpec`. One lemma per action that the
ledger sees; everything else is shown to be a stutter.

`GatewayProofs`: `GatewayTypeCorrect`, `AnswersTellTheCall`, `GuardedCallsNeedLiveTokens`, by
`GatewayInv`, which adds to the property which calls are out at which label.

`NumberFacts`: a set of numbers has a least element, a bounded one a greatest, and a set that
contains 0 and every successor of a member contains all numbers (`Induction`). The last is the
induction of all proofs below: the property is written as the set of numbers that have it.

`TokenAnswersProofs`: `TypeInvariant`, `ScopesNeverGrow`, `RenewalsAgree` and `RanksDecide`, for any
configurations whose clients, users and template references are lists, by `AnswersInv`: the
configuration is valid, the scopes of a ticket are asked for and registered, the first token is the
one the live refresh token would give, and an answer is what its grant gives (`AnswerFits`).
`RegisteredAreSupported` carries validation over to the registered scopes. `RanksDecide` is about the
code's order of inserts into one map. `MergeSteps` gives what each insert leaves behind,
`LastSourceWins` concludes that a claim has the value of the last source that names it, and
`SourcesInOrder` that later in the code is higher in the guide; `IssuedByRank` adds the names the
server keeps for itself.

`RoutingProofs` has what routing rests on: the first hit in the sorted table exists and is a
match (`FirstHitExists`, `FoundFirst`), a match begins with its prefix, a valid prefix never
matches a reserved path (`ReservedNeverMatched`), and stripping removes exactly one copy when the
rest does not begin with the prefix again (`TrimOnce`). From these `GatewayRoutesProofs` has
`TypeInvariant`, `RestForwarded` and `DeepestFound`, for all tables and absolute paths.
`DeepestFound` relates two views of a path. The k-th slash is the one of rank k; `NextSlash` and
`SlashesInOrder` show that ranks run through 1..n without a gap and that a segment ends where the
next slash is. `SegmentsMatch` goes along the slashes, segment by segment: if the segments of a prefix
are the first ones of a path, its characters are, and a slash or nothing follows. `MatchSegments`
is the converse, and by `LongerIsDeeper` the longest match, which the code's sorting finds, is the
one with most segments.

`ServerProofs`: `TypeInvariant`, `AdminStaysLocal`, `BuiltInsStayHome`, `ReadyFirst` and
`SourcesRank`, by `ServerInv`, which adds to the type what each phase has established (a
configuration made from the sources of this start and validated, a bound address, all enabled
clients seeded) and that the target of a request is the one its process gives it. `BuiltInsStayHome`
is where the two lists meet: every endpoint is under a reserved prefix, and a valid route prefix is
under none. `SourcesRank` needs what `parse_from` makes of any list of arguments. `ParseFits` says
what it knows after k of them: it waits for a value exactly when the next argument is one by the
closed form `IsValue` (a lone option takes its successor, whatever that is, so that of a run of them
every second one is a value), and has for each option what the last argument that set it says.
`ParseStep` is the step, `Parsed` the result, `LayersAreRanked` puts environment, file and defaults
below it.

`ApplyClaims` and `ParseArgs` are folds, which the library defines by a recursive function, that is
by CHOOSE. `MergeSteps` and `ParseSteps` first show that such a function exists, the one by naming it,
the other by building it for 0, 1, 2, ... arguments with `Induction`; after that CHOOSE yields one that
satisfies the equations.

Only model-checked: the liveness properties (`EveryRequestAnswered`, `EveryCallAnswered`,
`EveryCallerServed`), which need fairness and ENABLED. The documentation's claims of the `violation`
runs are refuted by a counterexample and so have no proof. Every safety property of a passing run is
a theorem.

## 5. Where code and documentation differ

The five `violation` runs, quoted with their lines in `PROJECT.json` under `findings`: tokens
that survive a reset, a prefix stripped more than once, revoked tokens at the gateway, a wildcard
origin that validation accepts and start-up panics over, and a gateway limit that caps OAuth requests.

Seen while modelling, and part of the models as the code has it, without a run of their own:

- the issuer has scheme and host of `base_url` and the port of the listener: with another `bind_port`
  it is not `base_url` (`upstream/adapter.rs:22`, `docs/configuration.md:144`);
- validation accepts lifetimes that end at no date, for which handlers panic
  (`config/validate.rs:201`, `http/oauth/token.rs:70`, `http/oauth/authorize.rs:218`);
- a route prefix that ends in `/` passes validation, and matches only itself and paths with a doubled
  slash (`gateway/mod.rs:86`); `DeepestRouteWins` reads such prefixes as the code does;
- a body that comes after the deadline is answered 502, not 504 (`gateway/mod.rs:178`,
  `docs/gateway.md:125`);
- `default_scopes` of a client with `allowed_scopes` are never assumed
  (`registry/clients.rs:52`, `docs/configuration.md:334`);
- a header-only policy for the ID token leaves answers without ID token empty
  (`http/token_response.rs:53`, `docs/configuration.md:283`);
- tokens for one of two users with the same `sub` carry the custom claims of the first
  (`registry/users.rs:48`, `docs/configuration.md:396`);
- with the picker enabled, GET `/authorize` for another `response_type` than `code` goes past it
  (`http/oauth/mod.rs:28`);
- a client that authenticates by Basic header without `client_id` in the form is refused for
  client credentials (`http/oauth/token.rs:179`, `docs/configuration.md:359`);
- CORS is layered before admin, registration and gateway routes are added, so it does not apply to
  them (`http/router.rs:42`, `docs/api.md:345`);
- "oauth2 mock server stopped" is logged while accepted connections may still be handled
  (`app/startup.rs:174`).

## 6. Not modelled

- Tracing, HEAD and OPTIONS, response headers, and CORS other than the panic over a wildcard: they add
  to answers and decide nothing here.
- The single parameter checks of `/authorize` (only their outcome), the encodings of client
  authentication and of secrets, `response_mode` and the HTML of the picker page.
- The formats of YAML, of environment values and of header values; usage text and logging set-up.
- Device flow, introspection, userinfo, discovery and the error page, which are handlers of
  `oauth2-test-server` behind pass-through proxies, and the internals of that crate: its
  clean-up of expired entries, its `/authorize`, JWT encoding. It is not part of this repository.
- `upstream/patching.rs`, a description nothing reads; the Java and `.http` examples.

What would come next: `validate_client_auth` and `validate_authorize_request` as decision tables
(by method, and by the order of the checks), and `Gateway` composed with the store, so that the
gateway's verdict on a token and the store's can be compared in one behaviour.
