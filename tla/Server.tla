-------------------------------- MODULE Server --------------------------------
(***************************************************************************)
(* The life of the server process, and what it does with requests: sources  *)
(* of configuration are loaded and validated, the listener is bound, clients *)
(* are seeded, the router is built and served until Ctrl-C; then the next    *)
(* start, with other sources.  A request is one connection: it may wait in   *)
(* the backlog of the listener before there is anything to answer it.        *)
(* What happens inside a handler is in OAuthGrants and Gateway.              *)
(***************************************************************************)
EXTENDS AppConfig

CONSTANTS
  Requests,   \* the requests of a behaviour
  Starts,     \* sources a start may find
  Calls,      \* what callers ask: [method, path, body], body a number of bytes
  Addresses,  \* the addresses a host name resolves to; none if it does not
  Loopback,   \* addresses only this machine reaches
  FreePorts,  \* what the system may give for port 0
  MaxStarts   \* bound: how often the process starts

VARIABLES
  phase,     \* how far the process is
  exit,      \* how the last process ended
  sources,   \* the sources of this start
  config,    \* AppConfig
  addr,      \* address and port of RunningServer, Absent before it is bound
  issuer,    \* scheme, host and port in IssuerConfig
  seeded,    \* clients of the configuration that seed_clients is through with
  store,     \* ids of the clients that start-up has put into the store
  starts,    \* starts so far
  pc,        \* how far each request is
  call,      \* what it asks
  target     \* what the router makes of it

process == <<phase, exit, sources, config, addr, issuer, seeded, store, starts>>
requests == <<pc, call, target>>
vars == <<process, requests>>

LoopbackNames == {"127.0.0.1", "::1", "localhost"}

StartsAssumption == MaxStarts \in Nat
PortsAssumption == FreePorts \subseteq Nat \ {0}
\* external: these names resolve to this machine
LoopbackAssumption == \A name \in LoopbackNames : Addresses[name] \subseteq Loopback
CallsAssumption == \A asked \in Calls : asked.path \in Path
\* what deserialization gives: lists of clients and of routes
ListsAssumption ==
  \A s \in Starts :
    Verdict(s) = "run" =>
      LET c == Effective(s)
      IN  /\ c.clients \in Seq([id : STRING, enabled : BOOLEAN])
          /\ \A i \in DOMAIN c.routes : i \in Nat /\ c.routes[i].prefix \in Path
\* what the shell gives: a list of words, flags and flags with values
ArgumentsAssumption ==
  \A s \in Starts :
    /\ Len(s.args) \in Nat /\ DOMAIN s.args = 1..Len(s.args)
    /\ \A i \in DOMAIN s.args : s.args[i].flag # Absent \/ s.args[i].given # Absent
AbsentAssumption == Absent # Text /\ Absent # DefaultPath /\ Absent \notin Options
ASSUME StartsAssumption
ASSUME PortsAssumption
ASSUME LoopbackAssumption
ASSUME CallsAssumption
ASSUME ListsAssumption
ASSUME ArgumentsAssumption
ASSUME AbsentAssumption

-----------------------------------------------------------------------------
\* The router

Endpoint(path, method, handler) ==
  [path |-> path, param |-> FALSE, method |-> method, handler |-> handler]
\* its path is followed by one more segment
EndpointWithParam(path, method, handler) ==
  [path |-> path, param |-> TRUE, method |-> method, handler |-> handler]

Health == Endpoint(<<Slash, "health">>, "GET", "health")

BuiltIns ==
  {Endpoint(<<Slash, ".well-known", Slash, "openid-configuration">>, "GET", "discovery"),
   Endpoint(<<Slash, ".well-known", Slash, "jwks.json">>, "GET", "jwks_doc"),
   Endpoint(<<Slash, "authorize">>, "GET", "authorize_flow"),
   Endpoint(<<Slash, "authorize">>, "POST", "authorize_submit"),
   Endpoint(<<Slash, "token">>, "POST", "token_endpoint"),
   Endpoint(<<Slash, "device", Slash, "code">>, "POST", "device_code_proxy"),
   Endpoint(<<Slash, "device", Slash, "token">>, "POST", "device_token_proxy"),
   Endpoint(<<Slash, "introspect">>, "POST", "introspect_proxy"),
   Endpoint(<<Slash, "revoke">>, "POST", "revoke_proxy"),
   Endpoint(<<Slash, "userinfo">>, "GET", "userinfo_proxy"),
   Endpoint(<<Slash, "error">>, "GET", "error_page_proxy")}

ListClients == Endpoint(<<Slash, "admin", Slash, "clients">>, "GET", "list_clients")
ResetState == Endpoint(<<Slash, "admin", Slash, "reset">>, "POST", "reset_state")
CurrentConfig == Endpoint(<<Slash, "admin", Slash, "config">>, "GET", "current_config")
AdminHandlers == {"list_clients", "reset_state", "current_config"}

Registration ==
  {Endpoint(<<Slash, "register">>, "POST", "register_client_proxy"),
   EndpointWithParam(<<Slash, "register", Slash>>, "GET", "get_client_proxy")}

\* everything the server answers itself under some configuration
AllEndpoints == {Health} \cup BuiltIns \cup {ListClients, ResetState, CurrentConfig} \cup Registration

\* slip: mounted wherever the server listens
AdminRoutesAnywhere(c) ==
  {e \in {ListClients, ResetState, CurrentConfig} :
     \/ e = ListClients /\ c.list_clients_endpoint_enabled
     \/ e = ResetState /\ c.reset_endpoint_enabled
     \/ e = CurrentConfig /\ c.config_endpoint_enabled}

\* each by its own flag, and all only for a loopback bind_host
AdminRoutes(c) ==
  {e \in {ListClients, ResetState, CurrentConfig} :
     /\ c.bind_host \in LoopbackNames
     /\ \/ e = ListClients /\ c.list_clients_endpoint_enabled
        \/ e = ResetState /\ c.reset_endpoint_enabled
        \/ e = CurrentConfig /\ c.config_endpoint_enabled}

\* build_router, without the catch-all of the gateway
Mounted(c) ==
  BuiltIns \cup AdminRoutes(c)
    \cup {e \in {Health} : c.health_endpoint_enabled}
    \cup {e \in Registration : c.runtime_client_registration_enabled}

Serves(e, path) ==
  IF e.param
  THEN IsStrictPrefix(e.path, path) /\ \A i \in Len(e.path) + 1..Len(path) : path[i] # Slash
  ELSE path = e.path

\* The most specific path decides, and then the method: a path that is mounted never
\* falls through to the gateway.
HandlerOf(c, method, path) ==
  LET here == {e \in Mounted(c) : Serves(e, path)}
  IN  IF \E e \in here : e.method = method
      THEN (CHOOSE e \in here : e.method = method).handler
      ELSE IF here # {} THEN "method_not_allowed"
      ELSE IF c.gateway_enabled THEN "proxy_request" ELSE "not_found"

\* the layer of the gateway is around every route; without it axum has a limit
AxumBodyLimit == 2097152
BodyLimit(c) == IF c.gateway_enabled THEN c.max_body_bytes ELSE AxumBodyLimit

\* handlers whose arguments are taken from the body
BodyHandlers ==
  {"authorize_submit", "token_endpoint", "device_code_proxy", "device_token_proxy",
   "introspect_proxy", "revoke_proxy", "register_client_proxy", "proxy_request"}

\* which handler runs, and for the gateway the route found
Target(c, asked) ==
  LET handler == HandlerOf(c, asked.method, asked.path)
  IN  IF handler \in BodyHandlers /\ asked.body > BodyLimit(c)
      THEN [handler |-> "payload_too_large", route |-> Nowhere]
      ELSE [handler |-> handler,
            route |-> IF handler = "proxy_request" THEN FindRoute(c.routes, asked.path)
                      ELSE Nowhere]

-----------------------------------------------------------------------------
NoProcess(how) ==
  /\ phase' = "down" /\ exit' = how
  /\ sources' = Absent /\ config' = Absent
  /\ addr' = Absent /\ issuer' = Absent
  /\ seeded' = 0 /\ store' = {}

\* the listener is there
Listening == phase \in {"seeding", "serving", "waiting"}

Open == {"queued", "accepted", "received", "handling"}

\* the system closes connections
Close(rs) ==
  /\ pc' = [r \in Requests |-> IF r \in rs THEN "reset" ELSE pc[r]]
  /\ call' = [r \in Requests |-> IF r \in rs THEN Absent ELSE call[r]]
  /\ target' = [r \in Requests |-> IF r \in rs THEN Absent ELSE target[r]]

CloseAll == Close({r \in Requests : pc[r] \in Open})

Init ==
  /\ phase = "down" /\ exit = "none"
  /\ sources = Absent
  /\ config = Absent /\ addr = Absent /\ issuer = Absent
  /\ seeded = 0 /\ store = {}
  /\ starts = 0
  /\ pc = [r \in Requests |-> "idle"]
  /\ call = [r \in Requests |-> Absent]
  /\ target = [r \in Requests |-> Absent]

\* main up to TcpListener::bind in spawn, which loads and validates once more what has
\* just been loaded and validated
Launch(s) ==
  /\ phase = "down" /\ starts < MaxStarts
  /\ starts' = starts + 1
  /\ IF Verdict(s) = "run"
     THEN /\ phase' = "binding"
          /\ sources' = s
          /\ config' = Effective(s)
          /\ UNCHANGED <<exit, addr, issuer, seeded, store>>
     ELSE NoProcess(Verdict(s))
  /\ UNCHANGED requests

\* slip: the issuer keeps the port that was asked for
IssuerAsAsked(c, port) ==
  [scheme |-> c.base_url.scheme, host |-> c.base_url.host, port |-> c.bind_port]

\* build_upstream_state: base_url gives scheme and host, the listener the port
Issuer(c, port) ==
  [scheme |-> c.base_url.scheme, host |-> c.base_url.host, port |-> port]

Bind ==
  /\ phase = "binding"
  /\ \E address \in Addresses[config.bind_host],
        port \in IF config.bind_port = 0 THEN FreePorts ELSE {config.bind_port} :
       /\ addr' = [address |-> address, port |-> port]
       /\ issuer' = Issuer(config, port)
  /\ phase' = "seeding"
  /\ UNCHANGED <<exit, sources, config, seeded, store, starts, requests>>

\* the name does not resolve, or the port is taken
FailBind ==
  /\ phase = "binding"
  /\ NoProcess("io_error")
  /\ UNCHANGED <<starts, requests>>

\* seed_clients, one client
SeedClient ==
  /\ phase = "seeding" /\ seeded < Len(config.clients)
  /\ seeded' = seeded + 1
  /\ store' = LET client == config.clients[seeded + 1]
              IN  IF client.enabled THEN store \cup {client.id} ELSE store
  /\ UNCHANGED <<phase, exit, sources, config, addr, issuer, starts, requests>>

\* slip: seeding goes on in the background
ServeWhileSeeding ==
  /\ phase = "seeding"
  /\ RuntimeBuilds(config) /\ RouterBuilds(config)
  /\ phase' = "serving"
  /\ UNCHANGED <<exit, sources, config, addr, issuer, seeded, store, starts, requests>>

\* WrapperState::new, build_router and the task that serves it
Serve ==
  /\ phase = "seeding" /\ seeded = Len(config.clients)
  /\ RuntimeBuilds(config) /\ RouterBuilds(config)
  /\ phase' = "serving"
  /\ UNCHANGED <<exit, sources, config, addr, issuer, seeded, store, starts, requests>>

\* WrapperState::new fails: the gateway's HTTP client cannot be built, or what has been
\* validated does not parse
FailRuntime ==
  /\ phase = "seeding" /\ seeded = Len(config.clients)
  /\ config.gateway_enabled
  /\ NoProcess("runtime_failed")
  /\ CloseAll
  /\ UNCHANGED starts

\* build_router panics, and the process ends with main's future
PanicOnWildcard ==
  /\ phase = "seeding" /\ seeded = Len(config.clients)
  /\ RuntimeBuilds(config) /\ ~RouterBuilds(config)
  /\ NoProcess("panicked")
  /\ CloseAll
  /\ UNCHANGED starts

\* run has come to ctrl_c().await, which installs the handler of the signal
AwaitSignal ==
  /\ phase = "serving"
  /\ phase' = "waiting"
  /\ UNCHANGED <<exit, sources, config, addr, issuer, seeded, store, starts, requests>>

\* the handler of the signal cannot be installed: run returns, and main
FailSignal ==
  /\ phase = "serving"
  /\ NoProcess("io_error")
  /\ CloseAll
  /\ UNCHANGED starts

\* Ctrl-C: shutdown aborts the task that accepts, and the listener goes with it;
\* connections it has accepted are tasks of their own
Stop ==
  /\ phase = "waiting"
  /\ phase' = "stopping"
  /\ Close({r \in Requests : pc[r] = "queued"})
  /\ UNCHANGED <<exit, sources, config, addr, issuer, seeded, store, starts>>

\* run and main return
Finish ==
  /\ phase = "stopping"
  /\ NoProcess("stopped")
  /\ CloseAll
  /\ UNCHANGED starts

\* a signal nobody handles: Ctrl-C before AwaitSignal, or any other at any time
Kill ==
  /\ phase # "down"
  /\ NoProcess("killed")
  /\ CloseAll
  /\ UNCHANGED starts

-----------------------------------------------------------------------------
\* Requests

\* the system takes a connection as soon as there is a listener
Connect(r, asked) ==
  /\ pc[r] = "idle" /\ Listening
  /\ pc' = [pc EXCEPT ![r] = "queued"]
  /\ call' = [call EXCEPT ![r] = asked]
  /\ UNCHANGED <<process, target>>

\* slip: run polls the accepting task, until it waits for the signal
AcceptUntilWaiting(r) ==
  /\ pc[r] = "queued" /\ phase = "serving"
  /\ pc' = [pc EXCEPT ![r] = "accepted"]
  /\ UNCHANGED <<process, call, target>>

\* axum::serve gives the connection a task of its own
Accept(r) ==
  /\ pc[r] = "queued" /\ phase \in {"serving", "waiting"}
  /\ pc' = [pc EXCEPT ![r] = "accepted"]
  /\ UNCHANGED <<process, call, target>>

\* the caller has sent the head, and as much of the body as the handler wants; nothing
\* limits how long that takes
Receive(r) ==
  /\ pc[r] = "accepted"
  /\ pc' = [pc EXCEPT ![r] = "received"]
  /\ UNCHANGED <<process, call, target>>

\* the task routes the request and takes the arguments of the handler
Dispatch(r) ==
  /\ pc[r] = "received"
  /\ pc' = [pc EXCEPT ![r] = "handling"]
  /\ target' = [target EXCEPT ![r] = Target(config, call[r])]
  /\ UNCHANGED <<process, call>>

\* the handler returns, or panics and its connection is closed
Answer(r) ==
  /\ pc[r] = "handling"
  /\ \E how \in {"answered", "reset"} : pc' = [pc EXCEPT ![r] = how]
  /\ call' = [call EXCEPT ![r] = Absent]
  /\ target' = [target EXCEPT ![r] = Absent]
  /\ UNCHANGED process

\* nothing is running
Rest == phase = "down" /\ UNCHANGED vars

Handle(r) == Accept(r) \/ Dispatch(r) \/ Answer(r)

StartUp ==
  \/ Bind \/ FailBind \/ SeedClient
  \/ Serve \/ FailRuntime \/ PanicOnWildcard
  \/ AwaitSignal \/ FailSignal

Next ==
  \/ \E s \in Starts : Launch(s)
  \/ StartUp \/ Stop \/ Finish \/ Kill \/ Rest
  \/ \E r \in Requests :
       (\E asked \in Calls : Connect(r, asked)) \/ Receive(r) \/ Handle(r)

Spec == Init /\ [][Next]_vars

\* Start-up goes on, main returns, tasks are polled and handlers end; nobody has to
\* start the server, to call it, to send what a call has begun or to stop it.
FairSpec ==
  /\ Spec
  /\ WF_vars(StartUp) /\ WF_vars(Finish)
  /\ \A r \in Requests : WF_vars(Handle(r))

-----------------------------------------------------------------------------
Phases == {"down", "binding", "seeding", "serving", "waiting", "stopping"}
Handling(r) == pc[r] = "handling"

\* Every variable has its type; a process that is up has a validated configuration,
\* and once it is bound its address is one of bind_host, and the issuer has its port.
TypeOK ==
  /\ phase \in Phases
  /\ phase # "down" => ValidConfig(config)
  /\ phase \notin {"down", "binding"} =>
       /\ addr.address \in Addresses[config.bind_host]
       /\ addr.port # 0 /\ issuer.port = addr.port
  /\ phase # "down" => seeded \in 0..Len(config.clients)
  /\ starts \in 0..MaxStarts
  /\ pc \in [Requests -> Open \cup {"idle", "answered", "reset"}]
  /\ \A r \in Requests :
       IF pc[r] \in Open THEN phase # "down" /\ call[r] \in Calls ELSE call[r] = Absent

\* The reference for a key: where the command line names it last, else the
\* environment, else the file selected, else the default.
WantsValue(arg) == arg.flag \in Options /\ arg.given = Absent
\* of options that follow each other alone, every second one is taken for a value
IsValue(args, i) ==
  LET others == {j \in 1..i - 1 : ~WantsValue(args[j])}
  IN  (i - 1 - Max(others \cup {0})) % 2 = 1
FlagsFor(args, option) ==
  {i \in DOMAIN args : args[i].flag = option /\ ~IsValue(args, i)}
OnCommandLine(args, option) ==
  LET i == Max(FlagsFor(args, option))
  IN  IF args[i].given # Absent THEN args[i].given ELSE TextOf(args[i + 1])

SelectedFile(s) ==
  IF FlagsFor(s.args, "config") # {} THEN s.files[OnCommandLine(s.args, "config")]
  ELSE IF s.config_var # Absent THEN s.files[s.config_var]
  ELSE IF DefaultPath \in DOMAIN s.files THEN s.files[DefaultPath] ELSE NoValues

Expected(s, key) ==
  IF FlagsFor(s.args, key) # {} THEN OnCommandLine(s.args, key)
  ELSE IF key \in DOMAIN s.env THEN s.env[key]
  ELSE IF key \in DOMAIN SelectedFile(s) THEN SelectedFile(s)[key] ELSE Defaults[key]

\* Every key the process runs with has the value of the source of highest rank that
\* names it, however a section is spread over the sources and often a flag is given.
HighestSourceWins ==
  phase # "down" => \A key \in DOMAIN Defaults : config[key] = Expected(sources, key)

\* The admin handlers run only in a process that nobody on another machine reaches,
\* whichever source bind_host and the flags come from.
AdminOnlyOnLoopback ==
  \A r \in Requests :
    Handling(r) /\ target[r].handler \in AdminHandlers => addr.address \in Loopback

\* No path that the server answers itself under some configuration is ever passed to
\* an upstream, also when its endpoint is off and the gateway has the path: the list
\* of reserved prefixes covers the router.
BuiltInsNeverProxied ==
  \A r \in Requests :
    Handling(r) /\ target[r].route # Nowhere =>
      \A e \in AllEndpoints : ~Serves(e, call[r].path)

\* A request that came in while the server was starting is handled by a router of a
\* validated configuration and finds every configured client in the store; what a
\* reset does to them later is in OAuthGrants.
ReadyBeforeHandling ==
  \A r \in Requests :
    Handling(r) =>
      /\ ValidConfig(config) /\ WellTyped(config)
      /\ {config.clients[i].id : i \in {i \in DOMAIN config.clients : config.clients[i].enabled}}
           \subseteq store

\* A connection does not wait for ever in the backlog, whatever becomes of the start;
\* and a request that has come in is answered, or its connection closed.  A caller that
\* stops sending in between may keep its connection as long as the process lives.
EveryCallerServed ==
  \A r \in Requests :
    /\ pc[r] = "queued" ~> pc[r] # "queued"
    /\ pc[r] = "received" ~> pc[r] \in {"answered", "reset"}

\* What the documentation of spawn says of a start that fails: it returns an error.
FailuresAreReturned == exit # "panicked"

\* What the configuration guide says of max_body_bytes: it caps gateway traffic.
CapForGatewayOnly ==
  \A r \in Requests :
    Handling(r) /\ target[r].handler = "payload_too_large"
        /\ HandlerOf(config, call[r].method, call[r].path) # "proxy_request" =>
      call[r].body > AxumBodyLimit
===============================================================================
