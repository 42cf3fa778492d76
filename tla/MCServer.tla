------------------------------- MODULE MCServer -------------------------------
(***************************************************************************)
(* Small instances of Server: sources of configuration that vary one thing  *)
(* at a time, and calls of every kind of endpoint.                          *)
(***************************************************************************)
EXTENDS Server
CONSTANT r1

Lan == "0.0.0.0"
Home == "127.0.0.1"
LocalName == "localhost"

MCAddresses ==
  [name \in {Home, "::1", LocalName, Lan, Text} |->
     CASE name = Home -> {"home4"} [] name = "::1" -> {"home6"}
       [] name = LocalName -> {"home4", "home6"} [] name = Lan -> {"any"} [] OTHER -> {}]
MCLoopback == {"home4", "home6"}
MCFreePorts == {49152}

-----------------------------------------------------------------------------
Quiet == [args |-> <<>>, config_var |-> Absent, env |-> NoValues, files |-> NoValues]

Set(option, value) == [flag |-> option, given |-> value]
Lone(flag) == [flag |-> flag, given |-> Absent]
Word(value) == [flag |-> Absent, given |-> value]

At(name) == <<"/", name>>
Below(name, rest) == <<"/", name, "/", rest>>

Client(id, enabled) == [id |-> id, enabled |-> enabled]
Route(id, prefix) ==
  [id |-> id, enabled |-> TRUE, prefix |-> prefix,
   upstream |-> Url("http", "upstream", 80, "/"), header |-> Absent]

AllAdmin == [key \in DOMAIN AdminDefaults |-> TRUE]

\* bind_host from each source or not, with the admin endpoints on
Hosts == {NoValues} \cup {"bind_host" :> host : host \in {Home, Lan}}
Ranked ==
  {[Quiet EXCEPT !.files = DefaultPath :> (file @@ AllAdmin), !.env = env,
                 !.args = IF option = NoValues THEN <<>> ELSE <<Set("bind_host", option.bind_host)>>] :
     file \in Hosts, env \in Hosts, option \in Hosts}

\* a file that is there, is missing or is no configuration, where each may be named
Files ==
  {[Quiet EXCEPT !.files = files, !.config_var = var, !.args = args] :
     files \in {NoValues, DefaultPath :> ("log_level" :> "warn"), DefaultPath :> Text,
                DefaultPath :> ("log_level" :> "warn") @@ "other" :> ("bind_port" :> 0)},
     var \in {Absent, "other", "missing"},
     args \in {<<>>, <<Set("config", "other")>>, <<Lone("config"), Word("missing")>>}}

\* arguments alone and in pairs; a lone flag takes what follows for its value
Units ==
  {<<Set("bind_port", 0)>>, <<Lone("bind_port"), Word(8091)>>, <<Set("bind_port", Text)>>,
   <<Lone("bind_port")>>, <<Lone("log_level")>>, <<Set("bind_host", Blank)>>,
   <<Lone("bind_host"), Word(LocalName)>>, <<Lone("help")>>, <<Lone("verbose")>>,
   <<Set("health_endpoint_enabled", FALSE)>>, <<Set("base_url", Url("http", Home, 0, "/"))>>}
Arguments == {[Quiet EXCEPT !.args = one \o two] : one \in Units, two \in Units \cup {<<>>}}

\* one bad value, from the file
Bad ==
  {"bind_port" :> Text, "log_level" :> Blank, "base_url" :> Text,
   "base_url" :> Url("http", Home, 8090, "/oauth"), "access_token_ttl_seconds" :> 0,
   "refresh_token_ttl_seconds" :> 0, "authorization_code_ttl_seconds" :> 0,
   "token_endpoint_auth_methods" :> {"tls_client_auth"}, "code_challenge_methods" :> {"S512"},
   "signing_algorithm" :> "HS256", "signing_key_strategy" :> "file",
   "timeout_ms" :> 0, "max_body_bytes" :> 0, "validate_with_local_oauth" :> FALSE,
   "outbound_header_name" :> Text, "registry_valid" :> FALSE,
   "routes" :> <<Route("a", At("api")), Route("a", At("users"))>>,
   "routes" :> <<[Route("a", At("api")) EXCEPT !.upstream = Text]>>}
Rejected == {[Quiet EXCEPT !.files = DefaultPath :> values] : values \in Bad}

\* routes above paths of the server, and one with a header that is none
Tables ==
  {<<>>, <<Route("a", At("api"))>>, <<Route("a", At("/"))>>,
   <<Route("a", Below("admin", "clients"))>>, <<Route("a", At("register"))>>,
   <<Route("a", At("api")), Route("b", Below("device", "token"))>>,
   <<[Route("a", At("api")) EXCEPT !.header = Text]>>}
Gateways ==
  {[Quiet EXCEPT !.files = DefaultPath :>
      (limit @@ [key \in {"health_endpoint_enabled", "runtime_client_registration_enabled"} |-> on]
         @@ [gateway_enabled |-> TRUE, routes |-> table, bind_host |-> host] @@ AllAdmin)] :
     table \in Tables, on \in BOOLEAN, host \in {Home, Lan},
     limit \in {NoValues, "max_body_bytes" :> 1000}}

\* clients to seed, one of them disabled
Seeds ==
  {[Quiet EXCEPT !.files = DefaultPath :>
      ("clients" :> <<Client("a", TRUE), Client("b", FALSE), Client("c", TRUE)>>)]}

\* origins from the file and from the environment, with and without a wildcard
Origins ==
  {[Quiet EXCEPT !.files = DefaultPath :> ("cors_allowed_origins" :> file), !.env = env] :
     file \in {{"*"}, {"http://localhost:3000"}},
     env \in {NoValues, "cors_allowed_origins" :> {"http://localhost:3000", "*"}}}

MCStarts == Origins \cup Ranked \cup Files \cup Arguments \cup Rejected \cup Gateways \cup Seeds

-----------------------------------------------------------------------------
Ask(method, path, body) == [method |-> method, path |-> path, body |-> body]
MCCalls ==
  {Ask("GET", At("health"), 0), Ask("POST", At("health"), 0),
   Ask("GET", Below("admin", "clients"), 0), Ask("POST", Below("admin", "reset"), 0),
   Ask("POST", Below("device", "token"), 2000), Ask("POST", At("token"), 3000000),
   Ask("POST", At("register"), 100), Ask("GET", Below("register", "c1"), 0),
   Ask("GET", Below("api", "users"), 0), Ask("POST", At("api"), 2000),
   Ask("GET", <<"/">>, 0)}
===============================================================================
