------------------------------ MODULE AppConfig ------------------------------
(***************************************************************************)
(* The configuration of a start: what a YAML file, the environment and the  *)
(* command line make of the built-in defaults, and what validation lets     *)
(* through.  A configuration is a function from keys to values, a source    *)
(* one from some of the keys; a key is named by its field, without its      *)
(* section.  Keys that only OAuth handlers read, clients apart, are left    *)
(* out; what validation says of them is the key registry_valid.             *)
(***************************************************************************)
EXTENDS Naturals, Sequences, FiniteSets, SequencesExt, TLC, Routing

CONSTANTS
  Absent,  \* no value
  Text     \* some words: no number, boolean, URL or header name, but a host or a path

Blank == ""
NoValues == [key \in {} |-> Absent]

\* the values of two layers: key by key, the upper one if it has the key
Over(upper, lower) ==
  [key \in DOMAIN upper \cup DOMAIN lower |->
     IF key \in DOMAIN upper THEN upper[key] ELSE lower[key]]

\* a URL that parses; path is "/" for a root URL
Url(scheme, host, port, path) ==
  [scheme |-> scheme, host |-> host, port |-> port, path |-> path]

-----------------------------------------------------------------------------
\* Defaults

ServerDefaults ==
  [bind_host |-> "127.0.0.1", bind_port |-> 8090, log_level |-> "info",
   cors_allowed_origins |-> {},
   health_endpoint_enabled |-> TRUE, runtime_client_registration_enabled |-> TRUE]

IssuerDefaults == [base_url |-> Url("http", "127.0.0.1", 8090, "/")]

TokenAuthMethods == {"client_secret_basic", "client_secret_post", "none", "private_key_jwt"}
ChallengeMethods == {"plain", "S256"}

OauthDefaults ==
  [access_token_ttl_seconds |-> 3600, refresh_token_ttl_seconds |-> 2592000,
   authorization_code_ttl_seconds |-> 600,
   token_endpoint_auth_methods |-> TokenAuthMethods,
   code_challenge_methods |-> ChallengeMethods,
   signing_algorithm |-> "RS256", signing_key_strategy |-> "ephemeral_rsa"]

GatewayDefaults ==
  [gateway_enabled |-> FALSE, timeout_ms |-> 2000, max_body_bytes |-> 1048576,
   validate_with_local_oauth |-> TRUE, outbound_header_name |-> "Authorization",
   routes |-> <<>>]

AdminDefaults ==
  [list_clients_endpoint_enabled |-> FALSE, reset_endpoint_enabled |-> FALSE,
   config_endpoint_enabled |-> FALSE]

Defaults ==
  Over(ServerDefaults, Over(IssuerDefaults, Over(OauthDefaults, Over(GatewayDefaults,
    Over(AdminDefaults, [clients |-> <<>>, registry_valid |-> TRUE])))))

\* keys whose values are numbers or booleans
TypedKeys ==
  {"bind_port", "access_token_ttl_seconds", "refresh_token_ttl_seconds",
   "authorization_code_ttl_seconds", "timeout_ms", "max_body_bytes",
   "health_endpoint_enabled", "runtime_client_registration_enabled",
   "gateway_enabled", "validate_with_local_oauth"} \cup DOMAIN AdminDefaults

-----------------------------------------------------------------------------
\* The command line.  An argument is [flag, given]: --flag=value, or a lone --flag
\* with given Absent, or with flag Absent a word.

Options == {"config", "bind_host", "bind_port", "base_url", "log_level",
            "health_endpoint_enabled", "runtime_client_registration_enabled"}

\* next_value takes whatever comes next, a flag as well
TextOf(arg) == IF arg.flag = Absent THEN arg.given ELSE Text

Takes(parse, option, value) ==
  IF option \in TypedKeys /\ value = Text
  THEN [parse EXCEPT !.failed = TRUE]
  ELSE [parse EXCEPT !.options = Over([key \in {option} |-> value], @), !.awaiting = Absent]

\* parse_from, one argument
ParseArg(parse, arg) ==
  CASE parse.failed -> parse
    [] ~parse.failed /\ parse.awaiting # Absent ->
         Takes(parse, parse.awaiting, TextOf(arg))
    [] ~parse.failed /\ parse.awaiting = Absent ->
         IF arg = [flag |-> "help", given |-> Absent] THEN [parse EXCEPT !.help = TRUE]
         ELSE IF arg.flag \notin Options THEN [parse EXCEPT !.failed = TRUE]
         ELSE IF arg.given = Absent THEN [parse EXCEPT !.awaiting = arg.flag]
         ELSE Takes(parse, arg.flag, arg.given)

NothingParsed ==
  [options |-> NoValues, awaiting |-> Absent, help |-> FALSE, failed |-> FALSE]

ParseArgs(args) == FoldLeft(ParseArg, NothingParsed, args)

ArgumentsOK(args) == ~ParseArgs(args).failed /\ ParseArgs(args).awaiting = Absent

-----------------------------------------------------------------------------
\* Loading.  The sources of a start are [args, config_var, env, files]: the
\* arguments, the value of O2MS_CONFIG, the values of the other O2MS_ variables, and
\* the YAML files there are, by path; Text is a file that is not a configuration.

DefaultPath == "configs/mock-server.yaml"

\* the file to load; the default one only if it exists
FilePath(s) ==
  LET options == ParseArgs(s.args).options
  IN  IF "config" \in DOMAIN options THEN options.config
      ELSE IF s.config_var # Absent THEN s.config_var
      ELSE IF DefaultPath \in DOMAIN s.files THEN DefaultPath ELSE Absent

FileReads(s) == FilePath(s) # Absent => FilePath(s) \in DOMAIN s.files /\ s.files[FilePath(s)] # Text
FileValues(s) == IF FilePath(s) = Absent THEN NoValues ELSE s.files[FilePath(s)]

Overrides(s) ==
  LET options == ParseArgs(s.args).options
  IN  [key \in DOMAIN options \ {"config"} |-> options[key]]

\* slip: the environment is added after the overrides
EffectiveEnvironmentLast(s) ==
  Over(s.env, Over(Overrides(s), Over(FileValues(s), Defaults)))

\* builder.build(): key by key, the later layer wins
Effective(s) == Over(Overrides(s), Over(s.env, Over(FileValues(s), Defaults)))

\* try_deserialize
WellTyped(c) == \A key \in TypedKeys : c[key] # Text

-----------------------------------------------------------------------------
\* Validation

ValidServer(c) ==
  /\ c.bind_host # Blank /\ c.log_level # Blank
  /\ c.base_url # Text /\ c.base_url.host # Absent /\ c.base_url.path = "/"

ValidTtls(c) ==
  /\ c.access_token_ttl_seconds # 0
  /\ c.refresh_token_ttl_seconds # 0
  /\ c.authorization_code_ttl_seconds # 0

ValidCapabilities(c) ==
  /\ c.token_endpoint_auth_methods \subseteq TokenAuthMethods
  /\ c.code_challenge_methods \subseteq ChallengeMethods
  /\ c.signing_algorithm = "RS256"
  /\ c.signing_key_strategy = "ephemeral_rsa"

\* route.header overrides the outbound header of the gateway; it may be Absent
ValidRoute(route) ==
  /\ route.id # Blank
  /\ ValidPrefix(route.prefix)
  /\ route.upstream # Text /\ route.upstream.host # Absent
  /\ route.header # Text

ValidGateway(c) ==
  /\ c.timeout_ms # 0 /\ c.max_body_bytes # 0
  /\ c.validate_with_local_oauth
  /\ c.outbound_header_name # Text
  /\ \A i \in DOMAIN c.routes :
       /\ ValidRoute(c.routes[i])
       /\ \A j \in DOMAIN c.routes : c.routes[i].id = c.routes[j].id => i = j

ValidConfig(c) ==
  /\ ValidServer(c)
  /\ ValidTtls(c)
  /\ ValidCapabilities(c)
  /\ ValidGateway(c)
  /\ c.registry_valid

\* main, up to run: how it ends, or "run"
Verdict(s) ==
  IF ~ArgumentsOK(s.args) THEN "invalid_arguments"
  ELSE IF ParseArgs(s.args).help THEN "help"
  ELSE IF FileReads(s) /\ WellTyped(Effective(s)) /\ ValidConfig(Effective(s)) THEN "run"
  ELSE "invalid_config"

\* GatewayRuntime::from_config, which parses again what validation has parsed; the HTTP
\* client it builds is Server.FailRuntime
RuntimeBuilds(c) ==
  c.gateway_enabled =>
    /\ c.outbound_header_name # Text
    /\ \A i \in DOMAIN c.routes :
         c.routes[i].enabled => c.routes[i].upstream # Text /\ c.routes[i].header # Text

AnyOrigin == "*"

\* build_cors_layer: AllowOrigin::list takes no wildcard, and validation does not look
\* at the origins
RouterBuilds(c) == AnyOrigin \notin c.cors_allowed_origins
=============================================================================
