--------------------------- MODULE MCTokenAnswers ---------------------------
(***************************************************************************)
(* Small instance of TokenAnswers.  The configurations vary one part of a   *)
(* base at a time: scopes, sources of claims, users, answers.               *)
(***************************************************************************)
EXTENDS TokenAnswers

MCScopes == {"openid", "email"}
MCRuntime == [id \in {"runtime"} |-> {"openid", "email"}]

JsonOnly == [body |-> TRUE, headers |-> {}]
HeaderOnly(fields) == [body |-> FALSE, headers |-> fields]

\* claims of a source: each value names its source
From(source, names) == [name \in names |-> source]

BaseClient(id) ==
  [id |-> id, enabled |-> TRUE, allowed |-> {"openid"}, default |-> {}, linked |-> {},
   refs |-> <<>>, custom |-> NoClaims, override |-> None]

BaseUser(id) ==
  [id |-> id, sub |-> id, enabled |-> TRUE, default |-> {"openid"},
   standard |-> From(id, {"name"}), refs |-> <<>>, custom |-> NoClaims]

Base ==
  [supported |-> {"openid", "email"},
   clients |-> <<BaseClient("c1")>>,
   users |-> <<BaseUser("u1"), BaseUser("u2")>>,
   templates |-> [t \in {"t1", "t2"} |->
                    From(t, IF t = "t1" THEN {"name", "tenant"} ELSE {"tenant", "sub"})],
   response |-> JsonOnly]

\* scopes that are supported or not, with and without allowed_scopes
ScopeConfigs ==
  {[Base EXCEPT !.supported = supported, !.clients[1].allowed = allowed,
                !.clients[1].default = default] :
     supported \in {{"openid"}, {"openid", "email"}},
     allowed \in SUBSET MCScopes, default \in SUBSET MCScopes}

Refs == {<<>>, <<"t1">>, <<"t2", "t1">>, <<"t1", "t2">>, <<"unknown">>}
Customs(id) == {NoClaims, From(id, {"tenant", "name"}), From(id, {"sub"}), From(id, {"iss"})}

\* claims of client and user that meet in templates, custom claims and standard ones
ClaimConfigs ==
  {[Base EXCEPT !.clients[1].refs = cr, !.clients[1].custom = cc,
                !.users[1].refs = ur, !.users[1].custom = uc] :
     cr \in Refs, cc \in Customs("c1"), ur \in Refs, uc \in Customs("u1")}

\* users with one sub or none enabled, a sub that is also the subject of clients,
\* linked users, a disabled client
UserConfigs ==
  {[Base EXCEPT !.users[1].enabled = e1, !.users[2].sub = sub,
                !.users[1].custom = From("u1", {"tenant"}),
                !.users[2].custom = From("u2", {"tenant"}),
                !.clients[1].linked = linked, !.clients[1].enabled = enabled] :
     e1 \in BOOLEAN, sub \in {"u1", "u2", "client"},
     linked \in {{}, {"u2"}, {"unknown"}}, enabled \in BOOLEAN}

Responses ==
  {JsonOnly, HeaderOnly({}), HeaderOnly({"id_token"}),
   HeaderOnly({"refresh_token", "access_token"})}

\* global and overriding answers, of which one may be silent
AnswerConfigs ==
  {[Base EXCEPT !.response = response, !.clients[1].override = override] :
     response \in Responses, override \in Responses \cup {None}}

MCConfigs == ScopeConfigs \cup ClaimConfigs \cup UserConfigs \cup AnswerConfigs
=============================================================================
