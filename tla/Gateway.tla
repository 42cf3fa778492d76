------------------------------- MODULE Gateway -------------------------------
(***************************************************************************)
(* Requests proxied by the gateway, concurrently: the caller's body is      *)
(* read, the route and the bearer token are checked, the upstream is called *)
(* under one deadline for head and body, and its answer is relayed or       *)
(* replaced by an error.  A token is a JWT: the gateway checks its          *)
(* signature and its exp, and does not ask the OAuth store.                 *)
(* Which route a path selects is the subject of GatewayRoutes.              *)
(***************************************************************************)
EXTENDS Naturals, FiniteSets

CONSTANTS
  Requests,  \* the proxied requests of a behaviour
  Routes,    \* the enabled routes
  Guarded,   \* those with auth_required
  Tokens,    \* access tokens the server may issue
  MaxStarts, \* bound: how often the server process starts
  None       \* no route, no token

VARIABLES
  pc,       \* how far the handler of each request is
  req,      \* route and token of each request
  deadline, \* calls whose timeout_ms have passed
  upstream, \* what the upstream has done for each request
  starts,   \* starts of the process so far; each one has a new signing key
  signedIn, \* the start whose key signed a token; 0 when not issued
  expired,  \* tokens past their exp and the decoder's leeway
  revoked,  \* tokens the OAuth store has revoked or cleared
  stale     \* history: requests that arrived with a token already revoked

tokenState == <<starts, signedIn, expired, revoked>>
vars == <<pc, req, deadline, upstream, tokenState, stale>>

Junk == "junk"
Working == {"reading", "routing", "sending", "receiving"}
Refusals == {"not_found", "body_refused", "missing_bearer_token", "invalid_bearer_token"}
Failures == {"upstream_timeout", "upstream_unavailable",
             "upstream_response_read_failed", "upstream_response_too_large"}
Answers == Refusals \cup Failures \cup {"relayed"}
PcValues == {"idle", "dropped"} \cup Working \cup Answers
\* the length of a body against max_body_bytes: below, exactly, above
Bodies == {"short", "full", "long"}
Reactions == {"untouched", "called", "head", "broken", "cut"} \cup Bodies

ASSUME GuardedAssumption == Guarded \subseteq Routes
ASSUME StartsAssumption == MaxStarts \in Nat \ {0}
ASSUME NoneAssumption == None \notin Routes \cup Tokens /\ Junk \notin Tokens

Answer(r, code) == pc' = [pc EXCEPT ![r] = code]

-----------------------------------------------------------------------------
Init ==
  /\ pc = [r \in Requests |-> "idle"]
  /\ req = [r \in Requests |-> [route |-> None, token |-> None]]
  /\ deadline = {}
  /\ upstream = [r \in Requests |-> "untouched"]
  /\ starts = 1
  /\ signedIn = [t \in Tokens |-> 0]
  /\ expired = {}
  /\ revoked = {}
  /\ stale = {}

\* A caller presents a token it was issued, something else, or nothing.
Arrive(r) ==
  /\ pc[r] = "idle"
  /\ \E route \in Routes \cup {None},
        t \in {t \in Tokens : signedIn[t] # 0} \cup {Junk, None} :
       req' = [req EXCEPT ![r] = [route |-> route, token |-> t]]
  /\ pc' = [pc EXCEPT ![r] = "reading"]
  /\ stale' = IF req'[r].token \in revoked THEN stale \cup {r} ELSE stale
  /\ UNCHANGED <<deadline, upstream, tokenState>>

\* the Bytes extractor: it waits for the caller's body and refuses a long one
ReadBody(r) ==
  /\ pc[r] = "reading"
  /\ \E next \in {"routing", "body_refused"} : pc' = [pc EXCEPT ![r] = next]
  /\ UNCHANGED <<req, deadline, upstream, tokenState, stale>>

\* token_is_valid: signed with the key of this process, and not expired
ValidIgnoringExpiry(t) == t \in Tokens /\ signedIn[t] = starts
Valid(t) == t \in Tokens /\ signedIn[t] = starts /\ t \notin expired

AdmittedUnrouted(r) == req[r].route \in Guarded => Valid(req[r].token)
Admitted(r) ==
  /\ req[r].route # None
  /\ req[r].route \in Guarded => Valid(req[r].token)

\* why a request is not admitted, in the order of the checks
Refusal(r) ==
  IF req[r].route = None THEN "not_found"
  ELSE IF req[r].token = None THEN "missing_bearer_token" ELSE "invalid_bearer_token"

\* proxy_request up to the call, which has no .await in between
Forward(r) ==
  /\ pc[r] = "routing"
  /\ IF Admitted(r)
     THEN /\ pc' = [pc EXCEPT ![r] = "sending"]
          /\ upstream' = [upstream EXCEPT ![r] = "called"]
     ELSE Answer(r, Refusal(r)) /\ UNCHANGED upstream
  /\ UNCHANGED <<req, deadline, tokenState, stale>>

\* send().await has the head of the answer
ReceiveHead(r) ==
  /\ pc[r] = "sending"
  /\ upstream[r] \in {"head", "cut"} \cup Bodies
  /\ pc' = [pc EXCEPT ![r] = "receiving"]
  /\ UNCHANGED <<req, deadline, upstream, tokenState, stale>>

\* send().await fails: on the deadline, or because the connection broke
FailSend(r) ==
  /\ pc[r] = "sending"
  /\ \/ r \in deadline /\ Answer(r, "upstream_timeout")
     \/ upstream[r] \in {"broken", "cut"} /\ Answer(r, "upstream_unavailable")
  /\ UNCHANGED <<req, deadline, upstream, tokenState, stale>>

TooLongAtLimit(body) == body \in {"full", "long"}
TooLong(body) == body = "long"

ReceiveBodyPatiently(r) ==
  /\ pc[r] = "receiving"
  /\ \/ upstream[r] \in Bodies
        /\ Answer(r, IF TooLong(upstream[r]) THEN "upstream_response_too_large" ELSE "relayed")
     \/ upstream[r] = "cut" /\ Answer(r, "upstream_response_read_failed")
  /\ UNCHANGED <<req, deadline, upstream, tokenState, stale>>

\* bytes().await: the whole body is read before its length is looked at; a
\* failure to read it is not told apart by its cause
ReceiveBody(r) ==
  /\ pc[r] = "receiving"
  /\ \/ upstream[r] \in Bodies
        /\ Answer(r, IF TooLong(upstream[r]) THEN "upstream_response_too_large" ELSE "relayed")
     \/ /\ upstream[r] = "cut" \/ r \in deadline
        /\ Answer(r, "upstream_response_read_failed")
  /\ UNCHANGED <<req, deadline, upstream, tokenState, stale>>

-----------------------------------------------------------------------------
\* The environment

\* Client::timeout runs from the call to the end of the body
Deadline(r) ==
  /\ pc[r] \in {"sending", "receiving"}
  /\ r \notin deadline
  /\ deadline' = deadline \cup {r}
  /\ UNCHANGED <<pc, req, upstream, tokenState, stale>>

\* The upstream sends a head, then the rest of a body; the connection may break
\* before the head or in the body.  It may go on after the gateway has given up.
\* Redirects, which the HTTP client follows inside send(), are part of a call.
React(r) ==
  /\ \/ upstream[r] = "called" /\ upstream' = [upstream EXCEPT ![r] = "head"]
     \/ upstream[r] = "head" /\ \E body \in Bodies :
          upstream' = [upstream EXCEPT ![r] = body]
     \/ upstream[r] = "called" /\ upstream' = [upstream EXCEPT ![r] = "broken"]
     \/ upstream[r] = "head" /\ upstream' = [upstream EXCEPT ![r] = "cut"]
  /\ UNCHANGED <<pc, req, deadline, tokenState, stale>>

Issue(t) ==
  /\ signedIn[t] = 0
  /\ signedIn' = [signedIn EXCEPT ![t] = starts]
  /\ UNCHANGED <<pc, req, deadline, upstream, starts, expired, revoked, stale>>

Expire(t) ==
  /\ signedIn[t] # 0 /\ t \notin expired
  /\ expired' = expired \cup {t}
  /\ UNCHANGED <<pc, req, deadline, upstream, starts, signedIn, revoked, stale>>

\* /revoke, or /admin/reset clearing the token
Revoke(t) ==
  /\ signedIn[t] # 0 /\ t \notin revoked
  /\ revoked' = revoked \cup {t}
  /\ UNCHANGED <<pc, req, deadline, upstream, starts, signedIn, expired, stale>>

\* the caller closes the connection; the call upstream is abandoned, not undone
Disconnect(r) ==
  /\ pc[r] \in Working
  /\ Answer(r, "dropped")
  /\ UNCHANGED <<req, deadline, upstream, tokenState, stale>>

\* The process ends, with every handler in it, and another one starts.
Restart ==
  /\ starts < MaxStarts
  /\ starts' = starts + 1
  /\ pc' = [r \in Requests |-> IF pc[r] \in Working THEN "dropped" ELSE pc[r]]
  /\ UNCHANGED <<req, deadline, upstream, signedIn, expired, revoked, stale>>

\* every request is done; the server idles
Rest ==
  /\ \A r \in Requests : pc[r] # "idle" /\ pc[r] \notin Working
  /\ UNCHANGED vars

Handle(r) == Forward(r) \/ ReceiveHead(r) \/ FailSend(r) \/ ReceiveBody(r)

Next ==
  \/ \E r \in Requests : Arrive(r) \/ ReadBody(r) \/ Handle(r) \/ Deadline(r)
                             \/ React(r) \/ Disconnect(r)
  \/ \E t \in Tokens : Issue(t) \/ Expire(t) \/ Revoke(t)
  \/ Restart \/ Rest

Spec == Init /\ [][Next]_vars

\* handlers are polled and timers fire; neither callers nor upstreams must act
FairSpec == Spec /\ \A r \in Requests : WF_vars(Handle(r)) /\ WF_vars(Deadline(r))

-----------------------------------------------------------------------------
\* Every variable stays within its type, and the upstream is only ever called
\* for a request that found a route.
TypeOK ==
  /\ pc \in [Requests -> PcValues]
  /\ req \in [Requests -> [route : Routes \cup {None}, token : Tokens \cup {Junk, None}]]
  /\ deadline \subseteq Requests
  /\ upstream \in [Requests -> Reactions]
  /\ starts \in 1..MaxStarts
  /\ signedIn \in [Tokens -> 0..starts]
  /\ expired \cup revoked \subseteq Tokens
  /\ stale \subseteq Requests
  /\ \A r \in Requests : upstream[r] # "untouched" => req[r].route # None

\* An answer tells what happened upstream, whichever of deadline, upstream and
\* handler came first: a refusal means it was never called, a relayed answer
\* that its body was complete and within max_body_bytes (a body of exactly that length
\* is), and a failure other than a timeout or an unreadable body what the upstream did.
AnswersMatchUpstream ==
  \A r \in Requests :
    /\ pc[r] \in Refusals => upstream[r] = "untouched"
    /\ pc[r] = "relayed" => upstream[r] \in {"short", "full"}
    /\ pc[r] = "upstream_response_too_large" => upstream[r] = "long"
    /\ pc[r] = "upstream_unavailable" => upstream[r] \in {"broken", "cut"}
    /\ pc[r] \in Failures => upstream[r] # "untouched"

\* A token that dies while its request waits (its exp passes, or the process
\* restarts with another key) no longer opens a guarded upstream: the check is
\* made with the state of the moment of the call, not of the arrival.
Dead(t) == t \notin Tokens \/ t \in expired \/ signedIn[t] < starts
DeadTokensNeverPass ==
  [][\A r \in Requests :
       /\ Dead(req[r].token)
       /\ req[r].route \in Guarded
       /\ upstream[r] = "untouched"
       => upstream'[r] = "untouched"]_vars

\* A request whose body has arrived is answered although its upstream may never
\* answer, or never finish, unless the caller leaves or the process ends.
EveryCallAnswered ==
  \A r \in Requests : pc[r] = "routing" ~> pc[r] \in Answers \cup {"dropped"}

\* What the API reference says: the token is validated with the OAuth state, so
\* one revoked before the request arrived does not reach a guarded upstream.
RevokedTokensRefused ==
  \A r \in stale : req[r].route \in Guarded => upstream[r] = "untouched"
=============================================================================
