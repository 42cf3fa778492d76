---------------------------- MODULE GatewayProofs ----------------------------
(* Theorems about Gateway, for every set of requests, routes and tokens. *)
EXTENDS Gateway, TLAPS

-----------------------------------------------------------------------------
\* The upstream has been called for exactly the requests past the check, and a
\* handler that reads a body has seen its head.
CallsFit ==
  \A r \in Requests :
    /\ pc[r] \in {"idle", "reading", "routing"} => upstream[r] = "untouched"
    /\ pc[r] \in {"sending", "receiving"} => upstream[r] # "untouched"
    /\ pc[r] = "receiving" => upstream[r] \in {"head", "cut"} \cup Bodies

GatewayInv == TypeOK /\ AnswersMatchUpstream /\ CallsFit

\* Before the first request nothing has been called.
LEMMA InitGateway == Init => GatewayInv
BY StartsAssumption, NoneAssumption
   DEF Init, GatewayInv, TypeOK, AnswersMatchUpstream, CallsFit, PcValues,
       Working, Refusals, Failures, Answers, Reactions

\* What a step changes stays typed.
LEMMA StepTypes ==
  ASSUME GatewayInv, [Next]_vars
  PROVE  TypeOK'
<1> USE DEF GatewayInv, TypeOK
<1>1. ASSUME NEW r \in Requests, Arrive(r) PROVE TypeOK'
  BY <1>1 DEF Arrive, tokenState, CallsFit, PcValues, Working
<1>2. ASSUME NEW r \in Requests, ReadBody(r) PROVE TypeOK'
  BY <1>2 DEF ReadBody, tokenState, PcValues, Working, Answers, Refusals
<1>3. ASSUME NEW r \in Requests, Forward(r) PROVE TypeOK'
  BY <1>3 DEF Forward, Admitted, Refusal, Answer, tokenState, PcValues, Working,
              Answers, Refusals, Reactions
<1>4. ASSUME NEW r \in Requests, ReceiveHead(r) PROVE TypeOK'
  BY <1>4 DEF ReceiveHead, tokenState, PcValues, Working
<1>5. ASSUME NEW r \in Requests, FailSend(r) PROVE TypeOK'
  BY <1>5 DEF FailSend, Answer, tokenState, PcValues, Answers, Failures
<1>6. ASSUME NEW r \in Requests, ReceiveBody(r) PROVE TypeOK'
  BY <1>6 DEF ReceiveBody, TooLong, Answer, tokenState, PcValues, Answers, Failures
<1>7. ASSUME NEW r \in Requests, Deadline(r) PROVE TypeOK'
  BY <1>7 DEF Deadline, tokenState
<1>8. ASSUME NEW r \in Requests, React(r) PROVE TypeOK'
  BY <1>8 DEF React, tokenState, Reactions, Bodies
<1>9. ASSUME NEW r \in Requests, Disconnect(r) PROVE TypeOK'
  BY <1>9 DEF Disconnect, Answer, tokenState, PcValues
<1>10. ASSUME NEW t \in Tokens, Issue(t) PROVE TypeOK'
  BY <1>10 DEF Issue
<1>11. ASSUME NEW t \in Tokens, Expire(t) PROVE TypeOK'
  BY <1>11 DEF Expire
<1>12. ASSUME NEW t \in Tokens, Revoke(t) PROVE TypeOK'
  BY <1>12 DEF Revoke
<1>13. ASSUME Restart PROVE TypeOK'
  <2>1. starts' \in 1..MaxStarts /\ signedIn' \in [Tokens -> 0..starts']
    BY <1>13, StartsAssumption DEF Restart
  <2>2. pc' \in [Requests -> PcValues]
    BY <1>13 DEF Restart, PcValues
  <2> QED BY <1>13, <2>1, <2>2 DEF Restart
<1>14. ASSUME UNCHANGED vars PROVE TypeOK'
  BY <1>14 DEF vars, tokenState
<1> QED
  BY <1>1, <1>2, <1>3, <1>4, <1>5, <1>6, <1>7, <1>8, <1>9, <1>10, <1>11, <1>12,
     <1>13, <1>14 DEF Next, Handle, Rest

\* What a step changes about a request and its call stays in accord: one
\* request moves, or the upstream moves for one, or all handlers end.
LEMMA StepCalls ==
  ASSUME GatewayInv, [Next]_vars
  PROVE  AnswersMatchUpstream' /\ CallsFit'
<1> USE DEF AnswersMatchUpstream, CallsFit, Working, Refusals, Failures, Bodies
<1>0. /\ pc \in [Requests -> PcValues]
      /\ upstream \in [Requests -> Reactions]
      /\ AnswersMatchUpstream
      /\ CallsFit
  BY DEF GatewayInv, TypeOK
<1>1. ASSUME NEW r \in Requests, Arrive(r) PROVE AnswersMatchUpstream' /\ CallsFit'
  BY <1>0, <1>1 DEF Arrive
<1>2. ASSUME NEW r \in Requests, ReadBody(r) PROVE AnswersMatchUpstream' /\ CallsFit'
  BY <1>0, <1>2 DEF ReadBody
<1>3. ASSUME NEW r \in Requests, Forward(r) PROVE AnswersMatchUpstream' /\ CallsFit'
  BY <1>0, <1>3 DEF Forward, Refusal, Answer
<1>4. ASSUME NEW r \in Requests, ReceiveHead(r)
      PROVE  AnswersMatchUpstream' /\ CallsFit'
  BY <1>0, <1>4 DEF ReceiveHead
<1>5. ASSUME NEW r \in Requests, FailSend(r) PROVE AnswersMatchUpstream' /\ CallsFit'
  BY <1>0, <1>5 DEF FailSend, Answer
<1>6. ASSUME NEW r \in Requests, ReceiveBody(r)
      PROVE  AnswersMatchUpstream' /\ CallsFit'
  BY <1>0, <1>6 DEF ReceiveBody, TooLong, Answer
<1>7. ASSUME NEW r \in Requests, React(r) PROVE AnswersMatchUpstream' /\ CallsFit'
  BY <1>0, <1>7 DEF React
<1>8. ASSUME NEW r \in Requests, Disconnect(r)
      PROVE  AnswersMatchUpstream' /\ CallsFit'
  BY <1>0, <1>8 DEF Disconnect, Answer
<1>9. ASSUME Restart PROVE AnswersMatchUpstream' /\ CallsFit'
  BY <1>0, <1>9 DEF Restart
<1>10. ASSUME UNCHANGED <<pc, upstream>> PROVE AnswersMatchUpstream' /\ CallsFit'
  BY <1>0, <1>10
<1>11. \/ \E r \in Requests :
            \/ Arrive(r) \/ ReadBody(r) \/ Forward(r) \/ ReceiveHead(r)
            \/ FailSend(r) \/ ReceiveBody(r) \/ React(r) \/ Disconnect(r)
       \/ Restart
       \/ UNCHANGED <<pc, upstream>>
  BY DEF Next, Handle, Deadline, Issue, Expire, Revoke, Rest, vars
<1> QED BY <1>1, <1>2, <1>3, <1>4, <1>5, <1>6, <1>7, <1>8, <1>9, <1>10, <1>11

\* The accord of handlers and upstream holds in every behaviour.
LEMMA GatewayInvariant == Spec => []GatewayInv
<1>1. GatewayInv /\ [Next]_vars => GatewayInv'
  BY StepTypes, StepCalls DEF GatewayInv
<1> QED BY <1>1, InitGateway, PTL DEF Spec

\* Every variable keeps its type, and no call is made without a route.
THEOREM GatewayTypeCorrect == Spec => []TypeOK
<1>1. GatewayInv => TypeOK
  BY DEF GatewayInv
<1> QED BY <1>1, GatewayInvariant, PTL

\* An answer tells what the upstream did: refusals were never forwarded, relayed
\* answers are complete and within the size limit.
THEOREM AnswersTellTheCall == Spec => []AnswersMatchUpstream
<1>1. GatewayInv => AnswersMatchUpstream
  BY DEF GatewayInv
<1> QED BY <1>1, GatewayInvariant, PTL

\* A token that expired, was signed before a restart, or never was one opens no
\* guarded upstream, whenever in the life of the request it died.
THEOREM GuardedCallsNeedLiveTokens == Spec => DeadTokensNeverPass
<1>1. TypeOK /\ [Next]_vars =>
        [\A r \in Requests :
           /\ Dead(req[r].token)
           /\ req[r].route \in Guarded
           /\ upstream[r] = "untouched"
           => upstream'[r] = "untouched"]_vars
  <2> SUFFICES ASSUME TypeOK, Next, NEW r \in Requests,
                      Dead(req[r].token), req[r].route \in Guarded,
                      upstream[r] = "untouched", upstream'[r] # "untouched"
               PROVE  FALSE
    OBVIOUS
  <2>1. PICK q \in Requests : Forward(q) \/ React(q)
    BY DEF Next, Handle, Arrive, ReadBody, ReceiveHead, FailSend, ReceiveBody,
           Deadline, Disconnect, Issue, Expire, Revoke, Restart, Rest, vars
  <2>2. q = r
    BY <2>1 DEF TypeOK, Forward, React
  <2>3. Admitted(r)
    BY <2>1, <2>2 DEF Forward, React
  <2>4. Valid(req[r].token)
    BY <2>3 DEF Admitted
  <2> QED BY <2>4 DEF Valid, Dead, TypeOK
<1>2. GatewayInv => TypeOK
  BY DEF GatewayInv
<1> QED BY <1>1, <1>2, GatewayInvariant, PTL DEF Spec, DeadTokensNeverPass
=============================================================================
