------------------------ MODULE OAuthGrantsRefinement ------------------------
(* The handlers of OAuthGrants implement GrantLedger: a step of a handler is *)
(* one step of the ledger or leaves it alone.                                *)
EXTENDS OAuthGrantsProofs

\* What the ledger sees of the requests.
Settled(r) == job[r].kind = "refresh" /\ pc[r] = "ok"

\* the request is not about to change what the ledger sees of others
SameView(k) ==
  /\ Usable(k)' <=> Usable(k)
  /\ CodeIssued(k)' <=> CodeIssued(k)
  /\ RefreshIssued(k)' <=> RefreshIssued(k)

Invs == Typed /\ TicketInv

\* A step that changes nothing the ledger sees is a stutter of the ledger.
LEMMA Stutter ==
  ASSUME \A k \in Requests : SameView(k),
         \A k \in Requests : Settled(k)' = Settled(k),
         \A k \in Requests : Holds(k)' = Holds(k),
         \A k \in Requests : Holds(k) => job'[k].ticket = job[k].ticket
  PROVE  UNCHANGED Ledger!ledger
<1>1. \A k \in Requests : TicketStatus(k)' = TicketStatus(k)
  BY DEF TicketStatus, SameView
<1>2. [k \in Requests |-> TicketStatus(k)]' = [k \in Requests |-> TicketStatus(k)]
  BY <1>1
<1>3. {k \in Requests : CodeIssued(k)}' = {k \in Requests : CodeIssued(k)}
  BY DEF SameView
<1>4. {k \in Requests : Settled(k)}' = {k \in Requests : Settled(k)}
  OBVIOUS
<1>5. [r \in Requests |-> IF Holds(r) THEN job[r].ticket ELSE Absent]'
        = [r \in Requests |-> IF Holds(r) THEN job[r].ticket ELSE Absent]
  OBVIOUS
<1> QED BY <1>2, <1>3, <1>4, <1>5 DEF Ledger!ledger, Settled

\* No request, no ticket.
LEMMA InitRefines == Init => Ledger!Init
BY AbsentAssumption
DEF Init, Ledger!Init, TicketStatus, Usable, CodeIssued, RefreshIssued, Holds,
    GrantKinds

\* The variables are functions on the requests, tickets are requests.
LEMMA TypesOf ==
  ASSUME Typed
  PROVE  /\ pc \in [Requests -> PcValues]
         /\ job \in [Requests -> Job]
         /\ codes \in [Requests -> Code \cup {Absent}]
         /\ refresh \in [Requests -> Token \cup {Absent}]
         /\ origin \in [Requests -> Requests \cup {Absent}]
         /\ \A q \in Requests : job[q].ticket \in Requests /\ q # Absent
         /\ Absent \notin Code \cup Token
         /\ \A token \in Token : Revoked(token).revoked /\ Revoked(token) \in Token
BY AbsentAssumption DEF Typed, TypeOK, Job, Stamps, Revoked, Token

\* A usable ticket has been issued; a request past idle is no issued ticket
\* until its own insertion.
LEMMA UsableIssued ==
  ASSUME Invs, NEW k \in Requests, Usable(k)
  PROVE  CodeIssued(k) \/ RefreshIssued(k)
BY DEF Invs, TicketInv, StoreBacked, Usable

\* The arrival of a request is invisible to the ledger.
LEMMA ArrivalStutters ==
  ASSUME Invs, NEW r \in Requests, Start(r)
  PROVE  UNCHANGED Ledger!ledger
<1>1. PICK kind \in Kinds, first \in InFlight, input \in Job :
        Begin(r, kind, first, input) /\ Fits(kind, first)
  BY StartArrives DEF Arrives, Invs
<1>2. /\ pc[r] = "idle" /\ pc' = [pc EXCEPT ![r] = first] /\ first # "ok"
      /\ first # "retire"
      /\ job' = [job EXCEPT ![r] = input]
      /\ UNCHANGED <<codes, refresh, origin>>
  BY <1>1 DEF Begin, Goto, store, Fits
<1>3. ~Holds(r)
  BY <1>2 DEF Invs, TicketInv, HoldersAdvanced
<1>4. \A k \in Requests : SameView(k) /\ Settled(k)' = Settled(k)
  BY <1>2, TypesOf DEF SameView, Usable, CodeIssued, RefreshIssued, Settled, Invs
<1>5. \A k \in Requests : /\ Holds(k)' = Holds(k)
                          /\ Holds(k) => job'[k].ticket = job[k].ticket
  BY <1>2, <1>3, TypesOf DEF Holds, Invs
<1> QED BY <1>4, <1>5, Stutter

\* A handler that moves between labels without a ticket changing hands is
\* invisible to the ledger.
LEMMA MoveStutters ==
  ASSUME Invs, NEW r \in Requests, NEW next, pc[r] # "ok", pc[r] # "retire",
         pc' = [pc EXCEPT ![r] = next], next # "retire",
         next = "ok" => job[r].kind \notin {"authorize", "code", "refresh"},
         UNCHANGED <<job, codes, refresh, origin>>
  PROVE  UNCHANGED Ledger!ledger
<1>1. \A k \in Requests : SameView(k) /\ Settled(k)' = Settled(k)
  BY TypesOf DEF SameView, Usable, CodeIssued, RefreshIssued, Settled, Invs,
                 GrantKinds
<1>2. \A k \in Requests : /\ Holds(k)' = Holds(k)
                          /\ Holds(k) => job'[k].ticket = job[k].ticket
  BY DEF Holds
<1> QED BY <1>1, <1>2, Stutter

\* Time passing and callers hanging up are invisible to the ledger.
LEMMA NothingMoved ==
  ASSUME UNCHANGED <<pc, job, codes, refresh, origin>>
  PROVE  UNCHANGED Ledger!ledger
BY Stutter DEF SameView, Usable, CodeIssued, RefreshIssued, Settled, Holds

\* insert_code issues the ticket; a lifetime that panics before it is invisible.
LEMMA InsertCodeRefines ==
  ASSUME Invs, NEW r \in Requests, InsertCode(r)
  PROVE  Ledger!Issue(r) \/ UNCHANGED Ledger!ledger
<1>d. CASE pc' = [pc EXCEPT ![r] = "dropped"] /\ UNCHANGED codes
  BY <1>d, MoveStutters DEF InsertCode, At, history
<1>i. CASE pc' = [pc EXCEPT ![r] = "ok"] /\ codes' = [codes EXCEPT ![r] = held[r]]
  <2>1. /\ pc[r] = "insertCode" /\ pc' = [pc EXCEPT ![r] = "ok"]
        /\ codes' = [codes EXCEPT ![r] = held[r]]
        /\ held[r] # Absent /\ job[r].kind = "authorize"
        /\ UNCHANGED <<job, refresh, origin>>
    BY <1>i, TypesOf DEF InsertCode, At, Goto, history, Invs, Typed, LabelsFit
  <2>2. ~Holds(r) /\ ~Usable(r) /\ ~CodeIssued(r) /\ ~RefreshIssued(r)
    BY <2>1, UsableIssued
    DEF CodeIssued, RefreshIssued, GrantKinds, Invs, TicketInv, HoldersAdvanced
  <2>3. \A k \in Requests : k # r => SameView(k)
    BY <2>1, TypesOf DEF SameView, Usable, CodeIssued, RefreshIssued, Invs
  <2>4. Usable(r)' /\ CodeIssued(r)'
    BY <2>1, TypesOf DEF Usable, CodeIssued, Invs
  <2>5. \A k \in Requests :
          TicketStatus(k)' = IF k = r THEN "live" ELSE TicketStatus(k)
    BY <2>3, <2>4 DEF TicketStatus, SameView
  <2>6. {k \in Requests : CodeIssued(k)}' = {k \in Requests : CodeIssued(k)} \cup {r}
    BY <2>3, <2>4 DEF SameView
  <2>7. \A k \in Requests : Settled(k)' = Settled(k)
    BY <2>1, TypesOf DEF Settled, Invs
  <2>8. TicketStatus(r) = "unissued"
    BY <2>2 DEF TicketStatus
  <2> QED BY <2>1, <2>2, <2>5, <2>6, <2>7, <2>8 DEF Ledger!Issue, Settled, Holds
<1> QED BY <1>d, <1>i DEF InsertCode, Goto

\* a handler stops with an error, or by a panic
Ends(r) == \E label \in {"fail", "dropped"} : pc' = [pc EXCEPT ![r] = label]

\* remove_code: a granted code is claimed and used up at once, a refused one is
\* withdrawn, a missing one leaves no trace.
LEMMA TakeCodeRefines ==
  ASSUME Invs, NEW r \in Requests, TakeCode(r)
  PROVE  Ledger!Next \/ UNCHANGED Ledger!ledger
<1>k. PICK k \in Requests : k = job[r].ticket
  BY TypesOf DEF Invs
<1>1. /\ pc[r] = "take"
      /\ codes' = [codes EXCEPT ![k] = Absent]
      /\ \/ /\ codes[k] # Absent
            /\ origin' = [origin EXCEPT ![r] = k]
            /\ pc' = [pc EXCEPT ![r] = "putAccess"]
         \/ UNCHANGED origin /\ Ends(r)
      /\ UNCHANGED <<job, refresh>>
  BY <1>k DEF TakeCode, RemoveCode, WithoutEnd, Ends, At, Goto
<1>2. k \in Requests /\ k # Absent /\ k = job[r].ticket
  BY <1>k, TypesOf DEF Invs
<1>3. CASE codes[k] = Absent
  <2>1. UNCHANGED codes /\ UNCHANGED origin /\ Ends(r)
    BY <1>1, <1>2, <1>3, TypesOf DEF Invs
  <2> QED BY <1>1, <2>1, MoveStutters DEF Ends
<1>4. CASE codes[k] # Absent
  <2>1. /\ CodeIssued(k) /\ ~RefreshIssued(k) /\ refresh[k] = Absent /\ k # r
        /\ Usable(k)
    BY <1>1, <1>2, <1>4
    DEF Invs, TicketInv, StoreBacked, CodeIssued, RefreshIssued, Usable, GrantKinds
  <2>2. \A q \in Requests : /\ CodeIssued(q)' = CodeIssued(q)
                            /\ RefreshIssued(q)' = RefreshIssued(q)
                            /\ Settled(q)' = Settled(q)
                            /\ q # k => Usable(q)' = Usable(q)
    BY <1>1, <1>2, TypesOf
    DEF CodeIssued, RefreshIssued, Settled, Usable, Invs, Ends
  <2>3. ~Usable(k)'
    BY <1>1, <1>2, <2>1, TypesOf DEF Usable, Invs
  <2>4. \A q \in Requests :
          TicketStatus(q)' = IF q = k THEN "spent" ELSE TicketStatus(q)
    BY <2>1, <2>2, <2>3 DEF TicketStatus
  <2>5. TicketStatus(k) = "live"
    BY <2>1 DEF TicketStatus
  <2>6. TicketStatus(r) = "unissued" /\ ~Holds(r)
    BY <1>1, UsableIssued
    DEF TicketStatus, CodeIssued, RefreshIssued, Invs, TicketInv, HoldersAdvanced
  <2>7. /\ {q \in Requests : CodeIssued(q)}' = {q \in Requests : CodeIssued(q)}
        /\ {q \in Requests : Settled(q)}' = {q \in Requests : Settled(q)}
    BY <2>2
  <2>8. CASE origin' = [origin EXCEPT ![r] = k]
    <3>1. \A q \in Requests : Holds(q)' = (q = r \/ Holds(q))
      BY <2>8, <1>2, TypesOf DEF Holds, Invs
    <3>2. Ledger!RedeemCode(r, k)
      BY <1>1, <1>2, <2>1, <2>4, <2>5, <2>6, <2>7, <3>1
      DEF Ledger!RedeemCode, Settled
    <3> QED BY <3>2, <1>2 DEF Ledger!Next
  <2>9. CASE UNCHANGED origin
    <3>1. Ledger!Withdraw({k})
      BY <1>1, <1>2, <2>4, <2>5, <2>7, <2>9 DEF Ledger!Withdraw, Settled, Holds
    <3> QED BY <3>1, <1>2 DEF Ledger!Next
  <2> QED BY <1>1, <2>8, <2>9
<1> QED BY <1>3, <1>4

\* get_refresh_token: a live refresh token is granted and stays live.
LEMMA ReadRefreshRefines ==
  ASSUME Invs, NEW r \in Requests, ReadRefresh(r)
  PROVE  Ledger!Next \/ UNCHANGED Ledger!ledger
<1>k. PICK k \in Requests : k = job[r].ticket
  BY TypesOf DEF Invs
<1>1. /\ pc[r] = "read"
      /\ \/ /\ refresh[k] # Absent /\ ~refresh[k].revoked
            /\ origin' = [origin EXCEPT ![r] = origin[k]]
            /\ pc' = [pc EXCEPT ![r] = "putAccess"]
         \/ UNCHANGED origin /\ Ends(r)
      /\ UNCHANGED <<job, codes, refresh>>
  BY <1>k DEF ReadRefresh, WithoutEnd, Ends, At, Goto, store
<1>2. k \in Requests /\ k # Absent /\ k = job[r].ticket
  BY <1>k, TypesOf DEF Invs
<1>3. CASE UNCHANGED origin /\ Ends(r)
  BY <1>1, <1>3, MoveStutters DEF Ends
<1>4. CASE /\ refresh[k] # Absent /\ ~refresh[k].revoked
           /\ origin' = [origin EXCEPT ![r] = origin[k]]
           /\ pc' = [pc EXCEPT ![r] = "putAccess"]
  <2>1. Usable(k) /\ RefreshIssued(k) /\ ~CodeIssued(k) /\ Holds(k) /\ k # r
    BY <1>1, <1>2, <1>4
    DEF Usable, RefreshIssued, CodeIssued, Invs, TicketInv, StoreBacked,
        HoldersAdvanced, GrantKinds
  <2>2. \A q \in Requests : SameView(q) /\ Settled(q)' = Settled(q)
    BY <1>1, <1>4, TypesOf
    DEF SameView, Usable, CodeIssued, RefreshIssued, Settled, Invs
  <2>3. \A q \in Requests : Holds(q)' = (q = r \/ Holds(q))
    BY <1>4, <2>1, TypesOf DEF Holds, Invs
  <2>4. TicketStatus(k) = "live"
    BY <2>1 DEF TicketStatus
  <2>5. TicketStatus(r) = "unissued" /\ ~Holds(r)
    BY <1>1, UsableIssued
    DEF TicketStatus, CodeIssued, RefreshIssued, Invs, TicketInv, HoldersAdvanced
  <2>6. \A q \in Requests : TicketStatus(q)' = TicketStatus(q)
    BY <2>2 DEF TicketStatus, SameView
  <2>7. /\ {q \in Requests : CodeIssued(q)}' = {q \in Requests : CodeIssued(q)}
        /\ {q \in Requests : Settled(q)}' = {q \in Requests : Settled(q)}
    BY <2>2 DEF SameView
  <2>8. Ledger!AdmitRefresh(r, k)
    BY <1>1, <1>2, <2>1, <2>3, <2>4, <2>5, <2>6, <2>7
    DEF Ledger!AdmitRefresh, Settled
  <2> QED BY <2>8, <1>2 DEF Ledger!Next
<1> QED BY <1>1, <1>3, <1>4

\* insert_refresh_token: the request's own ticket becomes usable.
LEMMA PutRefreshRenews ==
  ASSUME Invs, NEW r \in Requests, PutRefresh(r)
  PROVE  Ledger!Renew(r)
<1>1. /\ pc[r] = "putRefresh" /\ job[r].kind \in GrantKinds
      /\ \/ job[r].kind = "refresh" /\ pc' = [pc EXCEPT ![r] = "retire"]
         \/ job[r].kind # "refresh" /\ pc' = [pc EXCEPT ![r] = "ok"]
      /\ held[r] \in Token
      /\ refresh' = [refresh EXCEPT ![r] = held[r]]
      /\ UNCHANGED <<job, codes, origin>>
  BY DEF PutRefresh, At, Goto, history, Invs, Typed, LabelsFit
<1>2. Holds(r) /\ ~Usable(r) /\ ~CodeIssued(r) /\ ~RefreshIssued(r)
  BY <1>1, UsableIssued
  DEF CodeIssued, RefreshIssued, GrantKinds, Invs, TicketInv, HoldersAdvanced
<1>3. ~held[r].revoked
  BY <1>1 DEF Invs, TicketInv, HeldFresh
<1>4. \A k \in Requests : k # r => SameView(k)
  BY <1>1, TypesOf DEF SameView, Usable, CodeIssued, RefreshIssued, Invs
<1>5. Usable(r)' /\ ~CodeIssued(r)'
  BY <1>1, <1>3, TypesOf DEF Usable, CodeIssued, Invs, GrantKinds
<1>6. \A k \in Requests :
        TicketStatus(k)' = IF k = r THEN "live" ELSE TicketStatus(k)
  BY <1>4, <1>5 DEF TicketStatus, SameView
<1>7. {k \in Requests : CodeIssued(k)}' = {k \in Requests : CodeIssued(k)}
  BY <1>2, <1>4, <1>5 DEF SameView
<1>8. \A k \in Requests : Settled(k)' = Settled(k)
  BY <1>1, TypesOf DEF Settled, Invs
<1>9. TicketStatus(r) = "unissued" /\ job[r].ticket # Absent
  BY <1>2, TypesOf DEF TicketStatus, Invs
<1> QED BY <1>1, <1>2, <1>6, <1>7, <1>8, <1>9 DEF Ledger!Renew, Settled, Holds

\* update_refresh_token: the presented token is used up before the answer.
LEMMA RetireRefreshSettles ==
  ASSUME Invs, NEW r \in Requests, RetireRefresh(r)
  PROVE  Ledger!Settle(r)
<1>k. PICK k \in Requests : k = job[r].ticket
  BY TypesOf DEF Invs
<1>1. /\ pc[r] = "retire" /\ job[r].kind = "refresh" /\ held[r] \in Token
      /\ pc' = [pc EXCEPT ![r] = "ok"]
      /\ \/ refresh' = [refresh EXCEPT ![k] = Revoked(held[r])]
         \/ refresh[k] = Absent /\ UNCHANGED refresh
      /\ UNCHANGED <<job, codes, origin>>
  BY <1>k DEF RetireRefresh, At, Goto, history, Invs, Typed, LabelsFit
<1>2. Holds(r) /\ k # r /\ RefreshIssued(k) /\ ~CodeIssued(k) /\ codes[k] = Absent
  BY <1>1, <1>k
  DEF RefreshIssued, CodeIssued, GrantKinds, Invs, TicketInv, HoldersAdvanced,
      TicketsTold, StoreBacked
<1>3. ~Usable(k)'
  BY <1>1, <1>2, TypesOf DEF Usable, Invs
<1>4. \A q \in Requests : /\ CodeIssued(q)' = CodeIssued(q)
                          /\ RefreshIssued(q)' = RefreshIssued(q)
                          /\ q # k => Usable(q)' = Usable(q)
                          /\ Settled(q)' = (q = r \/ Settled(q))
  BY <1>1, TypesOf
  DEF CodeIssued, RefreshIssued, Usable, Settled, Invs, GrantKinds
<1>5. \A q \in Requests :
        TicketStatus(q)' = IF q = k THEN "spent" ELSE TicketStatus(q)
  BY <1>2, <1>3, <1>4 DEF TicketStatus
<1>6. TicketStatus(r) # "unissued" /\ ~Settled(r) /\ k # Absent
  BY <1>1, TypesOf DEF TicketStatus, RefreshIssued, GrantKinds, Settled, Invs
<1>7. /\ {q \in Requests : CodeIssued(q)}' = {q \in Requests : CodeIssued(q)}
      /\ {q \in Requests : Settled(q)}'
           = {q \in Requests : Settled(q)} \cup {r}
  BY <1>4
<1> QED BY <1>1, <1>2, <1>5, <1>6, <1>7, <1>k DEF Ledger!Settle, Settled, Holds

\* /revoke withdraws a refresh token, or changes nothing the ledger sees.
LEMMA RevokeTokenRefines ==
  ASSUME Invs, NEW r \in Requests, RevokeToken(r)
  PROVE  Ledger!Next \/ UNCHANGED Ledger!ledger
<1>k. PICK k \in Requests : k = job[r].ticket
  BY TypesOf DEF Invs
<1>1. /\ pc[r] = "revoke" /\ pc' = [pc EXCEPT ![r] = "ok"]
      /\ job[r].kind = "revoke"
      /\ UNCHANGED <<job, codes, origin>>
      /\ \/ UNCHANGED refresh
         \/ /\ refresh[k] # Absent
            /\ \/ refresh' = [refresh EXCEPT ![k] = Absent]
               \/ refresh' = [refresh EXCEPT ![k] = Revoked(refresh[k])]
  BY <1>k, TypesOf
  DEF RevokeToken, Kill, At, Goto, history, Invs, Typed, LabelsFit
<1>2. CASE UNCHANGED refresh
  BY <1>1, <1>2, MoveStutters
<1>3. CASE /\ refresh[k] # Absent
           /\ \/ refresh' = [refresh EXCEPT ![k] = Absent]
              \/ refresh' = [refresh EXCEPT ![k] = Revoked(refresh[k])]
  <2>1. RefreshIssued(k) /\ ~CodeIssued(k) /\ codes[k] = Absent
    BY <1>3 DEF Invs, TicketInv, StoreBacked, RefreshIssued, CodeIssued, GrantKinds
  <2>2. ~Usable(k)'
    BY <1>1, <1>3, <2>1, TypesOf DEF Usable, Invs
  <2>3. \A q \in Requests : /\ CodeIssued(q)' = CodeIssued(q)
                            /\ RefreshIssued(q)' = RefreshIssued(q)
                            /\ q # k => Usable(q)' = Usable(q)
                            /\ Settled(q)' = Settled(q)
    BY <1>1, <1>3, TypesOf
    DEF CodeIssued, RefreshIssued, Usable, Settled, Invs, GrantKinds
  <2>4. \A q \in Requests :
          TicketStatus(q)' = IF q = k THEN "spent" ELSE TicketStatus(q)
    BY <2>1, <2>2, <2>3 DEF TicketStatus
  <2>5. /\ {q \in Requests : CodeIssued(q)}' = {q \in Requests : CodeIssued(q)}
        /\ {q \in Requests : Settled(q)}' = {q \in Requests : Settled(q)}
        /\ \A q \in Requests : Holds(q)' = Holds(q)
    BY <2>3, <1>1 DEF Holds
  <2>6. CASE Usable(k)
    <3>1. TicketStatus(k) = "live"
      BY <2>6 DEF TicketStatus
    <3>2. Ledger!Withdraw({k})
      BY <1>1, <2>4, <2>5, <3>1 DEF Ledger!Withdraw, Settled
    <3> QED BY <3>2 DEF Ledger!Next
  <2>7. CASE ~Usable(k)
    <3>1. \A q \in Requests : SameView(q)
      BY <2>2, <2>3, <2>7 DEF SameView
    <3> QED BY <1>1, <2>3, <2>5, <3>1, Stutter
  <2> QED BY <2>6, <2>7
<1> QED BY <1>1, <1>2, <1>3

\* clear_all withdraws every usable ticket at once.
LEMMA ClearAllRefines ==
  ASSUME Invs, NEW r \in Requests, ClearAll(r)
  PROVE  Ledger!Next \/ UNCHANGED Ledger!ledger
<1>1. /\ pc[r] = "clear"
      /\ \E next \in {"seed", "count"} : pc' = [pc EXCEPT ![r] = next]
      /\ codes' = [q \in Requests |-> Absent]
      /\ refresh' = [q \in Requests |-> Absent]
      /\ UNCHANGED <<job, origin>>
  BY DEF ClearAll, NoCodes, AfterSeeding, At, Goto
<1>2. \A q \in Requests : /\ ~Usable(q)'
                          /\ CodeIssued(q)' = CodeIssued(q)
                          /\ RefreshIssued(q)' = RefreshIssued(q)
                          /\ Settled(q)' = Settled(q)
                          /\ Holds(q)' = Holds(q)
  BY <1>1, TypesOf DEF Usable, CodeIssued, RefreshIssued, Settled, Holds, Invs
<1> DEFINE T == {q \in Requests : Usable(q)}
<1>3. \A q \in Requests :
        TicketStatus(q)' = IF q \in T THEN "spent" ELSE TicketStatus(q)
  BY <1>2, UsableIssued DEF TicketStatus
<1>4. \A q \in T : TicketStatus(q) = "live"
  BY DEF TicketStatus
<1>5. CASE T = {}
  <2>1. \A q \in Requests : SameView(q)
    BY <1>2, <1>5 DEF SameView
  <2> QED BY <1>1, <1>2, <2>1, Stutter
<1>6. CASE T # {}
  <2>1. Ledger!Withdraw(T)
    <3>1. T \subseteq Requests
      OBVIOUS
    <3> HIDE DEF T
    <3> QED BY <1>1, <1>2, <1>3, <1>4, <1>6, <3>1 DEF Ledger!Withdraw, Settled
  <2> QED BY <2>1 DEF Ledger!Next
<1> QED BY <1>5, <1>6

\* Every step of the handlers is a step of the ledger or a stutter.
LEMMA StepRefines ==
  ASSUME Invs, [Next]_vars
  PROVE  Ledger!Next \/ UNCHANGED Ledger!ledger
<1> USE DEF Goto, At, store, history
<1>0. LabelsFit
  BY DEF Invs, Typed
<1>1. ASSUME NEW r \in Requests, Start(r)
      PROVE  UNCHANGED Ledger!ledger
  BY <1>1, ArrivalStutters
<1>2. ASSUME NEW r \in Requests, InsertCode(r)
      PROVE  Ledger!Next \/ UNCHANGED Ledger!ledger
  BY <1>2, InsertCodeRefines DEF Ledger!Next
<1>3. ASSUME NEW r \in Requests, TakeCode(r)
      PROVE  Ledger!Next \/ UNCHANGED Ledger!ledger
  BY <1>3, TakeCodeRefines
<1>4. ASSUME NEW r \in Requests, ReadRefresh(r)
      PROVE  Ledger!Next \/ UNCHANGED Ledger!ledger
  BY <1>4, ReadRefreshRefines
<1>5. ASSUME NEW r \in Requests, PutRefresh(r)
      PROVE  Ledger!Next
  BY <1>5, PutRefreshRenews DEF Ledger!Next
<1>6. ASSUME NEW r \in Requests, RetireRefresh(r)
      PROVE  Ledger!Next
  BY <1>6, RetireRefreshSettles DEF Ledger!Next
<1>7. ASSUME NEW r \in Requests, RevokeToken(r)
      PROVE  Ledger!Next \/ UNCHANGED Ledger!ledger
  BY <1>7, RevokeTokenRefines
<1>8. ASSUME NEW r \in Requests, ClearAll(r)
      PROVE  Ledger!Next \/ UNCHANGED Ledger!ledger
  BY <1>8, ClearAllRefines
<1>9. ASSUME NEW r \in Requests, ValidateAuthorize(r)
      PROVE  UNCHANGED Ledger!ledger
  BY <1>9, <1>0, MoveStutters DEF ValidateAuthorize, LabelsFit
<1>10. ASSUME NEW r \in Requests, UpstreamAuthorize(r)
      PROVE  UNCHANGED Ledger!ledger
  BY <1>10, <1>0, MoveStutters DEF UpstreamAuthorize, LabelsFit
<1>11. ASSUME NEW r \in Requests, Authenticate(r)
      PROVE  UNCHANGED Ledger!ledger
  BY <1>11, <1>0, MoveStutters DEF Authenticate, HandlerStart, LabelsFit
<1>12. ASSUME NEW r \in Requests, PutAccess(r)
      PROVE  UNCHANGED Ledger!ledger
  BY <1>12, <1>0, MoveStutters DEF PutAccess, LabelsFit
<1>13. ASSUME NEW r \in Requests, IssueClientToken(r)
      PROVE  UNCHANGED Ledger!ledger
  BY <1>13, <1>0, MoveStutters DEF IssueClientToken, WithoutEnd, LabelsFit
<1>14. ASSUME NEW r \in Requests, RegisterClient(r)
      PROVE  UNCHANGED Ledger!ledger
  BY <1>14, <1>0, MoveStutters DEF RegisterClient, LabelsFit
<1>15. ASSUME NEW r \in Requests, SeedClient(r)
      PROVE  UNCHANGED Ledger!ledger
  BY <1>15, <1>0, MoveStutters DEF SeedClient, AfterSeeding, LabelsFit
<1>16. ASSUME NEW r \in Requests, CountClients(r)
      PROVE  UNCHANGED Ledger!ledger
  BY <1>16, <1>0, MoveStutters DEF CountClients, LabelsFit
<1>17. ASSUME NEW r \in Requests, Lapse(r) \/ Disconnect(r)
      PROVE  UNCHANGED Ledger!ledger
  BY <1>17, NothingMoved DEF Lapse, Disconnect
<1>18. CASE UNCHANGED vars
  BY <1>18, NothingMoved DEF vars
<1> QED
  BY <1>1, <1>2, <1>3, <1>4, <1>5, <1>6, <1>7, <1>8, <1>9, <1>10, <1>11, <1>12, <1>13, <1>14, <1>15, <1>16, <1>17, <1>18
  DEF Next, Serve, Rest

\* Callers may rely on the ledger's promises about codes and refresh tokens,
\* whatever requests, resets, revocations and hang-ups interleave.
THEOREM Refinement == Spec => LedgerSpec
<1>1. Invs /\ [Next]_vars => [Ledger!Next]_(Ledger!ledger)
  BY StepRefines
<1>2. Spec => []Invs
  BY TicketsInvariant DEF Invs
<1> QED BY <1>1, <1>2, InitRefines, PTL DEF Spec, LedgerSpec, Ledger!Spec
=============================================================================
