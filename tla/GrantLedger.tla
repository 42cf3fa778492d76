----------------------------- MODULE GrantLedger -----------------------------
(***************************************************************************)
(* What the authorize and token endpoints promise about the tickets they    *)
(* hand out (authorization codes and refresh tokens), without store calls   *)
(* or handlers.  A ticket is named by the request it is issued to.          *)
(***************************************************************************)
CONSTANTS Tickets, None

VARIABLES
  status,  \* of each ticket: not issued yet, usable, or used up
  roots,   \* the tickets that are authorization codes
  claim,   \* the ticket each request was granted tokens for
  settled  \* requests answered with a rotated refresh token

ledger == <<status, roots, claim, settled>>

Init ==
  /\ status = [t \in Tickets |-> "unissued"]
  /\ roots = {}
  /\ claim = [r \in Tickets |-> None]
  /\ settled = {}

\* an authorization code is handed out
Issue(t) ==
  /\ status[t] = "unissued"
  /\ claim[t] = None
  /\ status' = [status EXCEPT ![t] = "live"]
  /\ roots' = roots \cup {t}
  /\ UNCHANGED <<claim, settled>>

\* a code is granted to r and used up by it at once
RedeemCode(r, t) ==
  /\ t \in roots
  /\ status[t] = "live"
  /\ claim[r] = None
  /\ status[r] = "unissued"
  /\ claim' = [claim EXCEPT ![r] = t]
  /\ status' = [status EXCEPT ![t] = "spent"]
  /\ UNCHANGED <<roots, settled>>

\* a refresh token is granted to r and stays usable for the moment
AdmitRefresh(r, t) ==
  /\ t \notin roots
  /\ status[t] = "live"
  /\ claim[r] = None
  /\ status[r] = "unissued"
  /\ claim' = [claim EXCEPT ![r] = t]
  /\ UNCHANGED <<status, roots, settled>>

\* r, which was granted a ticket, receives its refresh token
Renew(r) ==
  /\ claim[r] # None
  /\ status[r] = "unissued"
  /\ status' = [status EXCEPT ![r] = "live"]
  /\ UNCHANGED <<roots, claim, settled>>

\* r is answered: the refresh token it claimed is used up by now
Settle(r) ==
  /\ claim[r] # None
  /\ status[r] # "unissued"
  /\ r \notin settled
  /\ status' = [status EXCEPT ![claim[r]] = "spent"]
  /\ settled' = settled \cup {r}
  /\ UNCHANGED <<roots, claim>>

\* refused redemption, revocation or reset: usable tickets are withdrawn
Withdraw(T) ==
  /\ T # {}
  /\ \A t \in T : status[t] = "live"
  /\ status' = [t \in Tickets |-> IF t \in T THEN "spent" ELSE status[t]]
  /\ UNCHANGED <<roots, claim, settled>>

Next ==
  \/ \E r \in Tickets : Issue(r) \/ Renew(r) \/ Settle(r)
  \/ \E r, t \in Tickets : RedeemCode(r, t) \/ AdmitRefresh(r, t)
  \/ \E T \in SUBSET Tickets : Withdraw(T)

Spec == Init /\ [][Next]_ledger
=============================================================================
