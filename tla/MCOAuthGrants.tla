---- MODULE MCOAuthGrants ----
(* Small instances of OAuthGrants for TLC. *)
EXTENDS OAuthGrants, TLC
CONSTANTS r1, r2, r3, r4, r5, web, api, alice, bob

Symmetry == Permutations(Requests)

WebOnly == <<web>>
WebAndApi == <<web, api>>

OpenWeb == [c \in {web} |-> "open"]
Mixed == [c \in {web, api} |-> IF c = web THEN "generated" ELSE "fixed"]

LinkedToAlice == [c \in {web} |-> {alice}]
LinkedApart == [c \in {web, api} |-> IF c = web THEN {alice} ELSE {}]

\* lifetimes that fit, or where one kind of ticket has no end
Fitting == [access |-> "fits", code |-> "fits"]
FittingOnly == {Fitting}
EndlessAccess == {Fitting, [Fitting EXCEPT !.access = "no_date"]}
Endless == {Fitting, [access |-> "no_date", code |-> "no_date"]}

NoRequests == [k \in Kinds |-> 0]
\* races for the code and for the refresh token of one authorization, which a
\* reset and a revocation may cross
TicketBudget ==
  [NoRequests EXCEPT !["authorize"] = 1, !["code"] = 2, !["refresh"] = 2,
                     !["reset"] = 1, !["revoke"] = 1]
\* two resets cross a registration, an authorization and a confidential caller
ClientBudget ==
  [NoRequests EXCEPT !["register"] = 1, !["reset"] = 2, !["client"] = 1,
                     !["authorize"] = 1]
\* one authorization, one redemption, one reset
OverlapBudget ==
  [NoRequests EXCEPT !["authorize"] = 1, !["code"] = 1, !["reset"] = 1]
\* any three requests, no more than two of a kind, the last four kinds at most once
LiveBudget == [k \in Kinds |-> IF k \in {"client", "register", "revoke", "reset"} THEN 1 ELSE 2]
====
