------------------------------ MODULE MCAccess ------------------------------
(***************************************************************************)
(* Instances of the components that decide what a user may do: the         *)
(* identities with their sessions and tokens, the model policies, and the  *)
(* budgets set for them, with the requests that spend them.                *)
(*                                                                         *)
(* The components share no variable, so a behaviour runs one of them       *)
(* (part), from each of its initial states, while the others rest in one   *)
(* of theirs.                                                              *)
(***************************************************************************)
EXTENDS IdentityAccess, ModelPolicy, BudgetRules, TLC

CONSTANT Parts    \* the components this instance runs

VARIABLE part

-----------------------------------------------------------------------------
(* Constants.                                                              *)

\* A daily rule of the user, a monthly one of the instance; a hard limit on
\* tokens and cost, a soft one on requests and concurrency.
MCBudgetKeys == {[owner |-> "user", model |-> AnyModel, window |-> "day"],
               [owner |-> "instance", model |-> "m1", window |-> "month"]}
MCRuleLimits ==
    {[requests |-> 0, tokens |-> 3, cost |-> 5, concurrent |-> 0, hard |-> TRUE],
     [requests |-> 1, tokens |-> 2, cost |-> 0, concurrent |-> 1, hard |-> FALSE]}
MCProofs == {[single |-> 1, tariff |-> 1]}

-----------------------------------------------------------------------------
suiteVars == <<part, identityVars, policyVars, budgetVars>>

Init ==
    /\ part \in Parts
    /\ IdentityInit /\ PolicyInit /\ BudgetInit
    /\ suiteVars = suiteVars     \* has TLC enumerate the values the view leaves out

\* Only the component that runs takes steps.
Next ==
    /\ UNCHANGED part
    /\ IF part = "identity" THEN IdentityNext ELSE UNCHANGED identityVars
    /\ IF part = "policy" THEN PolicyNext ELSE UNCHANGED policyVars
    /\ IF part = "budget" THEN BudgetNext ELSE UNCHANGED budgetVars

\* The view of the model checker: what rests never changes, and tells no
\* states apart.
Running ==
    <<part, CASE part = "identity" -> identityVars [] part = "policy" -> policyVars
              [] part = "budget" -> budgetVars>>

\* The users are alike.
UserSymmetry == Permutations(Users)

Spec == Init /\ [][Next]_suiteVars
=============================================================================
