---------------------------- MODULE MCConcurrency ----------------------------
(***************************************************************************)
(* Instances of the components whose correctness is a matter of            *)
(* scheduling: the coordinators of a request, the database gate, the       *)
(* flights of the model router, and the life of the server process.        *)
(*                                                                         *)
(* The components share no variable, so a behaviour runs one of them       *)
(* (part), from each of its initial states, while the others rest in       *)
(* theirs.                                                                 *)
(***************************************************************************)
EXTENDS RequestCoordinators, DatabaseGate, ModelRouterAffinity, ServerProcess

CONSTANT Parts   \* the components this instance runs

VARIABLE part

suiteVars == <<part, loopStateVars, databaseVars, affinityVars, serverVars>>

\* A component that does not run rests in one initial state.
Init ==
    /\ part \in Parts
    /\ CASE part = "stream" -> StreamInit
         [] part = "finite" -> FiniteInit
         [] OTHER -> LoopInit /\ operation = "None" /\ surfaces = {}
    /\ DatabaseInit
    /\ AffinityInit
    /\ ServerInit

\* Only the component that runs takes steps.
Next ==
    /\ UNCHANGED part
    /\ IF part \in {"stream", "finite"} THEN StreamNext \/ FiniteNext ELSE UNCHANGED loopStateVars
    /\ IF part = "database" THEN DatabaseNext ELSE UNCHANGED databaseVars
    /\ IF part = "affinity" THEN AffinityNext ELSE UNCHANGED affinityVars
    /\ IF part = "server" THEN ServerNext ELSE UNCHANGED serverVars

\* No component at rest has a step its fairness asks for.
Spec ==
    /\ Init /\ [][Next]_suiteVars
    /\ StreamFairness /\ FiniteFairness /\ DatabaseFairness /\ AffinityFairness
    /\ ServerFairness
=============================================================================
