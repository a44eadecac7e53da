------------------------- MODULE MCReloadTransaction -------------------------
(* Instances of ReloadTransaction for TLC. *)
EXTENDS ReloadTransaction, TLC

CONSTANTS c1, c2, s1, s2

MCConfigs == {c1, c2}

\* From c1 to c2 the first task is rescheduled, the second one removed and the
\* third one added.
MCSpecsOf ==
    c1 :> (1 :> s1 @@ 2 :> s1 @@ 3 :> Off) @@ c2 :> (1 :> s2 @@ 2 :> Off @@ 3 :> s1)

=============================================================================
