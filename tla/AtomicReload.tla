---------------------------- MODULE AtomicReload -----------------------------
(***************************************************************************)
(* What a configuration reload promises (architecture/deep-dive-runtime.md *)
(* and rust/src/reload.rs): one configuration is in force in every part of *)
(* the process; a reload stages its changes behind a closed gate and ends  *)
(* with the candidate or with the old configuration in force everywhere,   *)
(* also when shutdown begins meanwhile.  Only a reload that reports        *)
(* compensation_failed gives up the promise.                               *)
(***************************************************************************)
CONSTANTS
    Configs,
    Mixed      \* not a configuration: the parts of the process disagree

VARIABLES
    inForce,   \* the configuration in force everywhere, or Mixed
    staged,    \* a candidate is staged: the gate is closed
    shut,      \* shutdown has begun
    outcome    \* what the last reload reported

vars == <<inForce, staged, shut, outcome>>

Init ==
    /\ inForce \in Configs
    /\ staged = FALSE
    /\ shut = FALSE
    /\ outcome = "none"

Stage ==
    /\ ~staged
    /\ ~shut
    /\ staged' = TRUE
    /\ UNCHANGED <<inForce, shut, outcome>>

\* A reload that never staged, or whose stage was undone, says so.
ReportAborted ==
    /\ ~staged
    /\ outcome' = "Aborted"
    /\ UNCHANGED <<inForce, staged, shut>>

Apply(c) ==
    /\ staged
    /\ staged' = FALSE
    /\ inForce' = c
    /\ outcome' = "Applied"
    /\ UNCHANGED shut

\* Everything is as it was; repairing the rows may mend an earlier mixture.
Undo ==
    /\ staged
    /\ staged' = FALSE
    /\ \/ inForce' = inForce
       \/ inForce = Mixed /\ inForce' \in Configs
    /\ UNCHANGED <<shut, outcome>>

\* The compensation failed: what is in force is no longer promised.
GiveUp ==
    /\ staged
    /\ staged' = FALSE
    /\ inForce' \in Configs \cup {Mixed}
    /\ outcome' = "CompensationFailed"
    /\ UNCHANGED shut

Shutdown ==
    /\ ~shut
    /\ shut' = TRUE
    /\ \/ inForce' = inForce
       \/ inForce = Mixed /\ inForce' \in Configs
    /\ UNCHANGED <<staged, outcome>>

Next ==
    \/ Stage \/ ReportAborted \/ Undo \/ GiveUp \/ Shutdown
    \/ \E c \in Configs : Apply(c)

Spec == Init /\ [][Next]_vars
=============================================================================
