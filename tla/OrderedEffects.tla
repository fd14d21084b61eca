--------------------------- MODULE OrderedEffects ---------------------------
(***************************************************************************)
(* What a run promises of the Sandbox: every effect of its plan is         *)
(* performed at most once and after the effects it depends on, and a run   *)
(* is reported finished only with all of them performed.  A report may be  *)
(* withdrawn when the run is executed again.                               *)
(***************************************************************************)
EXTENDS Naturals

CONSTANTS
    Effects,
    Before      \* Before[e]: the effects e depends on

VARIABLES
    count,      \* how often each effect was performed
    finished    \* the run is reported finished

vars == <<count, finished>>

Init ==
    /\ count = [e \in Effects |-> 0]
    /\ finished = FALSE

Perform(e) ==
    /\ count[e] = 0
    /\ \A d \in Before[e] : count[d] = 1
    /\ count' = [count EXCEPT ![e] = 1]
    /\ UNCHANGED finished

Finish ==
    /\ ~finished
    /\ \A e \in Effects : count[e] = 1
    /\ finished' = TRUE
    /\ UNCHANGED count

Reopen ==
    /\ finished
    /\ finished' = FALSE
    /\ UNCHANGED count

Next == Finish \/ Reopen \/ \E e \in Effects : Perform(e)

Spec == Init /\ [][Next]_vars
=============================================================================
