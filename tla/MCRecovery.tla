----------------------------- MODULE MCRecovery -----------------------------
(* The plans of the deterministic planner, cut down for model checking.    *)
EXTENDS Recovery

\* The mover's plan: transfer, close the ticket, finalize.
Mover == <<{}, {1}, {1, 2}>>

\* The joiner's: look, two of its four effects in either order, finalize.
Joiner == <<{}, {1}, {1}, {2, 3}>>
=============================================================================
