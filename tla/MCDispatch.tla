----------------------------- MODULE MCDispatch -----------------------------
(* Small instances of Dispatch: run r1 or the approved run r2 of one        *)
(* organization, slots s1 and s2 of one worker process w1.  Which of them   *)
(* an instance has is said in its configuration.                            *)
EXTENDS DispatchRefinement, TLC

CONSTANTS r1, r2, s1, s2, o1, w1

MCOneOrg == [r \in Runs |-> o1]
MCOneProcess == [s \in Slots |-> w1]

SlotSymmetry == Permutations(Slots)
=============================================================================
