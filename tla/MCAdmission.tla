---------------------------- MODULE MCAdmission ----------------------------
(* Small instances of Admission: one second has two ticks.                  *)
EXTENDS Admission, TLC

CONSTANTS ann, bob, ticket, inspect, wipe, s1, s2

MCLevel == [b \in Bodies |-> CASE b = ticket -> "L2" [] b = inspect -> "L0" [] OTHER -> "L4"]
MCRate == [c \in Classes |-> [s \in {"actor", "organization"} |-> 1]]
MCTraffic ==
    {[actors |-> Actors, classes |-> {"submit", "mutate"}, bodies |-> {ticket, inspect}],
     [actors |-> Actors, classes |-> {"submit"}, bodies |-> {inspect, wipe}],
     [actors |-> Actors, classes |-> {"read"}, bodies |-> {}]}
MCBurst == [c \in Classes |-> [s \in {"actor", "organization"} |->
                IF c = "submit" /\ s = "organization" THEN 2 ELSE 1]]
Symmetry == Permutations(Sessions) \cup Permutations(Actors)
=============================================================================
