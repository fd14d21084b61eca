CONSTANTS
    ann = ann
    bob = bob
    ticket = ticket
    inspect = inspect
    wipe = wipe
    s1 = s1
    s2 = s2
    None = None
    Org = org
    Actors = {ann, bob}
    Keys = {k1}
    Bodies = {ticket, inspect, wipe}
    Level <- MCLevel
    Sessions = {s1, s2}
    Rate <- MCRate
    Burst <- MCBurst
    MicroToken = 1
    Capacity = 1
    MaxClock = 1
    Traffic <- MCTraffic
SYMMETRY Symmetry
SPECIFICATION Spec
INVARIANTS
    SameBodyReturnsRun
