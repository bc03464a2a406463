SPECIFICATION Spec
CONSTANTS
    Clients = {c1, c2}
    Devices = {d1, d2}
    Target <- OneEach
    Promisc = {d2}
    c1 = c1
    c2 = c2
    d1 = d1
    d2 = d2
    Host = h
    None = none
    Second = 2
    Threshold = 2
    Work = 1
    MaxTime = 2
    MaxDups = 1
    MaxHeard = 1
CHECK_DEADLOCK FALSE
INVARIANT ResultIsTheAnswer
INVARIANT VerdictHonest
INVARIANT NoEcho
INVARIANT NotInVain
