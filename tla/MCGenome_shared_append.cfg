\* Two processes on one file.
CONSTANTS
    h1 = h1
    h2 = h2
    k1 = k1
    k2 = k2
    Handles = {h1, h2}
    Keys = {k1, k2}
    KeyOf <- OneKey
    Events = {"TEACH", "ASK"}
    MaxStamp = 3
    Exclusive = FALSE
    Faults = {}
SPECIFICATION Spec
PROPERTIES AppendsAtEnd
CHECK_DEADLOCK FALSE
