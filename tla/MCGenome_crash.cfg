\* One process at a time; processes die anywhere.
CONSTANTS
    h1 = h1
    h2 = h2
    k1 = k1
    k2 = k2
    Handles = {h1, h2}
    Keys = {k1, k2}
    KeyOf <- TwoKeys
    Events = {"TEACH", "ASK"}
    MaxStamp = 3
    Exclusive = TRUE
    Faults = {"crash"}
SPECIFICATION Spec
INVARIANTS JournalVerifies AckedDurable
PROPERTIES ImplementsJournal
CHECK_DEADLOCK FALSE
