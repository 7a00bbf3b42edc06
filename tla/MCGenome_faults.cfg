\* One process at a time; every fault but a failing fopen of a file that is there.
CONSTANTS
    h1 = h1
    h2 = h2
    k1 = k1
    k2 = k2
    Handles = {h1, h2}
    Keys = {k1, k2}
    KeyOf <- OneKey
    Events = {"TEACH", "ASK"}
    MaxStamp = 3
    Exclusive = TRUE
    Faults = {"crash", "short_write", "power_loss", "io_error"}
SPECIFICATION Spec
INVARIANTS AcceptedHasNoGap
PROPERTIES AppendOnly OpenDecides
CHECK_DEADLOCK FALSE
