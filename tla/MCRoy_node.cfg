\* A node between its thread and its program.
CONSTANTS
    none = none
    Nothing = none
    Events = {"HELLO", "FORMULA"}
    MaxOchered = 1
    Contacts <- SteadyContacts
    MaxSosedi = 2
    PrivetInterval = 1
    SrokGoda = 1
    MaxDropped = 1
SPECIFICATION Spec
INVARIANTS IInv NoTwins
PROPERTIES QuietAfterStop RecentKept StopReturns RoundsAreMade
CHECK_DEADLOCK FALSE
