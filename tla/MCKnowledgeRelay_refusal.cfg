\* A journal refuses an event.
CONSTANTS
    t1 = t1
    t2 = t2
    Targets = {t1, t2}
    Kinds = {"TEACH", "ASK"}
    Relayed = {"TEACH"}
    MaxSource = 2
    MaxFailures = 2
    Failures = {"refusal"}
SPECIFICATION RelaySpec
INVARIANTS ReachesAllNodes
