\* The pipeline: more submissions than an export fetches, moderated at any time;
\* deaths of processes and failing file operations.  The relay: passes that fail in
\* every way.
CONSTANTS
    Limit = 2
    MaxRows = 3
    MaxModerations = 4
    MaxCrashes = 1
    MaxFaults = 1
    t1 = t1
    t2 = t2
    Targets = {t1, t2}
    Kinds = {"TEACH", "ASK"}
    Relayed = {"TEACH"}
    MaxSource = 3
    MaxFailures = 2
    Failures = {"crash", "refusal", "no_directory", "unsaved"}
SPECIFICATION PartSpec
INVARIANTS NothingUndecided RelayInv NoneIsPassedOver RestartsAccountedFor
PROPERTIES SnapshotAgrees DecisionsGetPublished EventuallyForwarded
