\* One submission, no crash: somebody uses the queue during an export.
CONSTANTS
    Limit = 2
    MaxRows = 2
    MaxModerations = 2
    MaxCrashes = 0
    MaxFaults = 0
SPECIFICATION Spec
PROPERTIES ApprovedAreExported
