\* A map named without a '.' (a user map such as "events").
CONSTANTS
    MapNames <- MCEventsOnly
    OtherResults <- MCOtherResults
    ArgVals = {0, 1}
    Statuses = {0}
    MaxChildFd = 4
    MaxMaps = 2
    MaxSyscalls = 3
    MaxSignals = 0
    MaxKills = 0
    TracerFdLimit = 4

SPECIFICATION Spec
INVARIANT NeverCrashes
