\* The whole environment: map creation of coverage, user and global-data
\* maps, other syscalls, one signal and one SIGKILL.
CONSTANTS
    MapNames <- MCMapNames
    OtherResults <- MCOtherResults
    ArgVals = {0, 1}
    Statuses = {0}
    MaxChildFd = 4
    MaxMaps = 2
    MaxSyscalls = 3
    MaxSignals = 1
    MaxKills = 1
    TracerFdLimit = 4

SPECIFICATION Spec
INVARIANT TypeOK
INVARIANT PinnedMapsMatchRole
INVARIANT ExitStatusFromExitGroup
PROPERTY ChildNotOrphaned
PROPERTY ImplementsPinNamespace
PROPERTY PinsDuplicatedDescriptor
