\* Descriptors taken from the child are never closed.
CONSTANTS
    MapNames <- MCProfcOnly
    OtherResults <- MCOtherResults
    ArgVals = {0, 1}
    Statuses = {0}
    MaxChildFd = 4
    MaxMaps = 2
    MaxSyscalls = 3
    MaxSignals = 0
    MaxKills = 0
    TracerFdLimit = 4

SPECIFICATION Spec
INVARIANT NoDescriptorRetained
