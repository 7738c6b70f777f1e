\* is_map is never reset: a later syscall's result is taken for a map fd.
CONSTANTS
    MapNames <- MCProfcOnly
    OtherResults <- MCOtherResults
    ArgVals = {0, 1}
    Statuses = {0}
    MaxChildFd = 4
    MaxMaps = 2
    MaxSyscalls = 3
    MaxSignals = 0
    MaxKills = 0
    TracerFdLimit = 4

SPECIFICATION Spec
PROPERTY OnlyMapCreateExfiltrated
