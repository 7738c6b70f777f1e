\* The spec's own example (8-byte counters, one function record, empty
\* names, a 16-byte header): cli.c:968 writes the names size as
\* value_size followed by max_entries, not the size twice.
CONSTANTS
    ValueSizes <- MCSpecExample
    MaxEntries = {1}
    Versions = {3}
    StrayBytes = {0}
    MaxWriteFailures = 0

SPECIFICATION Spec
INVARIANT NamesSizeWrittenTwice
CHECK_DEADLOCK FALSE
