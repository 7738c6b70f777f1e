\* gen against well-formed pinned maps, a global-data map or one with two
\* entries at each slot, every fatal path, and one failing fwrite.  gen
\* ends: its terminal states are exits.
CONSTANTS
    ValueSizes <- MCValueSizes
    MaxEntries = {1, 2}
    Versions = {3}
    StrayBytes = {0}
    MaxWriteFailures = 1

SPECIFICATION Spec
INVARIANT FieldsInFormatOrder WInv WholeProfileWhenWritesSucceed
CHECK_DEADLOCK FALSE
