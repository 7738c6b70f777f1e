\* A covmap value of 8 bytes: cli.c:951 reads the version from bytes
\* 12..15 past its end and gen goes on to write a header (spec 7 says
\* malformed metadata is fatal).
CONSTANTS
    ValueSizes <- MCShortHeader
    MaxEntries = {1}
    Versions = {3}
    StrayBytes = {0}
    MaxWriteFailures = 0

SPECIFICATION Spec
INVARIANT MalformedHeaderIsFatal
CHECK_DEADLOCK FALSE
