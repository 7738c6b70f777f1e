\* cli.c never checks an fwrite result: with one fwrite failing, gen
\* still closes the output and returns 0, leaving a profile with a field
\* missing (spec 4.3 step 8 says a write failure is fatal).
CONSTANTS
    ValueSizes <- MCValueSizes
    MaxEntries = {1}
    Versions = {3}
    StrayBytes = {0}
    MaxWriteFailures = 1

SPECIFICATION Spec
INVARIANT SuccessWritesWholeProfile
CHECK_DEADLOCK FALSE
