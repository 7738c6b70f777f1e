\* Three invocations: enough for a run that pins, a second run cut short
\* anywhere (killed, a failed mkdir or unlink, an early end of tracing),
\* and a gen after both.
CONSTANTS
    MaxInvocations = 3

SPECIFICATION Spec
INVARIANT GenReadsLastTracedRun
PROPERTY PinsWrittenOnlyByRun
