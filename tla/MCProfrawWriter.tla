--------------------------- MODULE MCProfrawWriter ---------------------------
(***************************************************************************)
(* Small instances of ProfrawWriter for TLC.                               *)
(***************************************************************************)
EXTENDS ProfrawWriterProofs

\* Well-formed maps: one or two counters, one or two function records, an
\* empty or a 5-byte names value, a 16-byte covmap header.
MCValueSizes == [s \in PinIdx |-> <<{8, 16}, {48, 96}, {0, 5}, {16}>>[s + 1]]

\* A covmap value too short to hold the version (a malformed header).
MCShortHeader == [s \in PinIdx |-> <<{8}, {48}, {0}, {8}>>[s + 1]]

\* The spec's end-to-end case: one counter, one function, empty names.
MCSpecExample == [s \in PinIdx |-> <<{8}, {48}, {0}, {16}>>[s + 1]]
=============================================================================
