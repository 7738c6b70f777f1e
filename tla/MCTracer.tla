------------------------------ MODULE MCTracer ------------------------------
(***************************************************************************)
(* Small instances of Tracer for TLC.                                      *)
(***************************************************************************)
EXTENDS Tracer

\* Map names as the strtok tokens of the names libbpf gives bpfcov's maps
\* ("prog.profc", "prog.profn"), of a user map without a dot ("events"),
\* and of a global-data map with no coverage role ("prog.bss").
ProfcName  == <<Token("prog", FALSE), Token("profc", FALSE)>>
ProfnName  == <<Token("prog", FALSE), Token("profn", FALSE)>>
EventsName == <<Token("events", FALSE)>>
BssName    == <<Token("prog", FALSE), Token("bss", FALSE)>>

MCMapNames == {ProfcName, ProfnName, EventsName, BssName}
MCCoverageNames == {ProfcName, ProfnName, BssName}
MCProfcOnly == {ProfcName}
MCEventsOnly == {EventsName}

\* Syscall results: success without a descriptor, and the number of the
\* first descriptor the program does not hold at start (a write count, an
\* open, a dup...).
MCOtherResults == {0, 3}
=============================================================================
