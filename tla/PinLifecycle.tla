---------------------------- MODULE PinLifecycle ----------------------------
(***************************************************************************)
(* The pin namespace <bpffs>/cov/<program>/{profc,profd,profn,covmap}     *)
(* across successive invocations of bpfcov on one program.                *)
(*                                                                         *)
(* The namespace is the only state `run' and `gen' share.  Each           *)
(* invocation goes through root_parse's ARGP_KEY_FINI (src/cli/cli.c      *)
(* 258-366): check the BPF filesystem, make the coverage and program      *)
(* directories (run only), build the four pin paths, then, slot by slot,  *)
(* unpin what is there (run) or require it to be there (gen).  root()     *)
(* then calls the command.  `run' pins maps of its traced program at the  *)
(* slots of their roles (module Tracer); here that is abstracted to "pin  *)
(* a slot, or die when it is taken".  `gen' reads all four pins.           *)
(*                                                                         *)
(* Invocations do not overlap (spec 5 puts concurrent ones out of scope), *)
(* but any of them may be killed by its user at any point.                *)
(***************************************************************************)
EXTENDS Naturals, PinRegistry

CONSTANTS
    MaxInvocations  \* invocations of bpfcov in a behaviour

ASSUME InvocationsAssumption == MaxInvocations \in Nat

NoRun == 0          \* a slot with no pin; runs are numbered from 1
Commands == {"run", "gen", "none"}   \* args->command: &run, &gen, or NULL

\* Where the current invocation is: no invocation ("idle"), the
\* filesystem and coverage-root checks (cli.c:258-281), the program root
\* and pin paths (283-338), the slot loop at slot p (340-363), the traced
\* program running (run, 777-904) or the profile being read (gen, 906-).
Pcs == {"idle", "fini", "paths", "loop", "trace", "gen"}

VARIABLES
    pinned,     \* slot -> the run whose map is pinned at its path, or NoRun
    covDir,     \* <bpffs>/cov exists
    progDir,    \* <bpffs>/cov/<program> exists
    pc,         \* where the current invocation is
    cmd,        \* its command
    p,          \* the slot loop's index (cli.c:341)
    runs,       \* run invocations started; the current run's number
    traced,     \* the last run that got past the slot loop, or NoRun
    ninv        \* invocations started (bound MaxInvocations)

vars == <<pinned, covDir, progDir, pc, cmd, p, runs, traced, ninv>>

TypeOK ==
    /\ pinned \in [PinIdx -> NoRun .. MaxInvocations]
    /\ covDir \in BOOLEAN
    /\ progDir \in BOOLEAN
    /\ pc \in Pcs
    /\ cmd \in Commands
    /\ p \in 0 .. NUM_PINNED_MAPS
    /\ runs \in 0 .. MaxInvocations
    /\ traced \in NoRun .. MaxInvocations
    /\ ninv \in 0 .. MaxInvocations

Init ==
    /\ pinned = [i \in PinIdx |-> NoRun]
    /\ covDir \in BOOLEAN
    /\ progDir = FALSE
    /\ pc = "idle"
    /\ cmd = "none"
    /\ p = 0
    /\ runs = 0
    /\ traced = NoRun
    /\ ninv = 0

\* argp_error and log_fata: the invocation exits; only files stay.
Exit ==
    /\ pc' = "idle"
    /\ UNCHANGED <<cmd, p, runs, traced, ninv>>

-----------------------------------------------------------------------------
(* One invocation.                                                         *)

\* root() (cli.c:372-378): argp_parse with ARGP_KEY_INIT (184-190) and the
\* positional `run' or `gen' that selects args->command (224-233).
Start(c) ==
    /\ pc = "idle"
    /\ ninv < MaxInvocations
    /\ pc' = "fini"
    /\ cmd' = c
    /\ runs' = IF c = "run" THEN runs + 1 ELSE runs
    /\ ninv' = ninv + 1
    /\ p' = 0
    /\ UNCHANGED <<pinned, covDir, progDir, traced>>

\* is_bpffs, the coverage root's length check, and for run its mkdir, of
\* which only EEXIST is tolerated (cli.c:262-281).
CheckCovRoot ==
    /\ pc = "fini"
    /\ \/ /\ Exit                                \* not a bpffs, or too long
          /\ UNCHANGED <<pinned, covDir, progDir>>
       \/ /\ cmd = "run"
          /\ covDir' = TRUE                      \* created, or EEXIST
          /\ pc' = "paths"
          /\ UNCHANGED <<pinned, progDir, cmd, p, runs, traced, ninv>>
       \/ /\ cmd = "run"                         \* EACCES, ENOSPC, ...
          /\ Exit
          /\ UNCHANGED <<pinned, covDir, progDir>>
       \/ /\ cmd # "run"
          /\ pc' = "paths"
          /\ UNCHANGED <<pinned, covDir, progDir, cmd, p, runs, traced, ninv>>

\* The program root (sanitised basename) and the four pin paths, each
\* with its length check, and for run the program root's mkdir, which
\* fails with ENOENT when the coverage root is missing (cli.c:283-338).
MakePaths ==
    /\ pc = "paths"
    /\ \/ /\ Exit                                \* a path too long
          /\ UNCHANGED <<pinned, covDir, progDir>>
       \/ /\ cmd = "run"
          /\ covDir
          /\ progDir' = TRUE
          /\ pc' = "loop"
          /\ UNCHANGED <<pinned, covDir, cmd, p, runs, traced, ninv>>
       \/ /\ cmd = "run"
          /\ Exit
          /\ UNCHANGED <<pinned, covDir, progDir>>
       \/ /\ cmd # "run"
          /\ pc' = "loop"
          /\ UNCHANGED <<pinned, covDir, progDir, cmd, p, runs, traced, ninv>>

\* Mutant: the `if (is_run)' around the unlink is lost, so gen unpins too.
ReconcileSlotUnlinkAny ==
    /\ pc = "loop"
    /\ p < NUM_PINNED_MAPS
    /\ LET exists == pinned[p] # NoRun IN
         \/ /\ exists
            /\ pinned' = [pinned EXCEPT ![p] = NoRun]
            /\ p' = p + 1
            /\ UNCHANGED <<pc, cmd, runs, traced, ninv>>
         \/ /\ exists /\ cmd = "run"
            /\ Exit
            /\ UNCHANGED pinned
         \/ /\ ~exists /\ cmd = "gen"
            /\ Exit
            /\ UNCHANGED pinned
         \/ /\ \/ exists /\ cmd # "run"
               \/ ~exists /\ cmd # "gen"
            /\ p' = p + 1
            /\ UNCHANGED <<pinned, pc, cmd, runs, traced, ninv>>
    /\ UNCHANGED <<covDir, progDir>>

\* Mutant: run warns "unpinning existing map" but the unlink is left out.
ReconcileSlotNoUnlink ==
    /\ pc = "loop"
    /\ p < NUM_PINNED_MAPS
    /\ LET exists == pinned[p] # NoRun IN
         \/ /\ exists /\ cmd = "run"
            /\ p' = p + 1
            /\ UNCHANGED <<pinned, pc, cmd, runs, traced, ninv>>
         \/ /\ ~exists /\ cmd = "gen"
            /\ Exit
            /\ UNCHANGED pinned
         \/ /\ \/ exists /\ cmd # "run"
               \/ ~exists /\ cmd # "gen"
            /\ p' = p + 1
            /\ UNCHANGED <<pinned, pc, cmd, runs, traced, ninv>>
    /\ UNCHANGED <<covDir, progDir>>

\* One iteration of the slot loop (cli.c:341-363): access(F_OK) on the
\* slot's path; run unlinks a pin it finds, fatally when unlink fails;
\* gen fails on a missing one.  A path under a missing directory is
\* missing too.
ReconcileSlot ==
    /\ pc = "loop"
    /\ p < NUM_PINNED_MAPS
    /\ LET exists == pinned[p] # NoRun IN
         \/ /\ exists /\ cmd = "run"
            /\ pinned' = [pinned EXCEPT ![p] = NoRun]
            /\ p' = p + 1
            /\ UNCHANGED <<pc, cmd, runs, traced, ninv>>
         \/ /\ exists /\ cmd = "run"
            /\ Exit
            /\ UNCHANGED pinned
         \/ /\ ~exists /\ cmd = "gen"
            /\ Exit
            /\ UNCHANGED pinned
         \/ /\ \/ exists /\ cmd # "run"
               \/ ~exists /\ cmd # "gen"
            /\ p' = p + 1
            /\ UNCHANGED <<pinned, pc, cmd, runs, traced, ninv>>
    /\ UNCHANGED <<covDir, progDir>>

\* argp_parse returns and root() calls the command, or prints "TBD" when
\* none was given (cli.c:380-388).
Dispatch ==
    /\ pc = "loop"
    /\ p = NUM_PINNED_MAPS
    /\ \/ /\ cmd = "run"
          /\ pc' = "trace"
          /\ traced' = runs
       \/ /\ cmd = "gen"
          /\ pc' = "gen"
          /\ UNCHANGED traced
       \/ /\ cmd = "none"
          /\ pc' = "idle"
          /\ UNCHANGED traced
    /\ UNCHANGED <<pinned, covDir, progDir, cmd, p, runs, ninv>>

\* run: the tracer pins a map of the traced program at the path of its
\* role; bpf_obj_pin fails with EEXIST on a taken path and that is fatal
\* (cli.c:889-898).
PinRole(i) ==
    /\ pc = "trace"
    /\ \/ /\ pinned[i] = NoRun
          /\ pinned' = [pinned EXCEPT ![i] = runs]
          /\ UNCHANGED <<pc, cmd, p, runs, traced, ninv>>
       \/ /\ pinned[i] # NoRun
          /\ Exit
          /\ UNCHANGED pinned
    /\ UNCHANGED <<covDir, progDir>>

\* run returns: the traced program has ended, or the tracer died.
EndTrace ==
    /\ pc = "trace"
    /\ Exit
    /\ UNCHANGED <<pinned, covDir, progDir>>

\* gen reads the four pinned maps and writes the profile; any failure to
\* open or read one is fatal and leaves nothing read (cli.c:906-).
GenRead ==
    /\ pc = "gen"
    /\ pc' = "idle"
    /\ UNCHANGED <<pinned, covDir, progDir, cmd, p, runs, traced, ninv>>

\* The user kills bpfcov wherever it is (SIGINT, SIGKILL).
Killed ==
    /\ pc \notin {"idle"}
    /\ Exit
    /\ UNCHANGED <<pinned, covDir, progDir>>

\* No invocation is left to make.
Done ==
    /\ pc = "idle"
    /\ ninv = MaxInvocations
    /\ UNCHANGED vars

Next ==
    \/ \E c \in Commands : Start(c)
    \/ CheckCovRoot
    \/ MakePaths
    \/ ReconcileSlot
    \/ Dispatch
    \/ \E i \in PinIdx : PinRole(i)
    \/ EndTrace
    \/ GenRead
    \/ Killed
    \/ Done

Spec == Init /\ [][Next]_vars

-----------------------------------------------------------------------------
(* Properties.                                                             *)

\* Spec 4.2: run removes stale pins "so stale data from a previous run
\* cannot leak into the new one".  Whenever gen gets past its slot loop
\* (cli.c:341-363) every pin it is about to read is one the last run that
\* got past its own slot loop pinned -- whatever runs were killed, failed
\* an unlink or ended early in between.
GenReadsLastTracedRun ==
    pc = "gen" => \A i \in PinIdx : pinned[i] = traced /\ traced # NoRun

\* Only run writes the pin namespace, and in two ways only: its slot loop
\* (cli.c:341-351) unlinks the pin of the slot it is at, before anything
\* is traced, and while tracing bpf_obj_pin (cli.c:893) fills a free path
\* with a map of this very run.  gen, a killed or failing invocation, and
\* the loop of one invocation at another slot, never unpin or pin.
PinsWrittenOnlyByRun ==
    [][\A i \in PinIdx :
         pinned'[i] # pinned[i] =>
             /\ cmd = "run"
             /\ \/ pc = "loop" /\ i = p /\ pinned'[i] = NoRun
                \/ pc = "trace" /\ pinned[i] = NoRun /\ pinned'[i] = runs]_vars

=============================================================================
