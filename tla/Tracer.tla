------------------------------- MODULE Tracer -------------------------------
(***************************************************************************)
(* The `run' phase of bpfcov: run() of src/cli/cli.c (lines 777-904).     *)
(*                                                                         *)
(* The tracer forks the target program under PTRACE_TRACEME, then loops:  *)
(* PTRACE_SYSCALL + waitpid + PTRACE_GETREGS, taken as a syscall entry,   *)
(* and again, taken as the matching syscall exit.  When the loop has seen *)
(* bpf(BPF_MAP_CREATE, ...) it duplicates the descriptor returned in rax  *)
(* out of the child (pidfd_open + pidfd_getfd), asks the kernel for the   *)
(* map's name and pins it at the slot get_pin_path resolves.             *)
(*                                                                         *)
(* The traced program is the environment.  It is modelled by what ptrace *)
(* lets the tracer observe: the stop it is in, the registers at that stop *)
(* and its descriptor table.  Between two waits it makes one move: enter  *)
(* a syscall, finish it, take a signal-delivery stop, or die.             *)
(***************************************************************************)
EXTENDS Integers, Sequences, PinRegistry

CONSTANTS
    MapNames,       \* names (token sequences) the traced program gives its maps
    OtherResults,   \* results of syscalls other than bpf(2): counts, fds, errors
    ArgVals,        \* first arguments (rdi) of syscalls other than bpf(2)
    Statuses,       \* statuses the traced program may pass to exit_group
    MaxChildFd,     \* highest descriptor number of the traced program
    MaxMaps,        \* maps the traced program may create
    MaxSyscalls,    \* syscalls the traced program makes before exit_group
    MaxSignals,     \* signal-delivery stops of the traced program
    MaxKills,       \* SIGKILLs sent to the traced program from outside
    TracerFdLimit   \* descriptors the tracer can still open before EMFILE

ASSUME BoundsAssumption ==
    /\ MaxChildFd \in Nat /\ MaxChildFd >= 3
    /\ MaxMaps \in Nat
    /\ MaxSyscalls \in Nat
    /\ MaxSignals \in Nat
    /\ MaxKills \in Nat
    /\ TracerFdLimit \in Nat

ASSUME DomainsAssumption ==
    /\ MapNames \subseteq Seq([stem : STRING, more : BOOLEAN])
    /\ OtherResults \subseteq Int
    /\ ArgVals \subseteq 0 .. 255
    /\ Statuses \subseteq 0 .. 255

-----------------------------------------------------------------------------
(* Kernel constants the code compares against.                             *)

BPF_MAP_CREATE == 0          \* enum bpf_cmd
BPF_MAP_UPDATE_ELEM == 2     \* a bpf command other than map creation
ENOSYS == 38                 \* rax holds -ENOSYS at a syscall-entry stop
EPERM == 1
EXIT_FAILURE == 1            \* status of log_fata (cli.c:101-103)
KILLED_STATUS == 128 + 9     \* a process ended by SIGKILL
SEGV_STATUS == 128 + 11      \* a process ended by SIGSEGV

\* Syscall numbers as orig_rax tells them apart; "none" is orig_rax = -1,
\* what a signal-delivery stop outside a syscall shows.
SysNrs == {"bpf", "exit_group", "other", "none"}

\* Objects a descriptor of the traced program may refer to.
FreeFd == -1                 \* the number is not open
FileObj == 0                 \* anything that is not a BPF map
\* Maps are 1 .. MaxMaps, the position in `maps' of their creation.
NoPin == 0                   \* a pin slot with nothing pinned at its path

ChildFds == 0 .. MaxChildFd

\* The part of user_regs_struct the code reads: orig_rax, rdi, rax.
Regs == [nr : SysNrs, rdi : Int, rax : Int]

\* The syscalls the traced program can make.
MapCreateCalls == {[nr |-> "bpf", rdi |-> BPF_MAP_CREATE, name |-> n] : n \in MapNames}
BpfOtherCalls  == {[nr |-> "bpf", rdi |-> BPF_MAP_UPDATE_ELEM, name |-> <<>>]}
OtherCalls     == {[nr |-> "other", rdi |-> a, name |-> <<>>] : a \in ArgVals}
ExitCalls      == {[nr |-> "exit_group", rdi |-> s, name |-> <<>>] : s \in Statuses}
NoCall         == [nr |-> "none", rdi |-> 0, name |-> <<>>]
Calls == MapCreateCalls \cup BpfOtherCalls \cup OtherCalls \cup ExitCalls \cup {NoCall}

\* Stops of the traced program; "exited" and "killed" are its two deaths.
ChildStops == {"unborn", "exec", "entry", "exit", "signal", "exited", "killed"}
Dead(st) == st \in {"exited", "killed"}
Running(st) == st \in {"exec", "entry", "exit", "signal"}

\* Where the tracer is in run(): before fork, before the entry half of the
\* loop (cli.c:803-831), before its exit half (cli.c:834-900), or gone.
TracerPcs == {"spawn", "entry", "exit", "exited", "fatal", "crashed"}
Terminated == {"exited", "fatal", "crashed"}

VARIABLES
    tpc,        \* tracer control point
    isMap,      \* is_map (cli.c:799)
    regs,       \* regs, the last successful PTRACE_GETREGS (cli.c:813)
    tfds,       \* descriptors the tracer has opened and not closed
    pins,       \* pin slot -> map pinned at its path (the bpffs namespace)
    tstatus,    \* the tracer's exit status once terminated
    exitkill,   \* PTRACE_O_EXITKILL is in effect on the child (cli.c:797)
    cstop,      \* the stop the traced program is in
    cregs,      \* its registers at that stop
    ccur,       \* the syscall it is in, or last made
    cfd,        \* its descriptor table: fd -> FreeFd, FileObj or a map
    maps,       \* the names of the maps it has created, in creation order
    nsys,       \* syscalls made (bound MaxSyscalls)
    nsig,       \* signal-delivery stops taken (bound MaxSignals)
    nkill,      \* SIGKILLs received (bound MaxKills)
    cstatus     \* its exit status once dead

tracerVars == <<tpc, isMap, regs, tfds, pins, tstatus, exitkill>>
childVars == <<cstop, cregs, ccur, cfd, maps, nsys, nsig, nkill, cstatus>>
vars == <<tracerVars, childVars>>

TypeOK ==
    /\ tpc \in TracerPcs
    /\ isMap \in BOOLEAN
    /\ regs \in Regs
    /\ tfds \in 0 .. TracerFdLimit
    /\ pins \in [PinIdx -> 0 .. MaxMaps]
    /\ tstatus \in 0 .. 255
    /\ exitkill \in BOOLEAN
    /\ cstop \in ChildStops
    /\ cregs \in Regs
    /\ ccur \in Calls
    /\ cfd \in [ChildFds -> FreeFd .. MaxMaps]
    /\ maps \in Seq(MapNames)
    /\ Len(maps) <= MaxMaps
    /\ nsys \in 0 .. MaxSyscalls
    /\ nsig \in 0 .. MaxSignals
    /\ nkill \in 0 .. MaxKills
    /\ cstatus \in 0 .. 255

Init ==
    /\ tpc = "spawn"
    /\ isMap = FALSE
    /\ regs = [nr |-> "none", rdi |-> 0, rax |-> 0]
    /\ tfds = 0
    /\ pins = [i \in PinIdx |-> NoPin]
    /\ tstatus = 0
    /\ exitkill = FALSE
    /\ cstop = "unborn"
    /\ cregs = [nr |-> "none", rdi |-> 0, rax |-> 0]
    /\ ccur = NoCall
    /\ cfd = [fd \in ChildFds |-> IF fd <= 2 THEN FileObj ELSE FreeFd]
    /\ maps = <<>>
    /\ nsys = 0
    /\ nsig = 0
    /\ nkill = 0
    /\ cstatus = 0

-----------------------------------------------------------------------------
(* The traced program between two waits of the tracer.                    *)

IsMapCreate(call) == call.nr = "bpf" /\ call.rdi = BPF_MAP_CREATE

\* The lowest free descriptor number, which the kernel hands out next.
FreeFds == {fd \in ChildFds : cfd[fd] = FreeFd}
LowestFreeFd == CHOOSE fd \in FreeFds : \A g \in FreeFds : fd <= g

\* Registers at a signal-delivery stop: those of the syscall just returned
\* from when the signal is delivered on its way out, otherwise user-mode
\* registers with orig_rax = -1.
SignalRegs ==
    (IF cstop = "exit" THEN {cregs} ELSE {})
    \cup {[nr |-> "none", rdi |-> a, rax |-> v] : a \in ArgVals, v \in OtherResults}

\* From user mode, the program enters a syscall: a syscall-entry stop.
EnterCall ==
    /\ \/ \E c \in MapCreateCalls \cup BpfOtherCalls \cup OtherCalls :
             /\ nsys < MaxSyscalls
             /\ ccur' = c
             /\ nsys' = nsys + 1
       \/ \E c \in ExitCalls :
             /\ ccur' = c
             /\ UNCHANGED nsys
    /\ cregs' = [nr |-> ccur'.nr, rdi |-> ccur'.rdi, rax |-> -ENOSYS]
    /\ cstop' = "entry"
    /\ UNCHANGED <<cfd, maps, nsig, nkill, cstatus>>

\* From user mode, a signal arrives: a signal-delivery stop.
TakeSignal ==
    /\ nsig < MaxSignals
    /\ cstop' = "signal"
    /\ cregs' \in SignalRegs
    /\ nsig' = nsig + 1
    /\ UNCHANGED <<ccur, cfd, maps, nsys, nkill, cstatus>>

\* SIGKILL from outside: the program dies without another stop.
Killed ==
    /\ nkill < MaxKills
    /\ cstop' = "killed"
    /\ cstatus' = KILLED_STATUS
    /\ nkill' = nkill + 1
    /\ UNCHANGED <<cregs, ccur, cfd, maps, nsys, nsig>>

\* The kernel runs the syscall the program is stopped at the entry of.
\* exit_group ends the program; the others reach their exit stop with
\* their result in rax.  bpf(BPF_MAP_CREATE) returns the lowest free
\* descriptor for a new map, or fails.
FinishCall ==
    /\ ccur.nr # "exit_group"
    /\ LET Returns(ret) == cregs' = [nr |-> ccur.nr, rdi |-> ccur.rdi, rax |-> ret]
       IN  \/ /\ IsMapCreate(ccur)
              /\ FreeFds # {}
              /\ Len(maps) < MaxMaps
              /\ Returns(LowestFreeFd)
              /\ cfd' = [cfd EXCEPT ![LowestFreeFd] = Len(maps) + 1]
              /\ maps' = Append(maps, ccur.name)
           \/ /\ IsMapCreate(ccur)
              /\ Returns(-EPERM)
              /\ UNCHANGED <<cfd, maps>>
           \/ /\ ccur.nr = "bpf" /\ ~IsMapCreate(ccur)
              /\ Returns(0)
              /\ UNCHANGED <<cfd, maps>>
           \/ /\ ccur.nr = "other"
              /\ \E ret \in OtherResults : Returns(ret)
              /\ UNCHANGED <<cfd, maps>>
    /\ cstop' = "exit"
    /\ UNCHANGED <<ccur, nsys, nsig, nkill, cstatus>>

ExitGroup ==
    /\ ccur.nr = "exit_group"
    /\ cstop' = "exited"
    /\ cstatus' = ccur.rdi
    /\ UNCHANGED <<cregs, ccur, cfd, maps, nsys, nsig, nkill>>

\* What the program does after PTRACE_SYSCALL until waitpid returns.
ChildResume ==
    \/ /\ cstop \in {"exec", "exit", "signal"}
       /\ EnterCall \/ TakeSignal \/ Killed
    \/ /\ cstop = "entry"
       /\ FinishCall \/ ExitGroup \/ Killed

-----------------------------------------------------------------------------
(* The tracer: run() of cli.c.                                             *)

\* Mutant: PTRACE_SETOPTIONS with PTRACE_O_EXITKILL left out.
SpawnNoExitKill ==
    /\ tpc = "spawn"
    /\ \/ /\ tpc' = "fatal"
          /\ tstatus' = EXIT_FAILURE
          /\ UNCHANGED <<isMap, regs, tfds, pins, exitkill, childVars>>
       \/ /\ cstop' = "exec"
          /\ tpc' = "entry"
          /\ UNCHANGED <<isMap, regs, tfds, pins, tstatus, exitkill>>
          /\ UNCHANGED <<cregs, ccur, cfd, maps, nsys, nsig, nkill, cstatus>>
       \/ /\ cstop' = "exited"
          /\ cstatus' = EXIT_FAILURE
          /\ tpc' = "entry"
          /\ UNCHANGED <<isMap, regs, tfds, pins, tstatus, exitkill>>
          /\ UNCHANGED <<cregs, ccur, cfd, maps, nsys, nsig, nkill>>

\* fork + PTRACE_TRACEME + execvp, waitpid and PTRACE_SETOPTIONS
\* (cli.c:781-797).  A failing fork is fatal; a child whose TRACEME or
\* execvp fails calls log_fata and exits with EXIT_FAILURE, and the
\* unchecked SETOPTIONS then has nobody to act on.
Spawn ==
    /\ tpc = "spawn"
    /\ \/ /\ tpc' = "fatal"
          /\ tstatus' = EXIT_FAILURE
          /\ UNCHANGED <<isMap, regs, tfds, pins, exitkill, childVars>>
       \/ /\ cstop' = "exec"
          /\ exitkill' = TRUE
          /\ tpc' = "entry"
          /\ UNCHANGED <<isMap, regs, tfds, pins, tstatus>>
          /\ UNCHANGED <<cregs, ccur, cfd, maps, nsys, nsig, nkill, cstatus>>
       \/ /\ cstop' = "exited"
          /\ cstatus' = EXIT_FAILURE
          /\ tpc' = "entry"
          /\ UNCHANGED <<isMap, regs, tfds, pins, tstatus, exitkill>>
          /\ UNCHANGED <<cregs, ccur, cfd, maps, nsys, nsig, nkill>>

\* The entry half of an iteration (cli.c:803-825): PTRACE_SYSCALL, waitpid
\* and PTRACE_GETREGS, each fatal on failure; then is_map is set when the
\* registers show bpf(BPF_MAP_CREATE, ...).  is_map is never cleared.
EnterSyscall ==
    /\ tpc = "entry"
    /\ \/ /\ Dead(cstop)
          /\ tpc' = "fatal"
          /\ tstatus' = EXIT_FAILURE
          /\ UNCHANGED <<isMap, regs, tfds, pins, exitkill, childVars>>
       \/ /\ Running(cstop)
          /\ ChildResume
          /\ \/ /\ Dead(cstop')
                /\ tpc' = "fatal"
                /\ tstatus' = EXIT_FAILURE
                /\ UNCHANGED <<isMap, regs, tfds, pins, exitkill>>
             \/ /\ ~Dead(cstop')
                /\ regs' = cregs'
                /\ isMap' = (isMap \/ IsMapCreate(cregs'))
                /\ tpc' = "exit"
                /\ UNCHANGED <<tfds, pins, tstatus, exitkill>>

\* The rest of an iteration after a successful exit-half PTRACE_GETREGS
\* (cli.c:855-900), with `result' the rax just read.
Continue(n) ==
    /\ tfds' = n
    /\ tpc' = "entry"
    /\ UNCHANGED <<pins, tstatus>>

\* Mutant: bpf_obj_pin given the child's descriptor number `result'
\* instead of the duplicate curfd.
InspectAndPinRemoteFd(obj) ==
    \/ /\ obj = FileObj
       /\ Continue(tfds + 2)
    \/ /\ obj # FileObj
       /\ ~HasName(maps'[obj])
       /\ Continue(tfds + 2)
    \/ /\ obj # FileObj
       /\ HasName(maps'[obj]) /\ ~HasSuffix(maps'[obj])
       /\ tfds' = tfds + 2
       /\ tpc' = "crashed"
       /\ tstatus' = SEGV_STATUS
       /\ UNCHANGED pins
    \/ /\ obj # FileObj
       /\ HasSuffix(maps'[obj])
       /\ GetPinPath(Suffix(maps'[obj])) = NoRole
       /\ Continue(tfds + 2)
    \/ /\ obj # FileObj
       /\ HasSuffix(maps'[obj])
       /\ LET i == GetPinPath(Suffix(maps'[obj])) IN
            /\ i # NoRole
            /\ \/ /\ pins[i] = NoPin
                  /\ pins' = [pins EXCEPT ![i] = cregs'.rax]
                  /\ tfds' = tfds + 2
                  /\ tpc' = "entry"
                  /\ UNCHANGED tstatus
               \/ /\ pins[i] # NoPin
                  /\ tfds' = tfds + 2
                  /\ tpc' = "fatal"
                  /\ tstatus' = EXIT_FAILURE
                  /\ UNCHANGED pins

\* Mutant: a taken path is unlinked and repinned instead of EEXIST.
InspectAndPinRepin(obj) ==
    \/ /\ obj = FileObj
       /\ Continue(tfds + 2)
    \/ /\ obj # FileObj
       /\ ~HasName(maps'[obj])
       /\ Continue(tfds + 2)
    \/ /\ obj # FileObj
       /\ HasName(maps'[obj]) /\ ~HasSuffix(maps'[obj])
       /\ tfds' = tfds + 2
       /\ tpc' = "crashed"
       /\ tstatus' = SEGV_STATUS
       /\ UNCHANGED pins
    \/ /\ obj # FileObj
       /\ HasSuffix(maps'[obj])
       /\ GetPinPath(Suffix(maps'[obj])) = NoRole
       /\ Continue(tfds + 2)
    \/ /\ obj # FileObj
       /\ HasSuffix(maps'[obj])
       /\ LET i == GetPinPath(Suffix(maps'[obj])) IN
            /\ i # NoRole
            /\ pins' = [pins EXCEPT ![i] = obj]
            /\ tfds' = tfds + 2
            /\ tpc' = "entry"
            /\ UNCHANGED tstatus

\* After pidfd_getfd has duplicated descriptor `result' of the child,
\* referring to `obj' (cli.c:872-899).  bpf_obj_get_info_by_fd fails on
\* anything that is not a map; strtok leaves a NULL suffix for a one-token
\* name and strncmp(NULL, ...) faults; bpf_obj_pin fails with EEXIST on a
\* path that is already pinned, and that failure is fatal.
InspectAndPin(obj) ==
    \/ /\ obj = FileObj
       /\ Continue(tfds + 2)
    \/ /\ obj # FileObj
       /\ ~HasName(maps'[obj])
       /\ Continue(tfds + 2)
    \/ /\ obj # FileObj
       /\ HasName(maps'[obj]) /\ ~HasSuffix(maps'[obj])
       /\ tfds' = tfds + 2
       /\ tpc' = "crashed"
       /\ tstatus' = SEGV_STATUS
       /\ UNCHANGED pins
    \/ /\ obj # FileObj
       /\ HasSuffix(maps'[obj])
       /\ GetPinPath(Suffix(maps'[obj])) = NoRole
       /\ Continue(tfds + 2)
    \/ /\ obj # FileObj
       /\ HasSuffix(maps'[obj])
       /\ LET i == GetPinPath(Suffix(maps'[obj])) IN
            /\ i # NoRole
            /\ \/ /\ pins[i] = NoPin
                  /\ pins' = [pins EXCEPT ![i] = obj]
                  /\ tfds' = tfds + 2
                  /\ tpc' = "entry"
                  /\ UNCHANGED tstatus
               \/ /\ pins[i] # NoPin
                  /\ tfds' = tfds + 2
                  /\ tpc' = "fatal"
                  /\ tstatus' = EXIT_FAILURE
                  /\ UNCHANGED pins

\* `if (is_map && result)': pidfd_open and pidfd_getfd, each `continue'
\* on failure (cli.c:859-870).  Neither descriptor is ever closed, so a
\* full descriptor table (EMFILE) makes them fail; pidfd_getfd also fails
\* with EBADF on a number the child has not open.
ChildHoldsFd(result) == result \in ChildFds /\ cfd'[result] # FreeFd

Exfiltrate(result) ==
    \/ /\ ~(isMap /\ result # 0)
       /\ Continue(tfds)
    \/ /\ isMap /\ result # 0
       /\ tfds = TracerFdLimit
       /\ Continue(tfds)
    \/ /\ isMap /\ result # 0
       /\ tfds < TracerFdLimit
       /\ ~ChildHoldsFd(result) \/ tfds + 1 = TracerFdLimit
       /\ Continue(tfds + 1)
    \/ /\ isMap /\ result # 0
       /\ tfds + 2 <= TracerFdLimit
       /\ ChildHoldsFd(result)
       /\ InspectAndPin(cfd'[result])

\* Mutant: the exit status taken from rax instead of rdi.
ExitSyscallRax ==
    /\ tpc = "exit"
    /\ ChildResume
    /\ \/ /\ Dead(cstop')
          /\ tpc' = "exited"
          /\ tstatus' = regs.rax % 256
          /\ UNCHANGED <<isMap, regs, tfds, pins, exitkill>>
       \/ /\ ~Dead(cstop')
          /\ regs' = cregs'
          /\ Exfiltrate(cregs'.rax)
          /\ UNCHANGED <<isMap, exitkill>>

\* The exit half of an iteration (cli.c:834-900).  When PTRACE_GETREGS
\* fails with ESRCH the child has died and the tracer exits with rdi of
\* the registers read in the entry half: exit(regs.rdi).
ExitSyscall ==
    /\ tpc = "exit"
    /\ ChildResume
    /\ \/ /\ Dead(cstop')
          /\ tpc' = "exited"
          /\ tstatus' = regs.rdi % 256
          /\ UNCHANGED <<isMap, regs, tfds, pins, exitkill>>
       \/ /\ ~Dead(cstop')
          /\ regs' = cregs'
          /\ Exfiltrate(cregs'.rax)
          /\ UNCHANGED <<isMap, exitkill>>

\* When the tracer process is gone, PTRACE_O_EXITKILL has the kernel send
\* SIGKILL to the child.
TracerExitKill ==
    /\ tpc \in Terminated
    /\ exitkill
    /\ Running(cstop)
    /\ cstop' = "killed"
    /\ cstatus' = KILLED_STATUS
    /\ UNCHANGED <<tracerVars, cregs, ccur, cfd, maps, nsys, nsig, nkill>>

\* Both processes are gone: nothing happens any more.
Finished ==
    /\ tpc \in Terminated
    /\ (~Running(cstop) \/ ~exitkill)
    /\ UNCHANGED vars

Next ==
    \/ Spawn
    \/ EnterSyscall
    \/ ExitSyscall
    \/ TracerExitKill
    \/ Finished

Spec == Init /\ [][Next]_vars /\ WF_vars(TracerExitKill)

-----------------------------------------------------------------------------
(* Properties.                                                             *)

\* Every pinned path holds a map the traced program created in this run,
\* and the suffix strtok takes from that map's name starts with the
\* keyword of that path's slot: run() never pins a map at another role's path
\* (cli.c:885-893 together with get_pin_path, cli.c:698-722).
PinnedMapsMatchRole ==
    \A i \in PinIdx :
        pins[i] # NoPin =>
            /\ pins[i] \in 1 .. Len(maps)
            /\ HasSuffix(maps[pins[i]])
            /\ StrncmpMatches(Suffix(maps[pins[i]]), Keyword[i])

\* When run() exits through its `process already exited' path (cli.c:847-
\* 849) after the program ended in exit_group, it exits with the status
\* the program passed to exit_group.
ExitStatusFromExitGroup ==
    (tpc = "exited" /\ cstop = "exited") => tstatus = cstatus

\* Whatever way run() ends -- normal exit, log_fata, or a fault -- the
\* traced program does not outlive it (PTRACE_O_EXITKILL, cli.c:797).
ChildNotOrphaned ==
    (tpc \in Terminated) ~> ~Running(cstop)

\* Spec 4.1 3c/e: the descriptor a syscall returns is taken out of the
\* child only when that syscall is bpf(BPF_MAP_CREATE, ...) (is_map holds
\* "for this iteration only").  cli.c:799-825 never clears is_map.
OnlyMapCreateExfiltrated ==
    [][tfds' > tfds => IsMapCreate(ccur')]_vars

\* Spec 5: descriptors obtained from the child are consumed before the
\* next loop iteration; none is retained.  cli.c:861-866 never closes the
\* pidfd nor the duplicated descriptor.
NoDescriptorRetained ==
    tpc = "entry" => tfds = 0

\* Spec 6: run's exit status mirrors the traced program's.  A signal-
\* delivery stop is taken for a syscall stop (cli.c:807, 838 ignore the
\* waitpid status), after which the program's exit_group is met by the
\* entry-half PTRACE_GETREGS and log_fata.
RunStatusMirrorsChild ==
    (tpc \in Terminated /\ cstop = "exited") => tstatus = cstatus

\* The pins run() makes are those the Map Pinner of spec 4.2 may make:
\* InspectAndPin (cli.c:872-899) pins only a map the program created, at
\* the still free path of the role its name selects, and no step of run()
\* unpins, repins or forgets a created map.
Pinner == INSTANCE PinNamespace WITH Names <- MapNames, created <- maps, pinned <- pins

ImplementsPinNamespace == Pinner!ASpec

\* A step of run() that changes a pin (bpf_obj_pin, cli.c:893) pins at a
\* free path, and what it pins is the map behind the descriptor `result'
\* the syscall just returned in the traced program -- the duplicate
\* pidfd_getfd made of it (cli.c:866) -- not the child's descriptor number
\* itself, nor anything else the tracer has seen.
PinsDuplicatedDescriptor ==
    [][\A i \in PinIdx :
         pins'[i] # pins[i] =>
             /\ pins[i] = NoPin
             /\ regs'.rax \in ChildFds
             /\ pins'[i] = cfd'[regs'.rax]]_vars

\* Spec 8: a map name without a recognised suffix resolves to no role and
\* never crashes the tracer.  strtok yields NULL for a name with no '.',
\* and get_pin_path hands it to strncmp (cli.c:887-890, 700).
NeverCrashes ==
    tpc # "crashed"

=============================================================================
