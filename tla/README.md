# Formal models of bpfcov

TLA+ models of `src/cli/cli.c`, the `bpfcov` command line tool. There are
model-checking runs for TLC and proofs for TLAPS.

## The system

`bpfcov` has two commands. They share one piece of state: the pin namespace
`<bpffs>/cov/<program>/{profc,profd,profn,covmap}`.

* **`run`** starts the eBPF program under ptrace (`run`, cli.c:777-904). It
  stops the program at each syscall entry and exit. After a
  `bpf(BPF_MAP_CREATE)` it duplicates the new map descriptor out of the child
  with `pidfd_open`/`pidfd_getfd`. It reads the map's name and pins the map at
  the path of the role its name suffix selects (`get_pin_path`,
  cli.c:698-722).
* **`gen`** reads the four pinned maps and writes a `.profraw` file
  (`gen`, cli.c:906-998).
* **Both commands** first pass through `root_parse`'s `ARGP_KEY_FINI`
  (cli.c:258-366). It checks the BPF filesystem and builds the paths. Then it
  goes over the four slots: `run` unpins any stale pin, and `gen` requires
  every pin to be present.

## Modules

| Module | Models | Source |
|---|---|---|
| `PinRegistry` | `NUM_PINNED_MAPS`, the role keywords, the `strtok` split of a map name into a stem and a suffix, and `get_pin_path` | cli.c:120-128, 698-722, 885-887 |
| `Tracer` | `run()`: the tracer's loop, with the traced program and the kernel as its environment | cli.c:777-904 |
| `PinLifecycle` | successive invocations against one pin namespace: `ARGP_KEY_FINI`, dispatch, `run` pinning and `gen` reading | cli.c:184-233, 258-388, 885-898, 906-998 |
| `PinNamespace` | the abstract Map Pinner: what `run` promises of the pins (spec §4.2) | spec.md |
| `ProfrawWriter` | `gen()`: the map infos, the fopen, the header and section writes, `get_global_data`, the fclose | cli.c:724-772, 906-1049 |
| `TracerProofs`, `PinLifecycleProofs`, `ProfrawWriterProofs` | TLAPS proofs | |
| `MCTracer`, `MCPinLifecycle`, `MCProfrawWriter` | model values and definitions for TLC | |

### Tracer

**Tracer state:**
* `tpc` is where `run()` is. It is one of:
  * `spawn`;
  * `entry`: before the first `waitpid` of an iteration;
  * `exit`: before the second `waitpid`;
  * `exited`, `fatal` or `crashed`.
* `isMap` is `is_map`.
* `regs` is the last `PTRACE_GETREGS`.
* `tfds` counts the descriptors the tracer holds.
* `pins` is the namespace: each slot maps to a map index or `NoPin`.
* `tstatus` is the tracer's exit status.
* `exitkill` records whether `PTRACE_O_EXITKILL` is in effect.

**Traced program state.** This is only what ptrace lets the tracer see:
* the stop it is in (`cstop`);
* its registers (`cregs`);
* its current call;
* its descriptor table (`cfd`);
* the maps it has created;
* its exit status.

**Tracer actions.** There is one action per piece of the loop:
* `Spawn` (fork, TRACEME, exec, SETOPTIONS);
* `EnterSyscall` (SYSCALL, waitpid, GETREGS and the is_map test);
* `ExitSyscall` (the second wait, GETREGS, and the ESRCH exit with `regs.rdi`);
* `Continue`;
* `InspectAndPin` (pidfd_open, pidfd_getfd, get_info, strtok, get_pin_path,
  bpf_obj_pin);
* `TracerExitKill` (the kernel killing the child when the tracer has died).

Every failed ptrace or bpf call goes to `fatal` with status `EXIT_FAILURE`,
as `log_fata` does.

**Environment actions.** Between two waits the program does one of:
* enter a call (`EnterCall`);
* finish it (`FinishCall`). A map creation gets the lowest free descriptor.
* take a signal-delivery stop (`TakeSignal`);
* call `exit_group`;
* be killed from outside (`Killed`).

**Data abstractions:**
* A map name is a sequence of `strtok` tokens.
* `strncmp(tok, kw, strlen(kw))` becomes "the token's stem is `kw`". The extra
  characters after the keyword are only a flag.
* Descriptor numbers, `rdi` and `rax` stay integers. The code uses them as
  numbers: the lowest free fd, `-ENOSYS` at a syscall entry, and an exit
  status.

### PinNamespace and the refinement

`PinNamespace` states what the pinning of `run` promises, without ptrace,
descriptors or registers:
* `created` is the sequence of the names of the maps created so far;
* `pinned` maps each slot to the created map pinned there, or 0.

**Actions:**
* `Create(n)`: the program creates a map named `n`;
* `Pin(i, m)`: map `m` is pinned at slot `i`. Slot `i` must be free, and
  it must be the role of `m`'s suffix.

A third disjunct creates and pins in one step. The tracer pins a map in
the same step in which it sees the creating syscall return (`ExitSyscall`
includes the child's `FinishCall`), so one detailed step can be both.

`Tracer` defines `Pinner == INSTANCE PinNamespace WITH Names <- MapNames,
created <- maps, pinned <- pins`. `MCTracer.cfg` checks
`ImplementsPinNamespace == Pinner!ASpec` as a `PROPERTY`. Its one
`NoPin` value (0) maps to the abstract "free".

### ProfrawWriter

`gen` is straight-line code, so `Program` lists its 21 statements in order:
* four `info` (`get_map_info(bpf_obj_get(pin[s]))`);
* `open`;
* twelve `write`, one per `fwrite`;
* three `read` (`get_global_data`, with the version `memcpy` after the
  covmap read);
* `close`.

`pc` is the next statement. There is one action per kind of statement:
`GetMapInfo`, `OpenOutput`, `Fwrite`, `GetGlobalData` and `Fclose`.

**State:**
* `mapInfo` and `stored`: the pinned maps (`value_size`, `max_entries`) and
  the version in the covmap value. Both are chosen in `Init` and fixed.
* `info`, `data`, `verBytes`: what `gen` has read into its locals.
* `file`: the output, a sequence of items, one per `fwrite`.
* `status`, `nfail`: the exit status and the count of failed fwrites.

**Abstractions:**
* An 8-byte word is the pair `<<low 4 bytes, high 4 bytes>>`. The names-size
  write (cli.c:968) copies 8 bytes starting at the 4-byte `value_size`, so it
  is `<<value_size, max_entries>>`.
* A section is `<<slot, value_size>>`.
* The magic is abstracted to its tag.
* Every `fwrite` may fail (up to `MaxWriteFailures`). The result is never
  checked, so the step goes on without the item.
* Bytes 12..15 of a covmap value shorter than 16 bytes lie past the heap
  block. They are a nondeterministic choice over `StrayBytes`.
* Every fatal path (`bpf_obj_get`/info failure, fopen failure,
  `max_entries > 1`, a failed lookup) is a `Fatal` disjunct. `exit`
  flushes what has been written.

### PinLifecycle

This module abstracts one invocation to its passage through `root_parse` and
its use of the namespace.

**State:**
* `pinned`: each slot maps to the number of the run whose map is pinned
  there;
* `covDir` and `progDir`: whether the directories exist;
* `pc` and `cmd`: the current invocation's step and command;
* `p`: the slot loop index;
* `traced`: the last run that reached its tracer.

**Actions.** Each one models a whole stretch of code:
* `Start`: argp init and the positional command;
* `CheckCovRoot`: is_bpffs and the cov root mkdir;
* `MakePaths`: the program root, the pin paths and their length checks;
* `ReconcileSlot`: one iteration of cli.c:341-363;
* `Dispatch`: `root()` calling the command;
* `PinRole`: `bpf_obj_pin`, which is fatal on EEXIST;
* `EndTrace`;
* `GenRead`;
* `Killed`: the user kills bpfcov at any point.

Every error path of the code is a disjunct that goes through `Exit`. Files
stay; the process state goes.

## Runs

| Run | Expect | Checks | Shows |
|---|---|---|---|
| `tracer_safety` | pass | `TypeOK`, `PinnedMapsMatchRole`, `ExitStatusFromExitGroup`, `ChildNotOrphaned`, `ImplementsPinNamespace`, `PinsDuplicatedDescriptor` | Pins hold only created maps of the path's role, even with a signal, a kill, a user map and a global-data map. The ESRCH exit reports the `exit_group` status. The child never outlives the tracer. Every step is a step of the abstract Map Pinner. Every pin is the map behind the descriptor the syscall returned, made at a free path. |
| `lifecycle_safety` | pass | `GenReadsLastTracedRun`, `PinsWrittenOnlyByRun` | Over three invocations, each interruptible anywhere, `gen` only passes its slot loop when every pin belongs to the last run that reached tracing. Only `run` unpins (in its slot loop, at the current slot) or pins (its own maps, at free paths). |
| `gen_format` | pass | `FieldsInFormatOrder`, `WInv`, `WholeProfileWhenWritesSucceed` | Whatever fails, the output is the previous file or fields of the §6 profile with their values, in order and none twice. The proof's inductive invariant holds. When no `fwrite` fails and `gen` returns 0, the output is the whole profile. |
| `sticky_is_map` | violation | `OnlyMapCreateExfiltrated` | `is_map` is never cleared (cli.c:822). Later syscall results are taken for map descriptors. |
| `fd_leak` | violation | `NoDescriptorRetained` | The pidfd and the duplicated fd are never closed (cli.c:861-866). |
| `signal_desync` | violation | `RunStatusMirrorsChild` | A signal stop taken for a syscall stop (cli.c:807, 838) makes `run` die with status 1 while the program exited 0. |
| `no_dot_crash` | violation | `NeverCrashes` | A map name without a `.` gives strtok NULL, which is handed to strncmp (cli.c:887, 700). |
| `unchecked_write` | violation | `SuccessWritesWholeProfile` | One failed `fwrite`, and `gen` still returns 0 with a field missing (cli.c:943-995, 1047). Spec §4.3 step 8 says a write failure is fatal. |
| `names_size_word` | violation | `NamesSizeWrittenTwice` | On the spec's own example, the names-size word is `<<0, 1>>`: `value_size`, then `max_entries` (cli.c:968). The spec says the size is written twice. |
| `short_header` | violation | `MalformedHeaderIsFatal` | An 8-byte covmap value is read past its end for the version, and a header is written (cli.c:951). Spec §7 says malformed metadata is fatal. |

The violation runs are the findings in `PROJECT.json`. Each one contradicts
what spec.md says of the program.

## Bounds

**Tracer instance:**
* 4 child descriptors (0-2 are taken at start);
* 2 maps and 3 syscalls;
* 1 signal and 1 kill;
* 4 descriptors of headroom for the tracer.

These bounds are enough to reach the interesting cases:
* a second map creation, so EEXIST and a mis-pin can occur;
* a non-bpf syscall after a map creation, which is where the sticky `is_map`
  bites;
* a signal stop followed by `exit_group`, which is the desync;
* a kill while the tracer is at either wait;
* map names of all three kinds: a coverage name, a non-coverage name with a
  dot (`.bss`), and a name with no dot.

**Lifecycle instance:** `MaxInvocations = 3`. This allows run, killed run,
gen, and run, gen, gen. It covers every order that could leave a stale pin
visible to `gen`.

**ProfrawWriter instance (`gen_format`):**
* two value sizes per slot: 8 or 16 bytes of counters, 48 or 96 of data, an
  empty or 5-byte names value, a 16-byte covmap header;
* `max_entries` of 1 or 2, so the `max_entries > 1` fatal path is taken at
  each read;
* one failing `fwrite`;
* an output that did or did not exist before.

This reaches every fatal path before and after the fopen and a missing field
at every position. It also reaches value sizes where the two halves of a
wrong word differ. The violation runs use one size per slot.

## Fairness

`Tracer.Spec` has weak fairness on `TracerExitKill` only. That is the
kernel's promise for `PTRACE_O_EXITKILL`: the tracee is killed when the
tracer exits. Nothing else is assumed fair, because the traced program may
stop or spin forever. `ChildNotOrphaned` is the liveness property that
rests on this.

`PinLifecycle` has no fairness and no liveness property, because a user may
never invoke bpfcov again.

## Proofs (TLAPS)

**`TracerProofs`:**
* `TypeCorrect`: `Spec => []TypeOK` for all bounds satisfying
  `BoundsAssumption` and `DomainsAssumption`.
* `PinsMatchRoles`: `Spec => []PinnedMapsMatchRole`. `PinnedMapsMatchRole`
  is not inductive. A step that pins reads the map index from the child's
  descriptor table, so the invariant is strengthened with `MapFdsCreated`:
  every child descriptor is free, a non-map file, or the index of a map the
  program created. The maps sequence only grows (`MapsExtended`), so old
  pins stay valid. `IInv == TypeOK /\ MapFdsCreated /\ PinnedMapsMatchRole`
  is shown to hold initially and to be preserved by every action. The lowest
  free descriptor is obtained by well-founded minimality on `Nat`.
* `ExitStatusMirrored`: `Spec => []ExitStatusFromExitGroup`.
  `ExitStatusFromExitGroup` is not inductive: the exit half exits with
  `regs.rdi`, so the proof needs to know what `regs` holds.
  `RegsMirrorChild` adds two facts:
  * at a syscall-entry stop the child shows the call's argument in `rdi`;
  * while the tracer is in the exit half, `regs` equals the child's
    registers.

  `EInv == TypeOK /\ RegsMirrorChild /\ ExitStatusFromExitGroup` is
  inductive. `ChildResumeExited` shows that the child dies by `exit_group`
  only from that call's entry stop. `CallKinds` shows that the status is
  already a byte, so `% 256` does nothing.
* `PinsFromDuplicates`: `Spec => PinsDuplicatedDescriptor`, an action
  property. It follows from `TypeOK` alone. `InspectAndPinPins` and
  `ExfiltratePins` show that an iteration changes at most one pin, at a
  free slot, to `cfd'[result]`. The slot comes from `GetPinPathType`.

**`PinLifecycleProofs`:**
* `GenNeverReadsStalePins`: `Spec => []GenReadsLastTracedRun` for every
  `MaxInvocations`.
* `LifecycleTypeCorrect`: `Spec => []TypeOK`.

The inductive invariant `LIInv` adds these facts to the types:
* runs never exceed invocations;
* every pin is `NoRun` or belongs to `traced`;
* before the loop `p = 0`;
* during a run's loop, the slots below `p` are empty;
* during gen's loop, the slots below `p` are taken;
* at tracing, `traced = runs`.

Without these loop facts, the step `Dispatch` to `gen` could not be shown to
find every pin taken and owned by `traced`.

`OnlyRunWritesPins` proves `Spec => PinsWrittenOnlyByRun` from the same
`LIInv`. The unlink in the slot loop is guarded by `cmd = "run"`. A pin made
while tracing needs `cmd = "run"` too, which `LIInv` gives for the `trace`
point. `OneSlotWritten` shows that a pin or unlink touches one slot only.

**`TracerProofs` also proves `RefinesPinNamespace`:
`Spec => Pinner!ASpec`.**
* The initial states map to `AInit`.
* `NextRefines` shows that every step under `IInv` is a `Pinner!ANext`
  step or leaves `maps` and `pins` alone:
  * a child step that finishes a map creation is `Create`;
  * `InspectAndPin` is `Pin`;
  * `ExitSyscall`, whose `FinishCall` may create the map it then pins, is
    the create-and-pin disjunct.
* The lemma `RegistryInstance` equates the instance's copies of the
  `PinRegistry` operators with the originals.
* `Pin` needs the slot free and the map's role to match. Both come from
  `IInv`: the EEXIST check makes the slot free, and `MapFdsCreated`
  makes the map a created one.

**`ProfrawWriterProofs`:**
* `FormatOrder` proves `Spec => []FieldsInFormatOrder`. It holds for every
  value size, `max_entries`, version, stray bytes and number of failing
  writes. The hypothesis is `WellFormedHeader`: every covmap value size is
  at least 16. Without it the run `short_header` shows a wrong version.
* The inductive invariant is `WInv`, and TLC checks it in `gen_format`.
  `WInv` says:
  * `ReadInv`: the locals `gen` has filled equal the pinned maps (the info
    of each slot once its statement is past, the version after the covmap
    read, the data and counters buffers after their reads);
  * `OutputInv`: before the fopen the file is the previous one or empty.
    After it, every item is a field of the profile with its §6 value. Items
    are in strictly increasing position, and none lies past the
    `Written[pc]` fields the statements so far could have written.
* `FieldsInFormatOrder` alone is not inductive. A step that writes the
  data section needs to know that `data[1]` holds the profd value.
* `WInvHolds` states `Spec => []WInv` itself, under the same hypothesis.
  `WInv` says more than `FieldsInFormatOrder`: every value `gen` has read
  is that of this invocation's pins.
* `WholeProfile` proves `Spec => []WholeProfileWhenWritesSucceed` under
  `WellFormedHeader`. It uses `WInv` and a second invariant, `CountInv`.
  After the fopen, written items plus failed writes equal `Written[pc]`.
  With no failure, item k is field k. `gen` returns 0 only at statement 21,
  where `Written` is 12. With `OutputInv`'s agreement this gives the whole
  profile. TLC checked `CountInv` on the `gen_format` instance before it
  was proved.
* `ProgramShape` states, statement by statement, which kind and argument
  each index of `Program` has.
* `WriteAgrees` shows that the item a write appends agrees with the
  profile, by cases on the 12 write statements.
* The proof made one model point explicit. TLA+ reads a `CASE` with
  overlapping guards as an arbitrary true arm, so `GetGlobalData`'s version
  `CASE` has disjoint guards.

Every invariant and action property of the passing runs is now proved as
a theorem for every value of the constants. The `ProfrawWriter` theorems
assume `WellFormedHeader`.

**Left to TLC:**
* The liveness property `ChildNotOrphaned`. TLAPS does not handle ENABLED or
  fairness here.
* The violation runs.

No module with a theorem uses RECURSIVE operators.

## Not modelled yet

* **In `gen`:**
  * the descriptors `bpf_obj_get` opens for `get_map_info` and never closes
    (724-730). `gen` opens eight and exits.
  * the unchecked `malloc`s of the section buffers (945, 981, 990).
  * the magic bytes and the byte encoding beyond the two 4-byte halves.
  * a map re-pinned between the info and the data reads. That needs a
    concurrent `run` (below).
* **Option parsing and path helpers:** `strip_trailing_char`, `replace_with`,
  and `args->pin`/`cov_root` pointing at arrays local to `root_parse`
  (undefined behaviour, cli.c:277-338).
* **Concurrent invocations on one program.** spec.md §5 leaves them out of
  scope.
* **`print_log` and logging.** These are pure output.
