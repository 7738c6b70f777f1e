------------------------- MODULE PinLifecycleProofs -------------------------
(***************************************************************************)
(* Proofs about module PinLifecycle, for every number of invocations.     *)
(***************************************************************************)
EXTENDS PinLifecycle, TLAPS

\* TypeOK without the two directory flags, which Zenon handles apart.
TypeCore ==
    /\ pinned \in [PinIdx -> NoRun .. MaxInvocations]
    /\ pc \in Pcs
    /\ cmd \in Commands
    /\ p \in 0 .. NUM_PINNED_MAPS
    /\ runs \in 0 .. MaxInvocations
    /\ traced \in NoRun .. MaxInvocations
    /\ ninv \in 0 .. MaxInvocations

DirsOK == covDir \in BOOLEAN /\ progDir \in BOOLEAN

\* The inductive invariant behind GenReadsLastTracedRun, less the types:
\* runs are invocations; a pin belongs to the last run that got past its slot loop; before the
\* loop the index is 0; a run's slot loop has emptied the slots before p,
\* and gen's has found them taken.
Core ==
    /\ runs <= ninv
    /\ \A i \in PinIdx : pinned[i] \in {NoRun, traced}
    /\ pc \in {"fini", "paths"} => p = 0
    /\ pc = "trace" => traced = runs /\ cmd = "run"
    /\ (pc = "loop" /\ cmd = "run") => \A j \in 0 .. p - 1 : pinned[j] = NoRun
    /\ (pc = "loop" /\ cmd = "gen") => \A j \in 0 .. p - 1 : pinned[j] # NoRun
    /\ pc = "gen" => cmd = "gen" /\ \A j \in PinIdx : pinned[j] # NoRun

LIInv == TypeCore /\ DirsOK /\ Core

LEMMA TypeOKParts == TypeOK <=> TypeCore /\ DirsOK
BY Zenon DEF TypeOK, TypeCore, DirsOK

\* No step makes a directory flag anything but a Boolean.
LEMMA DirsKept == DirsOK /\ [Next]_vars => DirsOK'
BY Zenon DEF DirsOK, Next, vars, Start, CheckCovRoot, MakePaths, ReconcileSlot,
   Dispatch, PinRole, EndTrace, GenRead, Killed, Done

LEMMA LInitIInv == Init => LIInv
<1> SUFFICES ASSUME Init PROVE LIInv
  OBVIOUS
<1>1. pinned \in [PinIdx -> NoRun .. MaxInvocations]
  BY InvocationsAssumption DEF Init, NoRun
<1>2. DirsOK
  BY Zenon DEF Init, DirsOK
<1>3. TypeCore
  BY <1>1, InvocationsAssumption DEF Init, TypeCore, Pcs, Commands, NUM_PINNED_MAPS, NoRun
<1>4. Core
  BY DEF Init, Core
<1>. QED BY <1>2, <1>3, <1>4 DEF LIInv

\* An invocation that exits leaves the pins and the last traced run as
\* they are and goes back to "idle", which no conjunct constrains.
LEMMA LExitIInv ==
    ASSUME TypeCore, Core, Exit, UNCHANGED <<pinned, covDir, progDir>>
    PROVE  TypeCore' /\ Core'
BY DEF TypeCore, Core, Exit, Pcs

\* Every step keeps the invariant.
LEMMA LNextIInv == LIInv /\ [Next]_vars => LIInv'
<1> SUFFICES ASSUME TypeCore, Core, [Next]_vars PROVE TypeCore' /\ Core'
  BY DirsKept DEF LIInv
<1>1. ASSUME NEW c \in Commands, Start(c) PROVE TypeCore' /\ Core'
  <2>1. ninv < MaxInvocations /\ pc = "idle" /\ pc' = "fini" /\ ninv' = ninv + 1
    BY <1>1 DEF Start
  <2>2. runs' \in 0 .. MaxInvocations /\ runs' <= ninv'
    <3>1. CASE c = "run"
      BY <1>1, <2>1, <3>1, InvocationsAssumption DEF Start, TypeCore, Core
    <3>2. CASE c # "run"
      BY <1>1, <2>1, <3>2 DEF Start, TypeCore, Core
    <3>. QED BY <3>1, <3>2
  <2>. QED BY <1>1, <2>1, <2>2, InvocationsAssumption
           DEF Start, TypeCore, Core, Pcs, Commands, NUM_PINNED_MAPS
<1>2. CASE CheckCovRoot
  BY <1>2, LExitIInv DEF CheckCovRoot, TypeCore, Core, Pcs
<1>3. CASE MakePaths
  BY <1>3, LExitIInv DEF MakePaths, TypeCore, Core, Pcs
<1>4. CASE ReconcileSlot
  <2> DEFINE exists == pinned[p] # NoRun
  <2>1. p \in PinIdx
    BY <1>4 DEF ReconcileSlot, TypeCore, PinIdx, NUM_PINNED_MAPS
  <2>2. CASE exists /\ cmd = "run"
             /\ pinned' = [pinned EXCEPT ![p] = NoRun]
             /\ p' = p + 1
             /\ UNCHANGED <<pc, cmd, runs, traced, ninv>>
    <3>1. pc = "loop" /\ cmd = "run" /\ p < NUM_PINNED_MAPS
      BY <1>4, <2>2 DEF ReconcileSlot
    <3>2. \A j \in 0 .. p - 1 : pinned[j] = NoRun
      BY <3>1 DEF Core
    <3>3. \A j \in 0 .. p'- 1 : pinned'[j] = NoRun
      BY <2>1, <2>2, <3>2 DEF TypeCore
    <3>4. TypeCore'
      BY <2>1, <2>2, <3>1, InvocationsAssumption DEF TypeCore, NoRun, NUM_PINNED_MAPS
    <3>5. \A i \in PinIdx : pinned'[i] \in {NoRun, traced'}
      BY <2>2 DEF Core, TypeCore
    <3>. QED BY <2>2, <3>1, <3>3, <3>4, <3>5 DEF Core
  <2>3. CASE Exit /\ UNCHANGED pinned
    BY <1>4, <2>3 DEF ReconcileSlot, Exit, TypeCore, Core, Pcs
  <2>4. CASE /\ \/ exists /\ cmd # "run"
                \/ ~exists /\ cmd # "gen"
             /\ p' = p + 1
             /\ UNCHANGED <<pinned, pc, cmd, runs, traced, ninv>>
    BY <1>4, <2>1, <2>4 DEF ReconcileSlot, TypeCore, Core, PinIdx, NUM_PINNED_MAPS
  <2>. QED BY <1>4, <2>2, <2>3, <2>4 DEF ReconcileSlot
<1>5. CASE Dispatch
  <2>1. p = NUM_PINNED_MAPS /\ pc = "loop"
    BY <1>5 DEF Dispatch
  <2>2. 0 .. p - 1 = PinIdx
    BY <2>1 DEF PinIdx, NUM_PINNED_MAPS
  <2>3. CASE cmd = "run" /\ pc' = "trace" /\ traced' = runs
    <3>1. \A j \in PinIdx : pinned[j] = NoRun
      BY <2>1, <2>2, <2>3 DEF Core
    <3>. QED BY <1>5, <2>3, <3>1 DEF Dispatch, TypeCore, Core, Pcs, NoRun
  <2>4. CASE cmd = "gen" /\ pc' = "gen" /\ UNCHANGED traced
    <3>1. \A j \in PinIdx : pinned[j] # NoRun
      BY <2>1, <2>2, <2>4 DEF Core
    <3>. QED BY <1>5, <2>4, <3>1 DEF Dispatch, TypeCore, Core, Pcs
  <2>5. CASE cmd = "none" /\ pc' = "idle" /\ UNCHANGED traced
    BY <1>5, <2>5 DEF Dispatch, TypeCore, Core, Pcs
  <2>. QED BY <1>5, <2>3, <2>4, <2>5 DEF Dispatch
<1>6. ASSUME NEW i \in PinIdx, PinRole(i) PROVE TypeCore' /\ Core'
  <2>1. CASE pinned[i] = NoRun /\ pinned' = [pinned EXCEPT ![i] = runs]
             /\ UNCHANGED <<pc, cmd, p, runs, traced, ninv>>
    BY <1>6, <2>1 DEF PinRole, TypeCore, Core
  <2>2. CASE Exit /\ UNCHANGED pinned
    BY <1>6, <2>2 DEF PinRole, Exit, TypeCore, Core, Pcs
  <2>. QED BY <1>6, <2>1, <2>2 DEF PinRole
<1>7. CASE EndTrace \/ Killed
  BY <1>7, LExitIInv DEF EndTrace, Killed
<1>8. CASE GenRead
  BY <1>8 DEF GenRead, TypeCore, Core, Pcs
<1>9. CASE Done \/ UNCHANGED vars
  BY <1>9 DEF Done, vars, TypeCore, Core
<1>. QED BY <1>1, <1>2, <1>3, <1>4, <1>5, <1>6, <1>7, <1>8, <1>9 DEF Next

\* The property TLC checks in run lifecycle_safety, for any number of
\* invocations: when gen gets past its slot loop (cli.c:341-363), all
\* four pins it reads are those of the last run that got past its own --
\* no pin of an earlier run survives run's unpinning, however runs in
\* between were killed or failed.
THEOREM GenNeverReadsStalePins == Spec => []GenReadsLastTracedRun
<1>1. LIInv => GenReadsLastTracedRun
  BY DEF LIInv, Core, GenReadsLastTracedRun, NoRun
<1>. QED BY LInitIInv, LNextIInv, <1>1, PTL DEF Spec

\* Type correctness of the pin lifecycle.
THEOREM LifecycleTypeCorrect == Spec => []TypeOK
<1>1. LIInv => TypeOK
  BY TypeOKParts DEF LIInv
<1>. QED BY LInitIInv, LNextIInv, <1>1, PTL DEF Spec


-----------------------------------------------------------------------------
(* Only run writes the pin namespace.                                      *)

\* The steps PinsWrittenOnlyByRun allows.
PinStepByRun ==
    \A i \in PinIdx :
        pinned'[i] # pinned[i] =>
            /\ cmd = "run"
            /\ \/ pc = "loop" /\ i = p /\ pinned'[i] = NoRun
               \/ pc = "trace" /\ pinned[i] = NoRun /\ pinned'[i] = runs

\* A step that writes one slot's pin changes that slot only.
LEMMA OneSlotWritten ==
    ASSUME NEW i \in PinIdx, NEW v, pinned \in [PinIdx -> NoRun .. MaxInvocations],
           pinned' = [pinned EXCEPT ![i] = v]
    PROVE  \A j \in PinIdx : pinned'[j] # pinned[j] => j = i /\ pinned'[j] = v
OBVIOUS

\* Every step of the invariant's states is one PinStepByRun allows: the
\* unlink of the slot loop is guarded by is_run (cli.c:343), and only a
\* run gets to trace (Core).
LEMMA NextPinStepByRun == LIInv /\ [Next]_vars => [PinStepByRun]_vars
<1> SUFFICES ASSUME TypeCore, Core, [Next]_vars PROVE PinStepByRun
  BY DEF LIInv
<1>1. CASE UNCHANGED pinned
  BY <1>1 DEF PinStepByRun
<1>2. CASE /\ pc = "loop" /\ cmd = "run" /\ p < NUM_PINNED_MAPS
           /\ pinned' = [pinned EXCEPT ![p] = NoRun]
  <2>1. p \in PinIdx
    BY <1>2 DEF TypeCore, PinIdx, NUM_PINNED_MAPS
  <2>. QED BY <1>2, <2>1, OneSlotWritten DEF TypeCore, PinStepByRun
<1>3. ASSUME NEW i \in PinIdx, pc = "trace", pinned[i] = NoRun,
             pinned' = [pinned EXCEPT ![i] = runs]
      PROVE  PinStepByRun
  <2>1. cmd = "run"
    BY <1>3 DEF Core
  <2>. QED BY <1>3, <2>1, OneSlotWritten DEF TypeCore, PinStepByRun
<1>4. CASE ReconcileSlot
  BY <1>1, <1>2, <1>4 DEF ReconcileSlot, Exit
<1>5. ASSUME NEW i \in PinIdx, PinRole(i) PROVE PinStepByRun
  BY <1>1, <1>3, <1>5 DEF PinRole, Exit
<1>. QED BY <1>1, <1>4, <1>5 DEF Next, Start, CheckCovRoot, MakePaths, Dispatch,
                                  EndTrace, GenRead, Killed, Done, vars

\* The action property TLC checks in run lifecycle_safety, for any number
\* of invocations: only run changes the pin namespace -- its slot loop
\* unlinks the pin of the slot it is at (cli.c:341-351), and while it
\* traces bpf_obj_pin (cli.c:893) fills a free path with a map of that
\* run; gen and every other step leave the pins alone.
THEOREM OnlyRunWritesPins == Spec => PinsWrittenOnlyByRun
<1>1. LIInv /\ [Next]_vars => [PinStepByRun]_vars
  BY NextPinStepByRun
<1>. QED BY <1>1, LInitIInv, LNextIInv, PTL DEF Spec, PinsWrittenOnlyByRun,
            PinStepByRun

=============================================================================
