---------------------------- MODULE TracerProofs ----------------------------
(***************************************************************************)
(* Proofs about the run() model of module Tracer, for every value of its  *)
(* constants that satisfies BoundsAssumption and DomainsAssumption.        *)
(***************************************************************************)
EXTENDS Tracer, WellFoundedInduction, TLAPS

\* The part of TypeOK about the tracer.
TracerTypeOK ==
    /\ tpc \in TracerPcs
    /\ isMap \in BOOLEAN
    /\ regs \in Regs
    /\ tfds \in 0 .. TracerFdLimit
    /\ pins \in [PinIdx -> 0 .. MaxMaps]
    /\ tstatus \in 0 .. 255
    /\ exitkill \in BOOLEAN

\* The part of TypeOK about the traced program.
ChildTypeOK ==
    /\ cstop \in ChildStops
    /\ cregs \in Regs
    /\ ccur \in Calls
    /\ cfd \in [ChildFds -> FreeFd .. MaxMaps]
    /\ maps \in Seq(MapNames)
    /\ Len(maps) <= MaxMaps
    /\ nsys \in 0 .. MaxSyscalls
    /\ nsig \in 0 .. MaxSignals
    /\ nkill \in 0 .. MaxKills
    /\ cstatus \in 0 .. 255

-----------------------------------------------------------------------------
(* Lemmas about the operators of the model.                                *)

\* A non-empty set of naturals has a least element: the well-ordering of
\* Nat, taken from the well-foundedness of < on Nat.
LEMMA NatSubsetHasLeast ==
    ASSUME NEW S \in SUBSET Nat, S # {}
    PROVE  \E m \in S : \A k \in S : m <= k
<1>1. PICK x \in S : \A y \in S : ~(<<y, x>> \in OpToRel(<, Nat))
  BY NatLessThanWellFounded, WFMin
<1>2. OpToRel(<, Nat) = {ss \in Nat \X Nat : ss[1] < ss[2]}
  BY Zenon DEF OpToRel
<1>3. \A y \in S : ~(y < x)
  BY <1>1, <1>2
<1>. QED BY <1>3

\* The descriptor the kernel hands out for a new map (FinishCall) is one
\* the traced program has free whenever it has one free.
LEMMA LowestFreeFdIsFree ==
    ASSUME cfd \in [ChildFds -> FreeFd .. MaxMaps], FreeFds # {}
    PROVE  /\ LowestFreeFd \in FreeFds
           /\ LowestFreeFd \in ChildFds
<1>1. FreeFds \in SUBSET Nat
  BY BoundsAssumption DEF FreeFds, ChildFds
<1>2. \E fd \in FreeFds : \A g \in FreeFds : fd <= g
  BY <1>1, NatSubsetHasLeast
<1>3. LowestFreeFd \in FreeFds
  BY <1>2 DEF LowestFreeFd
<1>. QED BY <1>3 DEF FreeFds

\* get_pin_path resolves a suffix to a slot or to no role.
LEMMA GetPinPathType ==
    ASSUME NEW s
    PROVE  GetPinPath(s) \in PinIdx \cup {NoRole}
BY DEF GetPinPath

\* A syscall the program makes is of one of the four kinds by its number.
LEMMA CallKinds ==
    ASSUME NEW c \in Calls
    PROVE  /\ c.rdi \in Int
           /\ c.nr \in SysNrs
           /\ IsMapCreate(c) => c \in MapCreateCalls
           /\ c.nr = "exit_group" => c.rdi \in 0 .. 255
<1>1. CASE c \in MapCreateCalls
  BY <1>1 DEF MapCreateCalls, IsMapCreate, BPF_MAP_CREATE, SysNrs
<1>2. CASE c \in BpfOtherCalls
  BY <1>2 DEF BpfOtherCalls, IsMapCreate, BPF_MAP_CREATE, BPF_MAP_UPDATE_ELEM, SysNrs
<1>3. CASE c \in OtherCalls
  BY <1>3, DomainsAssumption DEF OtherCalls, IsMapCreate, SysNrs
<1>4. CASE c \in ExitCalls
  <2>1. PICK s \in Statuses : c = [nr |-> "exit_group", rdi |-> s, name |-> <<>>]
    BY <1>4 DEF ExitCalls
  <2>2. s \in 0 .. 255
    BY DomainsAssumption
  <2>. QED BY <2>1, <2>2 DEF IsMapCreate, SysNrs
<1>5. CASE c = NoCall
  BY <1>5 DEF NoCall, IsMapCreate, SysNrs
<1>. QED BY <1>1, <1>2, <1>3, <1>4, <1>5 DEF Calls

\* One move of the traced program between two waits keeps its part of
\* the state well typed.
LEMMA ChildResumeType ==
    ASSUME ChildTypeOK, ChildResume
    PROVE  ChildTypeOK'
<1>1. CASE EnterCall
  <2>1. ccur' \in Calls
    BY <1>1 DEF EnterCall, Calls
  <2>2. cregs' \in Regs
    BY <1>1, <2>1, CallKinds DEF EnterCall, Regs, ENOSYS
  <2>3. nsys' \in 0 .. MaxSyscalls
    <3>1. nsys \in 0 .. MaxSyscalls
      BY DEF ChildTypeOK
    <3>. QED BY <1>1, <3>1, BoundsAssumption DEF EnterCall
  <2>. QED BY <1>1, <2>1, <2>2, <2>3 DEF EnterCall, ChildTypeOK, ChildStops
<1>2. CASE TakeSignal
  <2>1. cregs' \in Regs
    <3>1. SignalRegs \subseteq Regs
      BY DomainsAssumption DEF SignalRegs, ChildTypeOK, Regs, SysNrs
    <3>. QED BY <1>2, <3>1 DEF TakeSignal
  <2>. QED BY <1>2, <2>1, BoundsAssumption DEF TakeSignal, ChildTypeOK, ChildStops
<1>3. CASE Killed
  BY <1>3, BoundsAssumption DEF Killed, ChildTypeOK, ChildStops, KILLED_STATUS
<1>4. CASE FinishCall
  <2> DEFINE Returns(ret) == cregs' = [nr |-> ccur.nr, rdi |-> ccur.rdi, rax |-> ret]
  <2>1. ccur.rdi \in Int /\ ccur.nr \in SysNrs
    BY CallKinds DEF ChildTypeOK
  <2>2. ASSUME NEW ret \in Int, Returns(ret) PROVE cregs' \in Regs
    BY <2>1, <2>2 DEF Regs
  <2>3. CASE /\ IsMapCreate(ccur)
             /\ FreeFds # {}
             /\ Len(maps) < MaxMaps
             /\ Returns(LowestFreeFd)
             /\ cfd' = [cfd EXCEPT ![LowestFreeFd] = Len(maps) + 1]
             /\ maps' = Append(maps, ccur.name)
    <3>1. LowestFreeFd \in ChildFds
      BY <2>3, LowestFreeFdIsFree DEF ChildTypeOK
    <3>2. cregs' \in Regs
      BY <2>3, <3>1, <2>2, BoundsAssumption DEF ChildFds
    <3>3. ccur.name \in MapNames
      BY <2>3, CallKinds DEF ChildTypeOK, MapCreateCalls
    <3>4. maps' \in Seq(MapNames) /\ Len(maps') <= MaxMaps
      BY <2>3, <3>3, BoundsAssumption DEF ChildTypeOK
    <3>5. cfd' \in [ChildFds -> FreeFd .. MaxMaps]
      BY <2>3, <3>1, BoundsAssumption DEF ChildTypeOK, FreeFd
    <3>. QED BY <1>4, <3>2, <3>4, <3>5 DEF FinishCall, ChildTypeOK, ChildStops
  <2>4. CASE IsMapCreate(ccur) /\ Returns(-EPERM) /\ UNCHANGED <<cfd, maps>>
    BY <1>4, <2>4, <2>2 DEF FinishCall, ChildTypeOK, ChildStops, EPERM
  <2>5. CASE ccur.nr = "bpf" /\ ~IsMapCreate(ccur) /\ Returns(0) /\ UNCHANGED <<cfd, maps>>
    BY <1>4, <2>5, <2>2 DEF FinishCall, ChildTypeOK, ChildStops
  <2>6. CASE ccur.nr = "other" /\ (\E ret \in OtherResults : Returns(ret))
             /\ UNCHANGED <<cfd, maps>>
    BY <1>4, <2>6, <2>2, DomainsAssumption DEF FinishCall, ChildTypeOK, ChildStops
  <2>. QED BY <1>4, <2>3, <2>4, <2>5, <2>6 DEF FinishCall
<1>5. CASE ExitGroup
  BY <1>5, CallKinds DEF ExitGroup, ChildTypeOK, ChildStops
<1>. QED BY <1>1, <1>2, <1>3, <1>4, <1>5 DEF ChildResume

\* What the rest of an iteration writes of the tracer's own state.
TracerStepOK ==
    /\ tpc' \in TracerPcs
    /\ tfds' \in 0 .. TracerFdLimit
    /\ pins' \in [PinIdx -> 0 .. MaxMaps]
    /\ tstatus' \in 0 .. 255

\* Pinning the duplicate of a child descriptor keeps the tracer's state
\* well typed when two descriptors are still free (cli.c:872-899).
LEMMA InspectAndPinType ==
    ASSUME TypeOK, NEW obj \in 0 .. MaxMaps, tfds + 2 <= TracerFdLimit,
           InspectAndPin(obj)
    PROVE  TracerStepOK
<1>1. tfds + 2 \in 0 .. TracerFdLimit
  BY BoundsAssumption DEF TypeOK
<1>2. CASE \/ obj = FileObj /\ Continue(tfds + 2)
           \/ obj # FileObj /\ ~HasName(maps'[obj]) /\ Continue(tfds + 2)
           \/ /\ obj # FileObj /\ HasSuffix(maps'[obj])
              /\ GetPinPath(Suffix(maps'[obj])) = NoRole
              /\ Continue(tfds + 2)
  BY <1>2, <1>1 DEF Continue, TracerStepOK, TypeOK, TracerPcs
<1>3. CASE /\ tfds' = tfds + 2
           /\ tpc' = "crashed"
           /\ tstatus' = SEGV_STATUS
           /\ UNCHANGED pins
  BY <1>3, <1>1 DEF TracerStepOK, TypeOK, TracerPcs, SEGV_STATUS
<1>4. CASE /\ obj # FileObj
           /\ HasSuffix(maps'[obj])
           /\ LET i == GetPinPath(Suffix(maps'[obj])) IN
                /\ i # NoRole
                /\ \/ /\ pins[i] = NoPin
                      /\ pins' = [pins EXCEPT ![i] = obj]
                      /\ tfds' = tfds + 2
                      /\ tpc' = "entry"
                      /\ UNCHANGED tstatus
                   \/ /\ pins[i] # NoPin
                      /\ tfds' = tfds + 2
                      /\ tpc' = "fatal"
                      /\ tstatus' = EXIT_FAILURE
                      /\ UNCHANGED pins
  <2> DEFINE i == GetPinPath(Suffix(maps'[obj]))
  <2>1. i \in PinIdx
    BY <1>4, GetPinPathType
  <2>2. [pins EXCEPT ![i] = obj] \in [PinIdx -> 0 .. MaxMaps]
    BY <2>1 DEF TypeOK
  <2>3. CASE /\ pins[i] = NoPin
             /\ pins' = [pins EXCEPT ![i] = obj]
             /\ tfds' = tfds + 2
             /\ tpc' = "entry"
             /\ UNCHANGED tstatus
    BY <2>3, <2>2, <1>1 DEF TracerStepOK, TypeOK, TracerPcs
  <2>4. CASE /\ pins[i] # NoPin
             /\ tfds' = tfds + 2
             /\ tpc' = "fatal"
             /\ tstatus' = EXIT_FAILURE
             /\ UNCHANGED pins
    BY <2>4, <1>1 DEF TracerStepOK, TypeOK, TracerPcs, EXIT_FAILURE
  <2>. QED BY <1>4, <2>3, <2>4
<1>. QED BY <1>2, <1>3, <1>4 DEF InspectAndPin

\* The exit-half tail of an iteration (cli.c:858-870) keeps the tracer's
\* state well typed, for whatever the child's descriptor table now is.
LEMMA ExfiltrateType ==
    ASSUME TypeOK, ChildTypeOK', NEW result \in Int, Exfiltrate(result)
    PROVE  TracerStepOK
<1>1. CASE \/ ~(isMap /\ result # 0) /\ Continue(tfds)
           \/ isMap /\ result # 0 /\ tfds = TracerFdLimit /\ Continue(tfds)
  BY <1>1 DEF Continue, TracerStepOK, TypeOK, TracerPcs
<1>2. CASE /\ tfds < TracerFdLimit
           /\ Continue(tfds + 1)
  BY <1>2, BoundsAssumption DEF Continue, TracerStepOK, TypeOK, TracerPcs
<1>3. CASE /\ tfds + 2 <= TracerFdLimit
           /\ ChildHoldsFd(result)
           /\ InspectAndPin(cfd'[result])
  <2>1. cfd'[result] \in 0 .. MaxMaps
    BY <1>3 DEF ChildHoldsFd, ChildTypeOK, FreeFd
  <2>. QED BY <1>3, <2>1, InspectAndPinType
<1>. QED BY <1>1, <1>2, <1>3 DEF Exfiltrate

-----------------------------------------------------------------------------
(* Type correctness.                                                       *)

\* TypeOK is the conjunction of its two halves.
LEMMA TypeOKParts == TypeOK <=> TracerTypeOK /\ ChildTypeOK
BY DEF TypeOK, TracerTypeOK, ChildTypeOK

\* A step that leaves the traced program alone keeps its half typed.
LEMMA ChildUnchangedType ==
    ASSUME ChildTypeOK, UNCHANGED childVars
    PROVE  ChildTypeOK'
BY DEF ChildTypeOK, childVars

\* The initial state is well typed.
LEMMA InitType == Init => TypeOK
<1> SUFFICES ASSUME Init PROVE TracerTypeOK /\ ChildTypeOK
  BY TypeOKParts
<1>1. pins \in [PinIdx -> 0 .. MaxMaps]
  BY BoundsAssumption DEF Init, NoPin
<1>5. regs \in Regs
  BY DEF Init, Regs, SysNrs
<1>7. tfds \in 0 .. TracerFdLimit /\ tstatus \in 0 .. 255
  BY BoundsAssumption DEF Init
<1>8. tpc \in TracerPcs /\ isMap \in BOOLEAN /\ exitkill \in BOOLEAN
  BY DEF Init, TracerPcs
<1>6. TracerTypeOK
  BY <1>1, <1>5, <1>7, <1>8 DEF TracerTypeOK
<1>2. cfd \in [ChildFds -> FreeFd .. MaxMaps]
  BY BoundsAssumption DEF Init, ChildFds, FileObj, FreeFd
<1>3. ccur \in Calls
  BY DEF Init, Calls
<1>4. cregs \in Regs
  BY DEF Init, Regs, SysNrs
<1>. QED BY <1>6, <1>2, <1>3, <1>4, BoundsAssumption DEF Init, ChildTypeOK, ChildStops

\* Every step of run() or of the traced program keeps the state well typed.
LEMMA NextType == TypeOK /\ [Next]_vars => TypeOK'
<1> SUFFICES ASSUME TracerTypeOK, ChildTypeOK, [Next]_vars
             PROVE  TracerTypeOK' /\ ChildTypeOK'
  BY DEF TypeOK, TracerTypeOK, ChildTypeOK
<1>0. TypeOK
  BY TypeOKParts
<1>1. CASE Spawn
  <2>1. CASE tpc' = "fatal" /\ tstatus' = EXIT_FAILURE
             /\ UNCHANGED <<isMap, regs, tfds, pins, exitkill, childVars>>
    BY <2>1, ChildUnchangedType DEF TracerTypeOK, TracerPcs, EXIT_FAILURE
  <2>2. CASE /\ cstop' = "exec" /\ exitkill' = TRUE /\ tpc' = "entry"
             /\ UNCHANGED <<isMap, regs, tfds, pins, tstatus>>
             /\ UNCHANGED <<cregs, ccur, cfd, maps, nsys, nsig, nkill, cstatus>>
    BY <2>2 DEF TracerTypeOK, ChildTypeOK, TracerPcs, ChildStops
  <2>3. CASE /\ cstop' = "exited" /\ cstatus' = EXIT_FAILURE /\ tpc' = "entry"
             /\ UNCHANGED <<isMap, regs, tfds, pins, tstatus, exitkill>>
             /\ UNCHANGED <<cregs, ccur, cfd, maps, nsys, nsig, nkill>>
    BY <2>3 DEF TracerTypeOK, ChildTypeOK, TracerPcs, ChildStops, EXIT_FAILURE
  <2>. QED BY <1>1, <2>1, <2>2, <2>3 DEF Spawn
<1>2. CASE EnterSyscall
  <2>1. CASE Dead(cstop) /\ tpc' = "fatal" /\ tstatus' = EXIT_FAILURE
             /\ UNCHANGED <<isMap, regs, tfds, pins, exitkill, childVars>>
    BY <2>1, ChildUnchangedType DEF TracerTypeOK, TracerPcs, EXIT_FAILURE
  <2>2. CASE Running(cstop) /\ ChildResume
    <3>1. ChildTypeOK'
      BY <2>2, ChildResumeType
    <3>2. CASE tpc' = "fatal" /\ tstatus' = EXIT_FAILURE
               /\ UNCHANGED <<isMap, regs, tfds, pins, exitkill>>
      BY <3>1, <3>2 DEF TracerTypeOK, TracerPcs, EXIT_FAILURE
    <3>3. CASE regs' = cregs' /\ isMap' = (isMap \/ IsMapCreate(cregs'))
               /\ tpc' = "exit" /\ UNCHANGED <<tfds, pins, tstatus, exitkill>>
      BY <3>1, <3>3 DEF TracerTypeOK, ChildTypeOK, TracerPcs
    <3>. QED BY <1>2, <2>2, <3>2, <3>3 DEF EnterSyscall, Dead, Running
  <2>. QED BY <1>2, <2>1, <2>2 DEF EnterSyscall
<1>3. CASE ExitSyscall
  <2>1. ChildTypeOK'
    BY <1>3, ChildResumeType DEF ExitSyscall
  <2>2. CASE tpc' = "exited" /\ tstatus' = regs.rdi % 256
             /\ UNCHANGED <<isMap, regs, tfds, pins, exitkill>>
    <3>1. regs.rdi \in Int
      BY DEF TracerTypeOK, Regs
    <3>. QED BY <2>1, <2>2, <3>1 DEF TracerTypeOK, TracerPcs
  <2>3. CASE regs' = cregs' /\ Exfiltrate(cregs'.rax) /\ UNCHANGED <<isMap, exitkill>>
    <3>1. cregs'.rax \in Int
      BY <2>1 DEF ChildTypeOK, Regs
    <3>2. TracerStepOK
      BY <1>0, <2>1, <2>3, <3>1, ExfiltrateType
    <3>3. regs' \in Regs
      BY <2>1, <2>3 DEF ChildTypeOK
    <3>. QED BY <2>1, <2>3, <3>2, <3>3 DEF TracerTypeOK, TracerStepOK
  <2>. QED BY <1>3, <2>2, <2>3 DEF ExitSyscall
<1>4. CASE TracerExitKill
  BY <1>4 DEF TracerExitKill, TracerTypeOK, ChildTypeOK, ChildStops, KILLED_STATUS,
     tracerVars
<1>5. CASE Finished \/ UNCHANGED vars
  <2>1. UNCHANGED vars
    BY <1>5 DEF Finished
  <2>. QED BY <2>1, ChildUnchangedType DEF TracerTypeOK, vars, tracerVars
<1>. QED BY <1>1, <1>2, <1>3, <1>4, <1>5 DEF Next

\* Every state run() and the traced program reach is well typed: in
\* particular a pin slot only ever holds a map of the child, the tracer's
\* open descriptors stay within RLIMIT_NOFILE, and run's exit status is a
\* byte whatever path -- exit(regs.rdi), log_fata or a fault -- ends it.
THEOREM TypeCorrect == Spec => []TypeOK
BY InitType, NextType, PTL DEF Spec

-----------------------------------------------------------------------------
(* Pins hold maps of their own role.                                       *)

\* Every descriptor of the traced program that refers to a map refers to
\* one it has created: the kernel numbers maps in creation order.
MapFdsCreated ==
    \A fd \in ChildFds : cfd[fd] \in {FreeFd, FileObj} \cup 1 .. Len(maps)

\* The inductive invariant behind PinnedMapsMatchRole.
IInv == TypeOK /\ MapFdsCreated /\ PinnedMapsMatchRole

\* A step only ever appends to the maps of the traced program.
MapsExtended ==
    /\ Len(maps) <= Len(maps')
    /\ \A k \in 1 .. Len(maps) : maps'[k] = maps[k]

\* A move of the traced program creates at most one map, at the end of
\* `maps', and hands out only descriptors of maps that exist.
LEMMA ChildResumeMaps ==
    ASSUME ChildTypeOK, MapFdsCreated, ChildResume
    PROVE  MapFdsCreated' /\ MapsExtended
<1>1. CASE UNCHANGED <<cfd, maps>>
  BY <1>1 DEF MapFdsCreated, MapsExtended
<1>2. CASE /\ FreeFds # {}
           /\ cfd' = [cfd EXCEPT ![LowestFreeFd] = Len(maps) + 1]
           /\ maps' = Append(maps, ccur.name)
  <2>1. Len(maps') = Len(maps) + 1 /\ \A k \in 1 .. Len(maps) : maps'[k] = maps[k]
    BY <1>2 DEF ChildTypeOK
  <2>2. MapFdsCreated'
    BY <1>2, <2>1 DEF MapFdsCreated, ChildTypeOK
  <2>. QED BY <2>1, <2>2 DEF MapsExtended, ChildTypeOK
<1>. QED BY <1>1, <1>2 DEF ChildResume, EnterCall, TakeSignal, Killed, FinishCall, ExitGroup

\* A step that leaves the pins alone and only appends maps keeps them
\* matching their roles.
LEMMA PinsKept ==
    ASSUME PinnedMapsMatchRole, MapsExtended, UNCHANGED pins
    PROVE  PinnedMapsMatchRole'
BY DEF PinnedMapsMatchRole, MapsExtended

\* get_pin_path resolves a suffix to a slot only when the suffix starts
\* with that slot's keyword (cli.c:698-722).
LEMMA GetPinPathMatches ==
    ASSUME NEW s, GetPinPath(s) # NoRole
    PROVE  /\ GetPinPath(s) \in PinIdx
           /\ StrncmpMatches(s, Keyword[GetPinPath(s)])
BY DEF GetPinPath

\* Pinning the duplicate of a child descriptor pins a map the child has
\* created at the path of that map's role (cli.c:872-899).
LEMMA InspectAndPinRole ==
    ASSUME TypeOK, PinnedMapsMatchRole, MapsExtended,
           NEW obj \in {FileObj} \cup 1 .. Len(maps'),
           InspectAndPin(obj)
    PROVE  PinnedMapsMatchRole'
<1>1. CASE UNCHANGED pins
  BY <1>1, PinsKept
<1>2. CASE /\ obj # FileObj
           /\ HasSuffix(maps'[obj])
           /\ GetPinPath(Suffix(maps'[obj])) # NoRole
           /\ pins' = [pins EXCEPT ![GetPinPath(Suffix(maps'[obj]))] = obj]
  <2> DEFINE i == GetPinPath(Suffix(maps'[obj]))
  <2>1. i \in PinIdx /\ StrncmpMatches(Suffix(maps'[obj]), Keyword[i])
    BY <1>2, GetPinPathMatches
  <2>2. obj \in 1 .. Len(maps') /\ obj # NoPin
    BY <1>2 DEF FileObj, NoPin
  <2> SUFFICES ASSUME NEW j \in PinIdx, pins'[j] # NoPin
               PROVE  /\ pins'[j] \in 1 .. Len(maps')
                      /\ HasSuffix(maps'[pins'[j]])
                      /\ StrncmpMatches(Suffix(maps'[pins'[j]]), Keyword[j])
    BY DEF PinnedMapsMatchRole
  <2>3. CASE j = i
    BY <1>2, <2>1, <2>2, <2>3 DEF TypeOK
  <2>4. CASE j # i
    <3>1. pins'[j] = pins[j]
      BY <1>2, <2>4 DEF TypeOK
    <3>2. pins[j] \in 1 .. Len(maps) /\ maps'[pins[j]] = maps[pins[j]]
      BY <3>1 DEF PinnedMapsMatchRole, MapsExtended
    <3>. QED BY <3>1, <3>2 DEF PinnedMapsMatchRole, MapsExtended
  <2>. QED BY <2>3, <2>4
<1>. QED BY <1>1, <1>2 DEF InspectAndPin, Continue

\* The exit-half tail of an iteration only pins what InspectAndPin pins.
LEMMA ExfiltrateRole ==
    ASSUME TypeOK, PinnedMapsMatchRole, MapsExtended, MapFdsCreated',
           NEW result, Exfiltrate(result)
    PROVE  PinnedMapsMatchRole'
<1>1. CASE Continue(tfds) \/ Continue(tfds + 1)
  BY <1>1, PinsKept DEF Continue
<1>2. CASE ChildHoldsFd(result) /\ InspectAndPin(cfd'[result])
  <2>1. cfd'[result] \in {FileObj} \cup 1 .. Len(maps')
    BY <1>2 DEF ChildHoldsFd, MapFdsCreated, FreeFd, FileObj
  <2>. QED BY <1>2, <2>1, InspectAndPinRole
<1>. QED BY <1>1, <1>2 DEF Exfiltrate

\* Every step keeps the inductive invariant.
LEMMA NextIInv == IInv /\ [Next]_vars => IInv'
<1> SUFFICES ASSUME IInv, [Next]_vars
             PROVE  MapFdsCreated' /\ PinnedMapsMatchRole'
  BY NextType DEF IInv
<1>0. TypeOK /\ ChildTypeOK /\ MapFdsCreated /\ PinnedMapsMatchRole
  BY DEF IInv, TypeOK, ChildTypeOK
<1>1. CASE UNCHANGED <<cfd, maps, pins>>
  <2>1. MapsExtended
    BY <1>1 DEF MapsExtended
  <2>. QED BY <1>0, <1>1, <2>1, PinsKept DEF MapFdsCreated
<1>2. CASE EnterSyscall
  <2>1. CASE Running(cstop) /\ ChildResume /\ UNCHANGED pins
    BY <1>0, <2>1, ChildResumeMaps, PinsKept
  <2>. QED BY <1>1, <1>2, <2>1 DEF EnterSyscall, childVars
<1>3. CASE ExitSyscall
  <2>1. MapFdsCreated' /\ MapsExtended
    BY <1>0, <1>3, ChildResumeMaps DEF ExitSyscall
  <2>2. CASE UNCHANGED pins
    BY <1>0, <2>1, <2>2, PinsKept
  <2>3. CASE Exfiltrate(cregs'.rax)
    BY <1>0, <2>1, <2>3, ExfiltrateRole
  <2>. QED BY <1>3, <2>1, <2>2, <2>3 DEF ExitSyscall
<1>. QED BY <1>1, <1>2, <1>3 DEF Next, vars, Spawn, TracerExitKill, Finished,
                                 tracerVars, childVars

\* The initial state satisfies the inductive invariant.
LEMMA InitIInv == Init => IInv
<1> SUFFICES ASSUME Init PROVE IInv
  OBVIOUS
<1>1. MapFdsCreated
  BY DEF Init, MapFdsCreated, FileObj, FreeFd
<1>2. PinnedMapsMatchRole
  BY DEF Init, PinnedMapsMatchRole, NoPin
<1>. QED BY <1>1, <1>2, InitType DEF IInv

\* The property TLC checks in run tracer_safety, for every value of the
\* constants: run() pins at the path of a role (profc, profd, profn,
\* covmap) only a map the traced program created and whose name's suffix
\* strncmp matches that role's keyword, however the program's syscalls,
\* signals and deaths interleave with the tracer loop.
THEOREM PinsMatchRoles == Spec => []PinnedMapsMatchRole
<1>1. IInv => PinnedMapsMatchRole
  BY DEF IInv
<1>. QED BY <1>1, InitIInv, NextIInv, PTL DEF Spec

-----------------------------------------------------------------------------
(* run() implements the Map Pinner of spec 4.2 (module PinNamespace).     *)

\* A move of the traced program creates at most one map, with one of the
\* names of MapNames.
LEMMA ChildResumeCreates ==
    ASSUME ChildTypeOK, ChildResume
    PROVE  \/ UNCHANGED maps
           \/ \E n \in MapNames : maps' = Append(maps, n)
<1>1. CASE FinishCall /\ IsMapCreate(ccur) /\ maps' = Append(maps, ccur.name)
  <2>1. ccur \in MapCreateCalls
    BY <1>1, CallKinds DEF ChildTypeOK
  <2>2. ccur.name \in MapNames
    BY <2>1 DEF MapCreateCalls
  <2>. QED BY <1>1, <2>2
<1>. QED BY <1>1 DEF ChildResume, EnterCall, TakeSignal, Killed, FinishCall, ExitGroup

\* A step that pins nothing and creates at most one map is a step of the
\* Map Pinner, or leaves its state alone.
LEMMA CreateOnlyRefines ==
    ASSUME UNCHANGED pins,
           \/ UNCHANGED maps
           \/ \E n \in MapNames : maps' = Append(maps, n)
    PROVE  [Pinner!ANext]_Pinner!avars
BY DEF Pinner!ANext, Pinner!Create, Pinner!avars

\* The Pin Registry the Map Pinner is stated with is the one run() uses.
LEMMA RegistryInstance ==
    ASSUME NEW x
    PROVE  /\ Pinner!HasSuffix(x) = HasSuffix(x)
           /\ Pinner!Suffix(x) = Suffix(x)
           /\ Pinner!GetPinPath(x) = GetPinPath(x)
           /\ Pinner!NoRole = NoRole
           /\ Pinner!PinIdx = PinIdx
BY DEF Pinner!HasSuffix, HasSuffix, Pinner!Suffix, Suffix, Pinner!GetPinPath,
   GetPinPath, Pinner!NoRole, NoRole, Pinner!StrncmpMatches, StrncmpMatches,
   Pinner!Keyword, Keyword, Pinner!PinIdx, PinIdx, Pinner!NUM_PINNED_MAPS,
   NUM_PINNED_MAPS

\* Pinning the duplicate of a child descriptor, after a move of the child
\* that created at most one map, is a Pin of the Map Pinner (cli.c:872-899):
\* the path is free -- a taken one makes bpf_obj_pin fail and run() die --
\* and it is the path of the map's role.
LEMMA InspectAndPinRefines ==
    ASSUME TypeOK, NEW obj \in {FileObj} \cup 1 .. Len(maps'),
           InspectAndPin(obj),
           \/ UNCHANGED maps
           \/ \E n \in MapNames : maps' = Append(maps, n)
    PROVE  [Pinner!ANext]_Pinner!avars
<1>1. CASE UNCHANGED pins
  BY <1>1, CreateOnlyRefines
<1>2. CASE /\ obj # FileObj
           /\ HasSuffix(maps'[obj])
           /\ GetPinPath(Suffix(maps'[obj])) # NoRole
           /\ pins[GetPinPath(Suffix(maps'[obj]))] = NoPin
           /\ pins' = [pins EXCEPT ![GetPinPath(Suffix(maps'[obj]))] = obj]
  <2> DEFINE i == GetPinPath(Suffix(maps'[obj]))
  <2>1. i \in PinIdx
    BY <1>2, GetPinPathMatches
  <2>2. obj \in 1 .. Len(maps')
    BY <1>2 DEF FileObj
  <2>3. Pinner!RoleOf(obj) = i
    BY <1>2, RegistryInstance DEF Pinner!RoleOf
  <2>4. Pinner!Pin(i, obj)
    BY <1>2, <2>3 DEF Pinner!Pin, NoPin
  <2>5. i \in Pinner!PinIdx
    BY <2>1, RegistryInstance
  <2>. QED BY <1>2, <2>2, <2>4, <2>5 DEF Pinner!ANext, Pinner!avars
<1>. QED BY <1>1, <1>2 DEF InspectAndPin, Continue

\* Every step of run() or of the traced program is a step of the Map
\* Pinner or leaves the maps and the pins alone.
LEMMA NextRefines == IInv /\ [Next]_vars => [Pinner!ANext]_Pinner!avars
<1> SUFFICES ASSUME IInv, [Next]_vars PROVE [Pinner!ANext]_Pinner!avars
  OBVIOUS
<1>0. TypeOK /\ ChildTypeOK /\ MapFdsCreated
  BY DEF IInv, TypeOK, ChildTypeOK
<1>1. CASE UNCHANGED <<maps, pins>>
  BY <1>1 DEF Pinner!avars
<1>2. CASE EnterSyscall
  <2>1. CASE Running(cstop) /\ ChildResume /\ UNCHANGED pins
    BY <1>0, <2>1, ChildResumeCreates, CreateOnlyRefines
  <2>. QED BY <1>1, <1>2, <2>1 DEF EnterSyscall, childVars
<1>3. CASE ExitSyscall
  <2>1. \/ UNCHANGED maps
        \/ \E n \in MapNames : maps' = Append(maps, n)
    BY <1>0, <1>3, ChildResumeCreates DEF ExitSyscall
  <2>2. MapFdsCreated'
    BY <1>0, <1>3, ChildResumeMaps DEF ExitSyscall
  <2>3. CASE UNCHANGED pins
    BY <2>1, <2>3, CreateOnlyRefines
  <2>4. CASE ChildHoldsFd(cregs'.rax) /\ InspectAndPin(cfd'[cregs'.rax])
    <3>1. cfd'[cregs'.rax] \in {FileObj} \cup 1 .. Len(maps')
      BY <2>2, <2>4 DEF ChildHoldsFd, MapFdsCreated, FreeFd, FileObj
    <3>. QED BY <1>0, <2>1, <2>4, <3>1, InspectAndPinRefines
  <2>. QED BY <1>3, <2>3, <2>4 DEF ExitSyscall, Exfiltrate, Continue
<1>. QED BY <1>1, <1>2, <1>3 DEF Next, vars, Spawn, TracerExitKill, Finished,
                                 tracerVars, childVars

\* The refinement TLC checks in run tracer_safety, for every value of the
\* constants: every behaviour of run() and its traced program, with
\* maps for created and pins for pinned, is one of the Map Pinner of
\* spec 4.2 -- pins are made only at a free path, of a created map of the
\* path's role, and never undone or replaced while run() lasts.
THEOREM RefinesPinNamespace == Spec => ImplementsPinNamespace
<1>1. Init => Pinner!AInit
  BY DEF Init, Pinner!AInit, NoPin, PinIdx, NUM_PINNED_MAPS, Pinner!PinIdx,
     Pinner!NUM_PINNED_MAPS
<1>. QED BY <1>1, InitIInv, NextIInv, NextRefines, PTL
   DEF Spec, ImplementsPinNamespace, Pinner!ASpec


-----------------------------------------------------------------------------
(* run() exits with the status the program passed to exit_group.          *)

\* The registers the exit half's `exit(regs.rdi)' relies on: at a
\* syscall-entry stop the kernel shows the call's first argument in rdi,
\* and between the entry-half PTRACE_GETREGS (cli.c:813) and the next
\* move of the program, regs holds exactly what the program shows.
RegsMirrorChild ==
    /\ cstop = "entry" => cregs.rdi = ccur.rdi
    /\ tpc = "exit" => regs = cregs

\* The inductive invariant behind ExitStatusFromExitGroup.
EInv == TypeOK /\ RegsMirrorChild /\ ExitStatusFromExitGroup


\* A move of the traced program leaves it at a syscall-entry stop only by
\* entering a syscall, whose first argument the kernel shows in rdi.
LEMMA ChildResumeEntry ==
    ASSUME ChildResume, cstop' = "entry"
    PROVE  cregs'.rdi = ccur'.rdi
<1>1. CASE EnterCall
  BY <1>1 DEF EnterCall
<1>2. CASE TakeSignal \/ Killed \/ FinishCall \/ ExitGroup
  BY <1>2 DEF TakeSignal, Killed, FinishCall, ExitGroup
<1>. QED BY <1>1, <1>2 DEF ChildResume

\* The program exits between two waits only from the entry stop of an
\* exit_group, with that call's first argument as its status.
LEMMA ChildResumeExited ==
    ASSUME ChildResume, cstop' = "exited"
    PROVE  /\ cstop = "entry"
           /\ ccur.nr = "exit_group"
           /\ cstatus' = ccur.rdi
<1>1. CASE cstop \in {"exec", "exit", "signal"}
  <2>1. EnterCall \/ TakeSignal \/ Killed
    BY <1>1 DEF ChildResume
  <2>. QED BY <2>1 DEF EnterCall, TakeSignal, Killed
<1>2. CASE cstop = "entry"
  <2>1. FinishCall \/ ExitGroup \/ Killed
    BY <1>2 DEF ChildResume
  <2>. QED BY <1>2, <2>1 DEF FinishCall, ExitGroup, Killed
<1>. QED BY <1>1, <1>2 DEF ChildResume

\* After the exit half has read the registers, the iteration ends at the
\* top of the loop, in log_fata or in a fault, never in the exit half.
LEMMA ExfiltrateLeavesExitHalf ==
    ASSUME NEW result, Exfiltrate(result)
    PROVE  tpc' \in {"entry", "crashed", "fatal"}
<1>1. ASSUME NEW obj, InspectAndPin(obj) PROVE tpc' \in {"entry", "crashed", "fatal"}
  BY <1>1 DEF InspectAndPin, Continue
<1>. QED BY <1>1 DEF Exfiltrate, Continue

\* Every step keeps RegsMirrorChild.
LEMMA NextRegsMirrorChild ==
    ASSUME RegsMirrorChild, [Next]_vars
    PROVE  RegsMirrorChild'
<1>1. CASE UNCHANGED <<cstop, cregs, ccur, tpc, regs>>
  BY <1>1 DEF RegsMirrorChild
<1>2. CASE Spawn
  BY <1>2 DEF Spawn, RegsMirrorChild, childVars
<1>3. CASE EnterSyscall
  <2>1. CASE Dead(cstop) /\ tpc' = "fatal"
             /\ UNCHANGED <<isMap, regs, tfds, pins, exitkill, childVars>>
    BY <2>1 DEF RegsMirrorChild, childVars
  <2>2. CASE Running(cstop) /\ ChildResume /\ (tpc' = "fatal" \/ regs' = cregs')
    <3>1. cstop' = "entry" => cregs'.rdi = ccur'.rdi
      BY <2>2, ChildResumeEntry
    <3>. QED BY <2>2, <3>1 DEF RegsMirrorChild
  <2>. QED BY <1>3, <2>1, <2>2 DEF EnterSyscall
<1>4. CASE ExitSyscall
  <2>1. cstop' = "entry" => cregs'.rdi = ccur'.rdi
    BY <1>4, ChildResumeEntry DEF ExitSyscall
  <2>2. tpc' # "exit"
    BY <1>4, ExfiltrateLeavesExitHalf DEF ExitSyscall
  <2>. QED BY <2>1, <2>2 DEF RegsMirrorChild
<1>5. CASE TracerExitKill
  BY <1>5 DEF TracerExitKill, RegsMirrorChild, tracerVars, Terminated
<1>. QED BY <1>1, <1>2, <1>3, <1>4, <1>5 DEF Next, Finished, vars, tracerVars,
                                              childVars

\* Every step keeps EInv.
LEMMA NextEInv == EInv /\ [Next]_vars => EInv'
<1> SUFFICES ASSUME EInv, [Next]_vars
             PROVE  ExitStatusFromExitGroup'
  BY NextType, NextRegsMirrorChild DEF EInv
<1>0. TypeOK /\ RegsMirrorChild /\ ExitStatusFromExitGroup
  BY DEF EInv
<1>1. CASE UNCHANGED <<tpc, cstop, tstatus, cstatus>>
  BY <1>0, <1>1 DEF ExitStatusFromExitGroup
<1>2. CASE Spawn \/ EnterSyscall
  <2>1. tpc' \in {"fatal", "entry", "exit"}
    BY <1>2 DEF Spawn, EnterSyscall
  <2>. QED BY <2>1 DEF ExitStatusFromExitGroup
<1>3. CASE TracerExitKill
  BY <1>3 DEF TracerExitKill, ExitStatusFromExitGroup
<1>4. CASE ExitSyscall
  <2>1. CASE Dead(cstop') /\ tpc' = "exited" /\ tstatus' = regs.rdi % 256
             /\ cstop' = "exited"
    <3>1. cstop = "entry" /\ ccur.nr = "exit_group" /\ cstatus' = ccur.rdi
      BY <1>4, <2>1, ChildResumeExited DEF ExitSyscall
    <3>2. regs.rdi = ccur.rdi
      BY <1>0, <1>4, <3>1 DEF RegsMirrorChild, ExitSyscall
    <3>3. ccur.rdi \in 0 .. 255
      <4>1. ccur \in Calls
        BY <1>0 DEF TypeOK
      <4>. QED BY <3>1, <4>1, CallKinds
    <3>. QED BY <2>1, <3>1, <3>2, <3>3 DEF ExitStatusFromExitGroup
  <2>2. CASE Dead(cstop') /\ tpc' = "exited" /\ cstop' = "killed"
    BY <2>2 DEF ExitStatusFromExitGroup
  <2>3. CASE Exfiltrate(cregs'.rax)
    BY <2>3, ExfiltrateLeavesExitHalf DEF ExitStatusFromExitGroup
  <2>. QED BY <1>4, <2>1, <2>2, <2>3 DEF ExitSyscall, Dead
<1>. QED BY <1>1, <1>2, <1>3, <1>4 DEF Next, Finished, vars, tracerVars,
                                       childVars

\* The initial state satisfies EInv.
LEMMA InitEInv == Init => EInv
BY InitType DEF Init, EInv, RegsMirrorChild, ExitStatusFromExitGroup

\* The property TLC checks in run tracer_safety, for every value of the
\* constants: when run() leaves through `exit(regs.rdi)' (cli.c:847-849)
\* because the program ended in exit_group, run() exits with the very
\* status the program passed to exit_group -- the rdi read at the entry
\* stop is the argument of that same exit_group, and is already a byte.
THEOREM ExitStatusMirrored == Spec => []ExitStatusFromExitGroup
<1>1. EInv => ExitStatusFromExitGroup
  BY DEF EInv
<1>. QED BY <1>1, InitEInv, NextEInv, PTL DEF Spec


-----------------------------------------------------------------------------
(* run() pins what pidfd_getfd duplicated, at a free path.                 *)

\* The step PinsDuplicatedDescriptor allows: pins that change are pins
\* made at a free path, of the map behind the descriptor rax names.
PinStepOK ==
    \A i \in PinIdx :
        pins'[i] # pins[i] =>
            /\ pins[i] = NoPin
            /\ regs'.rax \in ChildFds
            /\ pins'[i] = cfd'[regs'.rax]

\* bpf_obj_pin (cli.c:893) pins `obj' at the free path of one slot, or no
\* pin changes.
LEMMA InspectAndPinPins ==
    ASSUME NEW obj, InspectAndPin(obj)
    PROVE  \/ pins' = pins
           \/ \E i \in PinIdx : pins[i] = NoPin /\ pins' = [pins EXCEPT ![i] = obj]
<1>1. CASE /\ obj # FileObj
           /\ HasSuffix(maps'[obj])
           /\ LET i == GetPinPath(Suffix(maps'[obj])) IN
                /\ i # NoRole
                /\ pins[i] = NoPin
                /\ pins' = [pins EXCEPT ![i] = obj]
  <2>1. GetPinPath(Suffix(maps'[obj])) \in PinIdx
    BY <1>1, GetPinPathType, Zenon
  <2>. QED BY <1>1, <2>1
<1>. QED BY <1>1 DEF InspectAndPin, Continue

\* The pidfd_open / pidfd_getfd step pins, if anything, the map the
\* child holds at `result'.
LEMMA ExfiltratePins ==
    ASSUME NEW result, Exfiltrate(result)
    PROVE  \/ pins' = pins
           \/ /\ result \in ChildFds
              /\ \E i \in PinIdx :
                   pins[i] = NoPin /\ pins' = [pins EXCEPT ![i] = cfd'[result]]
<1>1. CASE ChildHoldsFd(result) /\ InspectAndPin(cfd'[result])
  BY <1>1, InspectAndPinPins DEF ChildHoldsFd
<1>. QED BY <1>1 DEF Exfiltrate, Continue

\* Every step of a well-typed state is one PinStepOK allows.
LEMMA NextPinStepOK == TypeOK /\ [Next]_vars => [PinStepOK]_vars
<1> SUFFICES ASSUME TypeOK, [Next]_vars PROVE PinStepOK
  OBVIOUS
<1>1. CASE pins' = pins
  BY <1>1 DEF PinStepOK
<1>2. CASE /\ regs' = cregs'
           /\ cregs'.rax \in ChildFds
           /\ \E i \in PinIdx :
                pins[i] = NoPin /\ pins' = [pins EXCEPT ![i] = cfd'[cregs'.rax]]
  <2>1. PICK i \in PinIdx : pins[i] = NoPin /\ pins' = [pins EXCEPT ![i] = cfd'[cregs'.rax]]
    BY <1>2, Zenon
  <2>2. pins \in [PinIdx -> 0 .. MaxMaps]
    BY DEF TypeOK
  <2>3. ASSUME NEW j \in PinIdx, pins'[j] # pins[j] PROVE j = i
    BY <2>1, <2>2, <2>3
  <2>. QED BY <1>2, <2>1, <2>2, <2>3 DEF PinStepOK
<1>3. CASE ExitSyscall
  <2>1. CASE regs' = cregs' /\ Exfiltrate(cregs'.rax)
    BY <1>1, <1>2, <2>1, ExfiltratePins
  <2>. QED BY <1>1, <1>3, <2>1 DEF ExitSyscall
<1>. QED BY <1>1, <1>3 DEF Next, Spawn, EnterSyscall, TracerExitKill, Finished,
                             vars, tracerVars

\* The action property TLC checks in run tracer_safety, for every value
\* of the constants: run() changes a pin only by pinning, at a path
\* nothing is pinned at, the map behind the descriptor the syscall
\* returned in the traced program (the pidfd_getfd duplicate of
\* `result', cli.c:866-893).
THEOREM PinsFromDuplicates == Spec => PinsDuplicatedDescriptor
<1>1. TypeOK /\ [Next]_vars => [PinStepOK]_vars
  BY NextPinStepOK
<1>. QED BY <1>1, TypeCorrect, PTL DEF Spec, PinsDuplicatedDescriptor, PinStepOK

=============================================================================
