---------------------------- MODULE PinNamespace ----------------------------
(***************************************************************************)
(* What the Map Pinner promises during one `run' (spec 4.2,                *)
(* pin_if_coverage_map): the traced program creates maps, and a map whose *)
(* name has a recognised suffix is pinned at the path of that suffix's    *)
(* role.  A pinned path is never repinned or unpinned while the run       *)
(* lasts, and a map that is not a coverage map is never pinned.           *)
(*                                                                         *)
(* The tracer pins a map after the syscall that created it has returned   *)
(* to it; a detailed step may therefore create a map and pin it at once,  *)
(* and CreateAndPin allows that.                                           *)
(***************************************************************************)
EXTENDS Naturals, Sequences, PinRegistry

CONSTANTS
    Names       \* the names maps may be created with

VARIABLES
    created,    \* the names of the maps created so far, in creation order
    pinned      \* slot -> the created map pinned at its path, or 0

avars == <<created, pinned>>

\* The role of a created map: the slot its name's suffix selects.
RoleOf(m) ==
    IF HasSuffix(created'[m]) THEN GetPinPath(Suffix(created'[m])) ELSE NoRole

AInit ==
    /\ created = <<>>
    /\ pinned = [i \in PinIdx |-> 0]

\* The program creates a map.
Create(n) ==
    /\ created' = Append(created, n)
    /\ UNCHANGED pinned

\* Map m (one of created') is pinned at the free path of its role.
Pin(i, m) ==
    /\ pinned[i] = 0
    /\ RoleOf(m) = i
    /\ pinned' = [pinned EXCEPT ![i] = m]

ANext ==
    \/ \E n \in Names : Create(n)
    \/ /\ UNCHANGED created
       /\ \E i \in PinIdx, m \in 1 .. Len(created') : Pin(i, m)
    \/ /\ \E n \in Names : created' = Append(created, n)
       /\ \E i \in PinIdx, m \in 1 .. Len(created') : Pin(i, m)

ASpec == AInit /\ [][ANext]_avars

=============================================================================
