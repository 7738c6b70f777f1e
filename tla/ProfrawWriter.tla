--------------------------- MODULE ProfrawWriter ---------------------------
(***************************************************************************)
(* The Coverage Profile Generator: gen() of src/cli/cli.c (906-1049) with  *)
(* get_map_info (724-730) and get_global_data (732-772).                   *)
(*                                                                         *)
(* gen is straight-line code.  It takes the info of the four pinned maps,  *)
(* opens (and so truncates) the output, writes the magic, reads the        *)
(* covmap value for the version, writes the rest of the header, then reads *)
(* and writes the data and the counters sections, and closes.  Program     *)
(* lists those statements in order; one action models each kind of        *)
(* statement, and pc says which statement is next.                         *)
(*                                                                         *)
(* The output is a sequence of items, one per fwrite: an 8-byte word is    *)
(* the pair <<low 4 bytes, high 4 bytes>> of its little-endian encoding;   *)
(* a section is <<slot, n>>, the first n bytes of the sole value of the    *)
(* map pinned at that slot.  The 8 magic bytes are abstracted into their   *)
(* field's tag.  The values the model uses are below 2^31, so a 64-bit     *)
(* word n is <<n, 0>>.  Slots are root_args.pin's: 0 profc, 1 profd,       *)
(* 2 profn, 3 covmap.                                                      *)
(***************************************************************************)
EXTENDS Naturals, Sequences, PinRegistry

CONSTANTS
    ValueSizes,        \* slot -> value sizes its pinned map may have
    MaxEntries,        \* max_entries the pinned maps may have
    Versions,          \* versions the covmap value may hold at bytes 12..15
    StrayBytes,        \* what reading past the end of a heap block yields
    MaxWriteFailures   \* fwrite calls that may fail (ENOSPC, EIO)

ASSUME WriterAssumption ==
    /\ ValueSizes \in [PinIdx -> SUBSET Nat]
    /\ MaxEntries \subseteq Nat \ {0}
    /\ Versions \subseteq Nat
    /\ StrayBytes \subseteq Nat
    /\ MaxWriteFailures \in Nat

\* The 8-byte little-endian encoding of a value below 2^32.
Word(n) == <<n, 0>>

\* The file that was at args->output before gen opened it, if any.
Previous == [f |-> "previous", v |-> <<0, 0>>]

\* Mutant: the padding after the counters size is never written.
ProgramNoPadAfter ==
    <<[op |-> "info", arg |-> 0], [op |-> "info", arg |-> 1],
      [op |-> "info", arg |-> 2], [op |-> "info", arg |-> 3],
      [op |-> "open", arg |-> 0],
      [op |-> "write", arg |-> "magic"],
      [op |-> "read", arg |-> 3],
      [op |-> "write", arg |-> "version"],
      [op |-> "write", arg |-> "dataSize"],
      [op |-> "write", arg |-> "padBefore"],
      [op |-> "write", arg |-> "countersSize"],
      [op |-> "write", arg |-> "namesSize"],
      [op |-> "write", arg |-> "countersDelta"],
      [op |-> "write", arg |-> "namesDelta"],
      [op |-> "write", arg |-> "valueKindLast"],
      [op |-> "read", arg |-> 1],
      [op |-> "write", arg |-> "data"],
      [op |-> "read", arg |-> 0],
      [op |-> "write", arg |-> "counters"],
      [op |-> "close", arg |-> 0]>>

\* The statements of gen that touch a pinned map or the output, in the
\* order of cli.c:911-1049.  "info" is get_map_info(bpf_obj_get(pin[s]))
\* (911-930), "open" the fopen (933-937), "write" one fwrite (943-995),
\* "read" get_global_data(bpf_obj_get(pin[s])) with, for the covmap, the
\* version's memcpy (945-954, 980-985, 990-994), "close" the fclose and
\* return (1046-1049).
Program ==
    <<[op |-> "info", arg |-> 0], [op |-> "info", arg |-> 1],
      [op |-> "info", arg |-> 2], [op |-> "info", arg |-> 3],
      [op |-> "open", arg |-> 0],
      [op |-> "write", arg |-> "magic"],
      [op |-> "read", arg |-> 3],
      [op |-> "write", arg |-> "version"],
      [op |-> "write", arg |-> "dataSize"],
      [op |-> "write", arg |-> "padBefore"],
      [op |-> "write", arg |-> "countersSize"],
      [op |-> "write", arg |-> "padAfter"],
      [op |-> "write", arg |-> "namesSize"],
      [op |-> "write", arg |-> "countersDelta"],
      [op |-> "write", arg |-> "namesDelta"],
      [op |-> "write", arg |-> "valueKindLast"],
      [op |-> "read", arg |-> 1],
      [op |-> "write", arg |-> "data"],
      [op |-> "read", arg |-> 0],
      [op |-> "write", arg |-> "counters"],
      [op |-> "close", arg |-> 0]>>

VARIABLES
    mapInfo,   \* slot -> [vs |-> value_size, me |-> max_entries] of its map
    stored,    \* the version the covmap value holds at bytes 12..15
    pc,        \* the index in Program of the next statement
    info,      \* slot -> the bpf_map_info gen has, zeroed until read
    data,      \* slot -> the buffer get_global_data filled, <<NoRole, 0>> before
    verBytes,  \* the 4 bytes memcpy'd into version (cli.c:951)
    file,      \* the items written to args->output
    status,    \* "running", then gen's exit: "ok" (return 0) or "failed"
    nfail      \* fwrite calls that have failed (bound MaxWriteFailures)

vars == <<mapInfo, stored, pc, info, data, verBytes, file, status, nfail>>

Infos == [vs : Nat, me : Nat]

\* The infos the map pinned at slot s may have.
InfosOf(s) == [vs : ValueSizes[s], me : MaxEntries]

Items == [f : STRING, v : Int \X Nat]

TypeOK ==
    /\ mapInfo \in [PinIdx -> Infos]
    /\ stored \in Versions
    /\ pc \in 1 .. Len(Program)
    /\ info \in [PinIdx -> Infos]
    /\ data \in [PinIdx -> ({NoRole} \cup PinIdx) \X Nat]
    /\ verBytes \in Nat
    /\ file \in Seq(Items)
    /\ status \in {"running", "ok", "failed"}
    /\ nfail \in 0 .. MaxWriteFailures

Init ==
    /\ mapInfo \in {m \in [PinIdx -> UNION {InfosOf(s) : s \in PinIdx}] :
                      \A s \in PinIdx : m[s] \in InfosOf(s)}
    /\ stored \in Versions
    /\ pc = 1
    /\ info = [s \in PinIdx |-> [vs |-> 0, me |-> 0]]
    /\ data = [s \in PinIdx |-> <<NoRole, 0>>]
    /\ verBytes = 0
    /\ file \in {<<>>, <<Previous>>}
    /\ status = "running"
    /\ nfail = 0

-----------------------------------------------------------------------------
(* The values gen writes (cli.c:942-995).                                  *)

\* Mutant: the version written as stored, without `version += 1'.
FieldValueNoIncrement ==
    [magic |-> <<0, 0>>,
     version |-> Word(verBytes),
     dataSize |-> Word(info[1].vs \div 48),
     padBefore |-> Word(0),
     countersSize |-> Word(info[0].vs \div 8),
     padAfter |-> Word(0),
     namesSize |-> <<info[2].vs, info[2].me>>,
     countersDelta |-> Word(0),
     namesDelta |-> Word(0),
     valueKindLast |-> Word(1),
     data |-> data[1],
     counters |-> data[0]]

\* The value of each header field and section as gen computes it: the
\* version from the 4 bytes at offset 12 plus one (950-952), the counts by
\* integer division (956, 962), the names size as the 8 bytes that start
\* at profn_info.value_size -- value_size and the max_entries after it in
\* struct bpf_map_info (968) -- and the sections from their buffers.
FieldValue ==
    [magic |-> <<0, 0>>,
     version |-> Word(verBytes + 1),
     dataSize |-> Word(info[1].vs \div 48),
     padBefore |-> Word(0),
     countersSize |-> Word(info[0].vs \div 8),
     padAfter |-> Word(0),
     namesSize |-> <<info[2].vs, info[2].me>>,
     countersDelta |-> Word(0),
     namesDelta |-> Word(0),
     valueKindLast |-> Word(1),
     data |-> data[1],
     counters |-> data[0]]

Item(f) == [f |-> f, v |-> FieldValue[f]]

-----------------------------------------------------------------------------
(* The statements.                                                         *)

Stmt == Program[pc]

Step == pc' = pc + 1

\* log_fata: diagnostic and exit(EXIT_FAILURE), which flushes the stream.
Fatal ==
    /\ status' = "failed"
    /\ UNCHANGED <<pc, info, data, verBytes, file, nfail>>

\* Mutant: every info read into the profc info, a copy-paste slip in the
\* four get_map_info calls.
GetMapInfoIntoProfc ==
    /\ status = "running"
    /\ Stmt.op = "info"
    /\ \/ /\ info' = [info EXCEPT ![0] = mapInfo[Stmt.arg]]
          /\ Step
          /\ UNCHANGED <<status, data, verBytes, file, nfail>>
       \/ Fatal
    /\ UNCHANGED <<mapInfo, stored>>

\* get_map_info(bpf_obj_get(pin[s]), &info): fatal when the pin cannot be
\* opened or its info read (cli.c:724-730, 911-930).
GetMapInfo ==
    /\ status = "running"
    /\ Stmt.op = "info"
    /\ \/ /\ info' = [info EXCEPT ![Stmt.arg] = mapInfo[Stmt.arg]]
          /\ Step
          /\ UNCHANGED <<status, data, verBytes, file, nfail>>
       \/ Fatal
    /\ UNCHANGED <<mapInfo, stored>>

\* fopen(args->output, "wb"): truncates, or fails fatally and leaves the
\* previous file (cli.c:933-937).
OpenOutput ==
    /\ status = "running"
    /\ Stmt.op = "open"
    /\ \/ /\ file' = <<>>
          /\ Step
          /\ UNCHANGED <<status, info, data, verBytes, nfail>>
       \/ Fatal
    /\ UNCHANGED <<mapInfo, stored>>

\* One fwrite, whose result is never checked: it appends its item, or it
\* fails and the item is missing from the file (cli.c:943-995).
Fwrite ==
    /\ status = "running"
    /\ Stmt.op = "write"
    /\ \/ /\ file' = Append(file, Item(Stmt.arg))
          /\ UNCHANGED nfail
       \/ /\ nfail < MaxWriteFailures
          /\ nfail' = nfail + 1
          /\ UNCHANGED file
    /\ Step
    /\ UNCHANGED <<mapInfo, stored, info, data, verBytes, status>>

\* get_global_data(bpf_obj_get(pin[s]), &info[s], buf) (cli.c:732-772):
\* fatal for a map with more than one entry, and when malloc, the pin's
\* open, bpf_map_get_next_key or bpf_map_lookup_elem fails; otherwise
\* info[s].value_size bytes of the sole value are copied to buf.  After
\* the covmap read gen copies bytes 12..15 of that buffer into version
\* (951): beyond a value shorter than 16 bytes they are whatever follows
\* the heap block.
GetGlobalData ==
    /\ status = "running"
    /\ Stmt.op = "read"
    /\ LET s == Stmt.arg IN
         \/ /\ info[s].me > 1
            /\ Fatal
         \/ /\ info[s].me <= 1
            /\ \/ Fatal
               \/ /\ data' = [data EXCEPT ![s] = <<s, info[s].vs>>]
                  /\ verBytes' \in CASE s # 3                        -> {verBytes}
                                       [] s = 3 /\ info[3].vs >= 16  -> {stored}
                                       [] s = 3 /\ info[3].vs < 16   -> StrayBytes
                  /\ Step
                  /\ UNCHANGED <<status, info, file, nfail>>
    /\ UNCHANGED <<mapInfo, stored>>

\* fclose(outfp), its result ignored, and return 0 (cli.c:1046-1049).
Fclose ==
    /\ status = "running"
    /\ Stmt.op = "close"
    /\ status' = "ok"
    /\ UNCHANGED <<mapInfo, stored, pc, info, data, verBytes, file, nfail>>

Next == GetMapInfo \/ OpenOutput \/ Fwrite \/ GetGlobalData \/ Fclose

Spec == Init /\ [][Next]_vars

-----------------------------------------------------------------------------
(* Properties, against the profile spec 6 lays out for the pinned maps.   *)

\* The profile of spec 6: magic; version + 1; data size / 48; padding;
\* counters size / 8; padding; the names size written twice; two zero
\* deltas; last value kind 1; the data and the counters values verbatim.
SpecProfile ==
    LET W(f, n) == [f |-> f, v |-> Word(n)] IN
    <<[f |-> "magic", v |-> <<0, 0>>],
      W("version", stored + 1),
      W("dataSize", mapInfo[1].vs \div 48),
      W("padBefore", 0),
      W("countersSize", mapInfo[0].vs \div 8),
      W("padAfter", 0),
      [f |-> "namesSize", v |-> <<mapInfo[2].vs, mapInfo[2].vs>>],
      W("countersDelta", 0),
      W("namesDelta", 0),
      W("valueKindLast", 1),
      [f |-> "data", v |-> <<1, mapInfo[1].vs>>],
      [f |-> "counters", v |-> <<0, mapInfo[0].vs>>]>>

\* An item as spec 6 wants it, save the high half of the names size,
\* which NamesSizeWrittenTwice is about.
Agrees(item, want) ==
    /\ item.f = want.f
    /\ item.v[1] = want.v[1]
    /\ item.f # "namesSize" => item.v[2] = want.v[2]

\* Spec 4.3 step 8: gen exits 0 only after writing the whole profile
\* (any write failure is fatal).  cli.c never checks an fwrite result.
SuccessWritesWholeProfile ==
    status = "ok" => Len(file) = Len(SpecProfile)

\* Spec 4.3 step 8 and spec 6: when gen returns 0 (cli.c:1049) and none
\* of its fwrites failed, the output is the whole profile of spec 6 of
\* the pinned maps -- every field once, at its place, with its value.
WholeProfileWhenWritesSucceed ==
    (status = "ok" /\ nfail = 0) =>
        /\ Len(file) = Len(SpecProfile)
        /\ \A k \in 1 .. Len(file) : Agrees(file[k], SpecProfile[k])

\* Where field f comes in the profile of spec 6.
Pos(f) == CHOOSE k \in 1 .. Len(SpecProfile) : SpecProfile[k].f = f

\* Whatever gen has done so far, and however it ended, the output holds
\* either the previous file, untouched, or fields of the profile of the
\* pinned maps, each with the value spec 6 gives it and in the order of
\* spec 6, with none twice: a fatal read after the fopen (cli.c:933) or a
\* failed fwrite leaves fields out, but gen never writes a field out of
\* place, a wrong value, or one map's bytes as another's.
FieldsInFormatOrder ==
    \/ file = <<Previous>>
    \/ /\ \A k \in 1 .. Len(file) :
             /\ \E j \in 1 .. Len(SpecProfile) : SpecProfile[j].f = file[k].f
             /\ Agrees(file[k], SpecProfile[Pos(file[k].f)])
       /\ \A k \in 1 .. Len(file) - 1 : Pos(file[k].f) < Pos(file[k + 1].f)

\* Spec 6: the names size is written twice -- both halves of the 8-byte
\* field are the names map's value size.  cli.c:968 writes the 8 bytes
\* of struct bpf_map_info that start at value_size: value_size, then
\* max_entries.
NamesSizeWrittenTwice ==
    \A k \in 1 .. Len(file) :
        file[k].f = "namesSize" => file[k].v = <<mapInfo[2].vs, mapInfo[2].vs>>

\* Spec 7: malformed map metadata is fatal.  gen writes a version only
\* when the covmap value holds the 16 bytes it reads it from; cli.c:951
\* reads bytes 12..15 whatever the value's size.
MalformedHeaderIsFatal ==
    \A k \in 1 .. Len(file) : file[k].f = "version" => mapInfo[3].vs >= 16

=============================================================================
