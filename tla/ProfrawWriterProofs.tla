------------------------- MODULE ProfrawWriterProofs -------------------------
(***************************************************************************)
(* Proofs about module ProfrawWriter: gen writes the fields of the        *)
(* profile in the order and with the values of spec 6, for every size of  *)
(* the pinned maps' values, whenever the covmap header is well formed.     *)
(***************************************************************************)
EXTENDS ProfrawWriter, TLAPS

\* The names of the profile's fields.
Fields == {"magic", "version", "dataSize", "padBefore", "countersSize",
           "padAfter", "namesSize", "countersDelta", "namesDelta",
           "valueKindLast", "data", "counters"}

\* Where each field comes in the profile of spec 6.
FieldPos ==
    [magic |-> 1, version |-> 2, dataSize |-> 3, padBefore |-> 4,
     countersSize |-> 5, padAfter |-> 6, namesSize |-> 7, countersDelta |-> 8,
     namesDelta |-> 9, valueKindLast |-> 10, data |-> 11, counters |-> 12]

\* How many fields gen has written, or failed to write, before statement
\* pc of Program.
Written ==
    <<0, 0, 0, 0, 0, 0, 1, 1, 2, 3, 4, 5, 6, 7, 8, 9, 10, 10, 11, 11, 12>>

\* Every covmap value the pin may hold has the 16 bytes gen reads.
WellFormedHeader == \A n \in ValueSizes[3] : n >= 16

\* The items the output may hold: the previous file, and profile fields.
FileItems == [f : Fields \cup {"previous"}, v : Int \X Nat]

\* What gen has read is what is pinned: the info of the slots whose
\* "info" statement is done, the version once the covmap is read (only
\* true of a well-formed header), and the data and counters buffers.
ReadInv ==
    /\ \A s \in PinIdx : s + 1 < pc => info[s] = mapInfo[s]
    /\ pc > 7 => verBytes = stored
    /\ pc > 17 => data[1] = <<1, mapInfo[1].vs>>
    /\ pc > 19 => data[0] = <<0, mapInfo[0].vs>>

\* The output holds the previous file, or nothing, until the fopen; then
\* fields of the profile, each as spec 6 has it, in order, all of them
\* among the first Written[pc].
OutputInv ==
    /\ pc <= 5 => file \in {<<>>, <<Previous>>}
    /\ pc > 5 =>
         /\ \A k \in 1 .. Len(file) :
              /\ file[k].f \in Fields
              /\ Agrees(file[k], SpecProfile[FieldPos[file[k].f]])
              /\ FieldPos[file[k].f] <= Written[pc]
         /\ \A k \in 1 .. Len(file) - 1 :
              FieldPos[file[k].f] < FieldPos[file[k + 1].f]

\* The inductive invariant behind FieldsInFormatOrder.
WInv ==
    /\ pc \in 1 .. Len(Program)
    /\ info \in [PinIdx -> Infos]
    /\ data \in [PinIdx -> Int \X Nat]
    /\ verBytes \in Nat
    /\ stored \in Versions
    /\ file \in Seq(FileItems)
    /\ \A s \in PinIdx : mapInfo[s] \in InfosOf(s)
    /\ ReadInv
    /\ OutputInv

-----------------------------------------------------------------------------
(* The shape of gen's statement list.                                      *)

\* Each statement of gen, by its place in Program.
LEMMA ProgramShape ==
    /\ Len(Program) = 21
    /\ \A p \in 1 .. 20 :
         /\ Program[p].op \in {"info", "open", "write", "read"}
         /\ Program[p].op = "info" => p \in 1 .. 4 /\ Program[p].arg = p - 1
         /\ Program[p].op = "open" => p = 5
         /\ Program[p].op = "read" =>
              \/ p = 7 /\ Program[p].arg = 3
              \/ p = 17 /\ Program[p].arg = 1
              \/ p = 19 /\ Program[p].arg = 0
         /\ Program[p].op = "write" =>
              /\ p > 5
              /\ Program[p].arg \in Fields
              /\ FieldPos[Program[p].arg] = Written[p] + 1
              /\ Written[p + 1] = Written[p] + 1
         /\ Program[p].op # "write" => Written[p + 1] = Written[p]
    /\ Program[21].op = "close"
<1>1. Len(Program) = 21 /\ Program[21].op = "close"
  BY DEF Program
<1>2. ASSUME NEW p \in 1 .. 20
      PROVE  p \in {1, 2, 3, 4, 5, 6, 7, 8, 9, 10, 11, 12, 13, 14, 15, 16,
                    17, 18, 19, 20}
  OBVIOUS
<1>3. \A p \in 1 .. 20 :
         /\ Program[p].op \in {"info", "open", "write", "read"}
         /\ Program[p].op = "info" => p \in 1 .. 4 /\ Program[p].arg = p - 1
         /\ Program[p].op = "open" => p = 5
         /\ Program[p].op = "read" =>
              \/ p = 7 /\ Program[p].arg = 3
              \/ p = 17 /\ Program[p].arg = 1
              \/ p = 19 /\ Program[p].arg = 0
         /\ Program[p].op = "write" =>
              /\ p > 5
              /\ Program[p].arg \in Fields
              /\ FieldPos[Program[p].arg] = Written[p] + 1
              /\ Written[p + 1] = Written[p] + 1
         /\ Program[p].op # "write" => Written[p + 1] = Written[p]
  BY <1>2 DEF Program, Fields, FieldPos, Written
<1>. QED BY <1>1, <1>3

\* Pos, the place spec 6 gives a field, is FieldPos.
LEMMA PosIsFieldPos ==
    ASSUME NEW f \in Fields
    PROVE  /\ FieldPos[f] \in 1 .. Len(SpecProfile)
           /\ SpecProfile[FieldPos[f]].f = f
           /\ Pos(f) = FieldPos[f]
<1>1. /\ FieldPos[f] \in 1 .. Len(SpecProfile)
      /\ SpecProfile[FieldPos[f]].f = f
  BY DEF Fields, FieldPos, SpecProfile
<1>2. \A k \in 1 .. Len(SpecProfile) : SpecProfile[k].f = f => k = FieldPos[f]
  BY DEF Fields, FieldPos, SpecProfile
<1>. QED BY <1>1, <1>2, Zenon DEF Pos

-----------------------------------------------------------------------------
(* The invariant.                                                          *)

LEMMA InitWInv == Init => WInv
<1> SUFFICES ASSUME Init PROVE WInv
  OBVIOUS
<1> USE WriterAssumption
<1>1. \A s \in PinIdx : mapInfo[s] \in InfosOf(s)
  BY DEF Init
<1>2. pc \in 1 .. Len(Program)
  BY ProgramShape DEF Init
<1>3. /\ info \in [PinIdx -> Infos]
      /\ data \in [PinIdx -> Int \X Nat]
      /\ verBytes \in Nat
      /\ stored \in Versions
  BY DEF Init, Infos, NoRole
<1>4. file \in Seq(FileItems)
  <2>1. Previous \in FileItems
    BY DEF Previous, FileItems
  <2>2. <<>> \in Seq(FileItems) /\ <<Previous>> \in Seq(FileItems)
    BY <2>1
  <2>. QED BY <2>2, Zenon DEF Init
<1>6. /\ pc <= 5 /\ ~(pc > 5) /\ ~(pc > 7) /\ ~(pc > 17) /\ ~(pc > 19)
      /\ \A s \in PinIdx : ~(s + 1 < pc)
  BY DEF Init, PinIdx, NUM_PINNED_MAPS
<1>. QED BY <1>1, <1>2, <1>3, <1>4, <1>6, Zenon DEF Init, WInv, ReadInv, OutputInv

\* Each fwrite that succeeds appends the field spec 6 puts at its place,
\* with the value spec 6 gives it.
LEMMA WriteAgrees ==
    ASSUME WInv, pc \in 1 .. 20, Program[pc].op = "write"
    PROVE  LET f == Program[pc].arg IN
             /\ Item(f) \in FileItems
             /\ Agrees(Item(f), SpecProfile[FieldPos[f]])
<1>0. /\ info \in [PinIdx -> Infos]
      /\ data \in [PinIdx -> Int \X Nat]
      /\ verBytes \in Nat
      /\ \A s \in PinIdx : s + 1 < pc => info[s] = mapInfo[s]
      /\ pc > 7 => verBytes = stored
      /\ pc > 17 => data[1] = <<1, mapInfo[1].vs>>
      /\ pc > 19 => data[0] = <<0, mapInfo[0].vs>>
  BY DEF WInv, ReadInv
<1>1. pc \in {6, 8, 9, 10, 11, 12, 13, 14, 15, 16, 18, 20}
  <2>1. pc \in {1, 2, 3, 4, 5, 6, 7, 8, 9, 10, 11, 12, 13, 14, 15, 16, 17,
                18, 19, 20}
    OBVIOUS
  <2>. QED BY <2>1 DEF Program
<1>2. CASE pc = 6
  <2>1. Program[pc].arg = "magic"
    BY <1>2 DEF Program
  <2>. QED BY <1>2, <2>1, <1>0 DEF Item, FieldValue, SpecProfile, FieldPos,
         Agrees, Word, FileItems, Fields, Infos, PinIdx, NUM_PINNED_MAPS
<1>3. CASE pc = 8
  <2>1. Program[pc].arg = "version"
    BY <1>3 DEF Program
  <2>. QED BY <1>3, <2>1, <1>0 DEF Item, FieldValue, SpecProfile, FieldPos,
         Agrees, Word, FileItems, Fields, Infos, PinIdx, NUM_PINNED_MAPS
<1>4. CASE pc = 9
  <2>1. Program[pc].arg = "dataSize"
    BY <1>4 DEF Program
  <2>. QED BY <1>4, <2>1, <1>0 DEF Item, FieldValue, SpecProfile, FieldPos,
         Agrees, Word, FileItems, Fields, Infos, PinIdx, NUM_PINNED_MAPS
<1>5. CASE pc = 10
  <2>1. Program[pc].arg = "padBefore"
    BY <1>5 DEF Program
  <2>. QED BY <1>5, <2>1, <1>0 DEF Item, FieldValue, SpecProfile, FieldPos,
         Agrees, Word, FileItems, Fields, Infos, PinIdx, NUM_PINNED_MAPS
<1>6. CASE pc = 11
  <2>1. Program[pc].arg = "countersSize"
    BY <1>6 DEF Program
  <2>. QED BY <1>6, <2>1, <1>0 DEF Item, FieldValue, SpecProfile, FieldPos,
         Agrees, Word, FileItems, Fields, Infos, PinIdx, NUM_PINNED_MAPS
<1>7. CASE pc = 12
  <2>1. Program[pc].arg = "padAfter"
    BY <1>7 DEF Program
  <2>. QED BY <1>7, <2>1, <1>0 DEF Item, FieldValue, SpecProfile, FieldPos,
         Agrees, Word, FileItems, Fields, Infos, PinIdx, NUM_PINNED_MAPS
<1>8. CASE pc = 13
  <2>1. Program[pc].arg = "namesSize"
    BY <1>8 DEF Program
  <2>. QED BY <1>8, <2>1, <1>0 DEF Item, FieldValue, SpecProfile, FieldPos,
         Agrees, Word, FileItems, Fields, Infos, PinIdx, NUM_PINNED_MAPS
<1>9. CASE pc = 14
  <2>1. Program[pc].arg = "countersDelta"
    BY <1>9 DEF Program
  <2>. QED BY <1>9, <2>1, <1>0 DEF Item, FieldValue, SpecProfile, FieldPos,
         Agrees, Word, FileItems, Fields, Infos, PinIdx, NUM_PINNED_MAPS
<1>10. CASE pc = 15
  <2>1. Program[pc].arg = "namesDelta"
    BY <1>10 DEF Program
  <2>. QED BY <1>10, <2>1, <1>0 DEF Item, FieldValue, SpecProfile, FieldPos,
         Agrees, Word, FileItems, Fields, Infos, PinIdx, NUM_PINNED_MAPS
<1>11. CASE pc = 16
  <2>1. Program[pc].arg = "valueKindLast"
    BY <1>11 DEF Program
  <2>. QED BY <1>11, <2>1, <1>0 DEF Item, FieldValue, SpecProfile, FieldPos,
         Agrees, Word, FileItems, Fields, Infos, PinIdx, NUM_PINNED_MAPS
<1>12. CASE pc = 18
  <2>1. Program[pc].arg = "data"
    BY <1>12 DEF Program
  <2>. QED BY <1>12, <2>1, <1>0 DEF Item, FieldValue, SpecProfile, FieldPos,
         Agrees, Word, FileItems, Fields, Infos, PinIdx, NUM_PINNED_MAPS
<1>13. CASE pc = 20
  <2>1. Program[pc].arg = "counters"
    BY <1>13 DEF Program
  <2>. QED BY <1>13, <2>1, <1>0 DEF Item, FieldValue, SpecProfile, FieldPos,
         Agrees, Word, FileItems, Fields, Infos, PinIdx, NUM_PINNED_MAPS
<1>. QED BY <1>1, <1>2, <1>3, <1>4, <1>5, <1>6, <1>7, <1>8, <1>9, <1>10, <1>11, <1>12, <1>13

\* Every statement before the last is in 1 .. 20.
LEMMA StmtInRange ==
    ASSUME WInv, Stmt.op # "close"
    PROVE  pc \in 1 .. 20
<1>1. pc \in 1 .. 21 /\ Program[21].op = "close"
  BY ProgramShape DEF WInv
<1>. QED BY <1>1 DEF Stmt

\* A fatal error, the fclose and a stutter keep every part of WInv.
LEMMA StopKeeps ==
    ASSUME WInv,
           mapInfo' = mapInfo, stored' = stored, pc' = pc, info' = info,
           data' = data, verBytes' = verBytes, file' = file
    PROVE  WInv'
<1>1. ReadInv'
  BY DEF WInv, ReadInv
<1>2. OutputInv'
  BY DEF WInv, OutputInv, SpecProfile
<1>3. /\ pc' \in 1 .. Len(Program)
      /\ info' \in [PinIdx -> Infos]
      /\ data' \in [PinIdx -> Int \X Nat]
      /\ verBytes' \in Nat
      /\ stored' \in Versions
      /\ file' \in Seq(FileItems)
      /\ \A s \in PinIdx : mapInfo'[s] \in InfosOf(s)
  BY DEF WInv
<1>. QED BY <1>1, <1>2, <1>3 DEF WInv

\* The "info" statements read the pinned maps' infos in slot order.
LEMMA GetMapInfoWInv ==
    ASSUME WInv, GetMapInfo
    PROVE  WInv'
<1> USE WriterAssumption
<1>1. CASE Fatal
  BY <1>1, StopKeeps DEF GetMapInfo, Fatal
<1>2. CASE /\ info' = [info EXCEPT ![Stmt.arg] = mapInfo[Stmt.arg]]
           /\ Step
           /\ UNCHANGED <<status, data, verBytes, file, nfail>>
  <2>1. /\ pc \in 1 .. 4
        /\ Stmt.arg = pc - 1
    <3>1. pc \in 1 .. 20 /\ Program[pc].op = "info"
      BY StmtInRange DEF GetMapInfo, Stmt
    <3>. QED BY <3>1, ProgramShape DEF Stmt
  <2>2. mapInfo[pc - 1] \in Infos
    <3>0. pc - 1 \in PinIdx
      BY <2>1 DEF PinIdx, NUM_PINNED_MAPS
    <3>1. mapInfo[pc - 1] \in [vs : ValueSizes[pc - 1], me : MaxEntries]
      BY <3>0, Zenon DEF WInv, InfosOf
    <3>2. ValueSizes[pc - 1] \subseteq Nat /\ MaxEntries \subseteq Nat
      BY <2>1 DEF PinIdx, NUM_PINNED_MAPS
    <3>. QED BY <3>1, <3>2, Zenon DEF Infos
  <2>3. pc' \in 1 .. Len(Program)
    BY <1>2, <2>1, ProgramShape DEF Step
  <2>6. info' \in [PinIdx -> Infos]
    <3>1. pc - 1 \in PinIdx
      BY <2>1 DEF PinIdx, NUM_PINNED_MAPS
    <3>. QED BY <1>2, <2>1, <2>2, <3>1 DEF WInv
  <2>7. /\ data' \in [PinIdx -> Int \X Nat]
        /\ verBytes' \in Nat
        /\ stored' \in Versions
        /\ file' \in Seq(FileItems)
        /\ \A s \in PinIdx : mapInfo'[s] \in InfosOf(s)
    BY <1>2 DEF GetMapInfo, WInv
  <2>4. ReadInv'
    BY <1>2, <2>1 DEF GetMapInfo, WInv, ReadInv, Step, PinIdx,
       NUM_PINNED_MAPS
  <2>5. OutputInv'
    BY <1>2, <2>1 DEF GetMapInfo, WInv, OutputInv, Step
  <2>. QED BY <2>3, <2>4, <2>5, <2>6, <2>7 DEF WInv
<1>. QED BY <1>1, <1>2 DEF GetMapInfo

\* The fopen empties the output just as the header starts.
LEMMA OpenOutputWInv ==
    ASSUME WInv, OpenOutput
    PROVE  WInv'
<1>1. CASE Fatal
  BY <1>1, StopKeeps DEF OpenOutput, Fatal
<1>2. CASE /\ file' = <<>>
           /\ Step
           /\ UNCHANGED <<status, info, data, verBytes, nfail>>
  <2>1. pc = 5
    <3>1. pc \in 1 .. 20 /\ Program[pc].op = "open"
      BY StmtInRange DEF OpenOutput, Stmt
    <3>. QED BY <3>1, ProgramShape
  <2>2. pc' \in 1 .. Len(Program) /\ pc' = 6
    BY <1>2, <2>1, ProgramShape DEF Step
  <2>3. file' \in Seq(FileItems)
    BY <1>2
  <2>4. ReadInv'
    BY <1>2, <2>1, <2>2 DEF OpenOutput, WInv, ReadInv, PinIdx, NUM_PINNED_MAPS
  <2>5. OutputInv'
    BY <1>2, <2>2 DEF OutputInv
  <2>. QED BY <1>2, <2>2, <2>3, <2>4, <2>5 DEF OpenOutput, WInv
<1>. QED BY <1>1, <1>2 DEF OpenOutput

\* The profile spec 6 asks for depends on the pinned maps alone.
LEMMA SpecProfileUnchanged ==
    ASSUME mapInfo' = mapInfo, stored' = stored
    PROVE  SpecProfile' = SpecProfile
BY DEF SpecProfile

\* An fwrite appends the next field of the profile, or nothing.
LEMMA FwriteWInv ==
    ASSUME WInv, Fwrite
    PROVE  WInv'
<1>0. \A x \in Fields : FieldPos[x] \in 1 .. 12
  BY DEF FieldPos, Fields
<1>1. pc \in 1 .. 20 /\ Program[pc].op = "write"
  BY StmtInRange DEF Fwrite, Stmt
<1>2. /\ pc > 5
      /\ Program[pc].arg \in Fields
      /\ FieldPos[Program[pc].arg] = Written[pc] + 1
      /\ Written[pc + 1] = Written[pc] + 1
  BY <1>1, ProgramShape
<1>3. pc # 7 /\ pc # 17 /\ pc # 19
  BY <1>1 DEF Program
<1>12. Written[pc] \in Nat
  BY <1>1 DEF Written
<1>4. pc' = pc + 1 /\ pc' \in 1 .. Len(Program)
  BY <1>1, ProgramShape DEF Fwrite, Step
<1>5. Item(Program[pc].arg) \in FileItems /\ Agrees(Item(Program[pc].arg), SpecProfile[FieldPos[Program[pc].arg]])
  BY <1>1, WriteAgrees
<1>6. SpecProfile' = SpecProfile
  BY SpecProfileUnchanged DEF Fwrite
<1>7. ReadInv'
  <2>1. /\ info' = info /\ data' = data /\ verBytes' = verBytes
        /\ mapInfo' = mapInfo /\ stored' = stored
    BY DEF Fwrite
  <2>0. pc \in Nat /\ pc' = pc + 1 /\ pc # 7 /\ pc # 17 /\ pc # 19
    BY <1>1, <1>3, <1>4
  <2>2. pc' > 7 => pc > 7
    BY <2>0, SMT
  <2>3. pc' > 17 => pc > 17
    BY <2>0, SMT
  <2>4. pc' > 19 => pc > 19
    BY <2>0, SMT
  <2>5. \A s \in PinIdx : s + 1 < pc' => s + 1 < pc
    BY <1>1, <1>2, <1>4 DEF PinIdx, NUM_PINNED_MAPS
  <2>. QED BY <2>1, <2>2, <2>3, <2>4, <2>5 DEF WInv, ReadInv
<1>8. /\ info' \in [PinIdx -> Infos]
      /\ data' \in [PinIdx -> Int \X Nat]
      /\ verBytes' \in Nat
      /\ stored' \in Versions
      /\ \A s \in PinIdx : mapInfo'[s] \in InfosOf(s)
  BY DEF Fwrite, WInv
<1>9. /\ \A k \in 1 .. Len(file) :
           /\ file[k].f \in Fields
           /\ Agrees(file[k], SpecProfile[FieldPos[file[k].f]])
           /\ FieldPos[file[k].f] <= Written[pc]
      /\ \A k \in 1 .. Len(file) - 1 :
           FieldPos[file[k].f] < FieldPos[file[k + 1].f]
      /\ file \in Seq(FileItems)
  BY <1>2 DEF WInv, OutputInv
<1>10. CASE file' = Append(file, Item(Program[pc].arg))
  <2>1. file' \in Seq(FileItems)
    BY <1>1, <1>5, <1>9, <1>10
  <2>0. Len(file') = Len(file) + 1
    BY <1>9, <1>10
  <2>2. ASSUME NEW k \in 1 .. Len(file) + 1
        PROVE  /\ file'[k].f \in Fields
               /\ Agrees(file'[k], SpecProfile[FieldPos[file'[k].f]])
               /\ FieldPos[file'[k].f] <= Written[pc']
    <3>1. CASE k <= Len(file)
      <4>1. k \in 1 .. Len(file) /\ file'[k] = file[k]
        BY <1>9, <1>10, <3>1
      <4>2. /\ file[k].f \in Fields
            /\ Agrees(file[k], SpecProfile[FieldPos[file[k].f]])
            /\ FieldPos[file[k].f] <= Written[pc]
        BY <1>9, <4>1
      <4>3. FieldPos[file[k].f] <= Written[pc']
        <5>1. Written[pc'] = Written[pc] + 1
          BY <1>2, <1>4
        <5>2. FieldPos[file[k].f] \in Int
          BY <1>0, <4>2
        <5>. QED BY <1>3, <1>12, <4>2, <5>1, <5>2
      <4>. QED BY <4>1, <4>2, <4>3
    <3>2. CASE k = Len(file) + 1
      <4>1. file'[k].f = Program[pc].arg /\ file'[k] = Item(Program[pc].arg)
        BY <1>9, <1>10, <3>2 DEF Item
      <4>2. FieldPos[Program[pc].arg] = Written[pc']
        BY <1>1, <1>2, <1>4
      <4>3. FieldPos[file'[k].f] <= Written[pc']
        BY <1>0, <1>2, <4>1, <4>2
      <4>. QED BY <1>2, <1>5, <4>1, <4>3, Zenon
    <3>. QED BY <1>9, <3>1, <3>2
  <2>3. ASSUME NEW k \in 1 .. Len(file)
        PROVE  FieldPos[file'[k].f] < FieldPos[file'[k + 1].f]
    <3>1. CASE k < Len(file)
      <4>1. /\ k \in 1 .. Len(file) - 1
            /\ file'[k] = file[k]
            /\ file'[k + 1] = file[k + 1]
        BY <1>9, <1>10, <3>1
      <4>. QED BY <1>9, <4>1
    <3>2. CASE k = Len(file)
      <4>1. /\ k \in 1 .. Len(file)
            /\ file'[k] = file[k]
            /\ file'[k + 1].f = Program[pc].arg
        BY <1>9, <1>10, <3>2 DEF Item
      <4>2. FieldPos[file[k].f] <= Written[pc] /\ file[k].f \in Fields
        BY <1>9, <4>1
      <4>3. FieldPos[file[k].f] \in Int
        BY <1>0, <4>2
      <4>. QED BY <1>2, <1>3, <1>12, <4>1, <4>2, <4>3
    <3>. QED BY <1>9, <3>1, <3>2
  <2>4. OutputInv'
    <3>1. pc' > 5 /\ ~(pc' <= 5)
      BY <1>1, <1>2, <1>4
    <3>2. \A k \in 1 .. Len(file') :
            /\ file'[k].f \in Fields
            /\ Agrees(file'[k], SpecProfile'[FieldPos[file'[k].f]])
            /\ FieldPos[file'[k].f] <= Written[pc']
      BY <1>6, <1>9, <2>0, <2>2
    <3>3. \A k \in 1 .. Len(file') - 1 :
            FieldPos[file'[k].f] < FieldPos[file'[k + 1].f]
      BY <1>9, <2>0, <2>3
    <3>. QED BY <3>1, <3>2, <3>3, Zenon DEF OutputInv
  <2>. QED BY <1>1, <1>4, <1>7, <1>8, <2>1, <2>4 DEF WInv
<1>11. CASE file' = file
  <2>1. OutputInv'
    <3>1. pc' > 5 /\ ~(pc' <= 5)
      BY <1>1, <1>2, <1>4
    <3>2. ASSUME NEW k \in 1 .. Len(file)
          PROVE  FieldPos[file[k].f] <= Written[pc']
      <4>1. FieldPos[file[k].f] <= Written[pc] /\ file[k].f \in Fields
        BY <1>9
      <4>2. FieldPos[file[k].f] \in Int
        BY <1>0, <4>1
      <4>. QED BY <1>2, <1>3, <1>12, <1>4, <4>1, <4>2
    <3>. QED BY <1>6, <1>9, <1>11, <3>1, <3>2 DEF OutputInv
  <2>. QED BY <1>1, <1>4, <1>7, <1>8, <1>9, <1>11, <2>1 DEF WInv
<1>. QED BY <1>1, <1>10, <1>11 DEF Fwrite, Stmt

\* A read of the covmap, the data or the counters fills its buffer with
\* the pinned value; the covmap's yields the stored version, as its value
\* holds the 16 bytes the version is read from.
LEMMA GetGlobalDataWInv ==
    ASSUME WellFormedHeader, WInv, GetGlobalData
    PROVE  WInv'
<1> USE WriterAssumption
<1>1. pc \in 1 .. 20 /\ Program[pc].op = "read"
  BY StmtInRange DEF GetGlobalData, Stmt
<1>2. \/ pc = 7 /\ Stmt.arg = 3
      \/ pc = 17 /\ Stmt.arg = 1
      \/ pc = 19 /\ Stmt.arg = 0
  BY <1>1, ProgramShape DEF Stmt
<1>3. CASE Fatal
  BY <1>3, StopKeeps DEF GetGlobalData, Fatal
<1>4. CASE /\ info[Stmt.arg].me <= 1
           /\ data' = [data EXCEPT ![Stmt.arg] = <<Stmt.arg, info[Stmt.arg].vs>>]
           /\ verBytes' \in
                CASE Stmt.arg # 3                        -> {verBytes}
                  [] Stmt.arg = 3 /\ info[3].vs >= 16  -> {stored}
                  [] Stmt.arg = 3 /\ info[3].vs < 16   -> StrayBytes
           /\ Step
           /\ UNCHANGED <<status, info, file, nfail>>
           /\ UNCHANGED <<mapInfo, stored>>
  <2>1. /\ \A s \in PinIdx : s + 1 < pc => info[s] = mapInfo[s]
        /\ pc > 7 => verBytes = stored
        /\ pc > 17 => data[1] = <<1, mapInfo[1].vs>>
        /\ info \in [PinIdx -> Infos]
        /\ data \in [PinIdx -> Int \X Nat]
        /\ verBytes \in Nat
        /\ stored \in Versions
    BY DEF WInv, ReadInv
  <2>2. pc' = pc + 1 /\ pc' \in 1 .. Len(Program)
    BY <1>1, <1>2, <1>4, ProgramShape DEF Step
  <2>3. mapInfo[3].vs >= 16
    <3>1. mapInfo[3] \in [vs : ValueSizes[3], me : MaxEntries]
      BY DEF WInv, InfosOf, PinIdx, NUM_PINNED_MAPS
    <3>. QED BY <3>1 DEF WellFormedHeader
  <2>4. verBytes' \in Nat /\ (pc = 7 => verBytes' = stored)
                          /\ (pc # 7 => verBytes' = verBytes)
    <3>1. CASE pc = 7
      <4>1. Stmt.arg = 3 /\ info[3].vs >= 16 /\ info[3].vs \in Nat
        BY <1>2, <2>1, <2>3, <3>1 DEF PinIdx, NUM_PINNED_MAPS, Infos
      <4>2. (CASE Stmt.arg # 3                        -> {verBytes}
                [] Stmt.arg = 3 /\ info[3].vs >= 16  -> {stored}
                [] Stmt.arg = 3 /\ info[3].vs < 16   -> StrayBytes)
            = {stored}
        BY <4>1
      <4>. QED BY <1>4, <2>1, <3>1, <4>2
    <3>2. CASE pc # 7
      <4>1. Stmt.arg # 3
        BY <1>2, <3>2
      <4>2. (CASE Stmt.arg # 3                        -> {verBytes}
                [] Stmt.arg = 3 /\ info[3].vs >= 16  -> {stored}
                [] Stmt.arg = 3 /\ info[3].vs < 16   -> StrayBytes)
            = {verBytes}
        BY <4>1
      <4>. QED BY <1>4, <2>1, <3>2, <4>2
    <3>. QED BY <3>1, <3>2
  <2>5. Stmt.arg \in PinIdx
    BY <1>2 DEF PinIdx, NUM_PINNED_MAPS
  <2>6. data' \in [PinIdx -> Int \X Nat]
    <3>1. <<Stmt.arg, info[Stmt.arg].vs>> \in Int \X Nat
      <4>1. info[Stmt.arg] \in Infos /\ Stmt.arg \in Int
        BY <2>1, <2>5 DEF PinIdx, NUM_PINNED_MAPS
      <4>. QED BY <4>1 DEF Infos
    <3>. QED BY <1>4, <2>1, <2>5, <3>1
  <2>7. ReadInv'
    <3>1. \A s \in PinIdx : s + 1 < pc' => info'[s] = mapInfo'[s]
      <4>1. info' = info /\ mapInfo' = mapInfo /\ pc \in {7, 17, 19}
        BY <1>2, <1>4
      <4>. QED BY <2>1, <4>1 DEF PinIdx, NUM_PINNED_MAPS
    <3>2. pc' > 7 => verBytes' = stored'
      BY <1>2, <1>4, <2>1, <2>2, <2>4
    <3>3. pc' > 17 => data'[1] = <<1, mapInfo'[1].vs>>
      <4>1. CASE pc = 17
        <5>1. Stmt.arg = 1 /\ 1 \in PinIdx /\ 1 + 1 < pc
          BY <1>2, <4>1 DEF PinIdx, NUM_PINNED_MAPS
        <5>. QED BY <1>4, <2>1, <5>1
      <4>2. CASE pc # 17
        <5>1. pc' > 17 => pc > 17 /\ Stmt.arg = 0
          BY <1>2, <2>2, <4>2
        <5>. QED BY <1>4, <2>1, <5>1 DEF PinIdx, NUM_PINNED_MAPS
      <4>. QED BY <4>1, <4>2
    <3>4. pc' > 19 => data'[0] = <<0, mapInfo'[0].vs>>
      <4>1. pc' > 19 => pc = 19 /\ Stmt.arg = 0 /\ 0 \in PinIdx /\ 0 + 1 < pc
        BY <1>2, <2>2 DEF PinIdx, NUM_PINNED_MAPS
      <4>. QED BY <1>4, <2>1, <4>1
    <3>. QED BY <3>1, <3>2, <3>3, <3>4 DEF ReadInv
  <2>8. OutputInv'
    <3>1. Written[pc'] = Written[pc] /\ pc' > 5 /\ pc > 5
      <4>1. pc \in {7, 17, 19} /\ pc' = pc + 1
        BY <1>2, <2>2
      <4>. QED BY <4>1 DEF Written
    <3>2. SpecProfile' = SpecProfile
      BY <1>4, SpecProfileUnchanged
    <3>3. file' = file
      BY <1>4
    <3>4. /\ \A k \in 1 .. Len(file) :
               /\ file[k].f \in Fields
               /\ Agrees(file[k], SpecProfile[FieldPos[file[k].f]])
               /\ FieldPos[file[k].f] <= Written[pc]
          /\ \A k \in 1 .. Len(file) - 1 :
               FieldPos[file[k].f] < FieldPos[file[k + 1].f]
      BY <3>1 DEF WInv, OutputInv
    <3>5. ~(pc' <= 5)
      BY <3>1, <2>2
    <3>. QED BY <3>1, <3>2, <3>3, <3>4, <3>5, Zenon DEF OutputInv
  <2>. QED BY <1>4, <2>1, <2>2, <2>4, <2>6, <2>7, <2>8 DEF WInv
<1>. QED BY <1>3, <1>4 DEF GetGlobalData

\* No step of gen breaks WInv, with a well-formed covmap header.
LEMMA NextWInv ==
    ASSUME WellFormedHeader, WInv, [Next]_vars
    PROVE  WInv'
<1>1. CASE UNCHANGED vars
  BY <1>1, StopKeeps DEF vars
<1>2. CASE Fclose
  BY <1>2, StopKeeps DEF Fclose
<1>. QED BY <1>1, <1>2, GetMapInfoWInv, OpenOutputWInv, FwriteWInv,
            GetGlobalDataWInv DEF Next

\* FieldsInFormatOrder follows from WInv: the output is the previous file,
\* or the fields written since the fopen, in profile order.
LEMMA WInvOrder ==
    ASSUME WInv
    PROVE  FieldsInFormatOrder
<1>1. CASE pc <= 5
  <2>1. file = <<>> \/ file = <<Previous>>
    BY <1>1 DEF WInv, OutputInv
  <2>. QED BY <2>1 DEF FieldsInFormatOrder
<1>2. CASE pc > 5
  <2>1. /\ \A k \in 1 .. Len(file) :
             /\ file[k].f \in Fields
             /\ Agrees(file[k], SpecProfile[FieldPos[file[k].f]])
        /\ \A k \in 1 .. Len(file) - 1 :
             FieldPos[file[k].f] < FieldPos[file[k + 1].f]
    BY <1>2 DEF WInv, OutputInv
  <2>2. ASSUME NEW k \in 1 .. Len(file)
        PROVE  /\ \E j \in 1 .. Len(SpecProfile) : SpecProfile[j].f = file[k].f
               /\ Agrees(file[k], SpecProfile[Pos(file[k].f)])
    BY <2>1, PosIsFieldPos
  <2>3. ASSUME NEW k \in 1 .. Len(file) - 1
        PROVE  Pos(file[k].f) < Pos(file[k + 1].f)
    <3>1. k \in 1 .. Len(file) /\ k + 1 \in 1 .. Len(file)
      BY DEF WInv
    <3>. QED BY <2>1, <3>1, PosIsFieldPos
  <2>. QED BY <2>2, <2>3 DEF FieldsInFormatOrder
<1>. QED BY <1>1, <1>2 DEF WInv

\* For every size of the maps' values and every version, when the covmap
\* value holds the 16 bytes the version is read from, everything gen
\* writes after the fopen (cli.c:933-995) is a field of the profile of
\* spec 6 with its value, in the order of spec 6: fatal reads and failed
\* fwrites leave fields out, but none is misplaced, repeated or wrong.
THEOREM FormatOrder ==
    ASSUME WellFormedHeader
    PROVE  Spec => []FieldsInFormatOrder
<1>1. Init => WInv
  BY InitWInv
<1>2. WInv /\ [Next]_vars => WInv'
  BY NextWInv
<1>3. WInv => FieldsInFormatOrder
  BY WInvOrder
<1>. QED BY <1>1, <1>2, <1>3, PTL DEF Spec


\* The invariant TLC checks in run gen_format, for every value of the
\* constants, when the covmap value holds the 16 bytes the version is read
\* from: every info, data and counters buffer gen has read (cli.c:911-
\* 930, 732-772, 980-994) and the version it copied (951) are those of the
\* maps pinned for this invocation, and the output is the previous file
\* until the fopen, then spec 6's fields of those maps, in order, none of
\* them past the fwrite gen has reached.
THEOREM WInvHolds ==
    ASSUME WellFormedHeader
    PROVE  Spec => []WInv
<1>1. Init => WInv
  BY InitWInv
<1>2. WInv /\ [Next]_vars => WInv'
  BY NextWInv
<1>. QED BY <1>1, <1>2, PTL DEF Spec


-----------------------------------------------------------------------------
(* A run with no failed fwrite writes the whole profile.                   *)

\* After the fopen, every fwrite gen has reached either appended its item
\* or failed; with none failed, item k of the output is field k of the
\* profile.  gen returns 0 only from the fclose, the last statement.
CountInv ==
    /\ nfail \in Nat
    /\ pc <= 5 => nfail = 0
    /\ pc > 5 => Len(file) + nfail = Written[pc]
    /\ (pc > 5 /\ nfail = 0) => \A k \in 1 .. Len(file) : FieldPos[file[k].f] = k
    /\ status = "ok" => pc = Len(Program)


\* The statements that end gen, or leave pc, the output and the failure
\* count alone, keep CountInv.
LEMMA CountStopKeeps ==
    ASSUME CountInv, pc' = pc, file' = file, nfail' = nfail,
           status' \in {status, "failed"}
    PROVE  CountInv'
BY DEF CountInv

\* Every step of gen keeps CountInv.
LEMMA NextCountInv ==
    ASSUME WInv, CountInv, [Next]_vars
    PROVE  CountInv'
<1>0. pc \in 1 .. Len(Program) /\ Len(Program) = 21
  BY ProgramShape DEF WInv
<1>1. CASE UNCHANGED vars
  BY <1>1, CountStopKeeps DEF vars
<1>2. CASE Fclose
  <2>1. pc = Len(Program)
    <3>1. ~(pc \in 1 .. 20)
      BY <1>2, ProgramShape DEF Fclose, Stmt
    <3>. QED BY <1>0, <3>1
  <2>. QED BY <1>2, <2>1 DEF Fclose, CountInv
<1>3. CASE Fatal
  BY <1>3, CountStopKeeps DEF Fatal
<1>4. CASE GetMapInfo /\ ~Fatal
  <2>1. pc \in 1 .. 4 /\ pc' = pc + 1
    BY <1>4, StmtInRange, ProgramShape DEF GetMapInfo, Stmt, Step
  <2>2. file' = file /\ nfail' = nfail /\ status' = "running"
    BY <1>4 DEF GetMapInfo
  <2>. QED BY <2>1, <2>2 DEF CountInv
<1>5. CASE OpenOutput /\ ~Fatal
  <2>1. pc = 5 /\ pc' = 6
    BY <1>5, StmtInRange, ProgramShape DEF OpenOutput, Stmt, Step
  <2>2. file' = <<>> /\ nfail' = nfail /\ status' = "running"
    BY <1>5 DEF OpenOutput
  <2>3. Written[6] = 0
    BY DEF Written
  <2>. QED BY <2>1, <2>2, <2>3 DEF CountInv
<1>6. CASE Fwrite
  <2>1. /\ pc \in 1 .. 20
        /\ pc > 5
        /\ pc' = pc + 1
        /\ Program[pc].arg \in Fields
        /\ FieldPos[Program[pc].arg] = Written[pc] + 1
        /\ Written[pc + 1] = Written[pc] + 1
        /\ status' = "running"
    BY <1>6, StmtInRange, ProgramShape, Zenon DEF Fwrite, Stmt, Step
  <2>2. Len(file) + nfail = Written[pc] /\ nfail \in Nat /\ file \in Seq(FileItems)
    BY <2>1 DEF CountInv, WInv
  <2>3. CASE file' = Append(file, Item(Program[pc].arg)) /\ nfail' = nfail
    <3>1. Len(file') + nfail' = Written[pc'] /\ Len(file') = Len(file) + 1
      BY <2>1, <2>2, <2>3
    <3>2. ASSUME nfail' = 0 PROVE \A k \in 1 .. Len(file') : FieldPos[file'[k].f] = k
      <4>1. \A k \in 1 .. Len(file) : FieldPos[file[k].f] = k
        BY <2>1, <2>3, <3>2 DEF CountInv
      <4>2. Len(file) = Written[pc]
        BY <2>2, <2>3, <3>2
      <4>3. file'[Len(file) + 1].f = Program[pc].arg
        BY <2>2, <2>3 DEF Item
      <4>4. \A k \in 1 .. Len(file) : file'[k] = file[k]
        BY <2>2, <2>3
      <4>5. Len(file) \in Nat
        BY <2>2
      <4>6. ASSUME NEW k \in 1 .. Len(file') PROVE FieldPos[file'[k].f] = k
        <5>1. CASE k \in 1 .. Len(file)
          BY <4>1, <4>4, <5>1
        <5>2. CASE k = Len(file) + 1
          BY <2>1, <4>2, <4>3, <5>2
        <5>. QED BY <3>1, <4>5, <5>1, <5>2
      <4>. QED BY <4>6
    <3>3. nfail' \in Nat /\ pc' > 5 /\ ~(pc' <= 5) /\ status' # "ok"
      BY <2>1, <2>2, <2>3
    <3>. QED BY <3>1, <3>2, <3>3, Zenon DEF CountInv
  <2>4. CASE file' = file /\ nfail' = nfail + 1
    BY <2>1, <2>2, <2>4 DEF CountInv
  <2>. QED BY <1>6, <2>3, <2>4 DEF Fwrite, Stmt
<1>7. CASE GetGlobalData /\ ~Fatal
  <2>1. /\ pc \in 1 .. 20
        /\ pc \in {7, 17, 19}
        /\ pc' = pc + 1
        /\ Written[pc + 1] = Written[pc]
    BY <1>7, StmtInRange, ProgramShape DEF GetGlobalData, Stmt, Step
  <2>2. file' = file /\ nfail' = nfail /\ status' = "running"
    BY <1>7 DEF GetGlobalData
  <2>. QED BY <2>1, <2>2 DEF CountInv
<1>. QED BY <1>1, <1>2, <1>3, <1>4, <1>5, <1>6, <1>7 DEF Next

\* gen starts before the fopen, with no fwrite made.
LEMMA InitCountInv == Init => CountInv
BY DEF Init, CountInv

\* WInv and CountInv give WholeProfileWhenWritesSucceed.
LEMMA CountWhole ==
    ASSUME WInv, CountInv
    PROVE  WholeProfileWhenWritesSucceed
<1> SUFFICES ASSUME status = "ok", nfail = 0
             PROVE  /\ Len(file) = Len(SpecProfile)
                    /\ \A k \in 1 .. Len(file) : Agrees(file[k], SpecProfile[k])
  BY DEF WholeProfileWhenWritesSucceed
<1>1. pc = 21 /\ Written[21] = 12 /\ Len(SpecProfile) = 12
  BY ProgramShape DEF CountInv, Written, SpecProfile
<1>2. Len(file) = 12
  BY <1>1 DEF CountInv
<1>3. ASSUME NEW k \in 1 .. Len(file) PROVE Agrees(file[k], SpecProfile[k])
  <2>1. FieldPos[file[k].f] = k
    BY <1>1, <1>3 DEF CountInv
  <2>2. Agrees(file[k], SpecProfile[FieldPos[file[k].f]])
    BY <1>1, <1>3 DEF WInv, OutputInv
  <2>. QED BY <2>1, <2>2, Zenon
<1>. QED BY <1>1, <1>2, <1>3

\* The property TLC checks in run gen_format, for every value of the
\* constants, when the covmap value holds the 16 bytes the version is read
\* from: when gen returns 0 (cli.c:1049) and none of its fwrites
\* (943-995) failed, the output is the whole profile of spec 6 of the
\* pinned maps, each field once, in order, with its value.
THEOREM WholeProfile ==
    ASSUME WellFormedHeader
    PROVE  Spec => []WholeProfileWhenWritesSucceed
<1>1. Init => WInv /\ CountInv
  BY InitWInv, InitCountInv
<1>2. WInv /\ CountInv /\ [Next]_vars => WInv' /\ CountInv'
  BY NextWInv, NextCountInv
<1>3. WInv /\ CountInv => WholeProfileWhenWritesSucceed
  BY CountWhole
<1>. QED BY <1>1, <1>2, <1>3, PTL DEF Spec

=============================================================================
