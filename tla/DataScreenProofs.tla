--------------------------- MODULE DataScreenProofs ---------------------------
(***************************************************************************)
(* What the Data screen remembers of a batch is of that batch, what Next   *)
(* saved is what the later steps and a run read, and what it promised can  *)
(* run does: for any lists, exports, mappings, products and number of      *)
(* acts, kills and mishaps.                                                *)
(***************************************************************************)
EXTENDS DataScreen, FiniteSetTheorems, TLAPS

(* Of some numbers up to N one is the largest                              *)
LEMMA LargestExists ==
    ASSUME NEW N \in Nat, NEW T, T \subseteq 1 .. N, T # {}
    PROVE  \E i \in T : \A j \in T : j <= i
<1>. DEFINE D == {N - i : i \in T}
<1>1. D \subseteq Nat /\ D # {}
  <2>1. ASSUME NEW i \in T PROVE N - i \in Nat
    BY i \in 1 .. N
  <2>. QED
    BY <2>1
<1>2. PICK d \in D : \A e \in D : ~ (<<e, d>> \in OpToRel(<, Nat))
  <2>. HIDE DEF D
  <2>. QED
    BY <1>1, WFMin, NatLessThanWellFounded
<1>3. \A e \in D : ~ (e < d)
  <2>. HIDE DEF D
  <2>. QED
    BY <1>1, <1>2 DEF OpToRel
<1>4. PICK i \in T : d = N - i
  OBVIOUS
<1>5. ASSUME NEW j \in T PROVE j <= i
  <2>1. N - j \in D
    OBVIOUS
  <2>2. ~ (N - j < N - i)
    BY <2>1, <1>3, <1>4
  <2>. QED
    BY <2>2, <1>4
<1>. QED
  BY <1>5

(* Every number from 1 to their count is the place of one of some rows     *)
LEMMA NthIsThere ==
    ASSUME NEW N \in Nat, NEW rows, rows \subseteq 1 .. N
    PROVE  /\ Cardinality(rows) \in Nat
           /\ \A k \in 1 .. Cardinality(rows) : Nth(rows, k) \in rows
<1>. DEFINE upTo(i) == {j \in rows : j <= i}
            place == [i \in rows |-> Cardinality(upTo(i))]
            n == Cardinality(rows)
<1>1. IsFiniteSet(rows) /\ n \in Nat
  <2>1. IsFiniteSet(1 .. N)
    BY FS_Interval
  <2>2. IsFiniteSet(rows)
    BY <2>1, FS_Subset
  <2>. QED
    BY <2>2, FS_CardinalityType
<1>2. ASSUME NEW i \in rows PROVE Cardinality(upTo(i)) \in 1 .. n
  <2>1. upTo(i) \subseteq rows /\ i \in upTo(i)
    BY i \in 1 .. N
  <2>2. IsFiniteSet(upTo(i)) /\ Cardinality(upTo(i)) <= n
    <3>1. upTo(i) \in SUBSET rows
      BY <2>1
    <3>. HIDE DEF upTo
    <3>. QED
      BY <1>1, <3>1, FS_Subset
  <2>3. Cardinality(upTo(i)) \in Nat /\ Cardinality(upTo(i)) # 0
    BY <2>1, <2>2, FS_CardinalityType, FS_EmptySet
  <2>. QED
    BY <1>1, <2>2, <2>3
<1>3. ASSUME NEW i \in rows, NEW j \in rows, i < j
      PROVE  Cardinality(upTo(i)) # Cardinality(upTo(j))
  <2>1. upTo(i) \subseteq upTo(j) /\ j \notin upTo(i) /\ j \in upTo(j)
    <3>1. i \in Nat /\ j \in Nat /\ \A h \in rows : h \in Nat
      OBVIOUS
    <3>2. \A h \in rows : h <= i => h <= j
      BY <1>3, <3>1
    <3>3. ~ (j <= i) /\ j <= j
      BY <1>3, <3>1
    <3>. QED
      BY <3>2, <3>3
  <2>2. IsFiniteSet(upTo(j))
    <3>1. upTo(j) \subseteq rows
      OBVIOUS
    <3>. QED
      BY <1>1, <3>1, FS_Subset
  <2>3. upTo(i) \in SUBSET upTo(j) /\ upTo(i) # upTo(j)
    BY <2>1
  <2>. HIDE DEF upTo
  <2>. QED
    BY <2>2, <2>3, FS_Subset
<1>4. place \in Injection(rows, 1 .. n)
  <2>1. place \in [rows -> 1 .. n]
    BY <1>2
  <2>2. ASSUME NEW i \in rows, NEW j \in rows, place[i] = place[j] PROVE i = j
    <3>1. i \in 1 .. N /\ j \in 1 .. N
      OBVIOUS
    <3>. QED
      BY <1>3, <2>2, <3>1
  <2>. QED
    BY <2>1, <2>2 DEF Injection, IsInjective
<1>5. place \in Surjection(rows, 1 .. n)
  <2>1. IsFiniteSet(1 .. n) /\ Cardinality(1 .. n) = n
    BY <1>1, FS_Interval
  <2>. QED
    BY <1>4, <2>1, FS_Injection
<1>6. ASSUME NEW k \in 1 .. n PROVE Nth(rows, k) \in rows
  <2>1. PICK i \in rows : Cardinality(upTo(i)) = k
    BY <1>5 DEF Surjection
  <2>. QED
    BY <2>1 DEF Nth
<1>. QED
  BY <1>1, <1>6

(* What a save leaves of a list is a list, of the rows it keeps            *)
LEMMA KeepingKeeps ==
    ASSUME NEW list \in Seq(ListRows), NEW rows, rows \subseteq RowsOf(list)
    PROVE  /\ Keeping(list, rows) \in Seq(ListRows)
           /\ GtinsOf(Keeping(list, rows)) \subseteq {list[i].gtin : i \in rows}
<1>1. Len(list) \in Nat /\ rows \subseteq 1 .. Len(list) /\ RowsOf(list) = 1 .. Len(list)
  BY DEF RowsOf
<1>. DEFINE n == Cardinality(rows)
<1>2. n \in Nat /\ \A k \in 1 .. n : Nth(rows, k) \in rows
  BY <1>1, NthIsThere
<1>3. \A k \in 1 .. n : list[Nth(rows, k)] \in ListRows
  <2>1. \A i \in rows : list[i] \in ListRows
    BY <1>1
  <2>. QED
    BY <1>2, <2>1
<1>. HIDE DEF n
<1>4. Keeping(list, rows) = [k \in 1 .. n |-> list[Nth(rows, k)]]
  BY DEF Keeping, n
<1>5. Keeping(list, rows) \in [1 .. n -> ListRows]
  BY <1>3, <1>4
<1>6. Keeping(list, rows) \in Seq(ListRows)
  BY <1>2, <1>5
<1>7. GtinsOf(Keeping(list, rows)) \subseteq {list[i].gtin : i \in rows}
  BY <1>2, <1>4 DEF GtinsOf, RowsOf
<1>. QED
  BY <1>6, <1>7

(* Rows that count some products are some rows                             *)
LEMMA SomeRowsCount ==
    ASSUME NEW g, Cardinality(ProductsIn(g, {})) > 0
    PROVE  FALSE
<1>1. ProductsIn(g, {}) = {}
  BY DEF ProductsIn
<1>. QED
  BY <1>1, FS_EmptySet
-----------------------------------------------------------------------------
(* Types                                                                   *)
Names == DOMAIN Exports \cup {NoExport}
Bytes == [rows : Seq(ListRows), stamp : 0 .. MaxSeconds]
Picks == Modes \cup {NoMode}
Lines == [of : Bytes, against : Names, mode : Picks]
Saves == [bytes : Bytes, mode : Picks, ticked : SUBSET Products, judged : Names]

FilesTyped ==
    /\ listFile \in Bytes /\ selection \in Bytes
    /\ snapshot \in [of : Bytes, ticked : SUBSET Products]
    /\ export \in Names /\ parsed \in Names
    /\ dated \in [lists : SUBSET Bytes, selections : SUBSET Bytes]
    /\ history \in Seq(Lines)

TracesTyped == saves \in Seq(Saves) /\ mishaps \in Nat

TickSets == [unticked : SUBSET Nat, seeded : BOOLEAN, of : Seq(ListRows)]
Grids == [rows : Seq(ListRows), can : SUBSET Nat]
Readings == [previous : Names, going : BOOLEAN, here : BOOLEAN]

(* A screen past Data is open while its step is reached, and none when the *)
(* process is gone                                                         *)
ScreenTyped ==
    /\ reached \in 1 .. 4
    /\ open = Steps[reached] \/ (open = "closed" /\ reached = 1)
    /\ mode \in [picked : Picks, seeded : BOOLEAN]
    /\ ticks \in TickSets /\ grid \in Grids /\ reading \in Readings

TypeOK == FilesTyped /\ TracesTyped /\ ScreenTyped

(* The values that stand for nothing are of their types                    *)
LEMMA NothingTyped ==
    /\ NoList \in Bytes /\ NoSnapshot \in [of : Bytes, ticked : SUBSET Products]
    /\ NewList \in TickSets /\ NoGrid \in Grids /\ NotReading \in Readings
    /\ \A list \in Lists \cup {ByHand} : AsSent(list) \in Bytes
<1>1. <<>> \in Seq(ListRows) /\ 0 \in 0 .. MaxSeconds
  BY FilesAssumption
<1>2. NoList \in Bytes
  BY <1>1 DEF NoList, Bytes
<1>. QED
  BY <1>1, <1>2, FilesAssumption DEF NoSnapshot, NewList, TickSets, NoGrid, Grids, NotReading,
     Readings, Names, AsSent, Bytes

(* The save a selection is known by is one the ledger has, of its bytes    *)
LEMMA SaveIsRecorded ==
    ASSUME history \in Seq(Lines), NEW bytes
    PROVE  \/ SaveOf(bytes) = SelectionRecord(NoList, NoExport, NoMode)
           \/ \E i \in DOMAIN history : SaveOf(bytes) = history[i] /\ history[i].of = bytes
<1>1. CASE Records(bytes) = {}
  BY <1>1 DEF SaveOf
<1>2. CASE Records(bytes) # {}
  <2>1. Len(history) \in Nat /\ Records(bytes) \subseteq 1 .. Len(history)
    BY DEF Records
  <2>2. \E i \in Records(bytes) : \A j \in Records(bytes) : j <= i
    BY <1>2, <2>1, LargestExists
  <2>3. Newest(Records(bytes)) \in Records(bytes)
    BY <2>2 DEF Newest
  <2>. QED
    BY <2>3 DEF SaveOf, Records
<1>. QED
  BY <1>1, <1>2

(* The mode the ledger has for the batch is one that can be picked         *)
LEMMA BatchModeTyped ==
    ASSUME history \in Seq(Lines) PROVE BatchMode \in Picks
<1>1. \A i \in DOMAIN history : history[i] \in Lines
  OBVIOUS
<1>. QED
  BY <1>1, SaveIsRecorded DEF BatchMode, SelectionRecord, Lines, Picks

(* What can be saved                                                       *)
LEMMA ChosenTyped ==
    ASSUME TypeOK, NEW second \in 1 .. MaxSeconds
    PROVE  /\ Chosen(second) \in Bytes /\ Chosen(second) # NoList
           /\ GtinsOf(Chosen(second).rows) \subseteq
                 {grid.rows[i].gtin : i \in Runnable(grid, ticks)}
           /\ ProductsIn(grid, Ticked(grid, ticks)) \subseteq Products
<1>1. grid.rows \in Seq(ListRows)
  BY DEF TypeOK, ScreenTyped, Grids
<1>2. Runnable(grid, ticks) \subseteq RowsOf(grid.rows)
  BY DEF Runnable, Ticked, Rows
<1>3. /\ Keeping(grid.rows, Runnable(grid, ticks)) \in Seq(ListRows)
      /\ GtinsOf(Keeping(grid.rows, Runnable(grid, ticks))) \subseteq
            {grid.rows[i].gtin : i \in Runnable(grid, ticks)}
  BY <1>1, <1>2, KeepingKeeps
<1>4. MaxSeconds \in Nat /\ second \in 0 .. MaxSeconds /\ second # 0
  BY FilesAssumption
<1>5. \A i \in RowsOf(grid.rows) : grid.rows[i].gtin \in Products
  <2>1. \A i \in RowsOf(grid.rows) : grid.rows[i] \in ListRows
    BY <1>1 DEF RowsOf
  <2>. QED
    BY <2>1 DEF ListRows
<1>6. ProductsIn(grid, Ticked(grid, ticks)) \subseteq Products
  BY <1>5 DEF ProductsIn, Ticked, Rows
<1>. QED
  BY <1>3, <1>4, <1>6 DEF Chosen, Bytes, NoList

(* A save is made within the seconds there are                             *)
LEMMA SecondsTyped ==
    ASSUME NEW second \in Second
    PROVE  second \in 1 .. MaxSeconds
  BY DEF Second

-----------------------------------------------------------------------------
(* What a step may do to the files                                         *)

(* Nothing is saved: what the disk then has was there, was uploaded or has *)
(* a dated copy                                                            *)
Received ==
    /\ FilesTyped'
    /\ UNCHANGED <<saves, history>>
    /\ snapshot' \in {snapshot, NoSnapshot}
    /\ dated.lists \subseteq dated'.lists /\ dated.selections \subseteq dated'.selections
    /\ selection' \in {selection, NoList} \cup dated'.lists \cup dated'.selections
    /\ mishaps' \in Nat /\ (mishaps' = 0 => mishaps = 0)

(* A save has begun, and got as far as it got                              *)
Saved(second) ==
    /\ Saving
    /\ Traced(Chosen(second))
    /\ \E n \in 1 .. 4, kept \in BOOLEAN : Writes(Chosen(second), n, kept)
    /\ history' \in {history, Append(history, SelectionRecord(Chosen(second), export,
                                                              mode.picked))}

(* A mishap is counted; a patient step is none and meets no parse          *)
LEMMA ActsCount ==
    ASSUME mishaps \in Nat
    PROVE  /\ Mishap => mishaps' \in Nat /\ mishaps' # 0
           /\ Patiently => mishaps' \in Nat /\ (mishaps' = 0 => mishaps = 0 /\ ~reading.going)
  BY DEF Mishap, Patiently, Waits

(* A step that leaves the files alone receives nothing                     *)
LEMMA FilesStay ==
    ASSUME TypeOK, UNCHANGED files, UNCHANGED saves, mishaps' \in Nat, mishaps' = 0 => mishaps = 0
    PROVE  Received
  BY DEF TypeOK, FilesTyped, files, Received

(* An upload puts the list in place with a dated copy of it                *)
LEMMA ListsArrive ==
    ASSUME TypeOK, NEW list \in Lists, NEW n \in 1 .. 3, ListWrites(AsSent(list), n),
           UNCHANGED <<snapshot, export, parsed, history, saves>>,
           mishaps' \in Nat, mishaps' = 0 => mishaps = 0
    PROVE  Received
<1>1. AsSent(list) \in Bytes
  BY NothingTyped
<1>. QED
  BY <1>1 DEF TypeOK, FilesTyped, ListWrites, Received

(* Clear all takes files away and puts none in place                       *)
LEMMA FilesGo ==
    ASSUME TypeOK, NEW n, MovedAside(n), UNCHANGED saves,
           mishaps' \in Nat, mishaps' = 0 => mishaps = 0
    PROVE  Received
  BY NothingTyped DEF TypeOK, FilesTyped, MovedAside, Received, Names

(* Steps that do not save                                                  *)
LEMMA ReceivedSteps ==
    ASSUME TypeOK, [Next]_vars, ~(NextSaves \/ NextDies \/ NextRaises)
    PROVE  Received
<1>0. mishaps \in Nat
  BY DEF TypeOK, TracesTyped
<1>1. CASE \/ \E step \in {Steps[i] : i \in DOMAIN Steps} : Open(step)
           \/ \E m \in Offered : PickMode(m)
           \/ \E i \in Rows(grid) : Tick(i)
           \/ \E m \in Mappings : MappingChanged(m)
           \/ NextSavesNothing
  BY <1>0, <1>1, ActsCount, FilesStay
  DEF Open, PickMode, Tick, MappingChanged, NextSavesNothing, Pressed
<1>2. CASE LinksChecked \/ GoOn \/ ExportHangs \/ UNCHANGED vars
  BY <1>0, <1>2, ActsCount, FilesStay DEF LinksChecked, GoOn, ExportHangs, vars, traces
<1>3. CASE Kill
  <2>1. mishaps' \in Nat /\ (mishaps' = 0 => mishaps = 0)
    BY <1>0, <1>3, ActsCount DEF Kill
  <2>. QED
    BY <1>3, <2>1 DEF Kill, TypeOK, FilesTyped, Received
<1>4. ASSUME NEW list \in Lists, UploadList(list) \/ UploadListDies(list) PROVE Received
  <2>1. mishaps' \in Nat /\ (mishaps' = 0 => mishaps = 0)
    BY <1>0, <1>4, ActsCount DEF UploadList, UploadListDies
  <2>2. /\ \E n \in 1 .. 3 : ListWrites(AsSent(list), n)
        /\ UNCHANGED <<snapshot, export, parsed, history, saves>>
    BY <1>4 DEF UploadList, UploadListDies, RecordUpload
  <2>. QED
    BY <2>1, <2>2, ListsArrive
<1>5. ASSUME NEW e \in DOMAIN Exports, ReceiveExport(e) \/ PlaceExport(e) PROVE Received
  BY <1>0, <1>5, ActsCount
  DEF ReceiveExport, PlaceExport, TypeOK, FilesTyped, Received, Names
<1>6. CASE ExportRead
  BY <1>0, <1>6 DEF ExportRead, RecordUpload, traces, TypeOK, FilesTyped, Received
<1>7. CASE ExportRefused
  BY <1>0, <1>7
  DEF ExportRefused, traces, TypeOK, FilesTyped, ScreenTyped, Readings, Received
<1>8. CASE Clear
  BY <1>0, <1>8, ActsCount, FilesGo DEF Clear
<1>9. CASE ClearFails
  BY <1>0, <1>9, ActsCount, FilesGo DEF ClearFails
<1>10. ASSUME NEW bytes \in dated.lists \cup dated.selections, PutBack(bytes) PROVE Received
  BY <1>0, <1>10, ActsCount DEF PutBack, TypeOK, FilesTyped, Received
<1>. QED
  BY <1>1, <1>2, <1>3, <1>4, <1>5, <1>6, <1>7, <1>8, <1>9, <1>10 DEF Next, NextStep

(* Steps that do                                                           *)
LEMMA SavedSteps ==
    ASSUME TypeOK, NextSaves \/ NextDies \/ NextRaises
    PROVE  \E second \in 1 .. MaxSeconds : Saved(second)
<1>1. CASE NextSaves
  <2>1. PICK second \in Second, kept \in BOOLEAN :
            /\ Writes(Chosen(second), 4, kept) /\ Traced(Chosen(second))
            /\ RecordSelection(Chosen(second), mode.picked)
    BY <1>1 DEF NextSaves
  <2>2. history' \in {history, Append(history, SelectionRecord(Chosen(second), export,
                                                               mode.picked))}
    BY <2>1 DEF RecordSelection, Appended, NotAppended
  <2>3. Saving /\ 4 \in 1 .. 4
    BY <1>1 DEF NextSaves
  <2>. QED
    BY <2>1, <2>2, <2>3, SecondsTyped DEF Saved
<1>2. CASE NextDies
  <2>1. PICK second \in Second, n \in 1 .. 3 :
            Writes(Chosen(second), n, TRUE) /\ Traced(Chosen(second))
    BY <1>2 DEF NextDies
  <2>2. Saving /\ history' = history /\ n \in 1 .. 4
    BY <1>2 DEF NextDies, NotAppended
  <2>. QED
    BY <2>1, <2>2, SecondsTyped DEF Saved
<1>3. CASE NextRaises
  <2>1. PICK second \in Second :
            Writes(Chosen(second), 1, TRUE) /\ Traced(Chosen(second))
    BY <1>3 DEF NextRaises
  <2>2. Saving /\ history' = history /\ 1 \in 1 .. 4
    BY <1>3 DEF NextRaises
  <2>. QED
    BY <2>1, <2>2, SecondsTyped DEF Saved
<1>. QED
  BY <1>1, <1>2, <1>3

(* A save keeps the types, prunes no list, and is noted last               *)
LEMMA SavesAreTyped ==
    ASSUME TypeOK, NEW second \in 1 .. MaxSeconds, Saved(second)
    PROVE  /\ FilesTyped' /\ TracesTyped'
           /\ dated.lists \subseteq dated'.lists /\ dated.selections \subseteq dated'.selections
           /\ selection' = Chosen(second) /\ saves' # saves
           /\ saves' = Append(saves, [bytes |-> Chosen(second), mode |-> mode.picked,
                                      ticked |-> ProductsIn(grid, Ticked(grid, ticks)),
                                      judged |-> parsed])
           /\ Len(saves') = Len(saves) + 1 /\ Len(saves) \in Nat
           /\ \A i \in DOMAIN saves : i \in DOMAIN saves' /\ saves'[i] = saves[i]
           /\ mishaps' = 0 => mishaps = 0 /\ ~reading.going
<1>. PICK n \in 1 .. 4, kept \in BOOLEAN : Writes(Chosen(second), n, kept)
  BY DEF Saved
<1>. DEFINE bytes == Chosen(second)
            ticked == ProductsIn(grid, Ticked(grid, ticks))
<1>1. bytes \in Bytes /\ ticked \subseteq Products
  BY ChosenTyped
<1>2. saves' = Append(saves, [bytes |-> bytes, mode |-> mode.picked, ticked |-> ticked,
                              judged |-> parsed])
  BY DEF Saved, Traced
<1>3. mode.picked \in Picks /\ export \in Names /\ parsed \in Names /\ saves \in Seq(Saves)
  BY DEF TypeOK, ScreenTyped, FilesTyped, TracesTyped
<1>. HIDE DEF bytes, ticked
<1>4. saves' \in Seq(Saves)
  BY <1>1, <1>2, <1>3 DEF Saves
<1>5. SelectionRecord(bytes, export, mode.picked) \in Lines
  BY <1>1, <1>3 DEF SelectionRecord, Lines
<1>6. history' \in Seq(Lines)
  BY <1>5 DEF Saved, bytes, TypeOK, FilesTyped
<1>7. mishaps' \in Nat /\ (mishaps' = 0 => mishaps = 0 /\ ~reading.going)
  BY ActsCount DEF Saved, Saving, Pressed, TypeOK, TracesTyped
<1>8. Writes(bytes, n, kept)
  BY DEF bytes
<1>9. /\ listFile' \in Bytes /\ selection' = bytes
      /\ snapshot' \in [of : Bytes, ticked : SUBSET Products]
      /\ dated' \in [lists : SUBSET Bytes, selections : SUBSET Bytes]
      /\ dated.lists \subseteq dated'.lists /\ dated.selections \subseteq dated'.selections
      /\ UNCHANGED <<export, parsed>>
  <2>1. /\ listFile \in Bytes /\ selection \in Bytes
        /\ snapshot \in [of : Bytes, ticked : SUBSET Products]
        /\ dated \in [lists : SUBSET Bytes, selections : SUBSET Bytes]
    BY DEF TypeOK, FilesTyped
  <2>2. listFile' \in Bytes /\ selection' = bytes /\ UNCHANGED <<export, parsed>>
    BY <2>1, <1>8 DEF Writes
  <2>3. snapshot' \in {snapshot, [of |-> bytes, ticked |-> ticked]}
    BY <1>8 DEF Writes, ticked
  <2>4. PICK lists, selections :
            /\ dated' = [dated EXCEPT !.lists = lists, !.selections = selections]
            /\ lists \in {dated.lists, dated.lists \cup {selection}}
            /\ selections \in {dated.selections, dated.selections \cup {bytes}}
    BY <1>8 DEF Writes
  <2>5. snapshot' \in [of : Bytes, ticked : SUBSET Products]
    BY <1>1, <2>1, <2>3
  <2>6. lists \in SUBSET Bytes /\ selections \in SUBSET Bytes
    BY <1>1, <2>1, <2>4
  <2>7. dated' \in [lists : SUBSET Bytes, selections : SUBSET Bytes]
    BY <2>1, <2>4, <2>6
  <2>8. dated'.lists = lists /\ dated'.selections = selections
    BY <2>1, <2>4
  <2>. QED
    BY <2>2, <2>4, <2>5, <2>7, <2>8
<1>10. FilesTyped' /\ TracesTyped'
  BY <1>1, <1>3, <1>4, <1>6, <1>7, <1>9 DEF FilesTyped, TracesTyped
<1>11. /\ Len(saves') = Len(saves) + 1 /\ Len(saves) \in Nat /\ saves' # saves
       /\ \A i \in DOMAIN saves : i \in DOMAIN saves' /\ saves'[i] = saves[i]
  <2>1. PICK entry \in Saves : saves' = Append(saves, entry)
    BY <1>1, <1>2, <1>3 DEF Saves
  <2>2. saves \in Seq(Saves) /\ Len(saves) \in Nat
    BY <1>3
  <2>3. Len(saves') = Len(saves) + 1
    BY <2>1, <2>2
  <2>4. DOMAIN saves = 1 .. Len(saves) /\ DOMAIN saves' = 1 .. Len(saves) + 1
    BY <2>1, <2>2
  <2>5. \A i \in 1 .. Len(saves) : saves'[i] = saves[i]
    BY <2>1, <2>2
  <2>. QED
    BY <2>2, <2>3, <2>4, <2>5
<1>. QED
  BY <1>2, <1>7, <1>9, <1>10, <1>11 DEF bytes, ticked

-----------------------------------------------------------------------------
(* Where the operator is, and what is being read                           *)

(* The four screens are in their order                                     *)
LEMMA StepsInOrder ==
    /\ DOMAIN Steps = 1 .. 4 /\ Len(Steps) = 4
    /\ Steps[1] = "data" /\ Steps[2] = "content" /\ Steps[3] = "preflight"
    /\ Steps[4] = "publish"
    /\ \A i \in 1 .. 4 : Index(Steps[i]) = i
<1>1. /\ DOMAIN Steps = 1 .. 4 /\ Len(Steps) = 4
      /\ Steps[1] = "data" /\ Steps[2] = "content" /\ Steps[3] = "preflight"
      /\ Steps[4] = "publish"
  BY DEF Steps
<1>2. \A i, j \in 1 .. 4 : Steps[i] = Steps[j] => i = j
  BY <1>1
<1>. HIDE DEF Steps
<1>3. ASSUME NEW i \in 1 .. 4 PROVE Index(Steps[i]) = i
  BY <1>1, <1>2 DEF Index
<1>. QED
  BY <1>1, <1>3

(* On Data no later step is reached                                        *)
LEMMA DataIsFirst ==
    ASSUME ScreenTyped
    PROVE  open \in {"data", "closed"} <=> reached = 1
  BY StepsInOrder DEF ScreenTyped

(* Opening a screen lands on it, or on the furthest one reached            *)
LEMMA OpenLands ==
    ASSUME ScreenTyped, NEW step \in {Steps[i] : i \in DOMAIN Steps}, Open(step)
    PROVE  /\ reached' \in 1 .. reached /\ open' = Steps[reached']
           /\ open' = "data" => DrawData
           /\ open' # "data" => NoPage /\ UNCHANGED <<mode, ticks>>
<1>1. PICK i \in 1 .. 4 : step = Steps[i]
  BY StepsInOrder
<1>2. reached \in 1 .. 4
  BY DEF ScreenTyped
<1>3. Index(step) = i /\ Index(Steps[reached]) = reached
  BY <1>1, <1>2, StepsInOrder
<1>. QED
  BY <1>1, <1>2, <1>3 DEF Open

(* Next goes on to a later step                                            *)
LEMMA NextGoesOn ==
    ASSUME ScreenTyped, open = "data", Advance
    PROVE  reached' \in 2 .. 4 /\ open' = Steps[reached']
<1>1. reached = 1
  BY DataIsFirst
<1>2. PICK skip \in {{"content"}, {}} : reached' = Following(1, skip)
  BY <1>1 DEF Advance, NotNeeded
<1>3. \E j \in 2 .. 4 : /\ j = 4 \/ Steps[j] \notin skip
                        /\ \A k \in 2 .. j - 1 : Steps[k] \in skip
  <2>1. CASE skip = {}
    <3>1. \A k \in 2 .. 2 - 1 : FALSE
      OBVIOUS
    <3>. QED
      BY <2>1, <3>1
  <2>2. CASE skip = {"content"}
    <3>1. \A k \in 2 .. 3 - 1 : k = 2
      OBVIOUS
    <3>2. Steps[3] \notin skip /\ Steps[2] \in skip
      BY <2>2, StepsInOrder
    <3>. QED
      BY <3>1, <3>2
  <2>. QED
    BY <2>1, <2>2
<1>4. Following(1, skip) \in 2 .. 4
  <2>. DEFINE After(j) == /\ j = 4 \/ Steps[j] \notin skip
                          /\ \A k \in 2 .. j - 1 : Steps[k] \in skip
  <2>1. Following(1, skip) = CHOOSE j \in 2 .. 4 : After(j)
    BY StepsInOrder, 1 + 1 = 2 DEF Following
  <2>2. \E j \in 2 .. 4 : After(j)
    BY <1>3
  <2>. HIDE DEF After
  <2>. QED
    BY <2>1, <2>2
<1>. QED
  BY <1>2, <1>4 DEF Advance

(* What is read of the export is the export, but for one that did not read *)
(* and had none before it                                                  *)
Read(e) == parsed = e \/ (parsed = NoExport /\ ~Carried(e).parses)

ExportsAgree ==
    mishaps = 0 =>
        IF reading.going THEN open = "data" /\ reading.here /\ Read(reading.previous)
        ELSE Read(export)

ReadingMoves ==
    /\ reached' \in 1 .. 4
    /\ open' = Steps[reached'] \/ (open' = "closed" /\ reached' = 1)
    /\ mode' \in [picked : Picks, seeded : BOOLEAN] /\ reading' \in Readings
    /\ ExportsAgree'

(* A patient step is no mishap, for any state of its type                  *)
LEMMA PatientStays ==
    ASSUME TypeOK
    PROVE  /\ Patiently => mishaps' \in Nat /\ (mishaps' = 0 => mishaps = 0 /\ ~reading.going)
           /\ Mishap => mishaps' # 0
  BY ActsCount DEF TypeOK, TracesTyped

(* Every step leaves the parse and the export of one story                 *)
LEMMA ReadingSteps ==
    ASSUME TypeOK, ExportsAgree, [Next]_vars
    PROVE  ReadingMoves
<1>. USE DEF ReadingMoves
<1>0. /\ reached \in 1 .. 4 /\ (open = Steps[reached] \/ (open = "closed" /\ reached = 1))
      /\ mode \in [picked : Picks, seeded : BOOLEAN] /\ reading \in Readings
      /\ NotReading \in Readings /\ ~NotReading.going /\ NoMode \in Picks
      /\ BatchMode \in Picks
  BY NothingTyped, BatchModeTyped
  DEF TypeOK, ScreenTyped, FilesTyped, Picks, NotReading
<1>1. ASSUME NEW step \in {Steps[i] : i \in DOMAIN Steps}, Open(step) PROVE ReadingMoves
  <2>1. reached' \in 1 .. 4 /\ open' = Steps[reached']
    BY <1>0, <1>1, OpenLands DEF TypeOK
  <2>2. mode' \in [picked : Picks, seeded : BOOLEAN]
    <3>1. DrawData \/ UNCHANGED mode
      BY <1>1, OpenLands DEF TypeOK
    <3>2. mode' = mode \/ mode' = [picked |-> BatchMode, seeded |-> TRUE]
      BY <3>1 DEF DrawData
    <3>3. [picked |-> BatchMode, seeded |-> TRUE] \in [picked : Picks, seeded : BOOLEAN]
      BY <1>0
    <3>. HIDE DEF ReadingMoves
    <3>. QED
      BY <1>0, <3>2, <3>3
  <2>3. /\ reading' = [reading EXCEPT !.here = FALSE]
        /\ UNCHANGED <<export, parsed>> /\ Patiently
    BY <1>1 DEF Open, files
  <2>4. reading' \in Readings /\ reading'.going = reading.going
    BY <1>0, <2>3 DEF Readings
  <2>5. mishaps' = 0 => mishaps = 0 /\ ~reading.going
    BY <2>3, PatientStays
  <2>. QED
    BY <2>1, <2>2, <2>3, <2>4, <2>5 DEF ExportsAgree, Read
<1>2. ASSUME UNCHANGED <<open, reached, mode, reading, export, parsed>>,
             mishaps' = 0 => mishaps = 0
      PROVE  ReadingMoves
  BY <1>0, <1>2 DEF ExportsAgree, Read
<1>3. CASE Kill
  <2>1. UNCHANGED export /\ (mishaps' = 0 => mishaps = 0 /\ ~reading.going)
    BY <1>3, PatientStays DEF Kill
  <2>2. ~reading.going => parsed' = parsed
    BY <1>3 DEF Kill
  <2>3. /\ reached' = 1 /\ open' = "closed" /\ reading' = NotReading
        /\ mode' = [picked |-> NoMode, seeded |-> FALSE]
    BY <1>3 DEF Kill, Killed, Fresh
  <2>. QED
    BY <1>0, <2>1, <2>2, <2>3 DEF ExportsAgree, Read
<1>4. ASSUME NEW list \in Lists, UploadListDies(list) PROVE ReadingMoves
  <2>1. UNCHANGED <<export, parsed>> /\ (mishaps' = 0 => mishaps = 0 /\ ~reading.going)
    BY <1>4, PatientStays DEF UploadListDies
  <2>2. /\ reached' = 1 /\ open' = "closed" /\ reading' = NotReading
        /\ mode' = [picked |-> NoMode, seeded |-> FALSE]
    BY <1>4 DEF UploadListDies, Killed, Fresh
  <2>. QED
    BY <1>0, <2>1, <2>2 DEF ExportsAgree, Read
<1>5. ASSUME NEW list \in Lists, UploadList(list) PROVE ReadingMoves
  BY <1>2, <1>5, PatientStays DEF UploadList
<1>6. ASSUME NEW e \in DOMAIN Exports, ReceiveExport(e) PROVE ReadingMoves
  <2>1. /\ open = "data" /\ ~reading.going /\ mishaps' = mishaps
        /\ reading' = [previous |-> export, going |-> TRUE, here |-> TRUE]
        /\ UNCHANGED <<parsed, open, reached, mode>>
    BY <1>6 DEF ReceiveExport, Waits
  <2>2. reading' \in Readings
    BY <2>1 DEF Readings, TypeOK, FilesTyped
  <2>. QED
    BY <1>0, <2>1, <2>2 DEF ExportsAgree, Read
<1>7. ASSUME NEW e \in DOMAIN Exports, PlaceExport(e) PROVE ReadingMoves
  BY <1>0, <1>7, PatientStays DEF PlaceExport, process, ExportsAgree
<1>8. CASE ExportRead
  <2>1. parsed' = export /\ UNCHANGED <<export, open, reached, mode>> /\ reading' = NotReading
    BY <1>8 DEF ExportRead
  <2>. QED
    BY <1>0, <2>1 DEF ExportsAgree, Read
<1>9. CASE ExportRefused
  <2>1. /\ reading.going /\ ~Carried(export).parses /\ reading' = NotReading
        /\ export' = (IF reading.previous # NoExport THEN reading.previous ELSE export)
        /\ UNCHANGED <<parsed, open, reached, mode, mishaps>>
    BY <1>9 DEF ExportRefused, traces
  <2>. QED
    BY <1>0, <2>1 DEF ExportsAgree, Read
<1>10. CASE ExportHangs
  BY <1>0, <1>10, PatientStays DEF ExportHangs, ExportsAgree
<1>11. ASSUME NEW m \in Offered, PickMode(m) PROVE ReadingMoves
  <2>1. mode' = [mode EXCEPT !.picked = m] /\ m \in Picks
    BY <1>11, ScreenAssumption DEF PickMode, Picks
  <2>2. /\ UNCHANGED <<open, reached, reading, export, parsed>>
        /\ (mishaps' = 0 => mishaps = 0 /\ ~reading.going)
    BY <1>11, PatientStays DEF PickMode, files
  <2>. QED
    BY <1>0, <2>1, <2>2 DEF ExportsAgree, Read
<1>12. ASSUME NEW i \in Rows(grid), Tick(i) PROVE ReadingMoves
  BY <1>2, <1>12, PatientStays DEF Tick, files
<1>13. CASE LinksChecked \/ UNCHANGED vars
  BY <1>2, <1>13 DEF LinksChecked, files, traces, vars, process
<1>14. ASSUME NEW m \in Mappings, MappingChanged(m) PROVE ReadingMoves
  BY <1>2, <1>14, PatientStays DEF MappingChanged, files
<1>15. CASE Clear
  <2>1. parsed' = NoExport /\ export' = NoExport
    <3>1. /\ BatchFileNames[4] = "export" /\ BatchFileNames[5] = "products"
          /\ Len(BatchFileNames) = 5
      BY DEF BatchFileNames
    <3>2. 4 \in 1 .. 5 /\ 5 \in 1 .. 5
      OBVIOUS
    <3>. QED
      BY <1>15, <3>1, <3>2 DEF Clear, MovedAside
  <2>2. /\ UNCHANGED <<open, reached, reading>> /\ mode' = [mode EXCEPT !.picked = NoMode]
        /\ (mishaps' = 0 => mishaps = 0 /\ ~reading.going)
    BY <1>15, PatientStays DEF Clear
  <2>. QED
    BY <1>0, <2>1, <2>2 DEF ExportsAgree, Read
<1>16. CASE ClearFails
  BY <1>0, <1>16, PatientStays DEF ClearFails, process, ExportsAgree
<1>17. CASE NextSaves \/ NextSavesNothing
  <2>1. /\ Pressed /\ Advance /\ UNCHANGED <<mode, export, parsed>>
    BY <1>17 DEF NextSaves, NextSavesNothing, Saving, Writes, files
  <2>2. reached' \in 2 .. 4 /\ open' = Steps[reached']
    BY <2>1, NextGoesOn DEF Pressed, TypeOK
  <2>3. /\ reading' = [reading EXCEPT !.here = FALSE]
        /\ mishaps' = 0 => mishaps = 0 /\ ~reading.going
    BY <2>1, PatientStays DEF Pressed, Advance
  <2>4. reading' \in Readings /\ reading'.going = reading.going
    BY <1>0, <2>3 DEF Readings
  <2>. QED
    BY <1>0, <2>1, <2>2, <2>3, <2>4 DEF ExportsAgree, Read
<1>18. CASE NextDies
  <2>1. /\ Pressed /\ Killed /\ UNCHANGED <<export, parsed>>
    BY <1>18 DEF NextDies, Saving, Writes
  <2>2. mishaps' = 0 => mishaps = 0 /\ ~reading.going
    BY <2>1, PatientStays DEF Pressed
  <2>3. /\ reached' = 1 /\ open' = "closed" /\ reading' = NotReading
        /\ mode' = [picked |-> NoMode, seeded |-> FALSE]
    BY <2>1 DEF Killed, Fresh
  <2>. QED
    BY <1>0, <2>1, <2>2, <2>3 DEF ExportsAgree, Read
<1>19. CASE NextRaises
  <2>1. /\ Pressed /\ UNCHANGED <<export, parsed, open, reached, mode, reading>>
    BY <1>19 DEF NextRaises, Saving, Writes, process
  <2>. QED
    BY <1>2, <2>1, PatientStays DEF Pressed
<1>20. CASE GoOn
  <2>1. /\ open \in {"content", "preflight"} /\ reached' = reached + 1 /\ open' = Steps[reached']
        /\ UNCHANGED <<mode, reading, export, parsed, mishaps>>
    BY <1>20 DEF GoOn, files, traces
  <2>2. reached' \in 1 .. 4
    BY <1>0, <2>1, StepsInOrder
  <2>. QED
    BY <1>0, <2>1, <2>2 DEF ExportsAgree, Read
<1>21. ASSUME NEW bytes \in dated.lists \cup dated.selections, PutBack(bytes)
       PROVE  ReadingMoves
  BY <1>0, <1>21, PatientStays DEF PutBack, process, ExportsAgree
<1>. QED
  BY <1>1, <1>3, <1>4, <1>5, <1>6, <1>7, <1>8, <1>9, <1>10, <1>11, <1>12, <1>13, <1>14,
     <1>15, <1>16, <1>17, <1>18, <1>19, <1>20, <1>21 DEF Next, NextStep

-----------------------------------------------------------------------------
(* What step 5 shows                                                       *)

(* Next is enabled only while something ticked can run; without a mishap   *)
(* the grid is the one the disk gives, and ticks that were read are of the *)
(* list it shows                                                           *)
OnwardRuns == grid # NoGrid /\ onward => Runnable(grid, ticks) # {}

ScreenIsCurrent ==
    mishaps = 0 =>
        /\ grid # NoGrid => /\ grid = GridNow /\ selection # NoList
                            /\ ticks.seeded /\ open = "data"
        /\ ticks.seeded => ticks.of = Uploaded.rows

PageOK == grid \in Grids /\ ticks \in TickSets /\ OnwardRuns /\ ScreenIsCurrent

(* Drawing the list anew puts the page in order                            *)
LEMMA Draws ==
    ASSUME FilesTyped', NEW remembered \in TickSets, NEW left, DrawChoose(remembered, left),
           mishaps' = 0 => /\ open' = "data"
                           /\ remembered.seeded => remembered.of = Uploaded'.rows
    PROVE  PageOK'
<1>1. CASE ~(ready' /\ selection' # NoList)
  <2>1. grid' = NoGrid /\ ticks' = remembered
    BY <1>1 DEF DrawChoose
  <2>. QED
    BY <2>1, NothingTyped DEF PageOK, OnwardRuns, ScreenIsCurrent
<1>2. CASE ready' /\ selection' # NoList
  <2>. DEFINE rows == Uploaded'.rows
              again == [remembered EXCEPT !.unticked = @ \cap RowsOf(rows)]
              anew == [seeded |-> TRUE, of |-> rows,
                       unticked |-> UntickedBy(rows, TickedLastTime')]
  <2>1. /\ grid' = GridNow' /\ ticks' = (IF remembered.seeded THEN again ELSE anew)
        /\ counted' = Counted(grid', ticks')
        /\ onward' = (counted' > 0 /\ mode'.picked # NoMode)
    BY <1>2 DEF DrawChoose
  <2>2. Uploaded' \in Bytes /\ rows \in Seq(ListRows) /\ RowsOf(rows) \subseteq Nat
    <3>1. Uploaded' \in Bytes
      BY DEF FilesTyped, Uploaded
    <3>. QED
      BY <3>1 DEF Bytes, RowsOf
  <2>3. grid' \in Grids
    BY <2>1, <2>2 DEF GridNow, Grids
  <2>4. /\ again.seeded = remembered.seeded /\ again.of = remembered.of /\ again \in TickSets
        /\ anew.seeded /\ anew.of = rows /\ anew \in TickSets
    <3>1. again \in TickSets /\ again.seeded = remembered.seeded /\ again.of = remembered.of
      BY DEF TickSets
    <3>2. UntickedBy(rows, TickedLastTime') \subseteq Nat
      BY <2>2 DEF UntickedBy
    <3>. HIDE DEF rows
    <3>. QED
      BY <2>2, <3>1, <3>2 DEF TickSets
  <2>5. /\ ticks' \in TickSets /\ ticks'.seeded
        /\ mishaps' = 0 => ticks'.of = rows
    <3>. HIDE DEF again, anew, rows
    <3>. QED
      BY <2>1, <2>4 DEF rows
  <2>6. OnwardRuns'
    BY <2>1, SomeRowsCount DEF OnwardRuns, Counted
  <2>. QED
    BY <1>2, <2>1, <2>3, <2>5, <2>6 DEF PageOK, ScreenIsCurrent
<1>. QED
  BY <1>1, <1>2

(* So does a page without a list                                           *)
LEMMA Empties ==
    ASSUME ticks' \in TickSets, grid' = NoGrid,
           mishaps' = 0 => (ticks'.seeded => ticks'.of = Uploaded'.rows)
    PROVE  PageOK'
  BY NothingTyped DEF PageOK, OnwardRuns, ScreenIsCurrent

(* And a page that is left alone stays in order while its list does        *)
LEMMA Remains ==
    ASSUME PageOK, UNCHANGED <<grid, ticks, onward>>,
           mishaps' = 0 => /\ mishaps = 0 /\ (ticks.seeded => Uploaded' = Uploaded)
                           /\ grid # NoGrid => /\ GridNow' = GridNow /\ selection' # NoList
                                               /\ open' = "data"
    PROVE  PageOK'
  BY DEF PageOK, OnwardRuns, ScreenIsCurrent


(* Every step leaves the page in order                                     *)
LEMMA PageSteps ==
    ASSUME TypeOK, FilesTyped', PageOK, ExportsAgree, [Next]_vars
    PROVE  PageOK'
<1>0. ticks \in TickSets /\ NewList \in TickSets /\ ~NewList.seeded
  BY NothingTyped DEF PageOK, NewList
<1>1. ASSUME NEW step \in {Steps[i] : i \in DOMAIN Steps}, Open(step) PROVE PageOK'
  <2>1. /\ UNCHANGED <<listFile, selection>> /\ (mishaps' = 0 => mishaps = 0)
        /\ UNCHANGED Uploaded
    BY <1>1, PatientStays DEF Open, files, Uploaded
  <2>2. mishaps' = 0 => (ticks.seeded => ticks.of = Uploaded'.rows)
    BY <2>1 DEF PageOK, ScreenIsCurrent
  <2>3. CASE open' = "data" /\ BatchReady
    <3>1. DrawChoose(ticks, FALSE)
      BY <1>1, <2>3, OpenLands DEF TypeOK, DrawData
    <3>. QED
      BY <1>0, <2>2, <2>3, <3>1, Draws
  <2>4. CASE ~(open' = "data" /\ BatchReady)
    <3>1. grid' = NoGrid /\ ticks' = ticks
      BY <1>1, <2>4, OpenLands DEF TypeOK, DrawData, NoPage
    <3>. QED
      BY <1>0, <2>2, <3>1, Empties
  <2>. QED
    BY <2>3, <2>4
<1>2. CASE Kill \/ (\E list \in Lists : UploadListDies(list)) \/ NextDies
  <2>1. grid' = NoGrid /\ ticks' = NewList
    BY <1>2 DEF Kill, UploadListDies, NextDies, Killed, Fresh, NoPage
  <2>. QED
    BY <1>0, <2>1, Empties
<1>3. CASE (\E list \in Lists : UploadList(list)) \/ Clear
  <2>1. DrawChoose(NewList, FALSE) /\ open' = "data"
    BY <1>3 DEF UploadList, Clear, BatchChanged
  <2>. QED
    BY <1>0, <2>1, Draws
<1>4. ASSUME NEW e \in DOMAIN Exports, ReceiveExport(e) PROVE PageOK'
  <2>1. /\ UNCHANGED <<grid, ticks, onward, listFile, selection, parsed, mapping, mode, checked>>
        /\ UNCHANGED <<open, mishaps>>
    BY <1>4 DEF ReceiveExport, page
  <2>2. Uploaded' = Uploaded /\ GridNow' = GridNow
    BY <2>1 DEF Uploaded, GridNow, CanRunNow
  <2>. QED
    BY <2>1, <2>2, Remains DEF PageOK, ScreenIsCurrent
<1>5. CASE ExportRefused
  <2>1. /\ UNCHANGED <<grid, ticks, onward, listFile, selection, parsed, mapping, mode, checked>>
        /\ UNCHANGED <<open, mishaps>>
    BY <1>5 DEF ExportRefused, page, traces
  <2>2. Uploaded' = Uploaded /\ GridNow' = GridNow
    BY <2>1 DEF Uploaded, GridNow, CanRunNow
  <2>. QED
    BY <2>1, <2>2, Remains DEF PageOK, ScreenIsCurrent
<1>6. CASE ExportRead
  <2>1. /\ reading.going /\ UNCHANGED <<listFile, selection, open, mishaps>>
        /\ UNCHANGED Uploaded
    BY <1>6 DEF ExportRead, traces, Uploaded
  <2>2. mishaps' = 0 => /\ mishaps = 0 /\ open' = "data" /\ reading.here
                        /\ ticks.seeded => ticks.of = Uploaded'.rows
    BY <2>1 DEF PageOK, ScreenIsCurrent, ExportsAgree
  <2>3. CASE reading.here
    <3>1. DrawChoose(ticks, FALSE)
      BY <1>6, <2>3 DEF ExportRead, BatchChanged
    <3>. QED
      BY <1>0, <2>2, <3>1, Draws
  <2>4. CASE ~reading.here
    <3>1. UNCHANGED <<grid, ticks, onward>>
      BY <1>6, <2>4 DEF ExportRead, page
    <3>. QED
      BY <2>2, <2>4, <3>1, Remains
  <2>. QED
    BY <2>3, <2>4
<1>7. CASE \/ ExportHangs \/ ClearFails \/ (\E e \in DOMAIN Exports : PlaceExport(e))
           \/ \E bytes \in dated.lists \cup dated.selections : PutBack(bytes)
  <2>1. UNCHANGED <<grid, ticks, onward>> /\ Mishap
    BY <1>7 DEF ExportHangs, ClearFails, PlaceExport, PutBack, process, page
  <2>. QED
    BY <2>1, PatientStays, Remains
<1>8. ASSUME NEW left, DrawChoose(ticks, left),
             UNCHANGED <<listFile, selection>>, open' = "data", mishaps' = 0 => mishaps = 0
      PROVE  PageOK'
  <2>1. UNCHANGED Uploaded
    BY <1>8 DEF Uploaded
  <2>2. mishaps' = 0 => (ticks.seeded => ticks.of = Uploaded'.rows)
    BY <1>8, <2>1 DEF PageOK, ScreenIsCurrent
  <2>. QED
    BY <1>0, <1>8, <2>2, Draws
<1>9. ASSUME NEW m \in Offered, PickMode(m) PROVE PageOK'
  <2>1. /\ DrawChoose(ticks, counted > 0) /\ UNCHANGED <<listFile, selection>>
        /\ open' = "data" /\ Patiently
    BY <1>9 DEF PickMode, Recheck, files
  <2>. QED
    BY <1>8, <2>1, PatientStays
<1>10. CASE LinksChecked
  <2>1. /\ DrawChoose(ticks, onward) /\ UNCHANGED <<listFile, selection>>
        /\ open' = "data" /\ UNCHANGED mishaps
    BY <1>10 DEF LinksChecked, Recheck, files, traces
  <2>. QED
    BY <1>8, <2>1
<1>11. ASSUME NEW m \in Mappings, MappingChanged(m) PROVE PageOK'
  <2>1. /\ DrawChoose(ticks, onward) /\ UNCHANGED <<listFile, selection>>
        /\ open' = "data" /\ Patiently
    BY <1>11 DEF MappingChanged, Recheck, files
  <2>. QED
    BY <1>8, <2>1, PatientStays
<1>12. ASSUME NEW i \in Rows(grid), Tick(i) PROVE PageOK'
  <2>1. /\ ticks' = [ticks EXCEPT !.unticked = IF i \in @ THEN @ \ {i} ELSE @ \cup {i}]
        /\ counted' = Counted(grid, ticks') /\ onward' = (counted' > 0 /\ mode.picked # NoMode)
        /\ UNCHANGED <<grid, listFile, selection, parsed, mapping, mode, checked, open>>
        /\ Patiently
    BY <1>12 DEF Tick, files
  <2>2. i \in Nat
    BY DEF PageOK, Grids, Rows, RowsOf
  <2>3. ticks' \in TickSets /\ ticks'.seeded = ticks.seeded /\ ticks'.of = ticks.of
    BY <1>0, <2>1, <2>2 DEF TickSets
  <2>4. OnwardRuns'
    BY <2>1, SomeRowsCount DEF OnwardRuns, Counted
  <2>5. Uploaded' = Uploaded /\ GridNow' = GridNow
    BY <2>1 DEF Uploaded, GridNow, CanRunNow
  <2>6. ScreenIsCurrent'
    BY <2>1, <2>3, <2>5, PatientStays DEF PageOK, ScreenIsCurrent
  <2>. QED
    BY <2>1, <2>3, <2>4, <2>6 DEF PageOK
<1>13. CASE NextSaves \/ NextSavesNothing
  <2>1. grid' = NoGrid /\ ticks' = ticks /\ Patiently
    BY <1>13 DEF NextSaves, NextSavesNothing, Saving, Pressed, Advance, NoPage
  <2>2. ASSUME mishaps = 0 PROVE Uploaded' = Uploaded
    <3>1. CASE NextSavesNothing
      BY <3>1 DEF NextSavesNothing, files, Uploaded
    <3>2. CASE NextSaves
      <4>1. selection # NoList
        BY <2>2, <3>2 DEF NextSaves, Saving, PageOK, ScreenIsCurrent
      <4>2. listFile' = IF Seeds THEN selection ELSE listFile
        BY <3>2 DEF NextSaves, Writes
      <4>. QED
        BY <4>1, <4>2 DEF Seeds, Uploaded
    <3>. QED
      BY <1>13, <3>1, <3>2
  <2>3. mishaps' = 0 => (ticks'.seeded => ticks'.of = Uploaded'.rows)
    BY <2>1, <2>2, PatientStays DEF PageOK, ScreenIsCurrent
  <2>. QED
    BY <1>0, <2>1, <2>3, Empties
<1>14. CASE NextRaises
  <2>1. /\ UNCHANGED <<grid, ticks, onward, parsed, mapping, mode, checked, open>> /\ Patiently
        /\ listFile' = (IF Seeds THEN selection ELSE listFile)
        /\ \E second \in Second : selection' = Chosen(second)
        /\ grid # NoGrid
    BY <1>14 DEF NextRaises, Writes, process, page, Saving, Pressed
  <2>2. selection' # NoList
    BY <2>1, SecondsTyped, ChosenTyped
  <2>3. ASSUME mishaps = 0 PROVE Uploaded' = Uploaded
    <3>1. selection # NoList
      BY <2>1, <2>3 DEF PageOK, ScreenIsCurrent
    <3>. QED
      BY <2>1, <3>1 DEF Seeds, Uploaded
  <2>4. ASSUME mishaps = 0 PROVE GridNow' = GridNow
    BY <2>1, <2>3, <2>4 DEF GridNow, CanRunNow
  <2>5. mishaps' = 0 => mishaps = 0
    BY <2>1, PatientStays
  <2>. QED
    BY <2>1, <2>2, <2>3, <2>4, <2>5, Remains DEF PageOK, ScreenIsCurrent
<1>15. CASE GoOn
  <2>1. /\ UNCHANGED <<grid, ticks, onward, listFile, selection, mishaps>> /\ open # "data"
    BY <1>15 DEF GoOn, page, files, traces
  <2>. QED
    BY <2>1, Remains DEF PageOK, ScreenIsCurrent, Uploaded
<1>16. CASE UNCHANGED vars
  <2>1. /\ UNCHANGED <<grid, ticks, onward, listFile, selection, parsed, mapping, mode, checked>>
        /\ UNCHANGED <<open, mishaps>>
    BY <1>16 DEF vars, process, page, files, traces
  <2>2. Uploaded' = Uploaded /\ GridNow' = GridNow
    BY <2>1 DEF Uploaded, GridNow, CanRunNow
  <2>. QED
    BY <2>1, <2>2, Remains DEF PageOK, ScreenIsCurrent
<1>. QED
  BY <1>1, <1>2, <1>3, <1>4, <1>5, <1>6, <1>7, <1>9, <1>10, <1>11, <1>12, <1>13, <1>14,
     <1>15, <1>16 DEF Next, NextStep

-----------------------------------------------------------------------------
(* What the files say of the saves                                         *)

HistoryIsOfSaves ==
    \A i \in DOMAIN history : \E j \in DOMAIN saves :
        /\ saves[j].bytes = history[i].of /\ saves[j].mode = history[i].mode
        /\ mishaps = 0 => saves[j].judged = history[i].against

SnapshotIsOfSaves ==
    snapshot # NoSnapshot =>
        \E j \in DOMAIN saves :
            saves[j].bytes = snapshot.of /\ saves[j].ticked = snapshot.ticked

ListsAreKept ==
    selection # NoList =>
        \/ selection \in dated.lists \cup dated.selections
        \/ \E j \in DOMAIN saves : saves[j].bytes = selection
        \/ selection = AsSent(ByHand)

LedgerOK == HistoryIsOfSaves /\ SnapshotIsOfSaves /\ ListsAreKept

(* What is saved can run, by the rules of the export and the mapping       *)
RunsOn(g) ==
    /\ g \in Carried(parsed).carries
    /\ mode.picked # "links" =>
          \A named : g \notin HeldProducts(Carried(parsed), mapping, named)

(* What the screen lets run, the export and the rules let run              *)
LEMMA CanRunRuns ==
    ASSUME NEW g \in CanRunNow PROVE RunsOn(g)
<1>. DEFINE named == GtinsOf(Uploaded.rows) \cap Carried(parsed).carries
<1>1. CASE mode.picked = "links"
  BY <1>1 DEF CanRunNow, CanRun, EligibleForLinks, RunsOn
<1>2. CASE mode.picked # "links"
  <2>1. g \in EligibleForPages(Carried(parsed), mapping, named)
    BY <1>2 DEF CanRunNow, CanRun
  <2>2. g \in named /\ g \notin HeldProducts(Carried(parsed), mapping, named)
    BY <2>1 DEF EligibleForPages
  <2>3. \A any : g \notin HeldProducts(Carried(parsed), mapping, any)
    BY <2>2 DEF HeldProducts
  <2>. QED
    BY <2>2, <2>3 DEF RunsOn
<1>. QED
  BY <1>1, <1>2

(* What Next saves is what the screen said can run, of the export on disk  *)
LEMMA SavedRuns ==
    ASSUME TypeOK, PageOK, ExportsAgree, NEW second \in 1 .. MaxSeconds, Saved(second),
           mishaps' = 0
    PROVE  /\ parsed = export
           /\ \A g \in GtinsOf(Chosen(second).rows) : RunsOn(g)
<1>1. mishaps = 0 /\ ~reading.going /\ grid # NoGrid /\ onward
  BY SavesAreTyped DEF Saved, Saving, Pressed
<1>2. grid = GridNow
  BY <1>1 DEF PageOK, ScreenIsCurrent
<1>3. ASSUME NEW i \in Runnable(grid, ticks) PROVE RunsOn(grid.rows[i].gtin)
  <2>1. grid.rows[i].gtin \in CanRunNow
    BY <1>2, <1>3 DEF Runnable, GridNow
  <2>. QED
    BY <2>1, CanRunRuns
<1>4. \A g \in GtinsOf(Chosen(second).rows) : RunsOn(g)
  BY <1>3, ChosenTyped
<1>5. PICK i \in Runnable(grid, ticks) : TRUE
  BY <1>1 DEF PageOK, OnwardRuns
<1>6. Carried(parsed).carries # {}
  BY <1>3, <1>5 DEF RunsOn
<1>7. parsed # NoExport
  BY <1>6 DEF Carried, NothingCarried
<1>. QED
  BY <1>1, <1>4, <1>7 DEF ExportsAgree, Read

(* Every step keeps the ledger and the files of the saves                  *)
LEMMA LedgerSteps ==
    ASSUME TypeOK, PageOK, ExportsAgree, LedgerOK, [Next]_vars
    PROVE  LedgerOK'
<1>1. CASE Received
  <2>1. HistoryIsOfSaves'
    BY <1>1 DEF LedgerOK, HistoryIsOfSaves, Received
  <2>2. SnapshotIsOfSaves'
    BY <1>1 DEF LedgerOK, SnapshotIsOfSaves, Received
  <2>3. ListsAreKept'
    BY <1>1 DEF LedgerOK, ListsAreKept, Received
  <2>. QED
    BY <2>1, <2>2, <2>3 DEF LedgerOK
<1>2. ASSUME NEW second \in 1 .. MaxSeconds, Saved(second) PROVE LedgerOK'
  <2>. DEFINE entry == [bytes |-> Chosen(second), mode |-> mode.picked,
                        ticked |-> ProductsIn(grid, Ticked(grid, ticks)), judged |-> parsed]
              last == Len(saves')
  <2>1. /\ saves' = Append(saves, entry) /\ saves \in Seq(Saves)
        /\ selection' = Chosen(second)
        /\ \A i \in DOMAIN saves : i \in DOMAIN saves' /\ saves'[i] = saves[i]
        /\ mishaps' = 0 => mishaps = 0
    BY <1>2, SavesAreTyped DEF TypeOK, TracesTyped
  <2>2. last \in DOMAIN saves' /\ saves'[last] = entry
    <3>. HIDE DEF entry
    <3>. QED
      BY <2>1
  <2>3. HistoryIsOfSaves'
    <3>1. ASSUME NEW i \in DOMAIN history' PROVE
              \E j \in DOMAIN saves' :
                 /\ saves'[j].bytes = history'[i].of /\ saves'[j].mode = history'[i].mode
                 /\ mishaps' = 0 => saves'[j].judged = history'[i].against
      <4>. DEFINE line == SelectionRecord(Chosen(second), export, mode.picked)
      <4>1. history' \in {history, Append(history, line)} /\ history \in Seq(Lines)
        BY <1>2 DEF Saved, TypeOK, FilesTyped
      <4>2. CASE i \in DOMAIN history /\ history'[i] = history[i]
        <5>1. PICK j \in DOMAIN saves :
                 /\ saves[j].bytes = history[i].of /\ saves[j].mode = history[i].mode
                 /\ mishaps = 0 => saves[j].judged = history[i].against
          BY <4>2 DEF LedgerOK, HistoryIsOfSaves
        <5>. QED
          BY <2>1, <4>2, <5>1
      <4>3. CASE history'[i] = line
        <5>1. mishaps' = 0 => parsed = export
          BY <1>2, SavedRuns
        <5>. QED
          BY <2>2, <4>3, <5>1 DEF SelectionRecord
      <4>4. (i \in DOMAIN history /\ history'[i] = history[i]) \/ history'[i] = line
        <5>. HIDE DEF line
        <5>. QED
          BY <4>1
      <4>. QED
        BY <4>2, <4>3, <4>4
    <3>. QED
      BY <3>1 DEF HistoryIsOfSaves
  <2>4. SnapshotIsOfSaves'
    <3>1. snapshot' \in {snapshot, [of |-> Chosen(second),
                                    ticked |-> ProductsIn(grid, Ticked(grid, ticks))]}
      BY <1>2 DEF Saved, Writes
    <3>2. CASE snapshot' = snapshot
      BY <2>1, <3>2 DEF LedgerOK, SnapshotIsOfSaves
    <3>3. CASE snapshot' # snapshot
      BY <2>2, <3>1, <3>3 DEF SnapshotIsOfSaves
    <3>. QED
      BY <3>2, <3>3
  <2>5. ListsAreKept'
    BY <2>1, <2>2 DEF ListsAreKept
  <2>. QED
    BY <2>3, <2>4, <2>5 DEF LedgerOK
<1>. QED
  BY <1>1, <1>2, ReceivedSteps, SavedSteps

-----------------------------------------------------------------------------
(* Past Data                                                               *)

(* The selection is the last save's and can run, by what is on disk        *)
OfTheSave ==
    Patient /\ reached > 1 =>
        /\ saves # <<>> /\ selection = Last(saves).bytes /\ Last(saves).mode = mode.picked
        /\ \A g \in GtinsOf(selection.rows) : RunsOn(g)

(* Past the Data screen nothing moves the batch                            *)
LEMMA PastDataStays ==
    ASSUME OfTheSave, UNCHANGED <<saves, selection, parsed, mapping, mode, strayed>>,
           reached' > 1 => reached > 1, mishaps' = 0 => mishaps = 0
    PROVE  OfTheSave'
  BY DEF OfTheSave, Patient, RunsOn

(* What later screens work on stays the batch that was saved               *)
LEMMA PastDataSteps ==
    ASSUME TypeOK, TypeOK', PageOK, ExportsAgree, OfTheSave, [Next]_vars
    PROVE  OfTheSave'
<1>0. reached \in 1 .. 4 /\ reached' \in 1 .. 4 /\ (open = "data" => ~(reached > 1))
  BY DataIsFirst DEF TypeOK, ScreenTyped
<1>1. CASE reached' = 1
  BY <1>1 DEF OfTheSave
<1>2. CASE mishaps' # 0 \/ strayed'
  BY <1>2 DEF OfTheSave, Patient
<1>3. ASSUME open = "data", UNCHANGED reached PROVE OfTheSave'
  BY <1>0, <1>1, <1>3
<1>4. ASSUME NEW step \in {Steps[i] : i \in DOMAIN Steps}, Open(step) PROVE OfTheSave'
  <2>1. /\ UNCHANGED <<saves, selection, parsed, mapping, strayed>> /\ Patiently
    BY <1>4 DEF Open, files
  <2>2. /\ reached' \in 1 .. reached /\ open' = Steps[reached']
        /\ open' # "data" => UNCHANGED mode
    BY <1>4, OpenLands DEF TypeOK
  <2>3. CASE open' = "data"
    <3>1. reached' = 1 \/ reached' = 2 \/ reached' = 3 \/ reached' = 4
      BY <1>0
    <3>. QED
      BY <1>1, <2>2, <2>3, <3>1, StepsInOrder
  <2>4. CASE open' # "data"
    <3>1. (reached' > 1 => reached > 1) /\ (mishaps' = 0 => mishaps = 0)
      BY <1>0, <2>1, <2>2, PatientStays
    <3>. QED
      BY <2>1, <2>2, <2>4, <3>1, PastDataStays
  <2>. QED
    BY <2>3, <2>4
<1>5. CASE Kill \/ (\E list \in Lists : UploadListDies(list)) \/ NextDies
  BY <1>1, <1>5 DEF Kill, UploadListDies, NextDies, Killed, Fresh
<1>6. CASE \/ \E list \in Lists : UploadList(list)
           \/ \E e \in DOMAIN Exports : ReceiveExport(e)
           \/ \E m \in Offered : PickMode(m)
           \/ \E i \in Rows(grid) : Tick(i)
           \/ \E m \in Mappings : MappingChanged(m)
           \/ LinksChecked \/ Clear
  BY <1>3, <1>6 DEF UploadList, ReceiveExport, PickMode, Tick, MappingChanged, LinksChecked, Clear
<1>7. CASE \/ ExportHangs \/ ClearFails \/ (\E e \in DOMAIN Exports : PlaceExport(e))
           \/ \E bytes \in dated.lists \cup dated.selections : PutBack(bytes)
  <2>1. Mishap
    BY <1>7 DEF ExportHangs, ClearFails, PlaceExport, PutBack
  <2>. QED
    BY <1>2, <2>1, PatientStays
<1>8. CASE ExportRead
  <2>1. reading.going /\ UNCHANGED <<reached, mishaps>>
    BY <1>8 DEF ExportRead, traces
  <2>2. CASE mishaps = 0
    <3>1. open = "data"
      BY <2>1, <2>2 DEF ExportsAgree
    <3>. QED
      BY <1>3, <2>1, <3>1
  <2>. QED
    BY <1>2, <2>1, <2>2
<1>9. CASE ExportRefused
  BY <1>9, PastDataStays DEF ExportRefused, traces
<1>10. CASE NextSaves
  <2>1. CASE mishaps' = 0
    <3>1. PICK second \in 1 .. MaxSeconds : Saved(second)
      BY <1>10, SavedSteps
    <3>2. /\ selection' = Chosen(second) /\ saves \in Seq(Saves)
          /\ saves' = Append(saves, [bytes |-> Chosen(second), mode |-> mode.picked,
                                     ticked |-> ProductsIn(grid, Ticked(grid, ticks)),
                                     judged |-> parsed])
      BY <3>1, SavesAreTyped DEF TypeOK, TracesTyped
    <3>3. saves' # <<>> /\ Last(saves') = [bytes |-> Chosen(second), mode |-> mode.picked,
                                           ticked |-> ProductsIn(grid, Ticked(grid, ticks)),
                                           judged |-> parsed]
      <4>1. \A entry : Append(saves, entry) # <<>> /\ Last(Append(saves, entry)) = entry
        BY <3>2 DEF Last
      <4>. QED
        BY <3>2, <4>1
    <3>4. \A g \in GtinsOf(Chosen(second).rows) : RunsOn(g)
      BY <2>1, <3>1, SavedRuns
    <3>5. UNCHANGED <<parsed, mapping, mode>>
      BY <1>10 DEF NextSaves, Writes
    <3>6. \A g : RunsOn(g) => RunsOn(g)'
      BY <3>5 DEF RunsOn
    <3>. QED
      BY <3>2, <3>3, <3>4, <3>5, <3>6 DEF OfTheSave
  <2>. QED
    BY <1>2, <2>1
<1>11. CASE NextRaises
  BY <1>3, <1>11 DEF NextRaises, Saving, Pressed, process
<1>12. CASE NextSavesNothing
  BY <1>2, <1>12 DEF NextSavesNothing
<1>13. CASE GoOn
  <2>1. /\ UNCHANGED <<saves, selection, parsed, mapping, mode, strayed, mishaps>>
        /\ open \in {"content", "preflight"}
    BY <1>13 DEF GoOn, files, traces
  <2>2. reached > 1
    BY <1>0, <2>1, DataIsFirst DEF TypeOK
  <2>. QED
    BY <2>1, <2>2, PastDataStays
<1>14. CASE UNCHANGED vars
  BY <1>14, PastDataStays DEF vars, files, process, traces
<1>. QED
  BY <1>4, <1>5, <1>6, <1>7, <1>8, <1>9, <1>10, <1>11, <1>12, <1>13, <1>14 DEF Next, NextStep

-----------------------------------------------------------------------------
(* What always holds of the Data screen and of the files under it          *)
BatchInv == TypeOK /\ PageOK /\ ExportsAgree /\ LedgerOK /\ OfTheSave

(* The invariant holds at the start                                        *)
LEMMA InitBatchInv == Init => BatchInv
<1>. SUFFICES ASSUME Init PROVE BatchInv
  OBVIOUS
<1>. USE DEF Init, FilesInit
<1>1. ByHand \in Seq(ListRows) /\ AsSent(ByHand) \in Bytes /\ NoList \in Bytes
  BY NothingTyped, FilesAssumption
<1>2. FilesTyped /\ TracesTyped
  BY <1>1, NothingTyped DEF FilesTyped, TracesTyped, Names
<1>3. ScreenTyped
  BY NothingTyped DEF ScreenTyped, Picks
<1>4. PageOK
  BY NothingTyped DEF PageOK, OnwardRuns, ScreenIsCurrent, NewList
<1>5. ExportsAgree
  BY DEF ExportsAgree, Read, NotReading
<1>6. LedgerOK
  BY DEF LedgerOK, HistoryIsOfSaves, SnapshotIsOfSaves, ListsAreKept
<1>7. OfTheSave
  BY DEF OfTheSave
<1>. QED
  BY <1>2, <1>3, <1>4, <1>5, <1>6, <1>7 DEF BatchInv, TypeOK

(* And every step keeps it                                                 *)
LEMMA BatchInvSteps == BatchInv /\ [Next]_vars => BatchInv'
<1>. SUFFICES ASSUME BatchInv, [Next]_vars PROVE BatchInv'
  OBVIOUS
<1>1. TypeOK /\ PageOK /\ ExportsAgree /\ LedgerOK /\ OfTheSave
  BY DEF BatchInv
<1>2. FilesTyped' /\ TracesTyped'
  <2>1. CASE Received
    BY <1>1, <2>1 DEF Received, TypeOK, TracesTyped
  <2>2. CASE ~Received
    <3>1. \E second \in 1 .. MaxSeconds : Saved(second)
      BY <1>1, <2>2, ReceivedSteps, SavedSteps
    <3>. QED
      BY <1>1, <3>1, SavesAreTyped
  <2>. QED
    BY <2>1, <2>2
<1>3. PageOK'
  BY <1>1, <1>2, PageSteps
<1>4. ReadingMoves
  BY <1>1, ReadingSteps
<1>5. TypeOK'
  BY <1>2, <1>3, <1>4 DEF TypeOK, ScreenTyped, PageOK, ReadingMoves
<1>6. LedgerOK'
  BY <1>1, LedgerSteps
<1>7. OfTheSave'
  BY <1>1, <1>5, PastDataSteps
<1>. QED
  BY <1>3, <1>4, <1>5, <1>6, <1>7 DEF BatchInv, ReadingMoves

(* The Data screen and the batch files are always typed and in order       *)
THEOREM BatchHolds == Spec => []BatchInv
<1>. QED
  BY InitBatchInv, BatchInvSteps, PTL DEF Spec

(* Whatever is restarted, refused, torn or put back: the mode, the ticks   *)
(* and the provenance a list is given are those of a save of those very    *)
(* bytes, and the ticks in memory are of the list on the screen            *)
(* (lib/batch.py, lib/ticked_snapshot.py, ui/pages/data.py)                *)
THEOREM MemoryIsOfThisList == Spec => []RememberedIsOfThisList
<1>1. ASSUME BatchInv PROVE RememberedIsOfThisList
  <2>1. /\ history \in Seq(Lines) /\ LedgerOK /\ PageOK
    BY <1>1 DEF BatchInv, TypeOK, FilesTyped
  <2>2. \/ SaveOf(selection) = SelectionRecord(NoList, NoExport, NoMode)
        \/ \E i \in DOMAIN history : SaveOf(selection) = history[i] /\ history[i].of = selection
    BY <2>1, SaveIsRecorded
  <2>3. ModeIsOfTheseBytes
    BY <2>1, <2>2
    DEF ModeIsOfTheseBytes, BatchMode, LedgerOK, HistoryIsOfSaves, SelectionRecord
  <2>4. ChosenAgainstIsTrue
    <3>1. ASSUME Patient, ChosenAgainst = "this export"
          PROVE  \E i \in DOMAIN saves : saves[i].bytes = selection /\ saves[i].judged = export
      <4>1. SaveOf(selection).against = export /\ export # NoExport
        BY <3>1 DEF ChosenAgainst
      <4>2. PICK i \in DOMAIN history :
                SaveOf(selection) = history[i] /\ history[i].of = selection
        BY <2>2, <4>1 DEF SelectionRecord
      <4>. QED
        BY <2>1, <3>1, <4>1, <4>2 DEF LedgerOK, HistoryIsOfSaves, Patient
    <3>. QED
      BY <3>1 DEF ChosenAgainstIsTrue
  <2>5. TicksAreOfTheseBytes
    BY <2>1 DEF TicksAreOfTheseBytes, TickedLastTime, SnapshotMatches, LedgerOK, SnapshotIsOfSaves
  <2>6. TicksAreOfThisList
    BY <2>1 DEF TicksAreOfThisList, Patient, PageOK, ScreenIsCurrent, GridNow
  <2>. QED
    BY <2>3, <2>4, <2>5, <2>6 DEF RememberedIsOfThisList
<1>. QED
  BY <1>1, BatchHolds, PTL

(* Content, Preflight and Publish open on the batch that Next saved last,  *)
(* with the mode it was saved for (ui/pages/data.py, lib/batch.py)         *)
THEOREM StepsOpenOnTheirBatch == Spec => []OpenStepsHaveTheirBatch
<1>1. ASSUME BatchInv PROVE OpenStepsHaveTheirBatch
  <2>1. history \in Seq(Lines) /\ HistoryIsOfSaves /\ OfTheSave /\ saves \in Seq(Saves)
    BY <1>1 DEF BatchInv, TypeOK, FilesTyped, TracesTyped, LedgerOK
  <2>2. ASSUME Patient, reached > 1
        PROVE  \/ BatchMode \in {NoMode, mode.picked}
               \/ \E i \in 1 .. Len(saves) - 1 : saves[i].bytes = selection
    <3>1. CASE SaveOf(selection) = SelectionRecord(NoList, NoExport, NoMode)
      BY <3>1 DEF BatchMode, SelectionRecord
    <3>2. CASE \E i \in DOMAIN history :
                  SaveOf(selection) = history[i] /\ history[i].of = selection
      <4>1. PICK j \in DOMAIN saves : saves[j].bytes = selection /\ saves[j].mode = BatchMode
        BY <2>1, <3>2 DEF BatchMode, HistoryIsOfSaves
      <4>2. Last(saves).mode = mode.picked
        BY <2>1, <2>2 DEF OfTheSave
      <4>3. CASE j = Len(saves)
        BY <4>1, <4>2, <4>3 DEF Last
      <4>4. CASE j # Len(saves)
        <5>1. j \in 1 .. Len(saves) - 1
          BY <2>1, <4>1, <4>4
        <5>. QED
          BY <4>1, <5>1
      <4>. QED
        BY <4>3, <4>4
    <3>. QED
      BY <2>1, <3>1, <3>2, SaveIsRecorded
  <2>. QED
    BY <2>1, <2>2 DEF OpenStepsHaveTheirBatch, OfTheSave
<1>. QED
  BY <1>1, BatchHolds, PTL

(* What the screen promised can run, the plan made of the files holds none *)
(* of: the two ask the same rules of the same export and mapping           *)
(* (lib/eligibility.py, scripts/run.py)                                    *)
THEOREM PlansHoldNothingBack == Spec => []PlansKeepTheBatch
<1>1. ASSUME BatchInv PROVE PlansKeepTheBatch
  <2>1. ASSUME Patient, open = "publish", BatchMode = Last(saves).mode
        PROVE  PlannedProducts = GtinsOf(selection.rows)
    <3>1. reached > 1
      <4>1. reached \in 1 .. 4 /\ reached # 1
        BY <1>1, <2>1, DataIsFirst DEF BatchInv, TypeOK, ScreenTyped
      <4>. QED
        BY <4>1
    <3>2. BatchMode = mode.picked /\ \A g \in GtinsOf(selection.rows) : RunsOn(g)
      BY <1>1, <2>1, <3>1 DEF BatchInv, OfTheSave
    <3>3. GtinsOf(selection.rows) \cap Carried(parsed).carries = GtinsOf(selection.rows)
      BY <3>2 DEF RunsOn
    <3>4. CASE BatchMode = "links"
      BY <3>3, <3>4 DEF PlannedProducts
    <3>5. CASE BatchMode # "links"
      BY <3>2, <3>3, <3>5 DEF PlannedProducts, RunsOn
    <3>. QED
      BY <3>4, <3>5
  <2>. QED
    BY <2>1 DEF PlansKeepTheBatch
<1>. QED
  BY <1>1, BatchHolds, PTL

(* A save that replaces a list leaves it somewhere: in a dated copy, in    *)
(* the saves before it, or it is the one put by hand beside an upload      *)
(* (ui/process_list_edit.py, lib/input_layout.py)                          *)
THEOREM NoListIsLost == Spec => SavesLoseNoList
<1>. DEFINE Kept == \/ selection \in dated.lists' \cup dated.selections'
                    \/ \E i \in DOMAIN saves : saves[i].bytes = selection
                    \/ selection = AsSent(ByHand) /\ listFile # NoList
<1>1. ASSUME BatchInv, [Next]_vars, saves' # saves, selection # NoList PROVE Kept
  <2>1. TypeOK /\ ListsAreKept
    BY <1>1 DEF BatchInv, LedgerOK
  <2>2. PICK second \in 1 .. MaxSeconds : Saved(second)
    BY <1>1, <2>1, ReceivedSteps, SavedSteps DEF Received
  <2>3. dated.lists \subseteq dated'.lists /\ dated.selections \subseteq dated'.selections
    BY <2>1, <2>2, SavesAreTyped
  <2>4. CASE listFile = NoList
    <3>1. \E n : dated' = [dated EXCEPT !.lists = @ \cup {selection},
                                        !.selections = IF n >= 2 THEN @ \cup {Chosen(second)} ELSE @]
      BY <1>1, <2>2, <2>4 DEF Saved, Writes, Seeds
    <3>2. dated \in [lists : SUBSET Bytes, selections : SUBSET Bytes]
      BY <2>1 DEF TypeOK, FilesTyped
    <3>3. selection \in dated'.lists
      BY <3>1, <3>2
    <3>. QED
      BY <3>3
  <2>5. CASE listFile # NoList
    BY <1>1, <2>1, <2>3, <2>5 DEF ListsAreKept
  <2>. QED
    BY <2>4, <2>5
<1>2. BatchInv /\ [Next]_vars => (saves' # saves /\ selection # NoList => Kept)
  BY <1>1
<1>3. BatchInv /\ [Next]_vars => [saves' # saves /\ selection # NoList => Kept]_vars
  BY <1>2
<1>. QED
  BY <1>3, BatchHolds, PTL DEF Spec, SavesLoseNoList, Kept

===============================================================================
