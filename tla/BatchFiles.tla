----------------------------- MODULE BatchFiles -----------------------------
(***************************************************************************)
(* The files a batch is made of and the ledger that says what came from    *)
(* what: lib/input_layout.py, ui/process_list_edit.py, lib/provenance.py,  *)
(* lib/batch.py, lib/ticked_snapshot.py and lib/batch_reset.py.            *)
(*                                                                         *)
(* A file is its bytes.  An upload's are the list as sent, with stamp 0;   *)
(* those of a save are the rows with the second they were written in,      *)
(* which the workbook's members carry.                                     *)
(***************************************************************************)
EXTENDS Eligibility

CONSTANTS Lists,       \* the lists that may be uploaded, as sequences of rows
          ByHand,      \* a list that was put in place before the screen existed
          Exports,     \* per export: whether it parses, what it carries, lacks
          MaxSeconds   \* seconds in which a save may happen

ASSUME FilesAssumption ==
    /\ MaxSeconds \in Nat
    /\ Lists \subseteq Seq(ListRows) /\ ByHand \in Seq(ListRows)

NoList == [rows |-> <<>>, stamp |-> 0]          \* no list has no rows
NoSnapshot == [of |-> NoList, ticked |-> {}]
NoExport == "no export"
NothingCarried == [parses |-> FALSE, carries |-> {}, gaps |-> {}, imageless |-> {}]

VARIABLES
    listFile,   \* product-list.xlsx, the newest upload under its stable name
    selection,  \* selections.xlsx, the control file a run reads
    snapshot,   \* selections.ticked.json, with the bytes it was written for
    export,     \* export.xlsx
    parsed,     \* the export products.json was read from
    dated,      \* the dated copies of uploaded lists and of saved selections
    history,    \* history.jsonl: its lines about selections that can be read
    torn        \* whether its last line was cut off

files == <<listFile, selection, snapshot, export, parsed, dated, history, torn>>

AsSent(list) == [rows |-> list, stamp |-> 0]

(* A list that arrived by hand has no copy; everything else is empty. *)
FilesInit ==
    /\ selection \in {NoList} \cup {AsSent(ByHand)}
    /\ listFile = NoList /\ snapshot = NoSnapshot
    /\ export = NoExport /\ parsed = NoExport
    /\ dated = [lists |-> {}, selections |-> {}]
    /\ history = <<>> /\ torn = FALSE

(* What the screen knows of an export is what products.json has *)
Carried(e) == IF e = NoExport THEN NothingCarried ELSE Exports[e]

-----------------------------------------------------------------------------
(* A line joins what a cut-off line left behind and is lost with it.            *)
Appended(entry) ==
    /\ torn' = FALSE
    /\ IF torn THEN history' = history
       ELSE history' = Append(history, entry)

NotAppended == history' = history /\ torn' \in {torn, TRUE}

(* A line about an upload only names the dated copy it was kept as. *)
RecordUpload == history' = history /\ torn' \in BOOLEAN

SelectionRecord(bytes, from, mode) == [of |-> bytes, against |-> from, mode |-> mode]

(* Sources are identified by what is on disk when the save is recorded. *)
RecordSelection(bytes, mode) ==
    Appended(SelectionRecord(bytes, export, mode)) \/ NotAppended

Records(bytes) == {i \in DOMAIN history : history[i].of = bytes}

Newest(positions) == CHOOSE i \in positions : \A j \in positions : j <= i

\* Mutated form: the newest save is taken to be of the file on disk.
SaveLast(bytes) ==
    IF bytes = NoList \/ history = <<>> THEN SelectionRecord(NoList, NoExport, NoMode)
    ELSE history[Len(history)]

(* Which save made the selection in force, by its bytes: never just the    *)
(* newest one.                                                             *)
SaveOf(bytes) ==
    LET found == Records(bytes)
    IN  IF bytes = NoList \/ found = {} THEN SelectionRecord(NoList, NoExport, NoMode)
        ELSE history[Newest(found)]

BatchMode == SaveOf(selection).mode

ChosenAgainst ==
    LET against == SaveOf(selection).against
    IN  IF against = NoExport THEN "not recorded"
        ELSE IF against = export THEN "this export"
        ELSE "an earlier export"

BatchReady == export # NoExport /\ selection # NoList

-----------------------------------------------------------------------------
(* The list as it arrived, and what was ticked when it was saved: the      *)
(* snapshot only when it was written for these very bytes.                 *)
Uploaded == IF listFile # NoList THEN listFile ELSE selection

SnapshotMatches == snapshot # NoSnapshot /\ snapshot.of = selection

TickedLastTime ==
    IF SnapshotMatches THEN snapshot.ticked ELSE GtinsOf(selection.rows)

(* What a save leaves of a list: these rows, in their order *)
Nth(rows, k) == CHOOSE i \in rows : Cardinality({j \in rows : j <= i}) = k
Keeping(list, rows) == [k \in 1 .. Cardinality(rows) |-> list[Nth(rows, k)]]

\* Mutated form: a list put by hand is pruned as it stands.
NeverSeeds == FALSE

(* Before a save prunes a list that came by hand, it is filed as an upload *)
Seeds == selection # NoList /\ listFile = NoList

(* The live files a cleared batch moves aside, in the order it moves them *)
BatchFileNames == <<"selection", "list", "snapshot", "export", "products">>
MovedAside(n) ==
    LET gone(name) == \E i \in 1 .. n : BatchFileNames[i] = name
    IN  /\ selection' = IF gone("selection") THEN NoList ELSE selection
        /\ listFile' = IF gone("list") THEN NoList ELSE listFile
        /\ snapshot' = IF gone("snapshot") THEN NoSnapshot ELSE snapshot
        /\ export' = IF gone("export") THEN NoExport ELSE export
        /\ parsed' = IF gone("products") THEN NoExport ELSE parsed
        /\ UNCHANGED <<dated, history, torn>>
=============================================================================
