----------------------------- MODULE DataScreen -----------------------------
(***************************************************************************)
(* The Data screen: ui/pages/data.py, ui/batch_grid.py, ui/progress.py and *)
(* what the Publish screen and a run then read of the batch.               *)
(*                                                                         *)
(* One operator, one window.  A handler without an await is one step; the  *)
(* upload of an export is two, with its parse in between.  The process may *)
(* be killed between any two steps, and while it saves.                    *)
(***************************************************************************)
EXTENDS BatchFiles

CONSTANTS Mappings,    \* what the video mapping may say
          Published,   \* products with a page of ours
          Offered,     \* the modes the operator chooses among
          MaxActs,     \* bound on uploads, saves, clearings, restarts and other changes
          MaxMishaps   \* bound on acts nobody waited for, and of other hands

ASSUME ScreenAssumption ==
    Offered \subseteq Modes /\ MaxActs \in Nat /\ MaxMishaps \in Nat

VARIABLES
    open,      \* the screen the operator is on
    reached,   \* the furthest step that may open
    mode,      \* what the batch publishes, and whether it was read from disk
    ticks,     \* the rows unticked; whether they were read from disk, of which list
    grid,      \* step 5: the list and which of its rows can run
    ready,     \* whether there was a batch when the page last looked
    counted,   \* ticked products that can run, when they were last counted
    onward,    \* whether Next is enabled
    reading,   \* the export being parsed
    checked,   \* what the links answered, for the life of the process
    mapping,   \* the video mapping
    saves,     \* history: the saves made, with what the operator saw
    strayed,   \* history: Next went on without a save
    acts,      \* history: how much the operator and the world did
    mishaps    \* history: how often something of the kind above happened

page == <<grid, ready, counted, onward>>
process == <<open, reached, mode, ticks, page, reading, checked>>
traces == <<saves, strayed, acts, mishaps>>
vars == <<files, process, mapping, traces>>

Steps == <<"data", "content", "preflight", "publish">>
NewList == [unticked |-> {}, seeded |-> FALSE, of |-> <<>>]
NoGrid == [rows |-> <<>>, can |-> {}]
NotReading == [previous |-> NoExport, going |-> FALSE, here |-> FALSE]

Index(step) == CHOOSE i \in DOMAIN Steps : Steps[i] = step
NotNeeded(m) == IF m = "links" THEN {"content"} ELSE {}

(* The step after this one, passing over those the batch does not need; the *)
(* last step is never passed over.                                          *)
Following(i, skip) ==
    CHOOSE j \in i + 1 .. Len(Steps) :
        /\ j = Len(Steps) \/ Steps[j] \notin skip
        /\ \A k \in i + 1 .. j - 1 : Steps[k] \in skip

Fresh ==   \* what a new process knows
    /\ reached' = 1
    /\ mode' = [picked |-> NoMode, seeded |-> FALSE]
    /\ ticks' = NewList
    /\ checked' = Unchecked
    /\ reading' = NotReading

NoPage == grid' = NoGrid /\ ready' = FALSE /\ counted' = 0 /\ onward' = FALSE

Init ==
    /\ FilesInit
    /\ open = "closed" /\ reached = 1
    /\ mode = [picked |-> NoMode, seeded |-> FALSE]
    /\ ticks = NewList
    /\ checked = Unchecked /\ reading = NotReading
    /\ grid = NoGrid /\ ready = FALSE /\ counted = 0 /\ onward = FALSE
    /\ mapping \in Mappings
    /\ saves = <<>> /\ strayed = FALSE /\ acts = 0 /\ mishaps = 0

-----------------------------------------------------------------------------
(* Step 5 *)

(* What the disk says can run now *)
CanRunNow == CanRun(mode.picked, Uploaded.rows, Carried(parsed), mapping,
                    Published, checked)

GridNow == [rows |-> Uploaded.rows,
            can |-> {i \in RowsOf(Uploaded.rows) : Uploaded.rows[i].gtin \in CanRunNow}]

UntickedBy(list, ticked) == {i \in RowsOf(list) : list[i].gtin \notin ticked}

Rows(g) == RowsOf(g.rows)
Ticked(g, t) == Rows(g) \ t.unticked
ProductsIn(g, rows) == {g.rows[i].gtin : i \in rows}
Runnable(g, t) == Ticked(g, t) \cap g.can
Counted(g, t) == Cardinality(ProductsIn(g, Runnable(g, t)))

(* Step 5 is built anew from disk, if the page knows of a batch and the    *)
(* selection still reads; counting the ticked enables Next.  Otherwise     *)
(* there is nothing to save, and Next stays as the caller left it.         *)
DrawChoose(remembered, left) ==
    IF ready' /\ selection' # NoList
    THEN /\ grid' = GridNow'
         /\ ticks' = IF remembered.seeded
                     THEN [remembered EXCEPT !.unticked = @ \cap RowsOf(Uploaded'.rows)]
                     ELSE [seeded |-> TRUE, of |-> Uploaded'.rows,
                           unticked |-> UntickedBy(Uploaded'.rows, TickedLastTime')]
         /\ counted' = Counted(grid', ticks')
         /\ onward' = (counted' > 0 /\ mode'.picked # NoMode)
    ELSE grid' = NoGrid /\ ticks' = remembered /\ counted' = counted /\ onward' = left

(* A list or an export arrived, or the batch was cleared *)
BatchChanged(remembered) == ready' = BatchReady' /\ DrawChoose(remembered, FALSE)

(* Only a redraw of step 5 *)
Recheck(left) == ready' = ready /\ DrawChoose(ticks, left)

(* Looks at the page change what is drawn while an export is being read. *)
Waits == ~reading.going
Act == acts < MaxActs /\ acts' = acts + 1
Mishap == mishaps < MaxMishaps /\ mishaps' = mishaps + 1
Patiently == IF Waits THEN UNCHANGED mishaps ELSE Mishap

-----------------------------------------------------------------------------
(* Opening screens *)

(* The page is built from disk; the mode and the ticks were read once. *)
DrawData ==
    /\ mode' = IF mode.seeded THEN mode ELSE [picked |-> BatchMode, seeded |-> TRUE]
    /\ ready' = BatchReady
    /\ IF BatchReady THEN DrawChoose(ticks, FALSE)
       ELSE grid' = NoGrid /\ ticks' = ticks /\ counted' = 0 /\ onward' = FALSE

\* Mutated form: any screen opens.
OpenAny(step) ==
    /\ Patiently
    /\ open' = step /\ reached' = Index(step)
    /\ reading' = [reading EXCEPT !.here = FALSE]
    /\ UNCHANGED <<files, checked, mapping, saves, strayed, acts>>
    /\ IF step = "data" THEN DrawData
       ELSE NoPage /\ UNCHANGED <<mode, ticks>>

Open(step) ==
    LET lands == IF Index(step) > reached THEN Steps[reached] ELSE step
    IN  /\ Patiently
        /\ open' = lands
        /\ reached' = Index(lands)
        /\ reading' = [reading EXCEPT !.here = FALSE]
        /\ UNCHANGED <<files, checked, mapping, saves, strayed, acts>>
        /\ IF lands = "data" THEN DrawData
           ELSE NoPage /\ UNCHANGED <<mode, ticks>>

(* A kill or a closed window.  A parse that is going on may still end, but *)
(* nobody waits for it.                                                    *)
Killed == open' = "closed" /\ Fresh /\ NoPage

Kill ==
    /\ open # "closed"
    /\ Act /\ Patiently
    /\ Killed
    /\ parsed' \in IF reading.going /\ Carried(export).parses THEN {parsed, export}
                   ELSE {parsed}
    /\ UNCHANGED <<listFile, selection, snapshot, export, dated, history, torn, mapping,
                   saves, strayed>>

-----------------------------------------------------------------------------
(* Uploads *)

(* A list is installed once it reads and names a product: the dated copy   *)
(* first, then the stable name, then the control file.                     *)
ListWrites(bytes, n) ==
    /\ dated' = [dated EXCEPT !.lists = @ \cup {bytes}]
    /\ listFile' = IF n >= 2 THEN bytes ELSE listFile
    /\ selection' = IF n >= 3 THEN bytes ELSE selection

UploadList(list) ==
    /\ open = "data" /\ list # <<>>
    /\ Act /\ Patiently
    /\ ListWrites(AsSent(list), 3)
    /\ RecordUpload
    /\ UNCHANGED <<snapshot, export, parsed, open, reached, mode, reading, checked,
                   mapping, saves, strayed>>
    /\ BatchChanged(NewList)

UploadListDies(list) ==
    /\ open = "data" /\ list # <<>>
    /\ Act /\ Patiently
    /\ \E n \in 1 .. 3 : ListWrites(AsSent(list), n)
    /\ Killed
    /\ UNCHANGED <<snapshot, export, parsed, history, torn, mapping, saves, strayed>>

(* The export is overwritten before it is read; the old one is kept in     *)
(* memory.                                                                 *)
ReceiveExport(e) ==
    /\ open = "data" /\ Waits /\ Act
    /\ reading' = [previous |-> export, going |-> TRUE, here |-> TRUE]
    /\ export' = e
    /\ UNCHANGED <<listFile, selection, snapshot, parsed, dated, history, torn, open,
                   reached, mode, ticks, page, checked, mapping, saves, strayed, mishaps>>

(* Read: products.json is written, and the page the upload came from is    *)
(* drawn anew, if it is still there.                                       *)
ExportRead ==
    /\ reading.going /\ Carried(export).parses
    /\ reading' = NotReading
    /\ parsed' = export
    /\ RecordUpload
    /\ UNCHANGED <<listFile, selection, snapshot, export, dated>>
    /\ UNCHANGED <<open, reached, mode, checked, mapping, traces>>
    /\ IF reading.here THEN BatchChanged(ticks) ELSE UNCHANGED <<page, ticks>>

(* Not read: the previous one is put back, if there was one. *)
ExportRefused ==
    /\ reading.going /\ ~Carried(export).parses
    /\ reading' = NotReading
    /\ export' = IF reading.previous # NoExport THEN reading.previous ELSE export
    /\ UNCHANGED <<listFile, selection, snapshot, parsed, dated, history, torn, open,
                   reached, mode, ticks, page, checked, mapping, traces>>

(* The parse hangs: the runner gives up and raises past the putting back. *)
ExportHangs ==
    /\ reading.going
    /\ Act /\ Mishap
    /\ reading' = NotReading
    /\ UNCHANGED <<files, open, reached, mode, ticks, page, checked, mapping,
                   saves, strayed>>

-----------------------------------------------------------------------------
(* What the operator does on the screen *)

PickMode(m) ==
    /\ open = "data" /\ m # mode.picked
    /\ Patiently
    /\ mode' = [mode EXCEPT !.picked = m]
    /\ UNCHANGED <<files, open, reached, reading, checked, mapping, saves, strayed, acts>>
    /\ Recheck(counted > 0)

Tick(i) ==
    /\ open = "data" /\ i \in Rows(grid)
    /\ Patiently
    /\ ticks' = [ticks EXCEPT !.unticked = IF i \in @ THEN @ \ {i} ELSE @ \cup {i}]
    /\ counted' = Counted(grid, ticks')
    /\ onward' = (counted' > 0 /\ mode.picked # NoMode)
    /\ UNCHANGED <<files, open, reached, mode, grid, ready, reading, checked, mapping,
                   saves, strayed, acts>>

(* The addresses of a links-only list are looked at off the screen; its    *)
(* answers are kept when the page has been left.                           *)
LinksChecked ==
    LET pending == PendingLinks(grid.rows, Published, checked)
    IN  /\ open = "data" /\ mode.picked = "links" /\ pending # {}
        /\ \E loads \in SUBSET pending :
              checked' = [loads |-> checked.loads \cup loads,
                          broken |-> checked.broken \cup (pending \ loads)]
        /\ UNCHANGED <<files, open, reached, mode, reading, mapping, traces>>
        /\ Recheck(onward)

(* The sign-off sheet was applied *)
MappingChanged(m) ==
    /\ open = "data" /\ m # mapping
    /\ Act /\ Patiently
    /\ mapping' = m
    /\ UNCHANGED <<files, open, reached, mode, reading, checked, saves, strayed>>
    /\ Recheck(onward)

(* Clear all.  Moving may fail half way, and the page then knows nothing   *)
(* of what was moved.                                                      *)
Clear ==
    /\ open = "data"
    /\ Act /\ Patiently
    /\ MovedAside(Len(BatchFileNames))
    /\ mode' = [mode EXCEPT !.picked = NoMode]
    /\ UNCHANGED <<open, reached, reading, checked, mapping, saves, strayed>>
    /\ BatchChanged(NewList)

ClearFails ==
    /\ open = "data"
    /\ Act /\ Mishap
    /\ \E n \in 1 .. Len(BatchFileNames) - 1 : MovedAside(n)
    /\ UNCHANGED <<process, mapping, saves, strayed>>

-----------------------------------------------------------------------------
(* Next: the ticked rows that can run become the control file, then their  *)
(* dated copy, the snapshot of what was ticked, and the line in the ledger *)

Pressed == open = "data" /\ onward /\ Act /\ Patiently
Saving == Pressed /\ grid # NoGrid

Chosen(second) == [rows |-> Keeping(grid.rows, Runnable(grid, ticks)), stamp |-> second]

Writes(bytes, n, kept) ==
    /\ listFile' = IF Seeds THEN selection ELSE listFile
    /\ selection' = bytes
    /\ dated' = [dated EXCEPT !.lists = IF Seeds THEN @ \cup {selection} ELSE @,
                              !.selections = IF n >= 2 THEN @ \cup {bytes} ELSE @]
    /\ snapshot' = IF n >= 3 /\ kept
                   THEN [of |-> bytes, ticked |-> ProductsIn(grid, Ticked(grid, ticks))]
                   ELSE snapshot
    /\ UNCHANGED <<export, parsed>>

Second == LET last == IF saves = <<>> THEN 1 ELSE saves[Len(saves)].bytes.stamp
          IN  {last, last + 1} \cap 1 .. MaxSeconds

Traced(bytes) ==
    saves' = Append(saves, [bytes |-> bytes, mode |-> mode.picked,
                            ticked |-> ProductsIn(grid, Ticked(grid, ticks)),
                            judged |-> parsed])

Advance ==
    LET next == Following(reached, NotNeeded(mode.picked))
    IN  /\ reached' = next
        /\ open' = Steps[next]
        /\ reading' = [reading EXCEPT !.here = FALSE]
        /\ NoPage

(* The snapshot may fail to be written; the operator is told. *)
NextSaves ==
    /\ Saving
    /\ \E second \in Second, kept \in BOOLEAN :
          /\ Writes(Chosen(second), 4, kept)
          /\ Traced(Chosen(second))
          /\ RecordSelection(Chosen(second), mode.picked)
    /\ Advance
    /\ UNCHANGED <<mode, ticks, checked, mapping, strayed>>

(* The process dies between two of the writes, or the dated copy cannot be *)
(* written and the operator stays where they are.                          *)
NextDies ==
    /\ Saving
    /\ \E second \in Second, n \in 1 .. 3 :
          Writes(Chosen(second), n, TRUE) /\ Traced(Chosen(second))
    /\ NotAppended
    /\ Killed
    /\ UNCHANGED <<mapping, strayed>>

NextRaises ==
    /\ Saving
    /\ \E second \in Second :
          Writes(Chosen(second), 1, TRUE) /\ Traced(Chosen(second))
    /\ UNCHANGED <<history, torn, process, mapping, strayed>>

(* Without a grid there is nothing to save, and Next just goes on. *)
NextSavesNothing ==
    /\ Pressed /\ grid = NoGrid
    /\ strayed' = TRUE
    /\ Advance
    /\ UNCHANGED <<files, mode, ticks, checked, mapping, saves>>

(* Next on a plan screen *)
GoOn ==
    /\ open \in {"content", "preflight"} /\ Index(open) = reached
    /\ reached' = reached + 1
    /\ open' = Steps[reached']
    /\ UNCHANGED <<files, mode, ticks, page, reading, checked, mapping, traces>>

-----------------------------------------------------------------------------
(* What comes of the batch: what run_plan makes of the files on disk.      *)
CanPlan == BatchMode # NoMode /\ selection # NoList /\ ~TargetsRefused(selection.rows)

PlannedProducts ==
    LET named == GtinsOf(selection.rows) \cap Carried(parsed).carries
    IN  IF BatchMode = "links" THEN named
        ELSE named \ HeldProducts(Carried(parsed), mapping, named)

(* Other hands: an older dated selection is copied back, an export is put  *)
(* in place without the screen.                                            *)
PutBack(bytes) ==
    /\ bytes \in dated.lists \cup dated.selections /\ bytes # selection
    /\ Act /\ Mishap
    /\ selection' = bytes
    /\ UNCHANGED <<listFile, snapshot, export, parsed, dated, history, torn, process,
                   mapping, saves, strayed>>

PlaceExport(e) ==
    /\ e # export
    /\ Act /\ Mishap
    /\ export' = e
    /\ UNCHANGED <<listFile, selection, snapshot, parsed, dated, history, torn, process,
                   mapping, saves, strayed>>

-----------------------------------------------------------------------------
NextStep == NextSaves \/ NextDies \/ NextRaises \/ NextSavesNothing \/ GoOn

Next ==
    \/ \E step \in {Steps[i] : i \in DOMAIN Steps} : Open(step)
    \/ Kill
    \/ \E list \in Lists : UploadList(list) \/ UploadListDies(list)
    \/ \E e \in DOMAIN Exports : ReceiveExport(e) \/ PlaceExport(e)
    \/ ExportRead \/ ExportRefused \/ ExportHangs
    \/ \E m \in Offered : PickMode(m)
    \/ \E i \in Rows(grid) : Tick(i)
    \/ LinksChecked
    \/ \E m \in Mappings : MappingChanged(m)
    \/ Clear \/ ClearFails
    \/ NextStep
    \/ \E bytes \in dated.lists \cup dated.selections : PutBack(bytes)

Spec == Init /\ [][Next]_vars

-----------------------------------------------------------------------------
Patient == mishaps = 0 /\ ~strayed

(* A batch publishes what was picked when these very bytes were saved, not *)
(* what was picked with another save, whatever list is in force and        *)
(* whatever line of the ledger was lost: lib/batch.py's _agreement.        *)
ModeIsOfTheseBytes ==
    BatchMode # NoMode =>
        \E i \in DOMAIN saves : saves[i].bytes = selection /\ saves[i].mode = BatchMode

(* After a restart the ticks are those of a save of this selection, or the *)
(* selection's own products: never another batch's, though the snapshot is *)
(* written after the selection and survives its replacement                *)
(* (lib/ticked_snapshot.py).                                               *)
TicksAreOfTheseBytes ==
    TickedLastTime \in {GtinsOf(selection.rows)} \cup
                      {saves[i].ticked : i \in {j \in DOMAIN saves : saves[j].bytes = selection}}

(* Ticks are row numbers, so they belong to one list: a list that arrives  *)
(* renumbers every row, and the ticks of the one before it do not apply.   *)
TicksAreOfThisList == Patient /\ grid # NoGrid => ticks.of = grid.rows

(* The ledger says that a selection was chosen against the export in force *)
(* only if its ticks were made on that export's products.                  *)
ChosenAgainstIsTrue ==
    Patient /\ ChosenAgainst = "this export" =>
        \E i \in DOMAIN saves : saves[i].bytes = selection /\ saves[i].judged = export

(* What is remembered of a list belongs to it: what it publishes, what was *)
(* ticked, on disk and in memory, and the export it was chosen against.    *)
(* Five files and the process hold these facts, each written on its own.   *)
RememberedIsOfThisList ==
    /\ ModeIsOfTheseBytes /\ ChosenAgainstIsTrue
    /\ TicksAreOfTheseBytes /\ TicksAreOfThisList

(* A step past Data opens on the batch that Next saved, and it publishes   *)
(* what was picked on Data, or does not say: after restarts, refused lines *)
(* and going back and forth.                                               *)
OpenStepsHaveTheirBatch ==
    Patient /\ reached > 1 =>
        /\ saves # <<>> /\ selection = Last(saves).bytes
        /\ Last(saves).mode = mode.picked
        /\ \/ BatchMode \in {NoMode, mode.picked}
           \/ \E i \in 1 .. Len(saves) - 1 : saves[i].bytes = selection

(* A save replaces no list that is kept nowhere, except what a save that   *)
(* was cut off left and a list put by hand beside an uploaded one.         *)
SavesLoseNoList ==
    [][saves' # saves /\ selection # NoList =>
          \/ selection \in dated.lists' \cup dated.selections'
          \/ \E i \in DOMAIN saves : saves[i].bytes = selection
          \/ selection = AsSent(ByHand) /\ listFile # NoList]_vars

(* What the screen said can run, the plan does not hold: run_plan asks the *)
(* same rules of the same files.                                           *)
PlansKeepTheBatch ==
    Patient /\ open = "publish" /\ CanPlan /\ BatchMode = Last(saves).mode =>
        PlannedProducts = GtinsOf(selection.rows)
=============================================================================
