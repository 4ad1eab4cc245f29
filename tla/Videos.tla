------------------------------- MODULE Videos -------------------------------
(***************************************************************************)
(* The videos of the pages, from the client's sheet to the page: the panel *)
(* that fills the mapping (ui/video_signoff_panel.py, ui/video_map_panel.  *)
(* py, lib/video_signoff_archive.py), the plan that sees a video arrive    *)
(* (scripts/run_plan.py, lib/state.py) and the run that uploads it         *)
(* (scripts/run_execute.py).  The mapping is a file that everybody reads   *)
(* when they need it, and that is edited by hand between.                  *)
(***************************************************************************)
EXTENDS VideoSignoff

CONSTANTS InScope,     \* the products of the batch
          Sheets,      \* the sheets the client may send
          Exports,     \* the sets of products an export may carry
          Clients,     \* the video rule of a client, with the mapping it starts with
          ByHand,      \* the rows edited by hand, each with a cell it may get
          MaxSheets,   \* bound on the sheets sent
          MaxActs      \* bound on what the client, editors and failures do

Units == InScope \X Languages
NoPage == "none"    \* no page
NoVideo == "bare"   \* a page, or an entry, with no video
Shown == Files \cup {NoPage, NoVideo}

ASSUME VideosAssumption ==
    /\ InScope \subseteq Products /\ Clients \subseteq Rules \X Mappings
    /\ ByHand \subseteq Rows \X Cells
    /\ Sheets \subseteq Seq(Lines) /\ Exports \subseteq SUBSET Products
    /\ {NoPage, NoVideo} \cap Files = {}
    /\ MaxSheets \in Nat \ {0} /\ MaxActs \in Nat

VARIABLES
    rule,      \* the video rule of the client's configuration
    mapping,   \* videos/mapping.yml
    readable,  \* whether it is a mapping as it stands
    exported,  \* the products of the parsed export
    good,      \* the files of the folders that prepare
    sheets,    \* videos/signoff/, in the order the files were last written
    note,      \* signoff.json: the sheet whose columns were chosen, 0 for none
    panels,    \* what each sheet's window shows
    feed,      \* the content of the products
    saved,     \* state.json: what each page was published with
    pages,     \* the video each page shows
    plan,      \* plan.json: the units to write, and the content they have
    run,       \* the run that writes them
    unsure,    \* history: pages whose video changed since their entry was kept
    acts       \* history: how much was done by hand or failed

inputs == <<rule, exported, good, feed>>
folder == <<mapping, readable>>
archive == <<sheets, note, panels>>
published == <<saved, pages, unsure>>
vars == <<inputs, folder, archive, published, plan, run, acts>>

NoEntry == [content |-> 0, video |-> NoVideo, failed |-> NoFile]
NoPlan == [units |-> {}, content |-> 1]
Idle == [on |-> FALSE, read |-> <<>>, content |-> 1, todo |-> {}, doing |-> {},
         done |-> <<>>, kept |-> {}, mem |-> [u \in Units |-> NoEntry]]
Shut == [open |-> FALSE, sheet |-> <<>>, exported |-> {}, drawn |-> FALSE, fills |-> <<>>]

Init ==
    /\ \E client \in Clients : rule = client[1] /\ mapping = client[2]
    /\ readable = TRUE
    /\ exported = Products /\ good = Files
    /\ sheets = <<>> /\ note = 0 /\ panels = [n \in 1..MaxSheets |-> Shut]
    /\ feed = 1 /\ saved = [u \in Units |-> NoEntry] /\ pages = [u \in Units |-> NoPage]
    /\ plan = NoPlan /\ run = Idle /\ unsure = {} /\ acts = 0

Act == acts < MaxActs /\ acts' = acts + 1

-----------------------------------------------------------------------------
(* The mapping file by hand: a cell is set, cleared or added; it does not  *)
(* parse, and it does again                                                *)
HandEdit(r, c) ==
    /\ Act /\ readable
    /\ mapping' = [x \in DOMAIN mapping \cup {r} |-> IF x = r THEN c ELSE mapping[x]]
    /\ mapping' # mapping
    /\ UNCHANGED <<readable, inputs, archive, published, plan, run>>

HandBreaks ==
    /\ Act /\ readable /\ readable' = FALSE
    /\ UNCHANGED <<mapping, inputs, archive, published, plan, run>>

HandMends ==
    /\ ~readable /\ readable' = TRUE
    /\ UNCHANGED <<mapping, inputs, archive, published, plan, run, acts>>

(* Another export is parsed, a product changes, a file is spoilt or put in *)
Parse(products) ==
    /\ Act /\ exported' = products
    /\ UNCHANGED <<rule, good, feed, folder, archive, published, plan, run>>

ProductChanges ==
    /\ Act /\ feed' = feed + 1
    /\ UNCHANGED <<rule, exported, good, folder, archive, published, plan, run>>

FileSpoils(f) ==
    /\ Act /\ f \in good /\ good' = good \ {f}
    /\ UNCHANGED <<rule, exported, feed, folder, archive, published, plan, run>>

FileMended(f) ==
    /\ Act /\ f \notin good /\ good' = good \cup {f}
    /\ UNCHANGED <<rule, exported, feed, folder, archive, published, plan, run>>

-----------------------------------------------------------------------------
(* What a window makes of its sheet when it draws it: the note is written, *)
(* or fails to be; the plan needs a mapping that reads                     *)
Draw(n, panel, m) ==
    /\ note' \in {n, note}
    /\ panels' = [panels EXCEPT ![n] =
          [panel EXCEPT !.drawn = readable,
                        !.fills = IF readable THEN Edits(m, panel.sheet, panel.exported)
                                  ELSE <<>>]]

(* A sheet arrives and is kept; its columns are recognised, or not yet     *)
Upload(s) ==
    /\ Act
    /\ \E n \in 1..MaxSheets :
          LET panel == [open |-> TRUE, sheet |-> s, exported |-> exported,
                        drawn |-> FALSE, fills |-> <<>>]
          IN  /\ n = Len(sheets) + 1
              /\ sheets' = Append(sheets, [number |-> n, sheet |-> s, moved |-> FALSE])
              /\ \/ Draw(n, panel, mapping)
                 \/ panels' = [panels EXCEPT ![n] = panel] /\ UNCHANGED note
    /\ UNCHANGED <<inputs, folder, published, plan, run>>

ChooseColumns(n) ==
    /\ panels[n].open
    /\ Draw(n, panels[n], mapping)
    /\ UNCHANGED <<inputs, folder, sheets, published, plan, run, acts>>

(* The press plans the sheet again, against the mapping as it is now       *)
Fillable(n) == Edits(mapping, panels[n].sheet, panels[n].exported)

Apply(n) ==
    /\ panels[n].drawn /\ panels[n].fills # <<>> /\ readable
    /\ mapping' = Applied(mapping, Fillable(n))
    /\ Draw(n, panels[n], mapping')
    /\ UNCHANGED <<readable, inputs, sheets, published, plan, run, acts>>

(* A kept sheet is edited in place, and its columns move: it is now the    *)
(* last written of the folder                                              *)
SheetEdited(i) ==
    /\ Act
    /\ sheets' = Append(SubSeq(sheets, 1, i - 1) \o SubSeq(sheets, i + 1, Len(sheets)),
                        [sheets[i] EXCEPT !.moved = TRUE])
    /\ UNCHANGED <<inputs, folder, note, panels, published, plan, run>>

(* The sheet the report plans again, if any: the one last written, when    *)
(* its columns were chosen and are where they were                         *)
Newest ==
    {x \in {sheets[i] : i \in DOMAIN sheets} : x = sheets[Len(sheets)] /\ x.number = note}
Replanned == {x \in Newest : readable /\ ~x.moved}

-----------------------------------------------------------------------------
(* A file arrives when the page was recorded with another, or with none,   *)
(* and it is not the one that would not prepare                            *)
Arrives(entry, file) == file # NoFile /\ file \notin {entry.video, entry.failed}

ToWrite(u, file) ==
    \/ saved[u].content = 0
    \/ Arrives(saved[u], file)
    \/ saved[u].content # feed

(* Mutated form: a page waiting for its video is finished                  *)
PresentWaiting(g, m) ==
    \E l \in Languages : saved[<<g, l>>].content # 0

(* Published in every language it has, and waiting for nothing             *)
Present(g, m) ==
    LET entries == {l \in Languages : saved[<<g, l>>].content # 0}
    IN  entries # {} /\ \A l \in entries : ~Arrives(saved[<<g, l>>], Resolve(m, g, l))

(* A plan; with include, products that are finished are planned as well    *)
PlanAgain(include) ==
    LET m == IF readable THEN mapping ELSE <<>>
    IN  /\ ~run.on /\ (readable \/ rule = "off")
        /\ plan' = [content |-> feed,
                    units |-> {u \in Units :
                        /\ include \/ rule = "off" \/ ~Present(u[1], m)
                        /\ Admits(m, rule, u[1])
                        /\ ToWrite(u, Resolve(m, u[1], u[2]))}]
        /\ UNCHANGED <<inputs, folder, archive, published, run, acts>>

(* Mutated form: the run trusts the plan, and reads no gate                *)
StartRunPlanned ==
    /\ ~run.on /\ plan.units # {}
    /\ run' = [on |-> TRUE, read |-> IF readable THEN mapping ELSE <<>>,
               content |-> plan.content, doing |-> {}, done |-> <<>>, kept |-> {}, mem |-> saved,
               todo |-> plan.units]
    /\ UNCHANGED <<inputs, folder, archive, published, plan, acts>>

(* The gate is read once, when the run starts; a mapping that does not     *)
(* read closes it                                                          *)
StartRun ==
    /\ ~run.on /\ plan.units # {}
    /\ run' = [on |-> TRUE, read |-> IF readable THEN mapping ELSE <<>>,
               content |-> plan.content, doing |-> {}, done |-> <<>>, kept |-> {}, mem |-> saved,
               todo |-> {u \in plan.units :
                            rule = "off" \/ (readable /\ Admits(mapping, rule, u[1]))}]
    /\ UNCHANGED <<inputs, folder, archive, published, plan, acts>>

(* A row reads the mapping for itself.  A page can be given a video, never *)
(* have one taken off                                                      *)
RowFile(u) == IF readable THEN Resolve(mapping, u[1], u[2]) ELSE NoFile

(* Mutated form: the confirmed file is recorded, prepared or not           *)
RowEntryConfirmed(u) ==
    [content |-> run.content, failed |-> NoFile,
     video |-> IF RowFile(u) = NoFile THEN NoVideo ELSE RowFile(u)]

RowEntry(u) ==
    LET file == RowFile(u)
    IN  [content |-> run.content,
         video |-> IF file = NoFile THEN NoVideo
                   ELSE IF file \in good THEN file ELSE saved[u].video,
         failed |-> IF file \in Files \ good THEN file ELSE NoFile]

RowPage(u) ==
    IF RowFile(u) \in good THEN RowFile(u)
    ELSE IF pages[u] = NoPage THEN NoVideo ELSE pages[u]

WriteRow(u) ==
    /\ run.on /\ u \in run.todo /\ run.doing \subseteq {u[1]}
    /\ pages' = [pages EXCEPT ![u] = RowPage(u)]
    /\ run' = [run EXCEPT !.todo = @ \ {u}, !.doing = {u[1]},
                          !.done = [x \in DOMAIN @ \cup {u} |->
                                        IF x = u THEN RowEntry(u) ELSE @[x]]]
    /\ unsure' = IF RowPage(u) = pages[u] THEN unsure ELSE unsure \cup {u}
    /\ UNCHANGED <<inputs, folder, archive, saved, plan, acts>>

(* A product is whole: its entries are put in the state                    *)
Commit(g) ==
    /\ run.on /\ run.doing = {g} /\ \A u \in run.todo : u[1] # g
    /\ run' = [run EXCEPT !.doing = {}, !.done = <<>>, !.kept = @ \cup DOMAIN run.done,
                          !.mem = [u \in Units |-> IF u \in DOMAIN run.done
                                                   THEN run.done[u] ELSE @[u]]]
    /\ UNCHANGED <<inputs, folder, archive, published, plan, acts>>

(* An upload, a page or the record fails: the product is given up          *)
GiveUp(g) ==
    /\ Act /\ run.on /\ (run.doing = {g} \/ (run.doing = {} /\ \E u \in run.todo : u[1] = g))
    /\ run' = [run EXCEPT !.doing = {}, !.done = <<>>,
                          !.todo = {u \in @ : u[1] # g}]
    /\ UNCHANGED <<inputs, folder, archive, published, plan>>

EndRun ==
    /\ run.on /\ run.todo = {} /\ run.doing = {}
    /\ saved' = run.mem /\ run' = Idle
    /\ unsure' = unsure \ {u \in run.kept : run.mem[u].failed = NoFile}
    /\ UNCHANGED <<inputs, folder, archive, pages, plan, acts>>

Dies ==
    /\ Act /\ run.on /\ run' = Idle
    /\ UNCHANGED <<inputs, folder, archive, published, plan>>

-----------------------------------------------------------------------------
Operator ==
    \/ \E n \in 1..MaxSheets : ChooseColumns(n) \/ Apply(n)
    \/ \E include \in BOOLEAN : PlanAgain(include)
    \/ StartRun
RunSteps ==
    \/ \E u \in Units : WriteRow(u)
    \/ \E g \in InScope : Commit(g)
    \/ EndRun
Others ==
    \/ \E e \in ByHand : HandEdit(e[1], e[2])
    \/ HandBreaks \/ HandMends \/ ProductChanges
    \/ \E products \in Exports : Parse(products)
    \/ \E f \in Files : FileSpoils(f) \/ FileMended(f)
    \/ \E s \in Sheets : Upload(s)
    \/ \E i \in DOMAIN sheets : SheetEdited(i)
    \/ \E g \in InScope : GiveUp(g)
    \/ Dies

Next == Operator \/ RunSteps \/ Others

(* A run that has started goes on; the operator keeps planning and running *)
(* and puts right a mapping that does not read                             *)
Spec == /\ Init /\ [][Next]_vars
        /\ WF_vars(RunSteps) /\ WF_vars(HandMends)
        /\ SF_vars(PlanAgain(FALSE)) /\ SF_vars(StartRun)

-----------------------------------------------------------------------------
(* Type invariant: what is drawn, planned and run is of the mapping's rows *)
(* and of the batch, and a recorded or shown video is a file               *)
Entries == [content : Nat, video : Files \cup {NoVideo}, failed : Files \cup {NoFile}]
Kept == [number : 1..MaxSheets, sheet : Sheets, moved : BOOLEAN]
Panels == [open : BOOLEAN, sheet : Seq(Lines), exported : SUBSET Products, drawn : BOOLEAN,
           fills : UNION {[R -> Products \cup {Skip}] : R \in SUBSET Rows}]
Runs(D) == [on : BOOLEAN, read : Mappings, content : Nat, todo : SUBSET Units,
            doing : SUBSET InScope, done : [D -> Entries],
            kept : SUBSET Units, mem : [Units -> Entries]]

TypeOK ==
    /\ rule \in Rules /\ mapping \in Mappings /\ readable \in BOOLEAN
    /\ exported \subseteq Products /\ good \subseteq Files
    /\ sheets \in Seq(Kept) /\ note \in 0..MaxSheets
    /\ panels \in [1..MaxSheets -> Panels]
    /\ feed \in Nat /\ saved \in [Units -> Entries] /\ pages \in [Units -> Shown]
    /\ plan \in [units : SUBSET Units, content : Nat]
    /\ \E D \in SUBSET Units : run \in Runs(D)
    /\ unsure \subseteq Units /\ acts \in 0..MaxActs

(* What a run publishes is what the surfaces said it would, each by rules  *)
(* of its own, of the mapping as it was when the run started: a page comes *)
(* up, or its video changes, only of a product that neither the doctor nor *)
(* the report holds for its videos; what the run leaves out of its plan    *)
(* both hold; and a page that comes up bare, no file spoilt and the        *)
(* mapping still as it was read, is of a product that both list as         *)
(* publishing without (lib/video_status.py, held; lib/preflight.py,        *)
(* held_for_video; run_execute, _restrict_to_pilot).  With the rule off    *)
(* the report keeps its list of held products though nothing is held, and  *)
(* only the doctor's word counts.                                          *)
Held(m) ==
    HeldForVideo(m, rule) \cup (IF rule = "off" THEN {} ELSE ReportedHeld(m, rule))
SaidBare(m) == Bare(m, rule) \cap WithoutVideo(m, rule)
HeldMeansUnpublished ==
    [][/\ \A u \in Units : pages'[u] # pages[u] => u[1] \notin Held(run.read)
       /\ StartRun /\ readable =>
             \A u \in plan.units \ run'.todo :
                u[1] \in HeldForVideo(mapping, rule) \cap ReportedHeld(mapping, rule)
       /\ \A u \in Units : pages[u] = NoPage /\ pages'[u] = NoVideo /\ rule = "bare" =>
             \/ u[1] \in SaidBare(run.read)
             \/ RowFile(u) \in Files \ good
             \/ ~readable \/ run.read # mapping]_vars

(* What is signed off stays: a press of Fill in leaves every row that was  *)
(* confirmed or marked skip as it is, whatever was edited by hand since    *)
(* the plan was drawn (ui/video_signoff_panel.py, apply)                   *)
SignedOffStays ==
    [][\A n \in 1..MaxSheets : Apply(n) =>
          \A r \in DOMAIN mapping : mapping[r] # Unset => mapping'[r] = mapping[r]]_vars

(* A press of Fill in makes no product clash, neither with what the        *)
(* mapping says nor by two lines of the sheet (lib/video_signoff.py,       *)
(* _mark_ambiguous)                                                        *)
ApplyAddsNoClash ==
    [][\A n \in 1..MaxSheets : Apply(n) => Clashing(mapping') \subseteq Clashing(mapping)]_vars

(* A press of Fill in fills all it can: the report, which reads sheet and  *)
(* mapping for itself, finds nothing of that sheet to fill in any more,    *)
(* and what it did find agrees with the mapping, where the export is the   *)
(* window's and no two lines answer differently for one row (scripts/      *)
(* report_quality.py, _signoff_review; "nothing left to apply", ui/        *)
(* video_signoff_panel.py).  Of two such lines only one is filled, and     *)
(* what the other made ambiguous may then be filled by a second press      *)
PressSettles ==
    [][\A n \in 1..MaxSheets : Apply(n) =>
          \A x \in Replanned' :
             x.number = n /\ panels[n].exported = exported
               /\ OneAnswerEach(mapping, x.sheet, exported)
                 => /\ DOMAIN Edits(mapping', x.sheet, exported) = {}
                    /\ Fills(mapping, x.sheet, exported)
                          \subseteq Unchanged(mapping', x.sheet, exported)]_vars

(* A press of Fill in adds what the sheet gives and no more: what was      *)
(* signed off stays, no product clashes that did not, and nothing that     *)
(* could be filled is left                                                 *)
FillsOnlyAdd == SignedOffStays /\ ApplyAddsNoClash /\ PressSettles

(* The page shows the video its entry records, unless a run changed the    *)
(* video since and kept no entry that names it: a file that does not       *)
(* prepare leaves entry and page as they were, a file that does changes    *)
(* both, whatever happens to the mapping and the folders between           *)
(* (scripts/run_execute.py, _write_page and _video_media_id)               *)
RecordedVideoShows ==
    \A u \in Units \ unsure : saved[u].video \in Files => pages[u] = saved[u].video

(* Under the strict rule no page goes live without a video, unless the     *)
(* mapping changed under the run or the file does not prepare (lib/        *)
(* media_video.py, fully_mapped_gtins; run_execute, _restrict_to_pilot)    *)
StrictPagesCarryVideo ==
    [][\A u \in Units :
          (pages[u] = NoPage /\ pages'[u] = NoVideo) =>
              rule # "strict" \/ ~readable \/ run.read # mapping
                  \/ Resolve(mapping, u[1], u[2]) \in Files \ good]_vars

(* A confirmed video arrives: once nobody edits and nothing fails any more *)
(* and the operator keeps planning and running, every admitted page is     *)
(* recorded with the file confirmed to it, or with its failure to prepare, *)
(* planning finished products or not (lib/state.py, video_arrived;         *)
(* scripts/run_plan.py, the gate on what is already present)               *)
Waits(u) ==
    /\ Admits(mapping, rule, u[1])
    /\ Resolve(mapping, u[1], u[2]) \notin {NoFile, saved[u].video, saved[u].failed}
ConfirmedVideoArrives == <>[](\A u \in Units : ~Waits(u))
=============================================================================
