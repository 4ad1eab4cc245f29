-------------------------------- MODULE World ---------------------------------
(***************************************************************************)
(* The state the command-line tools share: what should be published, the   *)
(* WordPress site, the GS1 resolver, state.json, and the one process that  *)
(* may be running.  Concurrent runs are outside the tool's contract (E20), *)
(* so there is one program counter; everything else here keeps moving      *)
(* while a process runs.                                                   *)
(***************************************************************************)
EXTENDS StateEntries

CONSTANTS
    Gtins,              \* products
    Languages,          \* configured languages
    DefaultLanguage,    \* wordpress.default_language
    NoGtin,             \* no product is being processed
    ForeignPages,       \* (gtin, language) whose slug holds a page of somebody else
    ListedGtins,        \* products whose process-list row may name another page
    EditorDrafts,       \* whether editors take pages down on the site by hand
    CanCalm,            \* whether failures and edits may stop for good
    Kills,              \* whether a process may be killed
    StateSpoils         \* whether state.json may be spoiled between processes

ASSUME WorldAssumption ==
    /\ DefaultLanguage \in Languages
    /\ NoGtin \notin Gtins
    /\ ForeignPages \subseteq Gtins \X Languages
    /\ ListedGtins \subseteq Gtins
    /\ EditorDrafts \in BOOLEAN
    /\ CanCalm \in BOOLEAN
    /\ Kills \in BOOLEAN
    /\ StateSpoils \in BOOLEAN

VARIABLES
    content,    \* content[g][l]: the version the export and the copy ask for
    listed,     \* listed[g]: the process list names a page that is not ours
    site,       \* site[g][l]: the page WordPress has at our slug
    record,     \* record[g]: the GS1 Digital Link record
    saved,      \* state.json
    calm,       \* from now on nothing fails and nobody edits anything
    pc,         \* where the running process is; "idle" when there is none
    mem,        \* the State object of the running process
    todo,       \* products the running process has not started on
    cur,        \* the product it is working on
    byHand,     \* history: pages editors took down, that no run has written since
    halfDown    \* history: products a take-down began on, that no take-down has
                \* finished since, and whose record no run has enabled since

envVars == <<content, listed, calm>>
siteVars == <<site, byHand>>
recordVars == <<record, halfDown>>
remoteVars == <<siteVars, recordVars>>
procVars == <<pc, mem, todo, cur>>
worldVars == <<envVars, remoteVars, saved, procVars>>

Units == Gtins \X Languages

\* A page with version 0 is one this tool did not write (no meta.gtin).
Page == [status : {"absent", "publish", "draft"}, shows : 0..MaxVersion]
NoPage == [status |-> "absent", shows |-> 0]
Foreign(page) == page.status = "publish" /\ page.shows = 0

\* Where a record's link for a language points; "none" is no link at all.
Target == {"none", "own", "listed"}
NoLinks == [l \in Languages |-> "none"]
Record == [enabled : BOOLEAN, links : [Languages -> Target]]
NoRecord == [enabled |-> FALSE, links |-> NoLinks]
Exists(rec) == rec.links # NoLinks

NothingRecorded == [g \in Gtins |-> [l \in Languages |-> NoEntry]]
RecordedLanguages(state, g) == {l \in Languages : Recorded(state[g][l])}
HeldGtin(state, g) == \E l \in Languages : IsHeld(state[g][l])

WorldTypeOK ==
    /\ content \in [Gtins -> [Languages -> Versions]]
    /\ listed \in [Gtins -> BOOLEAN]
    /\ site \in [Gtins -> [Languages -> Page]]
    /\ record \in [Gtins -> Record]
    /\ saved \in [Gtins -> [Languages -> StateEntry]]
    /\ calm \in BOOLEAN
    /\ pc \in {"idle", "next", "rows", "targets", "resolver", "commit",
               "down", "draft"}
    /\ mem \in [Gtins -> [Languages -> StateEntry]]
    /\ todo \in SUBSET Gtins
    /\ cur \in Gtins \cup {NoGtin}
    /\ byHand \in SUBSET Units
    /\ halfDown \in SUBSET Gtins

WorldInit ==
    /\ content = [g \in Gtins |-> [l \in Languages |-> 1]]
    /\ listed = [g \in Gtins |-> FALSE]
    /\ site = [g \in Gtins |-> [l \in Languages |->
                  IF <<g, l>> \in ForeignPages
                  THEN [status |-> "publish", shows |-> 0] ELSE NoPage]]
    /\ record = [g \in Gtins |-> NoRecord]
    /\ saved = NothingRecorded
    /\ calm = FALSE
    /\ pc = "idle"
    /\ mem = saved
    /\ todo = {}
    /\ cur = NoGtin
    /\ byHand = {}
    /\ halfDown = {}

-------------------------------------------------------------------------------
(* What happens around the tool. *)

\* The client's next export, or newly generated copy, changes a page's content.
ContentChanges(g, l) ==
    /\ ~calm
    /\ content[g][l] < MaxVersion
    /\ content' = [content EXCEPT ![g][l] = @ + 1]
    /\ UNCHANGED <<listed, calm, remoteVars, saved, procVars>>

\* The operator names another page for the product, or clears the cell.
OperatorLists(g) ==
    /\ ~calm
    /\ g \in ListedGtins
    /\ listed' = [listed EXCEPT ![g] = ~@]
    /\ UNCHANGED <<content, calm, remoteVars, saved, procVars>>

\* An editor drafts or deletes a page in WordPress behind the tool's back.
EditorTakesDown(g, l) ==
    /\ ~calm
    /\ EditorDrafts
    /\ site[g][l].status = "publish"
    /\ \/ site' = [site EXCEPT ![g][l] = NoPage]
       \/ /\ ~Foreign(site[g][l])
          /\ site' = [site EXCEPT ![g][l].status = "draft"]
    /\ byHand' = byHand \cup {<<g, l>>}
    /\ UNCHANGED <<envVars, recordVars, saved, procVars>>

\* Failures, editors and new exports stop.  Liveness is stated from here on.
BecomeCalm ==
    /\ CanCalm
    /\ ~calm
    /\ calm' = TRUE
    /\ UNCHANGED <<content, listed, remoteVars, saved, procVars>>

Environment ==
    \/ \E g \in Gtins, l \in Languages : ContentChanges(g, l)
    \/ \E g \in Gtins : OperatorLists(g)
    \/ \E g \in Gtins, l \in Languages : EditorTakesDown(g, l)
    \/ BecomeCalm

\* load_state finds a state file that does not parse, moves it aside and goes on
\* from an empty one (E19): the first plan, run or take-down after the file was
\* spoiled does, before anything else.
StateIsLost ==
    /\ StateSpoils /\ ~calm
    /\ pc = "idle"
    /\ saved # NothingRecorded
    /\ saved' = NothingRecorded
    /\ mem' = saved'
    /\ UNCHANGED <<envVars, remoteVars, pc, todo, cur>>

-------------------------------------------------------------------------------
(* How a process begins and ends. *)

\* load_state: the process works on its own copy of state.json.
BeginOn(products, first) ==
    /\ pc = "idle"
    /\ mem' = saved
    /\ todo' = products
    /\ pc' = first
    /\ UNCHANGED cur

\* save_state writes a temporary file and renames it over the old one, so a
\* process that dies leaves either the old state or the new one.
SaveState ==
    /\ saved' = mem
    /\ pc' = "idle"
    /\ cur' = NoGtin
    /\ UNCHANGED <<mem, todo>>

\* The process dies before save_state: what it held in memory is gone.
LoseProcess ==
    /\ pc' = "idle"
    /\ mem' = saved
    /\ todo' = {}
    /\ cur' = NoGtin
    /\ UNCHANGED saved

===============================================================================
