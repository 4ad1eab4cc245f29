------------------------------ MODULE RunExecute ------------------------------
(***************************************************************************)
(* scripts/run_execute: carry out the confirmed rows of a plan.            *)
(*                                                                         *)
(* Per product: every confirmed language's page is written and seen to     *)
(* serve; only if all of them succeed, the languages are linked as         *)
(* translations, the one GS1 record is pointed at every known language,    *)
(* and the product's entries are committed to the state held in memory.    *)
(* The state file itself is written once, when every product is done.      *)
(*                                                                         *)
(* Each action is one call to a remote system with all that the code does  *)
(* before and after it; its failing twin is the same call raising, with or *)
(* without the remote side having acted.                                   *)
(***************************************************************************)
EXTENDS RunPlan

CONSTANTS
    StalePlans,     \* whether a run may execute a plan made before the last
                    \* change of state.json, content or list
    Revives         \* whether the operator ever gives --revive

ASSUME RunAssumption == StalePlans \in BOOLEAN /\ Revives \in BOOLEAN

VARIABLES
    mode,       \* --only pages, --only links, or both
    rows,       \* the confirmed (gtin, language) rows left after every filter
    fresh,      \* languages of cur whose page this run wrote and saw serving
    failed,     \* languages of cur whose row failed
    entries,    \* page_entries: the state entries cur's commit will write
    links,      \* the link set cur's record is about to get
    seen        \* history: languages of cur whose target was seen serving

runVars == <<mode, rows, fresh, failed, entries, links, seen>>

RunPcs == {"next", "rows", "targets", "resolver", "commit"}

Modes == {"pages", "links", "both"}
WritesPages(m) == m # "links"
WritesLinks(m) == m # "pages"

NoEntries == [l \in Languages |-> NoEntry]

RunTypeOK ==
    /\ mode \in Modes
    /\ rows \in SUBSET Units
    /\ fresh \in SUBSET Languages
    /\ failed \in SUBSET Languages
    /\ entries \in [Languages -> StateEntry]
    /\ links \in [Languages -> Target]
    /\ seen \in SUBSET Languages

RunInit ==
    /\ mode = "both" /\ rows = {}
    /\ fresh = {} /\ failed = {} /\ seen = {}
    /\ entries = NoEntries /\ links = NoLinks

\* Locals of the per-product phase start over with each product.
ClearProduct ==
    /\ fresh' = {} /\ failed' = {} /\ seen' = {}
    /\ entries' = NoEntries /\ links' = NoLinks

ClearRun ==
    /\ mode' = "both" /\ rows' = {}
    /\ ClearProduct

RowsOf(g) == {l \in Languages : <<g, l>> \in rows}
Pending == RowsOf(cur) \ (fresh \cup failed)

KnownLanguages == RecordedLanguages(mem, cur) \cup fresh

-------------------------------------------------------------------------------
(* Starting a run. *)

\* The review confirms any of the rows that would change something; a bare
\* --plan confirms every row in the file.
Actionable == {u \in Units : planned[u[1]][u[2]].class \in {"new", "changed"}}
Confirmations == SUBSET Actionable \cup {Units}

\* Held products are recognised among the CONFIRMED rows only.
DropHeld(confirmed, withRevive) ==
    LET held == {u[1] : u \in {r \in confirmed : planned[r[1]][r[2]].class = "held"}}
    IN  IF withRevive THEN confirmed ELSE {u \in confirmed : u[1] \notin held}

\* Rows without copy (E21) and products the video gate holds drop out of a run
\* that writes pages; which ones they are is left open.
Kept(confirmed, m) ==
    IF WritesPages(m) THEN SUBSET confirmed ELSE {confirmed}

StartRun(m, withRevive, confirmed, kept) ==
    /\ \A u \in Units : planned[u[1]][u[2]].content # 0
    /\ StalePlans \/ PlanIsCurrent
    /\ withRevive => Revives
    /\ kept \in Kept(DropHeld(confirmed, withRevive), m)
    /\ kept # {}
    /\ rows' = kept
    /\ BeginOn({u[1] : u \in kept}, "next")
    /\ mode' = m
    /\ UNCHANGED <<envVars, remoteVars, saved, planVars,
                   fresh, failed, entries, links, seen>>

\* Two answers to "which page is this product's" refuse the product outright.
ListedConflict(g) == WritesPages(mode) /\ plannedListed[g]

RefuseListed(g) ==
    /\ pc = "next"
    /\ g \in todo
    /\ ListedConflict(g)
    /\ todo' = todo \ {g}
    /\ UNCHANGED <<envVars, remoteVars, saved, planVars, pc, mem, cur, runVars>>

TakeProduct(g) ==
    /\ pc = "next"
    /\ g \in todo
    /\ ~ListedConflict(g)
    /\ todo' = todo \ {g}
    /\ cur' = g
    /\ pc' = IF WritesPages(mode) THEN "rows" ELSE "targets"
    /\ UNCHANGED <<envVars, remoteVars, saved, planVars, mem, runVars>>

-------------------------------------------------------------------------------
(* Phase 1: one row at a time. *)

\* The page a row writes: found by id, slug or meta.gtin and updated in place,
\* or created; published either way.
Written(l) == [status |-> "publish", shows |-> planned[cur][l].content]

WritePage(l) ==
    /\ site' = [site EXCEPT ![cur][l] = Written(l)]
    /\ byHand' = byHand \ {<<cur, l>>}

\* A page without our meta.gtin at the row's slug is never overwritten (E11).
Collides(l) == Foreign(site[cur][l])

UpsertRow(l) ==
    /\ pc = "rows"
    /\ l \in Pending
    /\ ~Collides(l)
    /\ WritePage(l)
    /\ fresh' = fresh \cup {l}
    /\ seen' = seen \cup {l}
    /\ UNCHANGED <<envVars, recordVars, saved, planVars, procVars,
                   mode, rows, failed, entries, links>>

\* Rendering, terms, media, the page write, the ACF write or the check that the
\* page serves raised: the page may or may not have been written.
UpsertRowFails(l) ==
    /\ pc = "rows"
    /\ l \in Pending
    /\ \/ UNCHANGED siteVars
       \/ ~Collides(l) /\ WritePage(l)
    /\ ~calm \/ Collides(l)
    /\ failed' = failed \cup {l}
    /\ UNCHANGED <<envVars, recordVars, saved, planVars, procVars,
                   mode, rows, fresh, entries, links, seen>>

\* Every row of the product is failed and nothing of it reaches the state.
GiveUpProduct ==
    /\ pc' = "next"
    /\ cur' = NoGtin
    /\ ClearProduct
    /\ UNCHANGED <<todo, mem, mode, rows>>

BlockProduct ==
    /\ pc = "rows"
    /\ Pending = {}
    /\ failed # {}
    /\ GiveUpProduct
    /\ UNCHANGED <<envVars, remoteVars, saved, planVars>>

-------------------------------------------------------------------------------
(* Phase 2: the product as a whole. *)

\* The entry of a row this run published: the link hash is carried over, the
\* take-down fields fall back to their defaults.
PublishedEntry(l) ==
    [content   |-> planned[cur][l].content,
     linked    |-> mem[cur][l].linked,
     wp_status |-> "publish",
     retracted |-> FALSE]

\* Mutated form: phase 2 runs although a sibling's row failed.
FinishPagesRegardless ==
    /\ pc = "rows"
    /\ Pending = {}
    /\ entries' = [l \in Languages |->
                     IF l \in fresh THEN PublishedEntry(l) ELSE NoEntry]
    /\ pc' = IF WritesLinks(mode) THEN "targets" ELSE "commit"
    /\ UNCHANGED <<envVars, remoteVars, saved, planVars, mem, todo, cur,
                   mode, rows, fresh, failed, links, seen>>

\* Link the languages as translations, then build the entries.
FinishPages ==
    /\ pc = "rows"
    /\ Pending = {} /\ failed = {}
    /\ entries' = [l \in Languages |->
                     IF l \in fresh THEN PublishedEntry(l) ELSE NoEntry]
    /\ pc' = IF WritesLinks(mode) THEN "targets" ELSE "commit"
    /\ UNCHANGED <<envVars, remoteVars, saved, planVars, mem, todo, cur,
                   mode, rows, fresh, failed, links, seen>>

\* The translation helper raises, as it may when a page known only from the
\* state file is gone from the site.
FinishPagesFails ==
    /\ pc = "rows"
    /\ Pending = {} /\ failed = {}
    /\ ~calm \/ \E l \in KnownLanguages : site[cur][l].status = "absent"
    /\ GiveUpProduct
    /\ UNCHANGED <<envVars, remoteVars, saved, planVars>>

\* Mutated form: the record is built from the confirmed rows alone.
PagesOfRows ==
    [l \in Languages |-> IF l \in RowsOf(cur) THEN "own" ELSE "none"]

\* The pages the record must name: every language known from this run or from
\* the state, plus confirmed ones located on the site (_pages_for_links).
PagesForLinks ==
    [l \in Languages |->
        IF l \in KnownLanguages \cup RowsOf(cur) THEN "own" ELSE "none"]

\* Mutated form: only the state file is asked, not the site.
OwnDefaultPageInState == Recorded(mem[cur][DefaultLanguage])

\* This tool's own page for the default language, in state or found by slug.
OwnDefaultPage ==
    \/ Recorded(mem[cur][DefaultLanguage])
    \/ site[cur][DefaultLanguage].status = "publish"

\* The listed page, and for other confirmed languages the alternates it names
\* (_listed_pages).
ListedPages(alternates) ==
    [l \in Languages |->
        IF l = DefaultLanguage \/ l \in alternates THEN "listed" ELSE "none"]

UsesListedPage == mode = "links" /\ plannedListed[cur]

\* The link sets this run may be about to write; empty when the product has a
\* listed page AND a page of ours, which is refused.
LinkSets ==
    IF ~UsesListedPage THEN {PagesForLinks}
    ELSE IF OwnDefaultPage THEN {}
    ELSE {ListedPages(a) : a \in SUBSET (RowsOf(cur) \ {DefaultLanguage})}

Serves(l, target) == target = "own" => site[cur][l].status = "publish"

\* Mutated form: targets rebuilt from the state file are trusted.
UnverifiedRows(set) == {l \in RowsOf(cur) : set[l] # "none"} \ fresh

\* Languages whose target _verify_targets requests: all but the fresh ones.
Unverified(set) == {l \in Languages : set[l] # "none"} \ fresh

VerifyTargets ==
    /\ pc = "targets"
    /\ \E set \in LinkSets :
          /\ \A l \in Unverified(set) : Serves(l, set[l])
          /\ links' = set
          /\ seen' = seen \cup {l \in Unverified(set) : Serves(l, set[l])}
    /\ pc' = "resolver"
    /\ UNCHANGED <<envVars, remoteVars, saved, planVars, mem, todo, cur,
                   mode, rows, fresh, failed, entries>>

VerifyTargetsFails ==
    /\ pc = "targets"
    /\ \/ ~calm
       \/ LinkSets = {}
       \/ \E set \in LinkSets : \E l \in Unverified(set) : ~Serves(l, set[l])
    /\ GiveUpProduct
    /\ UNCHANGED <<envVars, remoteVars, saved, planVars>>

\* One write replaces the record's whole link array and enables it.
PointRecord ==
    /\ record' = [record EXCEPT ![cur] = [enabled |-> TRUE, links |-> links]]
    /\ halfDown' = halfDown \ {cur}

WriteResolver ==
    /\ pc = "resolver"
    /\ PointRecord
    /\ pc' = "commit"
    /\ UNCHANGED <<envVars, siteVars, saved, planVars, mem, todo, cur, runVars>>

\* The write raised (the record may have changed all the same), or the QR that
\* follows it did.
WriteResolverFails ==
    /\ pc = "resolver"
    /\ ~calm
    /\ PointRecord \/ UNCHANGED recordVars
    /\ GiveUpProduct
    /\ UNCHANGED <<envVars, siteVars, saved, planVars>>

\* Mutated form: the commit forgets to stamp the link.
CommittedUnlinked(l) ==
    LET entry == IF Recorded(entries[l]) THEN entries[l] ELSE mem[cur][l]
    IN  IF l \in RowsOf(cur) THEN entry ELSE mem[cur][l]

\* What a row's entry becomes: the page half of this run or the entry already
\* there, stamped with the link when this run wrote it; a row with neither is a
\* page the tool does not manage and gets no entry.
Committed(l) ==
    LET entry == IF Recorded(entries[l]) THEN entries[l] ELSE mem[cur][l]
    IN  IF l \notin RowsOf(cur) THEN mem[cur][l]
        ELSE IF ~Recorded(entry) \/ ~WritesLinks(mode) THEN entry
        ELSE [entry EXCEPT !.linked = TRUE, !.retracted = FALSE]

CommitState ==
    /\ pc = "commit"
    /\ mem' = [mem EXCEPT ![cur] = [l \in Languages |-> Committed(l)]]
    /\ pc' = "next"
    /\ cur' = NoGtin
    /\ ClearProduct
    /\ UNCHANGED <<envVars, remoteVars, saved, planVars, todo, mode, rows>>

-------------------------------------------------------------------------------
(* Ending a run. *)

FinishRun ==
    /\ pc = "next"
    /\ todo = {}
    /\ SaveState
    /\ ClearRun
    /\ UNCHANGED <<envVars, remoteVars, planVars>>

\* The process is killed before save_state.
RunDies ==
    /\ pc \in RunPcs
    /\ Kills /\ ~calm
    /\ LoseProcess
    /\ ClearRun
    /\ UNCHANGED <<envVars, remoteVars, planVars>>

RunSteps ==
    \/ \E g \in Gtins : RefuseListed(g) \/ TakeProduct(g)
    \/ \E l \in Languages : UpsertRow(l) \/ UpsertRowFails(l)
    \/ BlockProduct \/ FinishPages \/ FinishPagesFails
    \/ VerifyTargets \/ VerifyTargetsFails
    \/ WriteResolver \/ WriteResolverFails
    \/ CommitState \/ FinishRun

RunNext ==
    \/ \E m \in Modes, withRevive \in BOOLEAN, confirmed \in Confirmations, kept \in SUBSET Units :
          StartRun(m, withRevive, confirmed, kept)
    \/ RunSteps
    \/ RunDies

===============================================================================
