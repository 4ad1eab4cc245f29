------------------------------ MODULE Publishing ------------------------------
(***************************************************************************)
(* Planning, executing and unpublishing against one site, one resolver and *)
(* one state file.                                                         *)
(***************************************************************************)
EXTENDS RunExecute, RunUnpublish

vars == <<worldVars, planVars, runVars, downVars>>

Init == WorldInit /\ PlanInit /\ RunInit /\ DownInit

\* Nothing remembers a take-down once the state file is gone.
ForgetTakeDowns == takenDown' = {} /\ UNCHANGED <<left, clean>>

Next ==
    \/ Environment /\ UNCHANGED <<planVars, runVars, downVars>>
    \/ BuildPlan /\ UNCHANGED <<runVars, downVars>>
    \/ StateIsLost /\ ForgetTakeDowns /\ UNCHANGED <<planVars, runVars>>
    \/ RunNext /\ UNCHANGED downVars
    \/ DownNext /\ UNCHANGED <<planVars, runVars>>

Spec == Init /\ [][Next]_vars

\* A program goes on: every call returns or raises in the end.
FairSpec == Spec /\ WF_vars(RunSteps /\ UNCHANGED downVars)
                 /\ WF_vars(DownSteps /\ UNCHANGED <<planVars, runVars>>)

\* An operator who keeps planning and executing whole plans (--plan), however
\* often other runs come in between.
RepeatedSpec ==
    /\ FairSpec
    /\ SF_vars(BuildPlan /\ UNCHANGED <<runVars, downVars>>)
    /\ SF_vars(StartRun("both", FALSE, Units, DropHeld(Units, FALSE)) /\ UNCHANGED downVars)

-------------------------------------------------------------------------------
TypeOK == WorldTypeOK /\ PlanTypeOK /\ RunTypeOK /\ DownTypeOK

OwnLanguages(rec) == {l \in Languages : rec.links[l] = "own"}

\* Rows whose link no listed page takes the place of.  A record pointed at one
\* loses our pages of the other languages; of the default language there is none.
OwnRow(g, l) == g \in ListedGtins => l = DefaultLanguage

\* A state entry that says its resolver link was written is right: the record
\* names that language's page.  The record's link array is replaced whole by
\* every write (run_execute._known_pages, _commit_state), and the state file is
\* written long after the record.
LinkedMeansInRecord ==
    \A g \in Gtins, l \in Languages :
        OwnRow(g, l) /\ saved[g][l].linked => l \in OwnLanguages(record[g])

\* UNCHANGED means there is nothing left to do: its page is published with
\* today's content and the product's record is enabled and names it.  The row that
\* failed, was blocked by a sibling, lost to a crash or revived in halves is
\* planned again (state._classify, run_execute._block_gtin, _unpublish_gtin on
\* gs1_link_set_hash).  Not so while a take-down of the product is under way, or
\* after one that failed or was killed, until one succeeds or a run enables the
\* record again; nor for a page an editor took down, until a run writes it.
UnchangedIsPublished ==
    \A g \in Gtins, l \in Languages :
        OwnRow(g, l) /\ Classify(saved[g][l], content[g][l]) = "unchanged" =>
            /\ l \in OwnLanguages(record[g])
            /\ site[g][l].status = "publish" => site[g][l].shows = content[g][l]
            /\ g \notin halfDown =>
                  /\ record[g].enabled
                  /\ site[g][l].status = "publish" \/ <<g, l>> \in byHand

\* While a run holds changed entries of a product in memory, all of the
\* product's legs have succeeded (run_execute._commit_state: "all at once or
\* not at all").
AllOrNothing ==
    pc \in RunPcs =>
        \A g \in Gtins \ ListedGtins :
            mem[g] # saved[g] =>
                \A l \in RowsOf(g) :
                    Recorded(mem[g][l]) =>
                        /\ WritesPages(mode) => mem[g][l].content = planned[g][l].content
                        /\ WritesLinks(mode) =>
                              /\ mem[g][l].linked
                              /\ record[g].enabled
                              /\ l \in OwnLanguages(record[g])

\* A permanent record is only ever pointed at pages this run saw serving
\* (run_execute._verify_targets).
OnlySeenTargets ==
    [][\A g \in Gtins : \A l \in Languages :
          (record'[g] # record[g] /\ record'[g].enabled /\ record'[g].links[l] # "none")
             => l \in seen]_vars

\* The tool drafts a page only while its record is disabled, so that no scan
\* resolves to a page the tool took away (run_unpublish: "the order is the
\* point").
DisabledBeforeDrafted ==
    [][\A l \in Languages :
          (pc = "draft" /\ site[cur][l].status = "publish" /\ site'[cur][l].status = "draft")
             => ~record[cur].enabled]_vars

\* A record is pointed at a listed page only when the default language has no
\* page of ours, neither recorded nor found on the site, not even one a killed
\* run left behind (run_execute._listed_pages).
ListedNeverOverridesOwn ==
    [][\A g \in Gtins :
          (record'[g] # record[g] /\ record'[g].enabled
             /\ record'[g].links[DefaultLanguage] = "listed")
             => /\ ~Recorded(saved[g][DefaultLanguage])
                /\ site[g][DefaultLanguage].status # "publish"]_vars

\* A record that a take-down disabled is not enabled again, as long as the state
\* file holds the product and nobody gives --revive: whatever rows are
\* confirmed, a drafted sibling fails _verify_targets.
HeldRecordStaysDown ==
    [][\A g \in Gtins :
          (HeldGtin(saved, g) /\ ~record[g].enabled) => ~record'[g].enabled]_vars

\* What a take-down reported as down stays down and is remembered, through any
\* plans, runs and other take-downs, finished or not, until the state file is lost:
\* its record is disabled and its product held, also where a page was gone
\* already (run_unpublish._unpublish_gtin, state._is_held).
TakenDownIsHeld ==
    pc = "idle" => \A g \in takenDown : ~record[g].enabled /\ HeldGtin(saved, g)

\* Nothing is left to publish: each row is up to date or held.
Settled ==
    \A g \in Gtins : HeldGtin(saved, g) \/
        \A l \in Languages : Classify(saved[g][l], content[g][l]) = "unchanged"

\* Once failures, edits and take-downs have stopped, an operator who keeps
\* executing whole plans gets everything published.
Converges ==
    <>[](calm /\ pc \notin DownPcs) => <>[]Settled

\* The record and the state file seen as a ledger: what is claimed is pointed.
Ledger == INSTANCE ResolverLedger WITH
    Products <- Gtins \ ListedGtins,
    Langs    <- Languages,
    pointed  <- [g \in Gtins \ ListedGtins |-> OwnLanguages(record[g])],
    claimed  <- [g \in Gtins \ ListedGtins |-> {l \in Languages : saved[g][l].linked}]

ClaimsFollowRecord == Ledger!Spec

-------------------------------------------------------------------------------
(* What the properties above rest on: an invariant every step preserves. *)

\* The product being worked on is one of ours, and has rows when a run works on
\* it; so has each product still to come.  Rows are worked on to write pages.
WorkIsKnown ==
    /\ pc \in {"rows", "targets", "resolver", "commit", "draft"} => cur \in Gtins
    /\ pc \in {"rows", "targets", "resolver", "commit"} => RowsOf(cur) # {}
    /\ pc \in RunPcs => \A g \in todo : RowsOf(g) # {}
    /\ pc = "rows" => mode # "links"

\* Only products the operator may list are listed.
ListedIsAllowed ==
    \A g \in Gtins : listed[g] \/ plannedListed[g] => g \in ListedGtins

\* An entry with a link is the entry of a page, on disk and in memory; and a run
\* drops no link the state file claims.
LinkedIsRecorded ==
    /\ \A g \in Gtins, l \in Languages :
          /\ saved[g][l].linked => Recorded(saved[g][l])
          /\ mem[g][l].linked => Recorded(mem[g][l])
    /\ pc \in RunPcs =>
          \A g \in Gtins, l \in Languages : saved[g][l].linked => mem[g][l].linked

\* What is claimed in memory is in the record, exactly as on disk.
MemoryLinkedInRecord ==
    \A g \in Gtins, l \in Languages :
        OwnRow(g, l) /\ mem[g][l].linked => record[g].links[l] = "own"

\* The entries to be committed carry the link as memory has it; there are none
\* before the product's rows are done, nor in a run that writes no pages.
EntriesCarryLink ==
    IF mode # "links" /\ pc \in {"targets", "resolver", "commit"}
    THEN \A l \in Languages : Recorded(entries[l]) => entries[l].linked = mem[cur][l].linked
    ELSE entries = NoEntries

\* Pages the record of the product in work must name: those known before, and
\* those this run writes.
Known(l) ==
    \/ OwnRow(cur, l) /\ Recorded(mem[cur][l])
    \/ mode # "links" /\ l \in RowsOf(cur)

\* The link set about to be written names every page known, and so does the record
\* once it is written.
LinkSetIsComplete ==
    /\ pc = "resolver" => \A l \in Languages : Known(l) => links[l] = "own"
    /\ (pc = "commit" /\ WritesLinks(mode)) =>
          \A l \in Languages : Known(l) => record[cur].links[l] = "own"
    /\ pc = "resolver" => links # NoLinks

\* Every page of the link set was seen serving.
LinkSetIsSeen ==
    /\ fresh \subseteq seen
    /\ pc = "resolver" => \A l \in Languages : links[l] # "none" => l \in seen

\* An enabled record has links, and the record of a product being drafted is not
\* enabled.
DisabledWhileDrafting ==
    /\ \A g \in Gtins : record[g].enabled => Exists(record[g])
    /\ pc = "draft" => ~record[cur].enabled

Inductive ==
    /\ TypeOK
    /\ WorkIsKnown
    /\ ListedIsAllowed
    /\ LinkedIsRecorded
    /\ LinkedMeansInRecord
    /\ MemoryLinkedInRecord
    /\ EntriesCarryLink
    /\ LinkSetIsComplete
    /\ LinkSetIsSeen
    /\ DisabledWhileDrafting

-------------------------------------------------------------------------------
(* What the properties of contents and of listed pages rest on besides. *)

\* Every row of the plan being executed asks for a version; the entries to be
\* committed are of pages this run wrote, and of all of them when it writes pages.
EntriesAreMeant ==
    /\ pc \in RunPcs => \A g \in Gtins, l \in Languages : planned[g][l].content # 0
    /\ pc \notin {"rows", "targets", "resolver", "commit"} => fresh = {}
    /\ \A l \in Languages : Recorded(entries[l]) =>
          /\ l \in fresh
          /\ entries[l].content = planned[cur][l].content
    /\ (pc \in {"targets", "resolver", "commit"} /\ WritesPages(mode)) =>
          \A l \in RowsOf(cur) : Recorded(entries[l])

\* A page whose link is claimed, in memory or on disk, is published and its record
\* enabled, but for what a take-down began and what an editor did.
Up(g, l) == site[g][l].status = "publish" \/ <<g, l>> \in byHand

LinkedIsUp ==
    \A g \in Gtins, l \in Languages :
        OwnRow(g, l) /\ (saved[g][l].linked \/ mem[g][l].linked) =>
            g \in halfDown \/ (record[g].enabled /\ Up(g, l))

\* So is every page this run wrote of the product in work, every page of the link
\* set about to be written, and every page of the record just written.
TargetsAreUp ==
    /\ \A l \in fresh : Up(cur, l)
    /\ pc = "resolver" => \A l \in Languages : links[l] = "own" => Up(cur, l)
    /\ (pc = "commit" /\ WritesLinks(mode)) =>
          /\ cur \notin halfDown
          /\ \A l \in Languages : record[cur].links[l] = "own" => Up(cur, l)

\* A take-down is marked as begun until it is saved, and by then has unlinked every
\* entry of a product it succeeds on.
TakeDownIsMarked ==
    /\ pc = "draft" =>
          /\ cur \in halfDown
          /\ clean => \A l \in Languages \ left : ~mem[cur][l].linked
    /\ \A g \in takenDown \cap halfDown :
          pc \in DownPcs /\ \A l \in Languages : ~mem[g][l].linked

\* Between the record's write and the commit the record is enabled.
WrittenIsEnabled ==
    (pc = "commit" /\ WritesLinks(mode)) => record[cur].enabled

\* Nothing runs ahead of the plan, nor the plan of the content.
VersionsFollow ==
    \A g \in Gtins, l \in Languages :
        /\ saved[g][l].content <= planned[g][l].content
        /\ mem[g][l].content <= planned[g][l].content
        /\ site[g][l].shows <= planned[g][l].content
        /\ planned[g][l].content <= content[g][l]

\* A published page shows no older version than any entry of it; one this run
\* wrote shows the plan's, unless somebody took it down.
PagesKeepUp ==
    /\ \A g \in Gtins, l \in Languages :
          site[g][l].status = "publish" =>
              /\ saved[g][l].content <= site[g][l].shows
              /\ mem[g][l].content <= site[g][l].shows
    /\ \A l \in fresh :
          site[cur][l].status = "publish" => site[cur][l].shows = planned[cur][l].content

\* A record about to be pointed at a listed page is one of a product without a
\* page of ours; and a run forgets no entry.
ListedIsLast ==
    /\ pc \in RunPcs =>
          \A g \in Gtins, l \in Languages : Recorded(saved[g][l]) => Recorded(mem[g][l])
    /\ (pc = "resolver" /\ links[DefaultLanguage] = "listed") =>
          /\ ~Recorded(mem[cur][DefaultLanguage])
          /\ site[cur][DefaultLanguage].status # "publish"

CommitInductive ==
    /\ EntriesAreMeant
    /\ WrittenIsEnabled
    /\ VersionsFollow
    /\ PagesKeepUp
    /\ LinkedIsUp
    /\ TargetsAreUp
    /\ TakeDownIsMarked
    /\ ListedIsLast
    /\ AllOrNothing

-------------------------------------------------------------------------------
(* What keeps a product down that was taken down: plans are made afresh, nobody *)
(* gives --revive, edits pages by hand or lists one.                            *)

NoOverrides == ~StalePlans /\ ~Revives /\ ~EditorDrafts /\ ListedGtins = {}

\* What is held is the entry of a page, and the page is down.
HeldIsDown ==
    \A g \in Gtins, l \in Languages :
        /\ IsHeld(saved[g][l]) => Recorded(saved[g][l]) /\ site[g][l].status # "publish"
        /\ IsHeld(mem[g][l]) => Recorded(mem[g][l]) /\ site[g][l].status # "publish"

\* A run works on no held row, holds and releases none, and points no record of a
\* held product.
RunsLeaveHeld ==
    /\ fresh \subseteq RowsOf(cur)
    /\ \A l \in Languages : ~IsHeld(entries[l])
    /\ pc \in RunPcs =>
          /\ \A g \in Gtins, l \in Languages : IsHeld(mem[g][l]) <=> IsHeld(saved[g][l])
          /\ \A g \in Gtins : \A l \in RowsOf(g) : ~IsHeld(saved[g][l])
    /\ pc = "resolver" => ~HeldGtin(saved, cur)

\* What a take-down has done so far is in memory: a product has entries, those
\* whose page was drafted are held, and products reported down are held, on disk too
\* once a take-down of theirs was saved.
TakeDownIsNoted ==
    /\ pc \in DownPcs => \A g \in todo : RecordedLanguages(mem, g) # {}
    /\ pc = "draft" =>
          /\ left \subseteq RecordedLanguages(mem, cur)
          /\ RecordedLanguages(mem, cur) # {}
          /\ clean => \A l \in RecordedLanguages(mem, cur) \ left : IsHeld(mem[cur][l])
    /\ \A g \in takenDown :
          /\ ~record[g].enabled
          /\ pc \in DownPcs => HeldGtin(mem, g)
          /\ pc \notin DownPcs \/ g \notin halfDown => HeldGtin(saved, g)

HeldInductive == HeldIsDown /\ RunsLeaveHeld /\ TakeDownIsNoted

-------------------------------------------------------------------------------
(* What the code's own words say, and the runs find not to hold. *)

\* "an interrupted run leaves entries with retracted=True and a still-published
\* page; treating that as held is what lets the next run finish the job rather
\* than reverse it" (state._is_held): while no process runs, a product whose record
\* a take-down disabled is held.
InterruptedTakeDownIsHeld ==
    pc = "idle" =>
        \A g \in halfDown :
            Exists(record[g]) /\ ~record[g].enabled => HeldGtin(saved, g)

\* "Drop rows for GTINs that were deliberately unpublished": no page of a held
\* product goes live without --revive.
HeldPagesStayDown ==
    [][\A g \in Gtins, l \in Languages :
          (site[g][l].status # "publish" /\ site'[g][l].status = "publish")
             => ~HeldGtin(saved, g)]_vars

===============================================================================
