--------------------------- MODULE PublishingProofs ---------------------------
(***************************************************************************)
(* The invariant behind the safety properties of Publishing, and the       *)
(* properties themselves, for any products, languages, foreign and listed  *)
(* pages, stale plans, revivals and kills.                                 *)
(***************************************************************************)
EXTENDS Reconciliation, TLAPS

USE DEF Units, PageStatus, Versions, siteVars, recordVars, WritePage, DisableRecord

-------------------------------------------------------------------------------
(* Every variable keeps its type, for any products and languages.           *)

\* The types of the world: what the environment, the site, the resolver, the
\* state file and the process may be.
LEMMA WorldInitTypes ==
  ASSUME WorldInit
  PROVE  WorldTypeOK
<1>1. NoEntry \in StateEntry
  BY MaxVersionAssumption DEF NoEntry, StateEntry
<1>2. saved \in [Gtins -> [Languages -> StateEntry]] /\ mem = saved
  BY <1>1 DEF WorldInit, NothingRecorded
<1>3. NoRecord \in Record
  BY DEF NoRecord, Record, NoLinks, Target
<1>4. record \in [Gtins -> Record]
  BY <1>3 DEF WorldInit
<1>5. NoPage \in Page /\ [status |-> "publish", shows |-> 0] \in Page
  BY MaxVersionAssumption DEF NoPage, Page
<1>6. site \in [Gtins -> [Languages -> Page]]
  BY <1>5 DEF WorldInit
<1>7. content \in [Gtins -> [Languages -> Versions]]
  BY MaxVersionAssumption DEF WorldInit
<1>. QED
  BY <1>2, <1>4, <1>6, <1>7 DEF WorldInit, WorldTypeOK

\* Replacing one page gives a site.
LEMMA SiteTypes ==
  ASSUME NEW s \in [Gtins -> [Languages -> Page]],
         NEW g \in Gtins, NEW l \in Languages, NEW p \in Page
  PROVE  [s EXCEPT ![g][l] = p] \in [Gtins -> [Languages -> Page]]
  OBVIOUS

\* So does drafting one.
LEMMA DraftedTypes ==
  ASSUME NEW s \in [Gtins -> [Languages -> Page]],
         NEW g \in Gtins, NEW l \in Languages
  PROVE  [s EXCEPT ![g][l].status = "draft"] \in [Gtins -> [Languages -> Page]]
<1>1. s[g][l] \in Page
  OBVIOUS
<1>2. [s[g][l] EXCEPT !.status = "draft"] \in Page
  BY <1>1 DEF Page
<1>. QED
  BY <1>2

\* The environment keeps the types.
LEMMA EnvironmentTypes ==
  ASSUME WorldTypeOK, Environment
  PROVE  WorldTypeOK'
<1>1. ASSUME NEW g \in Gtins, NEW l \in Languages, ContentChanges(g, l)
      PROVE  WorldTypeOK'
  <2>1. content' \in [Gtins -> [Languages -> Versions]]
    BY <1>1, MaxVersionAssumption DEF ContentChanges, WorldTypeOK
  <2>. QED
    BY <1>1, <2>1 DEF ContentChanges, WorldTypeOK, remoteVars, procVars
<1>2. ASSUME NEW g \in Gtins, OperatorLists(g)
      PROVE  WorldTypeOK'
  BY <1>2 DEF OperatorLists, WorldTypeOK, remoteVars, procVars
<1>3. ASSUME NEW g \in Gtins, NEW l \in Languages, EditorTakesDown(g, l)
      PROVE  WorldTypeOK'
  <2>1. site' \in [Gtins -> [Languages -> Page]]
    <3>1. NoPage \in Page
      BY MaxVersionAssumption DEF NoPage, Page
    <3>2. CASE site' = [site EXCEPT ![g][l] = NoPage]
      BY <3>1, <3>2, SiteTypes DEF WorldTypeOK
    <3>3. CASE site' = [site EXCEPT ![g][l].status = "draft"]
      BY <3>3, DraftedTypes DEF WorldTypeOK
    <3>. QED
      BY <1>3, <3>2, <3>3 DEF EditorTakesDown
  <2>. QED
    BY <1>3, <2>1 DEF EditorTakesDown, WorldTypeOK, envVars, procVars
<1>4. ASSUME BecomeCalm
      PROVE  WorldTypeOK'
  BY <1>4 DEF BecomeCalm, WorldTypeOK, remoteVars, procVars
<1>. QED
  BY <1>1, <1>2, <1>3, <1>4 DEF Environment

-------------------------------------------------------------------------------
(* Starting and ending a process. *)

\* A process begins without breaking the types of the world.
LEMMA BeginTypes ==
  ASSUME WorldTypeOK, NEW products \in SUBSET Gtins, NEW first \in {"next", "down"},
         BeginOn(products, first), UNCHANGED <<envVars, remoteVars, saved>>
  PROVE  WorldTypeOK'
  BY DEF BeginOn, WorldTypeOK, envVars, remoteVars

\* Saving the state keeps the types.
LEMMA SaveTypes ==
  ASSUME WorldTypeOK, SaveState, UNCHANGED <<envVars, siteVars, record>>,
         halfDown' \in SUBSET Gtins
  PROVE  WorldTypeOK'
  BY DEF SaveState, WorldTypeOK, envVars

\* Losing the process does too, whatever became of the record.
LEMMA LoseTypes ==
  ASSUME WorldTypeOK, LoseProcess, UNCHANGED <<envVars, siteVars>>,
         record' \in [Gtins -> Record], halfDown' \in SUBSET Gtins
  PROVE  WorldTypeOK'
  BY DEF LoseProcess, WorldTypeOK, envVars

\* A plan has well-typed rows.
LEMMA CurrentRowsTypes ==
  ASSUME WorldTypeOK
  PROVE  CurrentRows \in [Gtins -> [Languages -> PlanRow]]
<1>1. ASSUME NEW g \in Gtins, NEW l \in Languages
      PROVE  [class |-> Classify(saved[g][l], content[g][l]),
              content |-> content[g][l]] \in PlanRow
  <2>1. Classify(saved[g][l], content[g][l]) \in Classification
    BY DEF Classify, Classification
  <2>2. content[g][l] \in 0..MaxVersion
    BY MaxVersionAssumption DEF WorldTypeOK
  <2>. QED
    BY <2>1, <2>2 DEF PlanRow
<1>. QED
  BY <1>1 DEF CurrentRows

-------------------------------------------------------------------------------
(* The steps of a run. *)

\* What a row publishes, and what is committed of it, is well-typed.
LEMMA EntryTypes ==
  ASSUME TypeOK, cur \in Gtins, NEW l \in Languages
  PROVE  /\ Written(l) \in Page
         /\ PublishedEntry(l) \in StateEntry
         /\ Committed(l) \in StateEntry
         /\ NoEntry \in StateEntry
<1>1. NoEntry \in StateEntry
  BY MaxVersionAssumption DEF NoEntry, StateEntry
<1>2. planned[cur][l].content \in 0..MaxVersion
  BY DEF TypeOK, PlanTypeOK, PlanRow
<1>3. Written(l) \in Page
  BY <1>2 DEF Written, Page
<1>4. mem[cur][l] \in StateEntry /\ entries[l] \in StateEntry
  BY DEF TypeOK, WorldTypeOK, RunTypeOK
<1>5. PublishedEntry(l) \in StateEntry
  BY <1>2, <1>4 DEF PublishedEntry, StateEntry
<1>6. Committed(l) \in StateEntry
  BY <1>4 DEF Committed, StateEntry
<1>. QED
  BY <1>1, <1>3, <1>5, <1>6

\* A step inside a product touches at most the site, the record and memory.
LEMMA RunStepTypes ==
  ASSUME TypeOK, WorkIsKnown, RunSteps
  PROVE  WorldTypeOK' /\ PlanTypeOK' /\ RunTypeOK'
<1>. USE DEF TypeOK, WorldTypeOK, PlanTypeOK, RunTypeOK, envVars, remoteVars,
             procVars, planVars, runVars
<1>1. ASSUME NEW g \in Gtins, RefuseListed(g)
      PROVE  WorldTypeOK' /\ PlanTypeOK' /\ RunTypeOK'
  BY <1>1 DEF RefuseListed
<1>2. ASSUME NEW g \in Gtins, TakeProduct(g)
      PROVE  WorldTypeOK' /\ PlanTypeOK' /\ RunTypeOK'
  BY <1>2 DEF TakeProduct
<1>3. ASSUME NEW l \in Languages, UpsertRow(l)
      PROVE  WorldTypeOK' /\ PlanTypeOK' /\ RunTypeOK'
  <2>1. Written(l) \in Page
    BY <1>3, EntryTypes DEF WorkIsKnown, UpsertRow
  <2>. QED
    BY <1>3, <2>1 DEF UpsertRow
<1>4. ASSUME NEW l \in Languages, UpsertRowFails(l)
      PROVE  WorldTypeOK' /\ PlanTypeOK' /\ RunTypeOK'
  <2>1. Written(l) \in Page
    BY <1>4, EntryTypes DEF WorkIsKnown, UpsertRowFails
  <2>2. site' \in [Gtins -> [Languages -> Page]]
    <3>1. CASE site' = site
      BY <3>1
    <3>2. CASE site' = [site EXCEPT ![cur][l] = Written(l)]
      BY <2>1, <3>2
    <3>. QED
      BY <1>4, <3>1, <3>2 DEF UpsertRowFails
  <2>. QED
    BY <1>4, <2>2 DEF UpsertRowFails
<1>5. ClearProduct => /\ fresh' \in SUBSET Languages
                      /\ failed' \in SUBSET Languages
                      /\ seen' \in SUBSET Languages
                      /\ entries' \in [Languages -> StateEntry]
                      /\ links' \in [Languages -> Target]
  BY MaxVersionAssumption DEF ClearProduct, NoEntries, NoEntry, StateEntry, NoLinks, Target
<1>6. ASSUME GiveUpProduct, UNCHANGED <<envVars, siteVars, saved, planVars>>,
             record' \in [Gtins -> Record], halfDown' \in SUBSET Gtins
      PROVE  WorldTypeOK' /\ PlanTypeOK' /\ RunTypeOK'
  BY <1>5, <1>6 DEF GiveUpProduct
<1>7. ASSUME BlockProduct \/ FinishPagesFails \/ VerifyTargetsFails
      PROVE  WorldTypeOK' /\ PlanTypeOK' /\ RunTypeOK'
  BY <1>6, <1>7 DEF BlockProduct, FinishPagesFails, VerifyTargetsFails
<1>8. ASSUME FinishPages
      PROVE  WorldTypeOK' /\ PlanTypeOK' /\ RunTypeOK'
  <2>1. entries' \in [Languages -> StateEntry]
    BY <1>8, EntryTypes DEF WorkIsKnown, FinishPages
  <2>. QED
    BY <1>8, <2>1 DEF FinishPages
<1>9. ASSUME VerifyTargets
      PROVE  WorldTypeOK' /\ PlanTypeOK' /\ RunTypeOK'
  <2>1. LinkSets \subseteq [Languages -> Target]
    BY DEF LinkSets, PagesForLinks, ListedPages, Target
  <2>2. links' \in [Languages -> Target] /\ seen' \in SUBSET Languages
    BY <1>9, <2>1 DEF VerifyTargets, Unverified
  <2>. QED
    BY <1>9, <2>2 DEF VerifyTargets
<1>10. PointRecord => record' \in [Gtins -> Record] /\ halfDown' \in SUBSET Gtins
  <2>1. [enabled |-> TRUE, links |-> links] \in Record
    BY DEF Record
  <2>. QED
    BY <2>1 DEF PointRecord
<1>11. ASSUME WriteResolver
       PROVE  WorldTypeOK' /\ PlanTypeOK' /\ RunTypeOK'
  BY <1>10, <1>11 DEF WriteResolver
<1>12. ASSUME WriteResolverFails
       PROVE  WorldTypeOK' /\ PlanTypeOK' /\ RunTypeOK'
  BY <1>6, <1>10, <1>12 DEF WriteResolverFails
<1>13. ASSUME CommitState
       PROVE  WorldTypeOK' /\ PlanTypeOK' /\ RunTypeOK'
  <2>1. mem' \in [Gtins -> [Languages -> StateEntry]]
    BY <1>13, EntryTypes DEF WorkIsKnown, CommitState
  <2>. QED
    BY <1>5, <1>13, <2>1 DEF CommitState
<1>14. ASSUME FinishRun
       PROVE  WorldTypeOK' /\ PlanTypeOK' /\ RunTypeOK'
  BY <1>5, <1>14, SaveTypes DEF FinishRun, ClearRun, Modes
<1>. QED
  BY <1>1, <1>2, <1>3, <1>4, <1>7, <1>8, <1>9, <1>11, <1>12, <1>13, <1>14 DEF RunSteps

\* Starting a run, and dying in one.
LEMMA RunTypes ==
  ASSUME TypeOK, WorkIsKnown, RunNext
  PROVE  WorldTypeOK' /\ PlanTypeOK' /\ RunTypeOK'
<1>1. ASSUME NEW m \in Modes, NEW withRevive \in BOOLEAN, NEW confirmed \in Confirmations,
             NEW kept \in SUBSET Units, StartRun(m, withRevive, confirmed, kept)
      PROVE  WorldTypeOK' /\ PlanTypeOK' /\ RunTypeOK'
  <2>1. {u[1] : u \in kept} \in SUBSET Gtins
    OBVIOUS
  <2>2. WorldTypeOK'
    BY <1>1, <2>1, BeginTypes DEF TypeOK, StartRun
  <2>. QED
    BY <1>1, <2>2 DEF StartRun, TypeOK, PlanTypeOK, RunTypeOK, planVars
<1>2. ASSUME RunDies
      PROVE  WorldTypeOK' /\ PlanTypeOK' /\ RunTypeOK'
  <2>1. WorldTypeOK'
    BY <1>2, LoseTypes DEF RunDies, TypeOK, WorldTypeOK, remoteVars
  <2>2. RunTypeOK'
    BY <1>2, MaxVersionAssumption
    DEF RunDies, ClearRun, ClearProduct, RunTypeOK, Modes, NoEntries, NoEntry,
        StateEntry, NoLinks, Target
  <2>. QED
    BY <1>2, <2>1, <2>2 DEF RunDies, TypeOK, PlanTypeOK, planVars
<1>. QED
  BY <1>1, <1>2, RunStepTypes DEF RunNext

-------------------------------------------------------------------------------
(* The steps of a take-down. *)

\* An entry that was taken down is well-typed.
LEMMA DownEntryTypes ==
  ASSUME NEW entry \in StateEntry, NEW there \in BOOLEAN
  PROVE  DownEntry(entry, there) \in StateEntry
  BY DEF DownEntry, StateEntry

\* So is a disabled record.
LEMMA DisabledTypes ==
  ASSUME NEW rec \in Record
  PROVE  Disabled(rec) \in Record
  BY DEF Disabled, Record

\* A take-down touches the record, the pages and the entries of one product.
LEMMA DownTypes ==
  ASSUME TypeOK, WorkIsKnown, DownNext
  PROVE  WorldTypeOK' /\ DownTypeOK'
<1>. USE DEF TypeOK, WorldTypeOK, DownTypeOK, envVars, remoteVars, procVars
<1>1. ASSUME NEW products \in SUBSET Gtins, StartTakeDown(products)
      PROVE  WorldTypeOK' /\ DownTypeOK'
  BY <1>1, BeginTypes DEF StartTakeDown, downVars
<1>2. ASSUME NEW g \in Gtins
      PROVE  [record EXCEPT ![g] = Disabled(@)] \in [Gtins -> Record]
  BY <1>2, DisabledTypes
<1>3. ASSUME NEW g \in Gtins, Retract(g)
      PROVE  WorldTypeOK' /\ DownTypeOK'
  BY <1>2, <1>3 DEF Retract, RecordedLanguages
<1>4. ASSUME NEW g \in Gtins, RetractRaises(g)
      PROVE  WorldTypeOK' /\ DownTypeOK'
  <2>1. record' \in [Gtins -> Record]
    BY <1>2, <1>4 DEF RetractRaises
  <2>. QED
    BY <1>4, <2>1, LoseTypes DEF RetractRaises
<1>5. ASSUME NEW l \in Languages, pc = "draft"
      PROVE  [site EXCEPT ![cur][l].status = "draft"] \in [Gtins -> [Languages -> Page]]
  BY <1>5, DraftedTypes DEF WorkIsKnown
<1>6. ASSUME NEW l \in Languages, DraftPage(l)
      PROVE  WorldTypeOK' /\ DownTypeOK'
  <2>1. PICK there \in BOOLEAN :
          /\ site' = IF there THEN [site EXCEPT ![cur][l].status = "draft"] ELSE site
          /\ mem' = [mem EXCEPT ![cur][l] = DownEntry(@, there)]
    BY <1>6 DEF DraftPage
  <2>2. site' \in [Gtins -> [Languages -> Page]]
    BY <1>5, <1>6, <2>1 DEF DraftPage
  <2>3. mem' \in [Gtins -> [Languages -> StateEntry]]
    <3>1. cur \in Gtins /\ mem[cur][l] \in StateEntry
      BY <1>6 DEF DraftPage, WorkIsKnown
    <3>2. DownEntry(mem[cur][l], there) \in StateEntry
      BY <3>1, DownEntryTypes
    <3>. QED
      BY <2>1, <3>1, <3>2
  <2>. QED
    BY <1>6, <2>2, <2>3 DEF DraftPage
<1>7. ASSUME NEW l \in Languages, DraftPageFails(l)
      PROVE  WorldTypeOK' /\ DownTypeOK'
  <2>1. site' \in [Gtins -> [Languages -> Page]]
    BY <1>5, <1>7 DEF DraftPageFails
  <2>. QED
    BY <1>7, <2>1 DEF DraftPageFails
<1>8. ASSUME ProductDown
      PROVE  WorldTypeOK' /\ DownTypeOK'
  BY <1>8 DEF ProductDown, WorkIsKnown
<1>9. ASSUME FinishTakeDown
      PROVE  WorldTypeOK' /\ DownTypeOK'
  BY <1>9, SaveTypes DEF FinishTakeDown, downVars
<1>10. ASSUME TakeDownDies
       PROVE  WorldTypeOK' /\ DownTypeOK'
  BY <1>10, LoseTypes DEF TakeDownDies
<1>. QED
  BY <1>1, <1>3, <1>4, <1>6, <1>7, <1>8, <1>9, <1>10 DEF DownNext, DownSteps

-------------------------------------------------------------------------------
\* Every step keeps the types.
LEMMA StepTypes ==
  ASSUME TypeOK, WorkIsKnown, [Next]_vars
  PROVE  TypeOK'
<1>1. ASSUME Environment, UNCHANGED <<planVars, runVars, downVars>>
      PROVE  TypeOK'
  BY <1>1, EnvironmentTypes
  DEF TypeOK, PlanTypeOK, RunTypeOK, DownTypeOK, planVars, runVars, downVars
<1>2. ASSUME BuildPlan, UNCHANGED <<runVars, downVars>>
      PROVE  TypeOK'
  BY <1>2, CurrentRowsTypes
  DEF BuildPlan, TypeOK, WorldTypeOK, PlanTypeOK, RunTypeOK, DownTypeOK,
      worldVars, envVars, remoteVars, procVars, runVars, downVars
<1>3. ASSUME RunNext, UNCHANGED downVars
      PROVE  TypeOK'
  BY <1>3, RunTypes DEF TypeOK, DownTypeOK, downVars
<1>4. ASSUME DownNext, UNCHANGED <<planVars, runVars>>
      PROVE  TypeOK'
  BY <1>4, DownTypes DEF TypeOK, PlanTypeOK, RunTypeOK, planVars, runVars
<1>5. ASSUME UNCHANGED vars
      PROVE  TypeOK'
  BY <1>5 DEF TypeOK, WorldTypeOK, PlanTypeOK, RunTypeOK, DownTypeOK, vars, worldVars, envVars, remoteVars, procVars,
              planVars, runVars, downVars
<1>6. ASSUME StateIsLost, ForgetTakeDowns, UNCHANGED <<planVars, runVars>>
      PROVE  TypeOK'
  <2>1. NothingRecorded \in [Gtins -> [Languages -> StateEntry]]
    BY MaxVersionAssumption DEF NothingRecorded, NoEntry, StateEntry
  <2>. QED
    BY <1>6, <2>1
    DEF StateIsLost, ForgetTakeDowns, TypeOK, WorldTypeOK, PlanTypeOK, RunTypeOK, DownTypeOK,
        envVars, remoteVars, planVars, runVars
<1>. QED
  BY <1>1, <1>2, <1>3, <1>4, <1>5, <1>6 DEF Next

-------------------------------------------------------------------------------
(* The invariant behind the safety properties, and the properties.          *)

\* Losing the state file, while no process runs, forgets every entry.
Forgets ==
    /\ pc = "idle"
    /\ saved' = NothingRecorded /\ mem' = NothingRecorded
    /\ UNCHANGED <<record, pc, todo, cur, runVars>>

\* Nothing that is forgotten claims a link.
LEMMA NothingIsLinked ==
  \A g \in Gtins, l \in Languages : NothingRecorded[g][l].linked = FALSE
  BY DEF NothingRecorded, NoEntry

\* Besides runs, take-downs and that loss nothing touches the record, the state
\* file, a process or what take-downs remember.
LEMMA MarkSteps ==
  ASSUME [Next]_vars
  PROVE  \/ UNCHANGED <<recordVars, saved, procVars, runVars, downVars>>
         \/ Forgets /\ halfDown' = halfDown /\ takenDown' = {}
         \/ RunNext /\ UNCHANGED downVars
         \/ DownNext /\ UNCHANGED runVars
<1>1. ASSUME Environment PROVE UNCHANGED <<recordVars, saved, procVars>>
  BY <1>1 DEF Environment, ContentChanges, OperatorLists, EditorTakesDown, BecomeCalm,
              remoteVars, envVars, procVars
<1>2. ASSUME BuildPlan PROVE UNCHANGED <<recordVars, saved, procVars>>
  BY <1>2 DEF BuildPlan, worldVars, envVars, remoteVars, procVars
<1>3. ASSUME UNCHANGED vars PROVE UNCHANGED <<recordVars, saved, procVars, runVars, downVars>>
  BY <1>3 DEF vars, worldVars, envVars, remoteVars, procVars
<1>4. ASSUME StateIsLost, UNCHANGED runVars PROVE Forgets /\ halfDown' = halfDown
  BY <1>4 DEF StateIsLost, Forgets, remoteVars
<1>. QED
  BY <1>1, <1>2, <1>3, <1>4 DEF Next, ForgetTakeDowns

\* The same, without the marks of take-downs.
LEMMA Steps ==
  ASSUME [Next]_vars
  PROVE  \/ UNCHANGED <<record, saved, procVars, runVars>>
         \/ Forgets
         \/ RunNext /\ UNCHANGED downVars
         \/ DownNext /\ UNCHANGED runVars
  BY MarkSteps

\* The ways a product is given up leave the state in memory and the list of
\* products alone; the record may have been written first.
LEMMA GivesUp ==
  ASSUME BlockProduct \/ FinishPagesFails \/ VerifyTargetsFails \/ WriteResolverFails
  PROVE  /\ pc \in {"rows", "targets", "resolver"}
         /\ pc' = "next" /\ cur' = NoGtin
         /\ UNCHANGED <<saved, mem, todo, mode, rows, plannedListed>>
         /\ UNCHANGED recordVars \/ (pc = "resolver" /\ PointRecord)
         /\ ClearProduct
  BY DEF BlockProduct, FinishPagesFails, VerifyTargetsFails, WriteResolverFails,
         GiveUpProduct, remoteVars, planVars

-------------------------------------------------------------------------------
\* Only products the operator may list are listed, in the list and in the plan.
LEMMA ListedStep ==
  ASSUME ListedIsAllowed, TypeOK, [Next]_vars
  PROVE  ListedIsAllowed'
<1>1. ASSUME Environment, UNCHANGED planVars PROVE ListedIsAllowed'
  BY <1>1 DEF Environment, ContentChanges, OperatorLists, EditorTakesDown, BecomeCalm,
              remoteVars, envVars, planVars, ListedIsAllowed, TypeOK, WorldTypeOK
<1>2. ASSUME BuildPlan PROVE ListedIsAllowed'
  BY <1>2 DEF BuildPlan, worldVars, envVars, remoteVars, procVars, ListedIsAllowed
<1>5. ASSUME StateIsLost, UNCHANGED planVars PROVE ListedIsAllowed'
  BY <1>5 DEF StateIsLost, envVars, planVars, ListedIsAllowed
<1>3. ASSUME RunNext PROVE UNCHANGED <<envVars, planVars>>
  BY <1>3 DEF RunNext, RunSteps, StartRun, RefuseListed, TakeProduct, UpsertRow,
              UpsertRowFails, BlockProduct, FinishPages, FinishPagesFails, VerifyTargets,
              VerifyTargetsFails, WriteResolver, WriteResolverFails, CommitState,
              FinishRun, RunDies
<1>4. ASSUME DownNext PROVE UNCHANGED envVars
  BY <1>4 DEF DownNext, DownSteps, StartTakeDown, Retract, RetractRaises, DraftPage,
              DraftPageFails, ProductDown, FinishTakeDown, TakeDownDies
<1>. QED
  BY <1>1, <1>2, <1>3, <1>4, <1>5 DEF Next, ListedIsAllowed, envVars, planVars, vars, worldVars, envVars, remoteVars, procVars

\* The product in work is known and has rows, and so do the products to come.
LEMMA WorkStep ==
  ASSUME WorkIsKnown, TypeOK, [Next]_vars
  PROVE  WorkIsKnown'
<1>. USE DEF WorkIsKnown, RowsOf, RunPcs
<1>1. ASSUME UNCHANGED <<record, saved, procVars, runVars>> PROVE WorkIsKnown'
  BY <1>1 DEF procVars, runVars
<1>0. ASSUME Forgets PROVE WorkIsKnown'
  BY <1>0, NothingIsLinked DEF Forgets, runVars
<1>2. ASSUME NEW m \in Modes, NEW withRevive \in BOOLEAN, NEW confirmed \in Confirmations,
             NEW kept \in SUBSET Units, StartRun(m, withRevive, confirmed, kept)
      PROVE  WorkIsKnown'
  <2>1. pc' = "next" /\ rows' = kept /\ todo' = {u[1] : u \in kept}
    BY <1>2 DEF StartRun, BeginOn
  <2>2. ASSUME NEW g \in todo' PROVE {l \in Languages : <<g, l>> \in kept} # {}
    <3>1. PICK u \in kept : u[1] = g
      BY <2>1
    <3>2. PICK h \in Gtins, l \in Languages : u = <<h, l>>
      BY DEF Units
    <3>. QED
      BY <3>1, <3>2
  <2>. QED
    BY <2>1, <2>2
<1>3. ASSUME NEW g \in Gtins, RefuseListed(g) \/ TakeProduct(g) PROVE WorkIsKnown'
  BY <1>3 DEF RefuseListed, TakeProduct, WritesPages, runVars
<1>4. ASSUME NEW l \in Languages, UpsertRow(l) \/ UpsertRowFails(l) PROVE WorkIsKnown'
  BY <1>4 DEF UpsertRow, UpsertRowFails, procVars
<1>5. ASSUME BlockProduct \/ FinishPagesFails \/ VerifyTargetsFails \/ WriteResolverFails
      PROVE  WorkIsKnown'
  BY <1>5, GivesUp
<1>6. ASSUME FinishPages \/ VerifyTargets PROVE WorkIsKnown'
  BY <1>6 DEF FinishPages, VerifyTargets
<1>7. ASSUME WriteResolver \/ CommitState PROVE WorkIsKnown'
  BY <1>7 DEF WriteResolver, CommitState, runVars
<1>8. ASSUME FinishRun \/ RunDies PROVE WorkIsKnown'
  BY <1>8 DEF FinishRun, RunDies, SaveState, LoseProcess
<1>9. ASSUME DownNext, UNCHANGED runVars PROVE WorkIsKnown'
  BY <1>9 DEF DownNext, DownSteps, StartTakeDown, Retract, RetractRaises, DraftPage,
              DraftPageFails, ProductDown, FinishTakeDown, TakeDownDies, BeginOn,
              LoseProcess, SaveState, procVars
<1>. QED
  BY <1>0, <1>1, <1>2, <1>3, <1>4, <1>5, <1>6, <1>7, <1>8, <1>9, Steps DEF RunNext, RunSteps

-------------------------------------------------------------------------------
\* What a commit makes of a row's entry: it keeps the link memory has, and adds
\* one only where this run wrote the record.
LEMMA CommitKeepsLinks ==
  ASSUME Inductive, pc = "commit", NEW l \in Languages
  PROVE  /\ mem[cur][l].linked => Committed(l).linked
         /\ Committed(l).linked => Recorded(Committed(l))
         /\ Committed(l).linked =>
               \/ mem[cur][l].linked
               \/ /\ l \in RowsOf(cur) /\ WritesLinks(mode)
                  /\ mode # "links" \/ Recorded(mem[cur][l])
         /\ Recorded(Committed(l)) => mode # "links" \/ Recorded(mem[cur][l])
<1>1. cur \in Gtins /\ mem[cur][l] \in StateEntry /\ entries[l] \in StateEntry
  BY DEF Inductive, WorkIsKnown, TypeOK, WorldTypeOK, RunTypeOK
<1>2. Recorded(entries[l]) => entries[l].linked = mem[cur][l].linked /\ mode # "links"
  BY DEF Inductive, EntriesCarryLink, NoEntries, NoEntry, Recorded
<1>3. mem[cur][l].linked => Recorded(mem[cur][l])
  BY <1>1 DEF Inductive, LinkedIsRecorded
<1>. DEFINE entry == IF Recorded(entries[l]) THEN entries[l] ELSE mem[cur][l]
<1>4. /\ entry \in StateEntry /\ entry.linked = mem[cur][l].linked
      /\ entry.linked => Recorded(entry)
      /\ Recorded(entry) => mode # "links" \/ Recorded(mem[cur][l])
  <2>1. CASE Recorded(entries[l])
    <3>1. entry = entries[l]
      BY <2>1
    <3>. QED
      BY <1>1, <1>2, <2>1, <3>1
  <2>2. CASE ~Recorded(entries[l])
    <3>1. entry = mem[cur][l]
      BY <2>2
    <3>. QED
      BY <1>1, <1>3, <3>1
  <2>. QED
    BY <2>1, <2>2
<1>. HIDE DEF entry
<1>5. CASE l \notin RowsOf(cur)
  <2>1. Committed(l) = mem[cur][l]
    BY <1>5 DEF Committed
  <2>. QED
    BY <1>3, <2>1
<1>6. CASE l \in RowsOf(cur) /\ (~Recorded(entry) \/ ~WritesLinks(mode))
  <2>1. Committed(l) = entry
    BY <1>6 DEF Committed, entry
  <2>. QED
    BY <1>4, <2>1
<1>7. CASE l \in RowsOf(cur) /\ Recorded(entry) /\ WritesLinks(mode)
  <2>1. Committed(l) = [entry EXCEPT !.linked = TRUE, !.retracted = FALSE]
    BY <1>7 DEF Committed, entry
  <2>2. Committed(l).linked /\ Committed(l).content = entry.content
    BY <2>1, <1>4 DEF StateEntry
  <2>3. Recorded(Committed(l))
    BY <1>7, <2>2 DEF Recorded
  <2>. QED
    BY <1>4, <1>7, <2>2, <2>3
<1>. QED
  BY <1>5, <1>6, <1>7

\* After a commit an entry is the committed one or what it was.
LEMMA CommitEntries ==
  ASSUME Inductive, CommitState, NEW g \in Gtins, NEW l \in Languages
  PROVE  mem'[g][l] = IF g = cur THEN Committed(l) ELSE mem[g][l]
  BY DEF CommitState, Inductive, TypeOK, WorldTypeOK

\* A drafted entry has no link, and the others are what they were.
LEMMA DraftEntries ==
  ASSUME Inductive, NEW l \in Languages, DraftPage(l), NEW g \in Gtins, NEW k \in Languages
  PROVE  IF g = cur /\ k = l THEN mem'[g][k].linked = FALSE ELSE mem'[g][k] = mem[g][k]
<1>1. PICK there \in BOOLEAN : mem' = [mem EXCEPT ![cur][l] = DownEntry(@, there)]
  BY DEF DraftPage
<1>2. mem[cur][l] \in StateEntry /\ cur \in Gtins
  BY DEF Inductive, WorkIsKnown, TypeOK, WorldTypeOK, DraftPage
<1>3. DownEntry(mem[cur][l], there).linked = FALSE
  BY <1>2 DEF DownEntry, StateEntry
<1>4. CASE g = cur /\ k = l
  BY <1>1, <1>2, <1>3, <1>4 DEF Inductive, TypeOK, WorldTypeOK
<1>5. CASE ~(g = cur /\ k = l)
  BY <1>1, <1>2, <1>5 DEF Inductive, TypeOK, WorldTypeOK
<1>. QED
  BY <1>4, <1>5

\* Links belong to recorded entries, and a run drops none of the state file's.
LEMMA LinkedStep ==
  ASSUME Inductive, [Next]_vars
  PROVE  LinkedIsRecorded'
<1>. USE DEF LinkedIsRecorded, RunPcs
<1>. LinkedIsRecorded
  BY DEF Inductive
<1>1. ASSUME UNCHANGED <<record, saved, procVars, runVars>> PROVE LinkedIsRecorded'
  BY <1>1 DEF procVars
<1>0. ASSUME Forgets PROVE LinkedIsRecorded'
  BY <1>0, NothingIsLinked DEF Forgets, runVars
<1>2. ASSUME NEW m \in Modes, NEW withRevive \in BOOLEAN, NEW confirmed \in Confirmations,
             NEW kept \in SUBSET Units, StartRun(m, withRevive, confirmed, kept)
      PROVE  LinkedIsRecorded'
  BY <1>2 DEF StartRun, BeginOn
<1>3. ASSUME NEW g \in Gtins, RefuseListed(g) \/ TakeProduct(g) PROVE LinkedIsRecorded'
  BY <1>3 DEF RefuseListed, TakeProduct
<1>4. ASSUME NEW l \in Languages, UpsertRow(l) \/ UpsertRowFails(l) PROVE LinkedIsRecorded'
  BY <1>4 DEF UpsertRow, UpsertRowFails, procVars
<1>5. ASSUME BlockProduct \/ FinishPagesFails \/ VerifyTargetsFails \/ WriteResolverFails
      PROVE  LinkedIsRecorded'
  BY <1>5, GivesUp
<1>6. ASSUME FinishPages \/ VerifyTargets \/ WriteResolver PROVE LinkedIsRecorded'
  BY <1>6 DEF FinishPages, VerifyTargets, WriteResolver
<1>7. ASSUME CommitState PROVE LinkedIsRecorded'
  <2>1. saved' = saved /\ pc = "commit"
    BY <1>7 DEF CommitState
  <2>2. ASSUME NEW g \in Gtins, NEW l \in Languages
        PROVE  /\ mem'[g][l].linked => Recorded(mem'[g][l])
               /\ saved[g][l].linked => mem'[g][l].linked
    BY <1>7, <2>1, CommitEntries, CommitKeepsLinks
  <2>. QED
    BY <2>1, <2>2
<1>8. ASSUME FinishRun \/ RunDies PROVE LinkedIsRecorded'
  BY <1>8 DEF FinishRun, RunDies, SaveState, LoseProcess
<1>9. ASSUME NEW l \in Languages, DraftPage(l) PROVE LinkedIsRecorded'
  <2>1. saved' = saved /\ pc' = "draft"
    BY <1>9 DEF DraftPage
  <2>2. ASSUME NEW g \in Gtins, NEW k \in Languages
        PROVE  mem'[g][k].linked => Recorded(mem'[g][k])
    BY <1>9, DraftEntries
  <2>. QED
    BY <2>1, <2>2
<1>10. ASSUME DownNext, \A l \in Languages : ~DraftPage(l) PROVE LinkedIsRecorded'
  BY <1>10 DEF DownNext, DownSteps, StartTakeDown, Retract, RetractRaises,
               DraftPageFails, ProductDown, FinishTakeDown, TakeDownDies, BeginOn,
               LoseProcess, SaveState, procVars
<1>. QED
  BY <1>0, <1>1, <1>2, <1>3, <1>4, <1>5, <1>6, <1>7, <1>8, <1>9, <1>10, Steps DEF RunNext, RunSteps

-------------------------------------------------------------------------------
(* What is claimed is in the record, in memory and on disk. *)

\* Every claim no listed page can take the place of is in the record.
Claims(rec, state) ==
    \A g \in Gtins, l \in Languages :
        OwnRow(g, l) /\ state[g][l].linked => rec[g].links[l] = "own"

\* The two claims of the invariant.
LEMMA ClaimsAre ==
  /\ MemoryLinkedInRecord <=> Claims(record, mem)
  /\ LinkedMeansInRecord <=> Claims(record, saved)
  BY DEF MemoryLinkedInRecord, LinkedMeansInRecord, Claims, OwnLanguages

\* Writing the complete link set loses no claim.
LEMMA PointKeepsClaims ==
  ASSUME Inductive, pc = "resolver", PointRecord
  PROVE  Claims(record', mem) /\ Claims(record', saved)
<1>1. cur \in Gtins
  BY DEF Inductive, WorkIsKnown
<1>2. ASSUME NEW g \in Gtins, NEW l \in Languages, OwnRow(g, l), mem[g][l].linked
      PROVE  record'[g].links[l] = "own"
  <2>1. record[g].links[l] = "own"
    BY <1>2 DEF Inductive, MemoryLinkedInRecord
  <2>2. CASE g = cur
    <3>1. Recorded(mem[cur][l])
      BY <1>2, <2>2 DEF Inductive, LinkedIsRecorded
    <3>2. links[l] = "own"
      BY <1>2, <2>2, <3>1 DEF Inductive, LinkSetIsComplete, Known
    <3>. QED
      BY <1>1, <2>2, <3>2 DEF PointRecord, Inductive, TypeOK, WorldTypeOK
  <2>3. CASE g # cur
    BY <2>1, <2>3 DEF PointRecord, Inductive, TypeOK, WorldTypeOK
  <2>. QED
    BY <2>2, <2>3
<1>3. ASSUME NEW g \in Gtins, NEW l \in Languages, saved[g][l].linked
      PROVE  mem[g][l].linked
  BY <1>3 DEF Inductive, LinkedIsRecorded, RunPcs
<1>. QED
  BY <1>2, <1>3 DEF Claims

\* Disabling a record keeps its links.
LEMMA RetractKeepsClaims ==
  ASSUME TypeOK, NEW g \in Gtins, NEW state,
         record' = [record EXCEPT ![g] = Disabled(@)], Claims(record, state)
  PROVE  Claims(record', state)
<1>1. Disabled(record[g]).links = record[g].links
  BY DEF Disabled, Record, TypeOK, WorldTypeOK
<1>2. ASSUME NEW h \in Gtins PROVE record'[h].links = record[h].links
  BY <1>1 DEF TypeOK, WorldTypeOK
<1>. QED
  BY <1>2 DEF Claims

\* Every step keeps the claims of memory and of the state file.
LEMMA ClaimStep ==
  ASSUME Inductive, [Next]_vars
  PROVE  Claims(record', mem') /\ Claims(record', saved')
<1>. Claims(record, mem) /\ Claims(record, saved)
  BY ClaimsAre DEF Inductive
<1>. DEFINE BothClaimed == Claims(record', mem') /\ Claims(record', saved')
<1>1. ASSUME UNCHANGED <<record, saved, procVars, runVars>> PROVE BothClaimed
  BY <1>1 DEF procVars
<1>0. ASSUME Forgets PROVE BothClaimed
  BY <1>0, NothingIsLinked DEF Forgets, Claims
<1>2. ASSUME NEW m \in Modes, NEW withRevive \in BOOLEAN, NEW confirmed \in Confirmations,
             NEW kept \in SUBSET Units, StartRun(m, withRevive, confirmed, kept)
      PROVE  BothClaimed
  BY <1>2 DEF StartRun, BeginOn, remoteVars
<1>3. ASSUME NEW g \in Gtins, RefuseListed(g) \/ TakeProduct(g) PROVE BothClaimed
  BY <1>3 DEF RefuseListed, TakeProduct, remoteVars
<1>4. ASSUME NEW l \in Languages, UpsertRow(l) \/ UpsertRowFails(l) PROVE BothClaimed
  BY <1>4 DEF UpsertRow, UpsertRowFails, procVars
<1>5. ASSUME BlockProduct \/ FinishPagesFails \/ VerifyTargetsFails \/ WriteResolverFails
      PROVE  BothClaimed
  BY <1>5, GivesUp, PointKeepsClaims
<1>6. ASSUME FinishPages \/ VerifyTargets PROVE BothClaimed
  BY <1>6 DEF FinishPages, VerifyTargets, remoteVars
<1>7. ASSUME WriteResolver PROVE BothClaimed
  BY <1>7, PointKeepsClaims DEF WriteResolver
<1>8. ASSUME CommitState PROVE BothClaimed
  <2>1. pc = "commit" /\ cur \in Gtins /\ saved' = saved /\ record' = record
    BY <1>8 DEF CommitState, Inductive, WorkIsKnown, remoteVars
  <2>2. ASSUME NEW g \in Gtins, NEW l \in Languages, OwnRow(g, l), mem'[g][l].linked
        PROVE  record[g].links[l] = "own"
    <3>1. CASE g # cur
      BY <1>8, <2>2, <3>1, CommitEntries DEF Claims
    <3>2. CASE g = cur /\ mem[cur][l].linked
      BY <2>2, <3>2 DEF Claims
    <3>3. CASE /\ g = cur /\ l \in RowsOf(cur) /\ WritesLinks(mode)
               /\ mode # "links" \/ Recorded(mem[cur][l])
      BY <2>1, <2>2, <3>3 DEF Inductive, LinkSetIsComplete, Known
    <3>4. g = cur => Committed(l).linked
      BY <1>8, <2>2, CommitEntries
    <3>. QED
      BY <2>1, <3>1, <3>2, <3>3, <3>4, CommitKeepsLinks
  <2>. QED
    BY <2>1, <2>2 DEF Claims
<1>9. ASSUME FinishRun \/ RunDies PROVE BothClaimed
  BY <1>9 DEF FinishRun, RunDies, SaveState, LoseProcess, remoteVars
<1>10. ASSUME NEW l \in Languages, DraftPage(l) PROVE BothClaimed
  <2>1. saved' = saved /\ record' = record
    BY <1>10 DEF DraftPage
  <2>2. ASSUME NEW g \in Gtins, NEW k \in Languages, OwnRow(g, k), mem'[g][k].linked
        PROVE  record[g].links[k] = "own"
    <3>1. mem[g][k].linked
      BY <1>10, <2>2, DraftEntries
    <3>. QED
      BY <2>2, <3>1 DEF Claims
  <2>. QED
    BY <2>1, <2>2 DEF Claims
<1>11. ASSUME NEW g \in Gtins, Retract(g) \/ RetractRaises(g) PROVE BothClaimed
  <2>1. saved' = saved /\ (mem' = mem \/ mem' = saved)
    BY <1>11 DEF Retract, RetractRaises, LoseProcess
  <2>2. record' = record \/ record' = [record EXCEPT ![g] = Disabled(@)]
    BY <1>11 DEF Retract, RetractRaises
  <2>3. Claims(record', mem) /\ Claims(record', saved)
    BY <2>2, RetractKeepsClaims DEF Inductive
  <2>. QED
    BY <2>1, <2>3
<1>12. ASSUME NEW products \in SUBSET Gtins, StartTakeDown(products) PROVE BothClaimed
  BY <1>12 DEF StartTakeDown, BeginOn, remoteVars
<1>13. ASSUME NEW l \in Languages, DraftPageFails(l) PROVE BothClaimed
  BY <1>13 DEF DraftPageFails, procVars
<1>14. ASSUME ProductDown \/ FinishTakeDown \/ TakeDownDies PROVE BothClaimed
  BY <1>14 DEF ProductDown, FinishTakeDown, TakeDownDies, LoseProcess, SaveState, remoteVars
<1>. QED
  BY <1>0, <1>1, <1>2, <1>3, <1>4, <1>5, <1>6, <1>7, <1>8, <1>9, <1>10, <1>11, <1>12, <1>13,
     <1>14, Steps DEF RunNext, RunSteps, DownNext, DownSteps

-------------------------------------------------------------------------------
(* The locals of the product in work. *)

\* A take-down, and the start of a run, leave these locals alone and never enter
\* the phases that use them.
LEMMA DownIsElsewhere ==
  ASSUME DownNext, UNCHANGED runVars
  PROVE  /\ pc' \in {"idle", "down", "draft"}
         /\ pc \in {"idle", "down", "draft"}
         /\ UNCHANGED <<mode, rows, fresh, entries, links, seen>>
  BY DEF DownNext, DownSteps, StartTakeDown, Retract, RetractRaises, DraftPage,
         DraftPageFails, ProductDown, FinishTakeDown, TakeDownDies, BeginOn,
         LoseProcess, SaveState, procVars, runVars, DownPcs

\* What will be committed carries the links memory has.
LEMMA EntriesStep ==
  ASSUME Inductive, [Next]_vars
  PROVE  EntriesCarryLink'
<1>. USE DEF EntriesCarryLink
<1>. EntriesCarryLink
  BY DEF Inductive
<1>1. ASSUME UNCHANGED <<record, saved, procVars, runVars>> PROVE EntriesCarryLink'
  BY <1>1 DEF procVars, runVars, NoEntries
<1>0. ASSUME Forgets PROVE EntriesCarryLink'
  BY <1>0, NothingIsLinked DEF Forgets, runVars
<1>2. ASSUME NEW m \in Modes, NEW withRevive \in BOOLEAN, NEW confirmed \in Confirmations,
             NEW kept \in SUBSET Units, StartRun(m, withRevive, confirmed, kept)
      PROVE  EntriesCarryLink'
  BY <1>2 DEF StartRun, BeginOn, NoEntries
<1>3. ASSUME NEW g \in Gtins, RefuseListed(g) PROVE EntriesCarryLink'
  BY <1>3 DEF RefuseListed, runVars, NoEntries
<1>4. ASSUME NEW g \in Gtins, TakeProduct(g) PROVE EntriesCarryLink'
  <2>1. \A l \in Languages : ~Recorded(NoEntries[l])
    BY DEF NoEntries, NoEntry, Recorded
  <2>. QED
    BY <1>4, <2>1 DEF TakeProduct, runVars, NoEntries
<1>5. ASSUME NEW l \in Languages, UpsertRow(l) \/ UpsertRowFails(l) PROVE EntriesCarryLink'
  BY <1>5 DEF UpsertRow, UpsertRowFails, procVars, NoEntries
<1>6. ASSUME BlockProduct \/ FinishPagesFails \/ VerifyTargetsFails \/ WriteResolverFails
      PROVE  EntriesCarryLink'
  BY <1>6, GivesUp DEF ClearProduct, NoEntries
<1>7. ASSUME FinishPages PROVE EntriesCarryLink'
  <2>1. \A l \in Languages : Recorded(entries'[l]) => entries'[l].linked = mem[cur][l].linked
    BY <1>7 DEF FinishPages, PublishedEntry, NoEntry, Recorded
  <2>2. mode' # "links" /\ pc' \in {"targets", "commit"} /\ UNCHANGED <<mem, cur>>
    BY <1>7 DEF FinishPages, Inductive, WorkIsKnown
  <2>. QED
    BY <2>1, <2>2
<1>8. ASSUME VerifyTargets \/ WriteResolver PROVE EntriesCarryLink'
  BY <1>8 DEF VerifyTargets, WriteResolver, runVars
<1>9. ASSUME CommitState \/ FinishRun \/ RunDies PROVE EntriesCarryLink'
  BY <1>9 DEF CommitState, FinishRun, RunDies, SaveState, LoseProcess, ClearRun,
              ClearProduct, NoEntries
<1>10. ASSUME DownNext, UNCHANGED runVars PROVE EntriesCarryLink'
  BY <1>10, DownIsElsewhere DEF NoEntries
<1>. QED
  BY <1>0, <1>1, <1>2, <1>3, <1>4, <1>5, <1>6, <1>7, <1>8, <1>9, <1>10, Steps DEF RunNext, RunSteps

\* The link set names every page known; a listed page takes the place of none.
LEMMA CompleteSets ==
  ASSUME Inductive, pc = "targets", NEW set \in LinkSets
  PROVE  /\ set # NoLinks
         /\ \A l \in Languages : Known(l) => set[l] = "own"
<1>1. CASE set = PagesForLinks
  <2>1. \A l \in Languages : Recorded(mem[cur][l]) \/ l \in RowsOf(cur) => set[l] = "own"
    BY <1>1 DEF PagesForLinks, KnownLanguages, RecordedLanguages
  <2>2. PICK l \in Languages : l \in RowsOf(cur)
    BY DEF Inductive, WorkIsKnown, RowsOf
  <2>3. set[l] # NoLinks[l]
    BY <2>1, <2>2 DEF NoLinks
  <2>. QED
    BY <2>1, <2>3 DEF Known
<1>2. CASE UsesListedPage
  <2>1. cur \in ListedGtins
    BY <1>2 DEF UsesListedPage, Inductive, ListedIsAllowed, WorkIsKnown
  <2>2. set[DefaultLanguage] = "listed" /\ NoLinks[DefaultLanguage] = "none"
    BY <1>2, WorldAssumption DEF LinkSets, ListedPages, NoLinks
  <2>3. ~Recorded(mem[cur][DefaultLanguage])
    BY <1>2 DEF LinkSets, OwnDefaultPage
  <2>4. \A l \in Languages : ~Known(l)
    BY <1>2, <2>1, <2>3 DEF Known, OwnRow, UsesListedPage
  <2>. QED
    BY <2>2, <2>4
<1>. QED
  BY <1>1, <1>2 DEF LinkSets

\* The link set about to be written, and then the record, names every page known.
LEMMA LinkSetStep ==
  ASSUME Inductive, [Next]_vars
  PROVE  LinkSetIsComplete'
<1>. USE DEF LinkSetIsComplete, RowsOf, Known
<1>. LinkSetIsComplete
  BY DEF Inductive
<1>1. ASSUME UNCHANGED <<record, saved, procVars, runVars>> PROVE LinkSetIsComplete'
  BY <1>1 DEF procVars, runVars, NoLinks
<1>0. ASSUME Forgets PROVE LinkSetIsComplete'
  BY <1>0, NothingIsLinked DEF Forgets, runVars
<1>2. ASSUME NEW m \in Modes, NEW withRevive \in BOOLEAN, NEW confirmed \in Confirmations,
             NEW kept \in SUBSET Units, StartRun(m, withRevive, confirmed, kept)
      PROVE  LinkSetIsComplete'
  BY <1>2 DEF StartRun, BeginOn
<1>3. ASSUME NEW g \in Gtins, RefuseListed(g) \/ TakeProduct(g) PROVE LinkSetIsComplete'
  BY <1>3 DEF RefuseListed, TakeProduct
<1>4. ASSUME NEW l \in Languages, UpsertRow(l) \/ UpsertRowFails(l) PROVE LinkSetIsComplete'
  BY <1>4 DEF UpsertRow, UpsertRowFails, procVars
<1>5. ASSUME BlockProduct \/ FinishPagesFails \/ VerifyTargetsFails \/ WriteResolverFails
      PROVE  LinkSetIsComplete'
  BY <1>5, GivesUp
<1>6. ASSUME FinishPages PROVE LinkSetIsComplete'
  BY <1>6 DEF FinishPages
<1>7. ASSUME VerifyTargets PROVE LinkSetIsComplete'
  <2>1. /\ pc = "targets" /\ pc' = "resolver" /\ links' \in LinkSets
        /\ UNCHANGED <<mem, rows, mode, cur>>
    BY <1>7 DEF VerifyTargets
  <2>. QED
    BY <2>1, CompleteSets DEF NoLinks
<1>8. ASSUME WriteResolver PROVE LinkSetIsComplete'
  <2>1. /\ pc = "resolver" /\ pc' = "commit" /\ PointRecord
        /\ UNCHANGED <<mem, rows, cur, mode>>
    BY <1>8 DEF WriteResolver, runVars
  <2>2. record'[cur].links = links
    BY <2>1 DEF PointRecord, Inductive, TypeOK, WorldTypeOK, WorkIsKnown
  <2>. QED
    BY <2>1, <2>2
<1>9. ASSUME CommitState \/ FinishRun \/ RunDies PROVE LinkSetIsComplete'
  BY <1>9 DEF CommitState, FinishRun, RunDies, SaveState, LoseProcess
<1>10. ASSUME DownNext, UNCHANGED runVars PROVE LinkSetIsComplete'
  BY <1>10, DownIsElsewhere
<1>. QED
  BY <1>0, <1>1, <1>2, <1>3, <1>4, <1>5, <1>6, <1>7, <1>8, <1>9, <1>10, Steps DEF RunNext, RunSteps

\* Every target of the link set about to be written was seen.
LEMMA SeenStep ==
  ASSUME Inductive, [Next]_vars
  PROVE  LinkSetIsSeen'
<1>. USE DEF LinkSetIsSeen
<1>. LinkSetIsSeen
  BY DEF Inductive
<1>1. ASSUME UNCHANGED <<record, saved, procVars, runVars>> PROVE LinkSetIsSeen'
  BY <1>1 DEF procVars, runVars
<1>0. ASSUME Forgets PROVE LinkSetIsSeen'
  BY <1>0, NothingIsLinked DEF Forgets, runVars
<1>2. ASSUME NEW m \in Modes, NEW withRevive \in BOOLEAN, NEW confirmed \in Confirmations,
             NEW kept \in SUBSET Units, StartRun(m, withRevive, confirmed, kept)
      PROVE  LinkSetIsSeen'
  BY <1>2 DEF StartRun, BeginOn
<1>3. ASSUME NEW g \in Gtins, RefuseListed(g) \/ TakeProduct(g) PROVE LinkSetIsSeen'
  BY <1>3 DEF RefuseListed, TakeProduct, runVars
<1>4. ASSUME NEW l \in Languages, UpsertRow(l) \/ UpsertRowFails(l) PROVE LinkSetIsSeen'
  BY <1>4 DEF UpsertRow, UpsertRowFails, procVars
<1>5. ASSUME BlockProduct \/ FinishPagesFails \/ VerifyTargetsFails \/ WriteResolverFails
      PROVE  LinkSetIsSeen'
  BY <1>5, GivesUp DEF ClearProduct
<1>6. ASSUME FinishPages \/ WriteResolver PROVE LinkSetIsSeen'
  BY <1>6 DEF FinishPages, WriteResolver, runVars
<1>7. ASSUME VerifyTargets PROVE LinkSetIsSeen'
  <2>1. PICK set \in LinkSets :
          /\ \A l \in Unverified(set) : Serves(l, set[l])
          /\ links' = set
          /\ seen' = seen \cup {l \in Unverified(set) : Serves(l, set[l])}
    BY <1>7 DEF VerifyTargets
  <2>2. seen' = seen \cup Unverified(set)
    BY <2>1
  <2>3. fresh' = fresh
    BY <1>7 DEF VerifyTargets
  <2>. QED
    BY <2>1, <2>2, <2>3 DEF Unverified
<1>8. ASSUME CommitState \/ FinishRun \/ RunDies PROVE LinkSetIsSeen'
  BY <1>8 DEF CommitState, FinishRun, RunDies, SaveState, LoseProcess, ClearRun, ClearProduct
<1>9. ASSUME DownNext, UNCHANGED runVars PROVE LinkSetIsSeen'
  BY <1>9, DownIsElsewhere
<1>. QED
  BY <1>0, <1>1, <1>2, <1>3, <1>4, <1>5, <1>6, <1>7, <1>8, <1>9, Steps DEF RunNext, RunSteps

-------------------------------------------------------------------------------
(* The record. *)

\* A record is written by a run about to commit, or disabled by a take-down; the
\* state file is not written in the same step.
LEMMA RecordSteps ==
  ASSUME [Next]_vars, record' # record
  PROVE  /\ saved' = saved
         /\ \/ pc = "resolver" /\ PointRecord /\ pc' # "draft"
            \/ \E g \in Gtins : record' = [record EXCEPT ![g] = Disabled(@)]
<1>1. ASSUME RunNext PROVE saved' = saved /\ pc = "resolver" /\ PointRecord /\ pc' # "draft"
  <2>1. ASSUME BlockProduct \/ FinishPagesFails \/ VerifyTargetsFails \/ WriteResolverFails
        PROVE  saved' = saved /\ pc = "resolver" /\ PointRecord /\ pc' # "draft"
    BY <2>1, GivesUp
  <2>2. ASSUME WriteResolver
        PROVE  saved' = saved /\ pc = "resolver" /\ PointRecord /\ pc' # "draft"
    BY <2>2 DEF WriteResolver
  <2>. QED
    BY <1>1, <2>1, <2>2 DEF RunNext, RunSteps, StartRun, RefuseListed, TakeProduct,
       UpsertRow, UpsertRowFails, FinishPages, VerifyTargets, CommitState, FinishRun,
       RunDies, remoteVars
<1>2. ASSUME DownNext
      PROVE  /\ saved' = saved
             /\ \E g \in Gtins : record' = [record EXCEPT ![g] = Disabled(@)]
  BY <1>2 DEF DownNext, DownSteps, StartTakeDown, Retract, RetractRaises, DraftPage,
              DraftPageFails, ProductDown, FinishTakeDown, TakeDownDies, LoseProcess,
              remoteVars
<1>. QED
  BY <1>1, <1>2, Steps DEF Forgets

\* An enabled record has links, and the product being drafted has no enabled one.
LEMMA DisabledStep ==
  ASSUME Inductive, [Next]_vars
  PROVE  DisabledWhileDrafting'
<1>. USE DEF DisabledWhileDrafting
<1>. DisabledWhileDrafting /\ record \in [Gtins -> Record]
  BY DEF Inductive, TypeOK, WorldTypeOK
<1>1. ASSUME NEW g \in Gtins
      PROVE  Disabled(record[g]) \in Record /\ ~Disabled(record[g]).enabled
  <2>1. CASE Exists(record[g])
    BY <2>1 DEF Disabled, Record
  <2>2. CASE ~Exists(record[g])
    BY <2>2 DEF Disabled, Record
  <2>. QED
    BY <2>1, <2>2
<1>2. \A g \in Gtins : record'[g].enabled => Exists(record'[g])
  <2>1. CASE record' = record
    BY <2>1
  <2>2. CASE pc = "resolver" /\ PointRecord
    <3>1. links # NoLinks
      BY <2>2 DEF Inductive, LinkSetIsComplete
    <3>. QED
      BY <2>2, <3>1 DEF PointRecord, Exists
  <2>3. ASSUME NEW h \in Gtins, record' = [record EXCEPT ![h] = Disabled(@)]
        PROVE  \A g \in Gtins : record'[g].enabled => Exists(record'[g])
    <3>1. ASSUME NEW g \in Gtins PROVE record'[g].enabled => Exists(record'[g])
      <4>1. CASE g = h
        BY <1>1, <2>3, <4>1
      <4>2. CASE g # h
        BY <2>3, <4>2 DEF Exists, NoLinks
      <4>. QED
        BY <4>1, <4>2
    <3>. QED
      BY <3>1
  <2>. QED
    BY <2>1, <2>2, <2>3, RecordSteps
<1>3. pc' = "draft" => ~record'[cur'].enabled
  <2>1. ASSUME UNCHANGED <<record, saved, procVars, runVars>>
        PROVE  pc' = "draft" => ~record'[cur'].enabled
    BY <2>1 DEF procVars
  <2>6. ASSUME Forgets PROVE pc' # "draft"
    BY <2>6 DEF Forgets
  <2>2. ASSUME RunNext PROVE pc' # "draft"
    <3>1. ASSUME BlockProduct \/ FinishPagesFails \/ VerifyTargetsFails \/ WriteResolverFails
          PROVE  pc' # "draft"
      BY <3>1, GivesUp
    <3>. QED
      BY <2>2, <3>1 DEF RunNext, RunSteps, StartRun, BeginOn, RefuseListed, TakeProduct,
         UpsertRow, UpsertRowFails, FinishPages, VerifyTargets, WriteResolver, CommitState,
         FinishRun, RunDies, SaveState, LoseProcess, procVars
  <2>3. ASSUME NEW g \in Gtins, Retract(g) PROVE ~record'[cur'].enabled
    BY <1>1, <2>3 DEF Retract
  <2>4. ASSUME NEW l \in Languages, DraftPage(l) \/ DraftPageFails(l)
        PROVE  ~record'[cur'].enabled
    BY <2>4 DEF DraftPage, DraftPageFails, procVars
  <2>5. ASSUME DownNext, \A g \in Gtins : ~Retract(g),
               \A l \in Languages : ~DraftPage(l) /\ ~DraftPageFails(l)
        PROVE  pc' # "draft"
    BY <2>5 DEF DownNext, DownSteps, StartTakeDown, BeginOn, RetractRaises, ProductDown,
       FinishTakeDown, TakeDownDies, SaveState, LoseProcess
  <2>. QED
    BY <2>1, <2>2, <2>3, <2>4, <2>5, <2>6, Steps
<1>. QED
  BY <1>2, <1>3

-------------------------------------------------------------------------------
(* The invariant. *)

\* It holds at first.
LEMMA InductiveInit ==
  ASSUME Init
  PROVE  Inductive
<1>. USE DEF Init, WorldInit, PlanInit, RunInit, DownInit
<1>1. TypeOK
  <2>1. PlanTypeOK
    <3>1. [class |-> "new", content |-> 0] \in PlanRow
      BY MaxVersionAssumption DEF PlanRow, Classification
    <3>. QED
      BY <3>1 DEF PlanTypeOK
  <2>2. RunTypeOK
    <3>1. NoEntry \in StateEntry
      BY MaxVersionAssumption DEF NoEntry, StateEntry, PageStatus
    <3>2. entries \in [Languages -> StateEntry]
      BY <3>1 DEF NoEntries
    <3>. QED
      BY <3>2 DEF RunTypeOK, Modes, NoLinks, Target
  <2>3. DownTypeOK
    BY DEF DownTypeOK
  <2>. QED
    BY <2>1, <2>2, <2>3, WorldInitTypes DEF TypeOK
<1>2. WorkIsKnown /\ ListedIsAllowed
  BY DEF WorkIsKnown, ListedIsAllowed, RunPcs
<1>3. \A g \in Gtins, l \in Languages : saved[g][l].linked = FALSE /\ mem[g][l].linked = FALSE
  BY NothingIsLinked
<1>4. LinkedIsRecorded /\ LinkedMeansInRecord /\ MemoryLinkedInRecord
  BY <1>3 DEF LinkedIsRecorded, LinkedMeansInRecord, MemoryLinkedInRecord
<1>5. EntriesCarryLink /\ LinkSetIsComplete /\ LinkSetIsSeen
  BY DEF EntriesCarryLink, LinkSetIsComplete, LinkSetIsSeen
<1>6. DisabledWhileDrafting
  BY DEF DisabledWhileDrafting, NoRecord
<1>. QED
  BY <1>1, <1>2, <1>4, <1>5, <1>6 DEF Inductive

\* Every step preserves it.
LEMMA InductiveStep ==
  ASSUME Inductive, [Next]_vars
  PROVE  Inductive'
<1>1. TypeOK'
  BY StepTypes DEF Inductive
<1>2. WorkIsKnown' /\ ListedIsAllowed'
  BY WorkStep, ListedStep DEF Inductive
<1>3. MemoryLinkedInRecord' /\ LinkedMeansInRecord'
  BY ClaimStep DEF Claims, MemoryLinkedInRecord, LinkedMeansInRecord, OwnLanguages
<1>. QED
  BY <1>1, <1>2, <1>3, LinkedStep, EntriesStep, LinkSetStep, SeenStep, DisabledStep
  DEF Inductive

\* So it always holds.
LEMMA Invariance == Spec => []Inductive
<1>1. Init => Inductive
  BY InductiveInit
<1>2. Inductive /\ [Next]_vars => Inductive'
  BY InductiveStep
<1>. QED
  BY <1>1, <1>2, PTL DEF Spec

-------------------------------------------------------------------------------
(* What follows. *)

\* Every variable keeps its type.
THEOREM TypeCorrect == Spec => []TypeOK
<1>1. Inductive => TypeOK
  BY DEF Inductive
<1>. QED
  BY <1>1, Invariance, PTL

\* A state entry that says its resolver link was written is right, whatever runs,
\* take-downs, failures and kills came before (run_execute._commit_state).
THEOREM LinksAreInRecord == Spec => []LinkedMeansInRecord
<1>1. Inductive => LinkedMeansInRecord
  BY DEF Inductive
<1>. QED
  BY <1>1, Invariance, PTL

\* A record is only ever pointed at pages the run saw serving
\* (run_execute._verify_targets).
THEOREM TargetsAreSeen == Spec => OnlySeenTargets
<1>1. ASSUME Inductive, [Next]_vars, NEW g \in Gtins, NEW l \in Languages,
             record'[g] # record[g], record'[g].enabled, record'[g].links[l] # "none"
      PROVE  l \in seen
  <2>. record \in [Gtins -> Record]
    BY <1>1 DEF Inductive, TypeOK, WorldTypeOK
  <2>1. CASE pc = "resolver" /\ PointRecord
    <3>1. g = cur /\ record'[g].links = links
      BY <1>1, <2>1 DEF PointRecord, Inductive, WorkIsKnown
    <3>. QED
      BY <1>1, <2>1, <3>1 DEF Inductive, LinkSetIsSeen
  <2>2. ASSUME NEW h \in Gtins, record' = [record EXCEPT ![h] = Disabled(@)] PROVE FALSE
    <3>1. g = h /\ record'[g] = Disabled(record[g])
      BY <1>1, <2>2
    <3>2. Exists(record[g])
      BY <1>1, <3>1 DEF Disabled
    <3>. QED
      BY <1>1, <3>1, <3>2 DEF Disabled, Record
  <2>. QED
    BY <1>1, <2>1, <2>2, RecordSteps
<1>2. Inductive /\ [Next]_vars =>
        [\A g \in Gtins : \A l \in Languages :
            (record'[g] # record[g] /\ record'[g].enabled /\ record'[g].links[l] # "none")
               => l \in seen]_vars
  BY <1>1
<1>. QED
  BY <1>2, Invariance, PTL DEF Spec, OnlySeenTargets

\* A page is drafted only while its record is disabled (run_unpublish: "the order
\* is the point").
THEOREM RecordGoesFirst == Spec => DisabledBeforeDrafted
<1>1. Inductive =>
        [\A l \in Languages :
            (pc = "draft" /\ site[cur][l].status = "publish" /\ site'[cur][l].status = "draft")
               => ~record[cur].enabled]_vars
  BY DEF Inductive, DisabledWhileDrafting
<1>. QED
  BY <1>1, Invariance, PTL DEF Spec, DisabledBeforeDrafted

-------------------------------------------------------------------------------
(* The ledger. *)

Products == Gtins \ ListedGtins
Pointed == [g \in Products |-> OwnLanguages(record[g])]
Claimed == [g \in Products |-> {l \in Languages : saved[g][l].linked}]

\* A step that leaves the record alone claims only what the record has.
LEMMA ClaimingSteps ==
  ASSUME Inductive', UNCHANGED record
  PROVE  \E claims \in [Products -> SUBSET Languages] : Ledger!Claim(claims)
<1>1. \A g \in Products : Claimed'[g] \subseteq Pointed[g]
  BY DEF Inductive, LinkedMeansInRecord, OwnRow, Claimed, Pointed, Products, OwnLanguages
<1>2. Pointed' = Pointed
  BY DEF Pointed, OwnLanguages
<1>. PICK claims : claims = Claimed'
  OBVIOUS
<1>3. Ledger!Claim(claims)
  BY <1>1, <1>2 DEF Ledger!Claim, Claimed, Pointed, Products
<1>4. claims \in [Products -> SUBSET Languages]
  BY DEF Claimed
<1>. QED
  BY <1>3, <1>4

\* A step that writes a product's record points it at every language claimed.
LEMMA PointingSteps ==
  ASSUME Inductive, Inductive', UNCHANGED saved, NEW h \in Gtins, NEW r \in Record,
         record' = [record EXCEPT ![h] = r]
  PROVE  (\E g \in Products, languages \in SUBSET Languages : Ledger!Point(g, languages))
           \/ UNCHANGED <<Pointed, Claimed>>
<1>. record \in [Gtins -> Record]
  BY DEF Inductive, TypeOK, WorldTypeOK
<1>1. Claimed' = Claimed
  BY DEF Claimed
<1>2. CASE h \in Products
  <2>1. Pointed' = [Pointed EXCEPT ![h] = OwnLanguages(r)]
    BY <1>2 DEF Pointed, OwnLanguages, Products
  <2>2. Claimed[h] \subseteq OwnLanguages(r)
    BY <1>2 DEF Inductive, LinkedMeansInRecord, OwnRow, Claimed, Products, OwnLanguages
  <2>3. OwnLanguages(r) \in SUBSET Languages
    BY DEF OwnLanguages
  <2>. QED
    BY <1>1, <1>2, <2>1, <2>2, <2>3 DEF Ledger!Point, Pointed, Claimed, Products
<1>3. CASE h \notin Products
  BY <1>1, <1>3 DEF Pointed, OwnLanguages, Products
<1>. QED
  BY <1>2, <1>3

\* The resolver and the state file implement the ledger: a claim is written only
\* after its link, and no link that is claimed is written away
\* (run_execute._known_pages, run_unpublish.retract).
THEOREM RecordsFollowLedger == Spec => ClaimsFollowRecord
<1>1. Init => Ledger!Init
  <2>1. ASSUME Init PROVE Ledger!Init
    BY <2>1 DEF Init, WorldInit, Ledger!Init, NoRecord, NoLinks, NoEntry, NothingRecorded, OwnLanguages
  <2>. QED
    BY <2>1
<1>2. Inductive /\ Inductive' /\ [Next]_vars => [Ledger!Next]_<<Pointed, Claimed>>
  <2>. SUFFICES ASSUME Inductive, Inductive', [Next]_vars
                PROVE  [Ledger!Next]_<<Pointed, Claimed>>
    OBVIOUS
  <2>1. CASE record' = record
    BY <2>1, ClaimingSteps DEF Ledger!Next, Products
  <2>2. ASSUME NEW h \in Gtins, NEW r \in Record, UNCHANGED saved,
               record' = [record EXCEPT ![h] = r]
        PROVE  [Ledger!Next]_<<Pointed, Claimed>>
    BY <2>2, PointingSteps DEF Ledger!Next, Products
  <2>3. CASE pc = "resolver" /\ PointRecord /\ saved' = saved
    <3>1. cur \in Gtins /\ [enabled |-> TRUE, links |-> links] \in Record
      BY <2>3 DEF Inductive, WorkIsKnown, TypeOK, RunTypeOK, Record
    <3>. QED
      BY <2>2, <2>3, <3>1 DEF PointRecord
  <2>4. ASSUME NEW g \in Gtins, record' = [record EXCEPT ![g] = Disabled(@)], saved' = saved
        PROVE  [Ledger!Next]_<<Pointed, Claimed>>
    <3>1. Disabled(record[g]) \in Record
      BY DisabledTypes DEF Inductive, TypeOK, WorldTypeOK
    <3>. QED
      BY <2>2, <2>4, <3>1
  <2>. QED
    BY <2>1, <2>3, <2>4, RecordSteps
<1>. QED
  BY <1>1, <1>2, Invariance, PTL DEF Spec, ClaimsFollowRecord, Ledger!Spec, Pointed, Claimed,
     Products

-------------------------------------------------------------------------------
(* What is committed was published, and what is called up to date is: the  *)
(* safety properties about a product's content, its listed page and its    *)
(* take-down.                                                              *)

-------------------------------------------------------------------------------
(* What a step may do to a page, to a version, to an entry. *)

\* A step leaves a page as it is, takes it down, or is a run writing a pending row.
LEMMA SiteSteps ==
  ASSUME Inductive, [Next]_vars, NEW g \in Gtins, NEW l \in Languages
  PROVE  \/ site'[g][l] = site[g][l]
         \/ /\ site'[g][l].status # "publish"
            /\ site'[g][l].shows \in {0, site[g][l].shows}
         \/ /\ pc = "rows" /\ g = cur /\ l \in Pending
            /\ site'[g][l] = Written(l)
<1>. site \in [Gtins -> [Languages -> Page]]
  BY DEF Inductive, TypeOK, WorldTypeOK
<1>. DEFINE Takes == /\ site'[g][l].status # "publish"
                     /\ site'[g][l].shows \in {0, site[g][l].shows}
            Writes == /\ pc = "rows" /\ g = cur /\ l \in Pending
                      /\ site'[g][l] = Written(l)
            Fits == site'[g][l] = site[g][l] \/ Takes \/ Writes
<1>1. ASSUME NEW h \in Gtins, NEW k \in Languages,
             site' = [site EXCEPT ![h][k] = NoPage] \/ site' = [site EXCEPT ![h][k].status = "draft"]
      PROVE  Fits
  <2>1. CASE g = h /\ l = k
    <3>1. site[g][l] \in Page
      OBVIOUS
    <3>2. site'[g][l] = NoPage \/ site'[g][l] = [site[g][l] EXCEPT !.status = "draft"]
      BY <1>1, <2>1
    <3>. QED
      BY <3>1, <3>2 DEF NoPage, Page
  <2>2. CASE ~(g = h /\ l = k)
    BY <1>1, <2>2
  <2>. QED
    BY <2>1, <2>2
<1>2. ASSUME NEW k \in Languages, UpsertRow(k) \/ UpsertRowFails(k) PROVE Fits
  <2>1. /\ pc = "rows" /\ k \in Pending /\ cur \in Gtins
        /\ site' = site \/ site' = [site EXCEPT ![cur][k] = Written(k)]
    BY <1>2 DEF UpsertRow, UpsertRowFails, Inductive, WorkIsKnown
  <2>. QED
    BY <2>1
<1>3. ASSUME NEW k \in Languages, DraftPage(k) \/ DraftPageFails(k) PROVE Fits
  <2>1. /\ cur \in Gtins
        /\ site' = site \/ site' = [site EXCEPT ![cur][k].status = "draft"]
    BY <1>3 DEF DraftPage, DraftPageFails, Inductive, WorkIsKnown
  <2>. QED
    BY <1>1, <2>1
<1>4. ASSUME Environment PROVE Fits
  BY <1>1, <1>4 DEF Environment, ContentChanges, OperatorLists, EditorTakesDown, BecomeCalm,
     remoteVars
<1>5. ASSUME RunNext, \A k \in Languages : ~UpsertRow(k) /\ ~UpsertRowFails(k)
      PROVE  site' = site
  BY <1>5 DEF RunNext, RunSteps, StartRun, RefuseListed, TakeProduct, BlockProduct, FinishPages,
     FinishPagesFails, VerifyTargets, VerifyTargetsFails, WriteResolver, WriteResolverFails,
     CommitState, FinishRun, RunDies, remoteVars
<1>6. ASSUME DownNext, \A k \in Languages : ~DraftPage(k) /\ ~DraftPageFails(k)
      PROVE  site' = site
  BY <1>6 DEF DownNext, DownSteps, StartTakeDown, Retract, RetractRaises, ProductDown,
     FinishTakeDown, TakeDownDies, remoteVars
<1>7. ASSUME BuildPlan \/ StateIsLost \/ UNCHANGED vars PROVE site' = site
  BY <1>7 DEF BuildPlan, StateIsLost, vars, worldVars, envVars, remoteVars, procVars
<1>. QED
  BY <1>2, <1>3, <1>4, <1>5, <1>6, <1>7 DEF Next

\* A step leaves the plan alone, or builds one while no process runs.
LEMMA PlanSteps ==
  ASSUME [Next]_vars
  PROVE  \/ UNCHANGED planVars
         \/ BuildPlan /\ UNCHANGED runVars
<1>1. ASSUME RunNext PROVE UNCHANGED planVars
  BY <1>1 DEF RunNext, RunSteps, StartRun, RefuseListed, TakeProduct, UpsertRow,
              UpsertRowFails, BlockProduct, FinishPages, FinishPagesFails, VerifyTargets,
              VerifyTargetsFails, WriteResolver, WriteResolverFails, CommitState,
              FinishRun, RunDies
<1>. QED
  BY <1>1 DEF Next, vars

\* Content only gets newer.
LEMMA ContentSteps ==
  ASSUME TypeOK, [Next]_vars, NEW g \in Gtins, NEW l \in Languages
  PROVE  content[g][l] <= content'[g][l]
<1>. content \in [Gtins -> [Languages -> Versions]] /\ Versions \subseteq Nat
  BY MaxVersionAssumption DEF TypeOK, WorldTypeOK, Versions
<1>1. ASSUME NEW h \in Gtins, NEW k \in Languages, ContentChanges(h, k)
      PROVE  content[g][l] <= content'[g][l]
  <2>1. content[h][k] \in Nat /\ content' = [content EXCEPT ![h][k] = @ + 1]
    BY <1>1 DEF ContentChanges
  <2>2. CASE g = h /\ l = k
    BY <2>1, <2>2
  <2>3. CASE ~(g = h /\ l = k)
    <3>1. content'[g][l] = content[g][l] /\ content[g][l] \in Nat
      BY <2>1, <2>3
    <3>. QED
      BY <3>1
  <2>. QED
    BY <2>2, <2>3
<1>2. ASSUME Environment, \A h \in Gtins, k \in Languages : ~ContentChanges(h, k)
      PROVE  content' = content
  BY <1>2 DEF Environment, OperatorLists, EditorTakesDown, BecomeCalm, envVars
<1>3. ASSUME RunNext PROVE UNCHANGED envVars
  BY <1>3 DEF RunNext, RunSteps, StartRun, RefuseListed, TakeProduct, UpsertRow,
              UpsertRowFails, BlockProduct, FinishPages, FinishPagesFails, VerifyTargets,
              VerifyTargetsFails, WriteResolver, WriteResolverFails, CommitState,
              FinishRun, RunDies
<1>4. ASSUME DownNext PROVE UNCHANGED envVars
  BY <1>4 DEF DownNext, DownSteps, StartTakeDown, Retract, RetractRaises, DraftPage,
              DraftPageFails, ProductDown, FinishTakeDown, TakeDownDies
<1>5. ASSUME BuildPlan \/ StateIsLost \/ UNCHANGED vars PROVE content' = content
  BY <1>5 DEF BuildPlan, StateIsLost, vars, worldVars, envVars, remoteVars, procVars
<1>6. content[g][l] \in Nat
  OBVIOUS
<1>. QED
  BY <1>1, <1>2, <1>3, <1>4, <1>5, <1>6 DEF Next, envVars

\* The state file is kept, replaced by memory at the end of a process, or lost.
LEMMA SavedSteps ==
  ASSUME [Next]_vars
  PROVE  \/ saved' = saved
         \/ saved' = mem /\ mem' = mem /\ pc' = "idle"
         \/ Forgets
<1>1. ASSUME RunNext PROVE saved' = saved \/ (saved' = mem /\ mem' = mem /\ pc' = "idle")
  BY <1>1 DEF RunNext, RunSteps, StartRun, RefuseListed, TakeProduct, UpsertRow,
              UpsertRowFails, BlockProduct, FinishPages, FinishPagesFails, VerifyTargets,
              VerifyTargetsFails, WriteResolver, WriteResolverFails, CommitState,
              FinishRun, SaveState, RunDies, LoseProcess
<1>2. ASSUME DownNext PROVE saved' = saved \/ (saved' = mem /\ mem' = mem /\ pc' = "idle")
  BY <1>2 DEF DownNext, DownSteps, StartTakeDown, Retract, RetractRaises, DraftPage,
              DraftPageFails, ProductDown, FinishTakeDown, SaveState, TakeDownDies, LoseProcess
<1>. QED
  BY <1>1, <1>2, Steps

\* Memory is kept, loaded from the file, forgotten, or changed by a commit or for a
\* page that is drafted.
LEMMA MemorySteps ==
  ASSUME [Next]_vars
  PROVE  \/ mem' = mem
         \/ mem' = saved /\ saved' = saved
         \/ Forgets
         \/ CommitState
         \/ \E l \in Languages : DraftPage(l)
<1>1. ASSUME RunNext PROVE mem' = mem \/ (mem' = saved /\ saved' = saved) \/ CommitState
  <2>1. ASSUME BlockProduct \/ FinishPagesFails \/ VerifyTargetsFails \/ WriteResolverFails
        PROVE  mem' = mem
    BY <2>1, GivesUp
  <2>. QED
    BY <1>1, <2>1 DEF RunNext, RunSteps, StartRun, BeginOn, RefuseListed, TakeProduct, UpsertRow,
              UpsertRowFails, FinishPages, VerifyTargets, WriteResolver,
              FinishRun, SaveState, RunDies, LoseProcess, procVars
<1>2. ASSUME DownNext
      PROVE  mem' = mem \/ (mem' = saved /\ saved' = saved) \/ \E l \in Languages : DraftPage(l)
  BY <1>2 DEF DownNext, DownSteps, StartTakeDown, BeginOn, Retract, RetractRaises,
              DraftPageFails, ProductDown, FinishTakeDown, SaveState, TakeDownDies, LoseProcess,
              procVars
<1>. QED
  BY <1>1, <1>2, Steps DEF procVars

\* A run begins with the state file in memory, and once begun keeps its rows, its
\* mode, its plan and the state file.
LEMMA RunFrame ==
  ASSUME [Next]_vars, pc' \in RunPcs
  PROVE  \/ /\ pc = "idle" /\ pc' = "next"
            /\ mem' = saved /\ saved' = saved
            /\ UNCHANGED <<planned, fresh, entries>>
            /\ \A u \in Units : planned[u[1]][u[2]].content # 0
         \/ pc \in RunPcs /\ UNCHANGED <<rows, mode, planned, saved>>
<1>. DEFINE Begins == /\ pc = "idle" /\ pc' = "next"
                      /\ mem' = saved /\ saved' = saved
                      /\ UNCHANGED <<planned, fresh, entries>>
                      /\ \A u \in Units : planned[u[1]][u[2]].content # 0
            Runs == pc \in RunPcs /\ UNCHANGED <<rows, mode, planned, saved>>
<1>. USE DEF RunPcs
<1>1. CASE UNCHANGED <<record, saved, procVars, runVars>>
  BY <1>1, PlanSteps DEF procVars, runVars, planVars, BuildPlan
<1>2. CASE Forgets
  BY <1>2 DEF Forgets
<1>3. CASE RunNext
  <2>1. ASSUME NEW m \in Modes, NEW withRevive \in BOOLEAN, NEW confirmed \in Confirmations,
               NEW kept \in SUBSET Units, StartRun(m, withRevive, confirmed, kept)
        PROVE  Begins
    BY <2>1 DEF StartRun, BeginOn, planVars
  <2>2. ASSUME BlockProduct \/ FinishPagesFails \/ VerifyTargetsFails \/ WriteResolverFails
        PROVE  Runs
    <3>1. planned' = planned
      BY <2>2 DEF BlockProduct, FinishPagesFails, VerifyTargetsFails, WriteResolverFails, planVars
    <3>. QED
      BY <2>2, <3>1, GivesUp
  <2>3. ASSUME FinishRun \/ RunDies PROVE FALSE
    BY <2>3 DEF FinishRun, RunDies, SaveState, LoseProcess
  <2>. QED
    BY <1>3, <2>1, <2>2, <2>3 DEF RunNext, RunSteps, RefuseListed, TakeProduct, UpsertRow,
       UpsertRowFails, FinishPages, VerifyTargets, WriteResolver, CommitState, planVars,
       runVars, procVars
<1>4. CASE DownNext /\ UNCHANGED runVars
  BY <1>4, DownIsElsewhere
<1>. QED
  BY <1>1, <1>2, <1>3, <1>4, Steps

\* The pages a run has written of the product in work are kept with the product and
\* the plan, forgotten with it, or one more is written.
LEMMA FreshSteps ==
  ASSUME EntriesAreMeant, [Next]_vars
  PROVE  \/ fresh' = {}
         \/ fresh' = fresh /\ cur' = cur /\ planned' = planned
         \/ \E l \in Languages : UpsertRow(l)
<1>. DEFINE Keeps == fresh' = fresh /\ cur' = cur /\ planned' = planned
<1>1. pc = "idle" \/ pc \in {"next", "down", "draft"} => fresh = {}
  BY DEF EntriesAreMeant
<1>2. CASE UNCHANGED <<record, saved, procVars, runVars>>
  BY <1>1, <1>2, PlanSteps DEF procVars, runVars, planVars, BuildPlan
<1>3. CASE Forgets
  BY <1>1, <1>3 DEF Forgets, runVars
<1>4. CASE RunNext
  <2>1. planned' = planned
    BY <1>4 DEF RunNext, RunSteps, StartRun, RefuseListed, TakeProduct, UpsertRow,
              UpsertRowFails, BlockProduct, FinishPages, FinishPagesFails, VerifyTargets,
              VerifyTargetsFails, WriteResolver, WriteResolverFails, CommitState,
              FinishRun, RunDies, planVars
  <2>2. ASSUME BlockProduct \/ FinishPagesFails \/ VerifyTargetsFails \/ WriteResolverFails
        PROVE  fresh' = {}
    BY <2>2, GivesUp DEF ClearProduct
  <2>3. ASSUME CommitState \/ FinishRun \/ RunDies PROVE fresh' = {}
    BY <2>3 DEF CommitState, FinishRun, RunDies, ClearRun, ClearProduct
  <2>. QED
    BY <1>1, <1>4, <2>1, <2>2, <2>3 DEF RunNext, RunSteps, StartRun, BeginOn, RefuseListed,
       TakeProduct, UpsertRowFails, FinishPages, VerifyTargets, WriteResolver, runVars, procVars
<1>5. CASE DownNext /\ UNCHANGED runVars
  BY <1>1, <1>5, DownIsElsewhere
<1>. QED
  BY <1>2, <1>3, <1>4, <1>5, Steps

\* What a commit makes of a row: its content is memory's, or the plan's for a page
\* this run wrote; it forgets no entry, and links every entry whose record is done.
LEMMA CommittedContents ==
  ASSUME Inductive, EntriesAreMeant, pc = "commit", NEW l \in Languages
  PROVE  /\ \/ Committed(l).content = mem[cur][l].content
            \/ l \in fresh /\ Committed(l).content = planned[cur][l].content
         /\ Recorded(mem[cur][l]) => Recorded(Committed(l))
         /\ (l \in RowsOf(cur) /\ WritesPages(mode)) =>
               Committed(l).content = planned[cur][l].content
         /\ (l \in RowsOf(cur) /\ WritesLinks(mode) /\ Recorded(Committed(l))) =>
               Committed(l).linked
<1>. DEFINE entry == IF Recorded(entries[l]) THEN entries[l] ELSE mem[cur][l]
            new == [entry EXCEPT !.linked = TRUE, !.retracted = FALSE]
<1>1. entries[l] \in StateEntry /\ mem[cur][l] \in StateEntry
  BY DEF Inductive, TypeOK, WorldTypeOK, RunTypeOK, WorkIsKnown
<1>2. Recorded(entries[l]) => l \in fresh /\ entries[l].content = planned[cur][l].content
  BY DEF EntriesAreMeant
<1>3. (l \in RowsOf(cur) /\ WritesPages(mode)) => Recorded(entries[l])
  BY DEF EntriesAreMeant
<1>4. /\ entry \in StateEntry
      /\ Recorded(mem[cur][l]) => Recorded(entry)
      /\ (entry = entries[l] /\ Recorded(entries[l])) \/ entry = mem[cur][l]
      /\ Recorded(entries[l]) => entry = entries[l]
  <2>1. CASE Recorded(entries[l])
    BY <1>1, <2>1
  <2>2. CASE ~Recorded(entries[l])
    BY <1>1, <2>2
  <2>. QED
    BY <2>1, <2>2
<1>. HIDE DEF entry
<1>5. new.linked /\ new.content = entry.content
  BY <1>4 DEF StateEntry
<1>. HIDE DEF new
<1>6. Committed(l) = IF l \notin RowsOf(cur) THEN mem[cur][l]
                     ELSE IF ~Recorded(entry) \/ ~WritesLinks(mode) THEN entry ELSE new
  BY DEF Committed, entry, new
<1>7. CASE l \notin RowsOf(cur)
  BY <1>6, <1>7
<1>8. CASE l \in RowsOf(cur) /\ (~Recorded(entry) \/ ~WritesLinks(mode))
  <2>1. Committed(l) = entry
    BY <1>6, <1>8
  <2>. QED
    BY <1>2, <1>3, <1>4, <1>8, <2>1
<1>9. CASE l \in RowsOf(cur) /\ Recorded(entry) /\ WritesLinks(mode)
  <2>1. Committed(l) = new
    BY <1>6, <1>9
  <2>2. Recorded(Committed(l))
    BY <1>5, <1>9, <2>1 DEF Recorded
  <2>. QED
    BY <1>2, <1>3, <1>4, <1>5, <1>9, <2>1, <2>2
<1>. QED
  BY <1>7, <1>8, <1>9

\* The content of an entry in memory, after a step, was there before, is gone, or is
\* the plan's for a page this run wrote.
LEMMA MemoryContents ==
  ASSUME Inductive, EntriesAreMeant, [Next]_vars, NEW g \in Gtins, NEW l \in Languages
  PROVE  \/ mem'[g][l].content \in {0, mem[g][l].content, saved[g][l].content}
         \/ g = cur /\ l \in fresh /\ mem'[g][l].content = planned[g][l].content
<1>1. ASSUME Forgets PROVE mem'[g][l].content = 0
  BY <1>1 DEF Forgets, NothingRecorded, NoEntry
<1>2. CASE CommitState
  <2>1. pc = "commit"
    BY <1>2 DEF CommitState
  <2>. QED
    BY <1>2, <2>1, CommitEntries, CommittedContents
<1>3. ASSUME NEW k \in Languages, DraftPage(k) PROVE mem'[g][l].content = mem[g][l].content
  <2>1. PICK there \in BOOLEAN : mem' = [mem EXCEPT ![cur][k] = DownEntry(@, there)]
    BY <1>3 DEF DraftPage
  <2>2. mem \in [Gtins -> [Languages -> StateEntry]]
    BY DEF Inductive, TypeOK, WorldTypeOK
  <2>3. CASE g = cur /\ l = k
    <3>1. mem'[g][l] = DownEntry(mem[g][l], there)
      BY <2>1, <2>2, <2>3
    <3>2. mem[g][l] \in StateEntry
      BY <2>2
    <3>. QED
      BY <3>1, <3>2 DEF DownEntry, StateEntry
  <2>4. CASE ~(g = cur /\ l = k)
    BY <2>1, <2>2, <2>4
  <2>. QED
    BY <2>3, <2>4
<1>. QED
  BY <1>1, <1>2, <1>3, MemorySteps

\* The content of an entry in the state file was in it, in memory, or is gone.
LEMMA SavedContents ==
  ASSUME [Next]_vars, NEW g \in Gtins, NEW l \in Languages
  PROVE  saved'[g][l].content \in {0, mem[g][l].content, saved[g][l].content}
<1>1. ASSUME Forgets PROVE saved'[g][l].content = 0
  BY <1>1 DEF Forgets, NothingRecorded, NoEntry
<1>. QED
  BY <1>1, SavedSteps

-------------------------------------------------------------------------------
(* The parts of the invariant, one by one. *)

\* What is about to be committed was meant and written.
LEMMA MeantStep ==
  ASSUME Inductive, EntriesAreMeant, [Next]_vars
  PROVE  EntriesAreMeant'
<1>. DEFINE Planned == pc' \in RunPcs =>
                          \A g \in Gtins, l \in Languages : planned'[g][l].content # 0
            Locals == /\ pc' \notin {"rows", "targets", "resolver", "commit"} => fresh' = {}
                      /\ \A l \in Languages : Recorded(entries'[l]) =>
                            l \in fresh' /\ entries'[l].content = planned'[cur'][l].content
                      /\ (pc' \in {"targets", "resolver", "commit"} /\ WritesPages(mode')) =>
                            \A l \in RowsOf(cur)' : Recorded(entries'[l])
<1>1. Planned
  <2>1. ASSUME NEW g \in Gtins, NEW l \in Languages,
               \A u \in Units : planned[u[1]][u[2]].content # 0
        PROVE  planned[g][l].content # 0
    <3>1. <<g, l>> \in Units
      BY DEF Units
    <3>. QED
      BY <2>1, <3>1
  <2>. QED
    BY <2>1, RunFrame DEF EntriesAreMeant
<1>2. \A l \in Languages : ~Recorded(NoEntries[l])
  BY DEF NoEntries, NoEntry, Recorded
<1>3. pc \notin {"targets", "resolver", "commit"} => entries = NoEntries
  BY DEF Inductive, EntriesCarryLink
<1>4. pc \notin {"rows", "targets", "resolver", "commit"} => fresh = {}
  BY DEF EntriesAreMeant
<1>5. /\ \A l \in Languages : Recorded(entries[l]) =>
            l \in fresh /\ entries[l].content = planned[cur][l].content
      /\ (pc \in {"targets", "resolver", "commit"} /\ WritesPages(mode)) =>
            \A l \in RowsOf(cur) : Recorded(entries[l])
  BY DEF EntriesAreMeant
<1>6. ASSUME ClearProduct, pc' \in {"idle", "next"} PROVE Locals
  BY <1>2, <1>6 DEF ClearProduct
<1>7. ASSUME UNCHANGED <<record, saved, procVars, runVars>> PROVE Locals
  <2>1. CASE UNCHANGED planVars
    BY <1>4, <1>5, <1>7, <2>1 DEF procVars, runVars, planVars, RowsOf
  <2>2. CASE BuildPlan
    BY <1>2, <1>3, <1>4, <1>7, <2>2 DEF procVars, runVars, BuildPlan
  <2>. QED
    BY <2>1, <2>2, PlanSteps
<1>8. ASSUME Forgets PROVE Locals
  BY <1>2, <1>3, <1>4, <1>8 DEF Forgets, runVars
<1>9. ASSUME RunNext PROVE Locals
  <2>1. ASSUME NEW m \in Modes, NEW withRevive \in BOOLEAN, NEW confirmed \in Confirmations,
               NEW kept \in SUBSET Units, StartRun(m, withRevive, confirmed, kept)
        PROVE  Locals
    BY <1>2, <1>3, <1>4, <2>1 DEF StartRun, BeginOn
  <2>2. ASSUME NEW g \in Gtins, RefuseListed(g) \/ TakeProduct(g) PROVE Locals
    BY <1>2, <1>3, <1>4, <2>2 DEF RefuseListed, TakeProduct, runVars
  <2>3. ASSUME NEW l \in Languages, UpsertRow(l) \/ UpsertRowFails(l) PROVE Locals
    BY <1>2, <1>3, <2>3 DEF UpsertRow, UpsertRowFails, procVars
  <2>4. ASSUME BlockProduct \/ FinishPagesFails \/ VerifyTargetsFails \/ WriteResolverFails
        PROVE  Locals
    BY <1>6, <2>4, GivesUp
  <2>5. CASE FinishPages
    <3>1. /\ pc = "rows" /\ RowsOf(cur) \subseteq fresh
          /\ pc' \in {"targets", "commit"}
          /\ UNCHANGED <<planVars, cur, rows, fresh>>
          /\ entries' = [l \in Languages |-> IF l \in fresh THEN PublishedEntry(l) ELSE NoEntry]
      BY <2>5 DEF FinishPages, Pending
    <3>2. \A l \in Languages : planned[cur][l].content # 0
      BY <3>1 DEF EntriesAreMeant, RunPcs, Inductive, WorkIsKnown
    <3>3. ASSUME NEW l \in Languages
          PROVE  IF l \in fresh THEN Recorded(entries'[l]) /\
                                     entries'[l].content = planned[cur][l].content
                 ELSE ~Recorded(entries'[l])
      BY <3>1, <3>2 DEF PublishedEntry, Recorded, NoEntry
    <3>4. RowsOf(cur)' = RowsOf(cur) /\ RowsOf(cur) \subseteq Languages
      BY <3>1 DEF RowsOf
    <3>. QED
      BY <3>1, <3>3, <3>4 DEF planVars
  <2>6. CASE VerifyTargets \/ WriteResolver
    <3>1. /\ pc \in {"targets", "resolver"} /\ pc' \in {"resolver", "commit"}
          /\ UNCHANGED <<planVars, cur, rows, fresh, mode, entries>>
      BY <2>6 DEF VerifyTargets, WriteResolver, runVars
    <3>. QED
      BY <1>5, <3>1 DEF planVars, RowsOf
  <2>7. CASE CommitState \/ FinishRun \/ RunDies
    BY <1>6, <2>7 DEF CommitState, FinishRun, RunDies, ClearRun, SaveState, LoseProcess
  <2>. QED
    BY <1>9, <2>1, <2>2, <2>3, <2>4, <2>5, <2>6, <2>7 DEF RunNext, RunSteps
<1>10. ASSUME DownNext, UNCHANGED runVars PROVE Locals
  BY <1>2, <1>3, <1>4, <1>10, DownIsElsewhere DEF runVars
<1>11. Locals
  BY <1>7, <1>8, <1>9, <1>10, Steps
<1>. QED
  BY <1>1, <1>11 DEF EntriesAreMeant


\* A record that was written for a commit is enabled until the commit.
LEMMA EnabledStep ==
  ASSUME Inductive, WrittenIsEnabled, [Next]_vars
  PROVE  WrittenIsEnabled'
<1>. USE DEF WrittenIsEnabled
<1>1. ASSUME UNCHANGED <<record, saved, procVars, runVars>> PROVE WrittenIsEnabled'
  BY <1>1 DEF procVars, runVars
<1>2. ASSUME Forgets PROVE WrittenIsEnabled'
  BY <1>2 DEF Forgets
<1>3. ASSUME RunNext PROVE WrittenIsEnabled'
  <2>1. ASSUME FinishPages PROVE WrittenIsEnabled'
    BY <2>1 DEF FinishPages
  <2>2. ASSUME WriteResolver PROVE WrittenIsEnabled'
    <3>1. cur \in Gtins /\ cur' = cur /\ PointRecord
      BY <2>2 DEF WriteResolver, Inductive, WorkIsKnown
    <3>2. record'[cur].enabled
      BY <3>1 DEF PointRecord, Inductive, TypeOK, WorldTypeOK
    <3>. QED
      BY <3>1, <3>2
  <2>3. ASSUME BlockProduct \/ FinishPagesFails \/ VerifyTargetsFails \/ WriteResolverFails
        PROVE  WrittenIsEnabled'
    BY <2>3, GivesUp
  <2>. QED
    BY <1>3, <2>1, <2>2, <2>3 DEF RunNext, RunSteps, StartRun, BeginOn, RefuseListed, TakeProduct,
       UpsertRow, UpsertRowFails, VerifyTargets, CommitState, FinishRun, RunDies, SaveState,
       LoseProcess, procVars
<1>4. ASSUME DownNext, UNCHANGED runVars PROVE WrittenIsEnabled'
  BY <1>4, DownIsElsewhere
<1>. QED
  BY <1>1, <1>2, <1>3, <1>4, Steps

\* Versions are naturals, wherever they stand.
LEMMA VersionTypes ==
  ASSUME TypeOK, NEW g \in Gtins, NEW l \in Languages
  PROVE  /\ content[g][l] \in Nat
         /\ planned[g][l].content \in Nat
         /\ saved[g][l].content \in Nat
         /\ mem[g][l].content \in Nat
         /\ site[g][l].shows \in Nat
<1>1. content[g][l] \in Versions /\ saved[g][l] \in StateEntry /\ mem[g][l] \in StateEntry
  BY DEF TypeOK, WorldTypeOK
<1>2. planned[g][l] \in PlanRow /\ site[g][l] \in Page
  BY DEF TypeOK, WorldTypeOK, PlanTypeOK
<1>. QED
  BY <1>1, <1>2, MaxVersionAssumption DEF StateEntry, PlanRow, Page, Versions

\* Nothing overtakes the plan, nor the plan the content.
LEMMA VersionsStep ==
  ASSUME Inductive, EntriesAreMeant, VersionsFollow, [Next]_vars
  PROVE  VersionsFollow'
<1>. SUFFICES ASSUME NEW g \in Gtins, NEW l \in Languages
              PROVE  /\ saved'[g][l].content <= planned'[g][l].content
                     /\ mem'[g][l].content <= planned'[g][l].content
                     /\ site'[g][l].shows <= planned'[g][l].content
                     /\ planned'[g][l].content <= content'[g][l]
  BY DEF VersionsFollow
<1>. DEFINE p == planned[g][l].content
<1>1. TypeOK /\ TypeOK'
  BY InductiveStep DEF Inductive
<1>2. /\ p \in Nat /\ saved[g][l].content \in Nat /\ mem[g][l].content \in Nat
      /\ site[g][l].shows \in Nat /\ content[g][l] \in Nat /\ content'[g][l] \in Nat
  <2>1. content'[g][l] \in Versions
    BY <1>1 DEF TypeOK, WorldTypeOK
  <2>. QED
    BY <1>1, <2>1, VersionTypes, MaxVersionAssumption DEF Versions
<1>3. /\ saved[g][l].content <= p /\ mem[g][l].content <= p
      /\ site[g][l].shows <= p /\ p <= content[g][l]
  BY DEF VersionsFollow
<1>4. content[g][l] <= content'[g][l]
  BY <1>1, ContentSteps
<1>5. ASSUME BuildPlan PROVE planned'[g][l].content = content[g][l] /\ UNCHANGED worldVars
  BY <1>5 DEF BuildPlan, CurrentRows
<1>6. CASE BuildPlan
  BY <1>2, <1>3, <1>5, <1>6 DEF worldVars, envVars, remoteVars, procVars
<1>7. CASE UNCHANGED planVars
  <2>1. planned' = planned
    BY <1>7 DEF planVars
  <2>2. saved'[g][l].content \in {0, mem[g][l].content, saved[g][l].content}
    BY SavedContents
  <2>3. mem'[g][l].content \in {0, mem[g][l].content, saved[g][l].content, p}
    BY MemoryContents
  <2>4. site'[g][l].shows \in {0, site[g][l].shows, p}
    <3>1. g = cur => Written(l).shows = p
      BY DEF Written
    <3>. QED
      BY <3>1, SiteSteps
  <2>. QED
    BY <1>2, <1>3, <1>4, <2>1, <2>2, <2>3, <2>4
<1>. QED
  BY <1>6, <1>7, PlanSteps

\* A published page keeps up with every entry of it.
LEMMA KeepUpStep ==
  ASSUME Inductive, EntriesAreMeant, VersionsFollow, PagesKeepUp, [Next]_vars
  PROVE  PagesKeepUp'
<1>1. ASSUME NEW g \in Gtins, NEW l \in Languages, site'[g][l].status = "publish"
      PROVE  /\ saved'[g][l].content <= site'[g][l].shows
             /\ mem'[g][l].content <= site'[g][l].shows
  <2>1. /\ planned[g][l].content \in Nat /\ site[g][l].shows \in Nat
        /\ saved[g][l].content \in Nat /\ mem[g][l].content \in Nat
    BY VersionTypes DEF Inductive
  <2>2. saved'[g][l].content \in {0, mem[g][l].content, saved[g][l].content}
    BY SavedContents
  <2>3. \/ mem'[g][l].content \in {0, mem[g][l].content, saved[g][l].content}
        \/ g = cur /\ l \in fresh /\ mem'[g][l].content = planned[g][l].content
    BY MemoryContents
  <2>4. CASE site'[g][l] = site[g][l]
    <3>1. saved[g][l].content <= site[g][l].shows /\ mem[g][l].content <= site[g][l].shows
      BY <1>1, <2>4 DEF PagesKeepUp
    <3>2. g = cur /\ l \in fresh => site[g][l].shows = planned[g][l].content
      BY <1>1, <2>4 DEF PagesKeepUp
    <3>. QED
      BY <2>1, <2>2, <2>3, <2>4, <3>1, <3>2
  <2>5. CASE g = cur /\ site'[g][l] = Written(l)
    <3>1. site'[g][l].shows = planned[g][l].content
      BY <2>5 DEF Written
    <3>2. saved[g][l].content <= planned[g][l].content /\ mem[g][l].content <= planned[g][l].content
      BY DEF VersionsFollow
    <3>. QED
      BY <2>1, <2>2, <2>3, <3>1, <3>2
  <2>. QED
    BY <1>1, <2>4, <2>5, SiteSteps
<1>2. ASSUME NEW l \in fresh', site'[cur'][l].status = "publish"
      PROVE  site'[cur'][l].shows = planned'[cur'][l].content
  <2>1. fresh # {} => cur \in Gtins
    BY DEF EntriesAreMeant, Inductive, WorkIsKnown
  <2>2. CASE fresh' = fresh /\ cur' = cur /\ planned' = planned
    <3>1. l \in fresh /\ l \in Languages /\ cur \in Gtins
      BY <1>2, <2>1, <2>2 DEF Inductive, TypeOK, RunTypeOK
    <3>2. CASE site'[cur][l] = site[cur][l]
      BY <1>2, <2>2, <3>1, <3>2 DEF PagesKeepUp
    <3>3. CASE site'[cur][l] = Written(l)
      BY <2>2, <3>3 DEF Written
    <3>. QED
      BY <1>2, <2>2, <3>1, <3>2, <3>3, SiteSteps
  <2>3. ASSUME NEW k \in Languages, UpsertRow(k)
        PROVE  site'[cur'][l].shows = planned'[cur'][l].content
    <3>1. /\ cur \in Gtins /\ UNCHANGED <<cur, planned>>
          /\ fresh' = fresh \cup {k}
          /\ site' = [site EXCEPT ![cur][k] = Written(k)]
      BY <2>3 DEF UpsertRow, procVars, planVars, Inductive, WorkIsKnown
    <3>2. site \in [Gtins -> [Languages -> Page]]
      BY DEF Inductive, TypeOK, WorldTypeOK
    <3>3. CASE l = k
      <4>1. site'[cur][l] = Written(l)
        BY <3>1, <3>2, <3>3
      <4>. QED
        BY <3>1, <4>1 DEF Written
    <3>4. CASE l # k
      <4>1. l \in fresh /\ site'[cur][l] = site[cur][l]
        BY <3>1, <3>2, <3>4
      <4>. QED
        BY <1>2, <3>1, <4>1 DEF PagesKeepUp
    <3>. QED
      BY <3>3, <3>4
  <2>. QED
    BY <1>2, <2>2, <2>3, FreshSteps
<1>. QED
  BY <1>1, <1>2 DEF PagesKeepUp

\* A run forgets no entry, and a listed page stays the product's only one while its
\* record is about to be written.
LEMMA ListedLastStep ==
  ASSUME Inductive, EntriesAreMeant, ListedIsLast, [Next]_vars
  PROVE  ListedIsLast'
<1>1. ASSUME pc' \in RunPcs, NEW g \in Gtins, NEW l \in Languages, Recorded(saved'[g][l])
      PROVE  Recorded(mem'[g][l])
  <2>1. CASE mem' = saved /\ saved' = saved
    BY <1>1, <2>1
  <2>2. CASE pc \in RunPcs /\ UNCHANGED <<rows, mode, planned, saved>>
    <3>1. Recorded(mem[g][l])
      BY <1>1, <2>2 DEF ListedIsLast
    <3>2. CASE CommitState
      <4>1. pc = "commit"
        BY <3>2 DEF CommitState
      <4>. QED
        BY <3>1, <3>2, <4>1, CommitEntries, CommittedContents
    <3>3. ASSUME NEW k \in Languages, DraftPage(k) PROVE FALSE
      BY <2>2, <3>3 DEF DraftPage, RunPcs
    <3>4. ~Forgets
      BY <2>2 DEF Forgets, RunPcs
    <3>. QED
      BY <1>1, <2>2, <3>1, <3>2, <3>3, <3>4, MemorySteps
  <2>. QED
    BY <1>1, <2>1, <2>2, RunFrame
<1>2. ASSUME pc' = "resolver", links'[DefaultLanguage] = "listed"
      PROVE  /\ ~Recorded(mem'[cur'][DefaultLanguage])
             /\ site'[cur'][DefaultLanguage].status # "publish"
  <2>1. ASSUME UNCHANGED <<record, saved, procVars, runVars>>
        PROVE  /\ ~Recorded(mem'[cur'][DefaultLanguage])
               /\ site'[cur'][DefaultLanguage].status # "publish"
    <3>1. /\ pc = "resolver" /\ links[DefaultLanguage] = "listed"
          /\ UNCHANGED <<mem, cur>>
      BY <1>2, <2>1 DEF procVars, runVars
    <3>2. cur \in Gtins /\ DefaultLanguage \in Languages
      BY <3>1, WorldAssumption DEF Inductive, WorkIsKnown
    <3>3. /\ ~Recorded(mem[cur][DefaultLanguage])
          /\ site[cur][DefaultLanguage].status # "publish"
      BY <3>1 DEF ListedIsLast
    <3>. QED
      BY <3>1, <3>2, <3>3, SiteSteps
  <2>2. ASSUME VerifyTargets
        PROVE  /\ ~Recorded(mem'[cur'][DefaultLanguage])
               /\ site'[cur'][DefaultLanguage].status # "publish"
    <3>1. links' \in LinkSets /\ UNCHANGED <<mem, cur, site>>
      BY <2>2 DEF VerifyTargets, remoteVars
    <3>2. links' # PagesForLinks
      BY <1>2, WorldAssumption DEF PagesForLinks
    <3>. QED
      BY <3>1, <3>2 DEF LinkSets, OwnDefaultPage
  <2>3. ASSUME RunNext, ~VerifyTargets PROVE FALSE
    <3>1. ASSUME BlockProduct \/ FinishPagesFails \/ VerifyTargetsFails \/ WriteResolverFails
          PROVE  FALSE
      BY <1>2, <3>1, GivesUp
    <3>. QED
      BY <1>2, <2>3, <3>1 DEF RunNext, RunSteps, StartRun, BeginOn, RefuseListed, TakeProduct,
         UpsertRow, UpsertRowFails, FinishPages, WriteResolver, CommitState, FinishRun, RunDies,
         SaveState, LoseProcess, procVars
  <2>4. ~Forgets
    BY <1>2 DEF Forgets
  <2>5. ASSUME DownNext, UNCHANGED runVars PROVE FALSE
    BY <1>2, <2>5, DownIsElsewhere
  <2>. QED
    BY <2>1, <2>2, <2>3, <2>4, <2>5, Steps
<1>. QED
  BY <1>1, <1>2 DEF ListedIsLast

\* A page that is up, or was taken down by hand, stays so, unless a take-down is
\* drafting it.
LEMMA UpSteps ==
  ASSUME Inductive, [Next]_vars, NEW g \in Gtins, NEW l \in Languages, Up(g, l),
         ~(pc = "draft" /\ g = cur)
  PROVE  Up(g, l)'
<1>. site \in [Gtins -> [Languages -> Page]]
  BY DEF Inductive, TypeOK, WorldTypeOK
<1>. DEFINE KeepsUp == site'[g][l] = site[g][l] /\ (<<g, l>> \in byHand => <<g, l>> \in byHand')
<1>. USE DEF Up
<1>1. ASSUME NEW h \in Gtins, NEW k \in Languages, EditorTakesDown(h, k) PROVE Up(g, l)'
  <2>1. CASE g = h /\ l = k
    BY <1>1, <2>1 DEF EditorTakesDown
  <2>2. CASE ~(g = h /\ l = k)
    <3>1. site'[g][l] = site[g][l] /\ byHand \subseteq byHand'
      BY <1>1, <2>2 DEF EditorTakesDown
    <3>. QED
      BY <3>1
  <2>. QED
    BY <2>1, <2>2
<1>2. ASSUME NEW k \in Languages, UpsertRow(k) \/ UpsertRowFails(k) PROVE Up(g, l)'
  <2>1. cur \in Gtins /\ (UNCHANGED siteVars \/ WritePage(k))
    BY <1>2 DEF UpsertRow, UpsertRowFails, Inductive, WorkIsKnown
  <2>2. CASE WritePage(k) /\ g = cur /\ l = k
    <3>1. site'[g][l] = Written(k)
      BY <2>1, <2>2
    <3>. QED
      BY <3>1 DEF Written
  <2>3. CASE WritePage(k) /\ ~(g = cur /\ l = k)
    <3>1. KeepsUp
      BY <2>1, <2>3
    <3>. QED
      BY <3>1
  <2>. QED
    BY <2>1, <2>2, <2>3
<1>3. ASSUME NEW k \in Languages, DraftPage(k) \/ DraftPageFails(k) PROVE Up(g, l)'
  <2>1. /\ cur \in Gtins /\ g # cur /\ byHand' = byHand
        /\ site' = site \/ site' = [site EXCEPT ![cur][k].status = "draft"]
    BY <1>3 DEF DraftPage, DraftPageFails, Inductive, WorkIsKnown
  <2>2. KeepsUp
    BY <2>1
  <2>. QED
    BY <2>2
<1>4. ASSUME Environment, \A h \in Gtins, k \in Languages : ~EditorTakesDown(h, k)
      PROVE  UNCHANGED siteVars
  BY <1>4 DEF Environment, ContentChanges, OperatorLists, BecomeCalm, remoteVars
<1>5. ASSUME RunNext, \A k \in Languages : ~UpsertRow(k) /\ ~UpsertRowFails(k)
      PROVE  UNCHANGED siteVars
  BY <1>5 DEF RunNext, RunSteps, StartRun, RefuseListed, TakeProduct, BlockProduct, FinishPages,
     FinishPagesFails, VerifyTargets, VerifyTargetsFails, WriteResolver, WriteResolverFails,
     CommitState, FinishRun, RunDies, remoteVars
<1>6. ASSUME DownNext, \A k \in Languages : ~DraftPage(k) /\ ~DraftPageFails(k)
      PROVE  UNCHANGED siteVars
  BY <1>6 DEF DownNext, DownSteps, StartTakeDown, Retract, RetractRaises, ProductDown,
     FinishTakeDown, TakeDownDies, remoteVars
<1>7. ASSUME BuildPlan \/ StateIsLost \/ UNCHANGED vars PROVE UNCHANGED siteVars
  BY <1>7 DEF BuildPlan, StateIsLost, vars, worldVars, envVars, remoteVars, procVars
<1>8. ASSUME UNCHANGED siteVars PROVE Up(g, l)'
  BY <1>8
<1>. QED
  BY <1>1, <1>2, <1>3, <1>4, <1>5, <1>6, <1>7, <1>8 DEF Next

\* Writing the record enables it, and it keeps every claim up.
LEMMA PointKeepsUp ==
  ASSUME Inductive, LinkedIsUp, TargetsAreUp, [Next]_vars, pc = "resolver", PointRecord,
         NEW g \in Gtins, NEW l \in Languages, OwnRow(g, l), mem[g][l].linked
  PROVE  g \in halfDown' \/ (record'[g].enabled /\ Up(g, l)')
<1>1. cur \in Gtins /\ record \in [Gtins -> Record]
  BY DEF Inductive, WorkIsKnown, TypeOK, WorldTypeOK
<1>2. CASE g = cur
  <2>1. Known(l)
    BY <1>2 DEF Known, Inductive, LinkedIsRecorded
  <2>2. Up(g, l)
    BY <1>2, <2>1 DEF TargetsAreUp, Inductive, LinkSetIsComplete
  <2>3. record'[g].enabled
    BY <1>1, <1>2 DEF PointRecord
  <2>. QED
    BY <2>2, <2>3, UpSteps
<1>3. CASE g # cur
  <2>1. record'[g] = record[g] /\ (g \in halfDown' <=> g \in halfDown)
    BY <1>1, <1>3 DEF PointRecord
  <2>. QED
    BY <2>1, UpSteps DEF LinkedIsUp
<1>. QED
  BY <1>2, <1>3

\* Disabling a record, for a take-down that begins on the product, keeps every claim
\* of another one up.
LEMMA DisableKeepsUp ==
  ASSUME Inductive, LinkedIsUp, [Next]_vars, NEW h \in Gtins, DisableRecord(h), pc # "draft",
         NEW g \in Gtins, NEW l \in Languages, OwnRow(g, l),
         saved[g][l].linked \/ mem[g][l].linked
  PROVE  g \in halfDown' \/ (record'[g].enabled /\ Up(g, l)')
<1>1. record \in [Gtins -> Record]
  BY DEF Inductive, TypeOK, WorldTypeOK
<1>2. CASE g = h
  BY <1>2
<1>3. CASE g # h
  <2>1. record'[g] = record[g] /\ (g \in halfDown' <=> g \in halfDown)
    BY <1>1, <1>3
  <2>. QED
    BY <2>1, UpSteps DEF LinkedIsUp
<1>. QED
  BY <1>2, <1>3

\* A claim stays up through a step that leaves the records, and what take-downs began,
\* alone.
LEMMA StillUp ==
  ASSUME Inductive, LinkedIsUp, TakeDownIsMarked, [Next]_vars, UNCHANGED recordVars,
         NEW g \in Gtins, NEW l \in Languages, OwnRow(g, l),
         saved[g][l].linked \/ mem[g][l].linked
  PROVE  g \in halfDown' \/ (record'[g].enabled /\ Up(g, l)')
<1>1. g \in halfDown \/ (record[g].enabled /\ Up(g, l))
  BY DEF LinkedIsUp
<1>2. pc = "draft" => cur \in halfDown
  BY DEF TakeDownIsMarked
<1>. QED
  BY <1>1, <1>2, UpSteps

\* Every page a claim is about is up with its record, but for what a take-down began.
LEMMA LinkedUpStep ==
  ASSUME Inductive, WrittenIsEnabled, LinkedIsUp, TargetsAreUp, TakeDownIsMarked, [Next]_vars
  PROVE  LinkedIsUp'
<1>. SUFFICES ASSUME NEW g \in Gtins, NEW l \in Languages, OwnRow(g, l),
                     saved'[g][l].linked \/ mem'[g][l].linked
              PROVE  g \in halfDown' \/ (record'[g].enabled /\ Up(g, l)')
  BY DEF LinkedIsUp, OwnRow
<1>. DEFINE Stays == g \in halfDown' \/ (record'[g].enabled /\ Up(g, l)')
            Claimed0 == saved[g][l].linked \/ mem[g][l].linked
<1>1. CASE UNCHANGED <<recordVars, saved, procVars, runVars, downVars>>
  BY <1>1, StillUp DEF procVars
<1>2. ~Forgets
  BY NothingIsLinked DEF Forgets
<1>3. ASSUME BlockProduct \/ FinishPagesFails \/ VerifyTargetsFails \/ WriteResolverFails
      PROVE  Stays
  <2>1. /\ pc \in RunPcs /\ UNCHANGED <<saved, mem>>
        /\ UNCHANGED recordVars \/ (pc = "resolver" /\ PointRecord)
    BY <1>3, GivesUp DEF RunPcs
  <2>2. mem[g][l].linked
    BY <2>1 DEF Inductive, LinkedIsRecorded
  <2>. QED
    BY <2>1, <2>2, StillUp, PointKeepsUp
<1>4. CASE WriteResolver
  <2>1. pc = "resolver" /\ PointRecord /\ UNCHANGED <<saved, mem>>
    BY <1>4 DEF WriteResolver
  <2>2. mem[g][l].linked
    BY <2>1 DEF Inductive, LinkedIsRecorded, RunPcs
  <2>. QED
    BY <2>1, <2>2, PointKeepsUp
<1>5. CASE CommitState
  <2>1. pc = "commit" /\ cur \in Gtins /\ saved' = saved /\ UNCHANGED recordVars
    BY <1>5 DEF CommitState, Inductive, WorkIsKnown, remoteVars
  <2>2. CASE Claimed0
    BY <2>1, <2>2, StillUp
  <2>3. CASE ~Claimed0
    <3>1. g = cur /\ Committed(l).linked
      BY <1>5, <2>1, <2>3, CommitEntries
    <3>2. /\ l \in RowsOf(cur) /\ WritesLinks(mode)
          /\ mode # "links" \/ Recorded(mem[cur][l])
      BY <2>1, <2>3, <3>1, CommitKeepsLinks
    <3>3. Known(l)
      BY <3>1, <3>2 DEF Known
    <3>4. Up(g, l)
      BY <2>1, <3>1, <3>2, <3>3 DEF TargetsAreUp, Inductive, LinkSetIsComplete
    <3>5. record[g].enabled
      BY <2>1, <3>1, <3>2 DEF WrittenIsEnabled
    <3>. QED
      BY <2>1, <3>4, <3>5, UpSteps
  <2>. QED
    BY <2>2, <2>3
<1>6. ASSUME RunNext, ~CommitState, ~WriteResolver,
             ~(BlockProduct \/ FinishPagesFails \/ VerifyTargetsFails \/ WriteResolverFails)
      PROVE  Stays
  <2>1. UNCHANGED recordVars
    BY <1>6 DEF RunNext, RunSteps, StartRun, RefuseListed, TakeProduct, UpsertRow,
       UpsertRowFails, FinishPages, VerifyTargets, FinishRun, RunDies, remoteVars
  <2>2. Claimed0
    BY <1>6, SavedSteps, <1>2, MemorySteps DEF RunNext, RunSteps, StartRun, BeginOn,
       RefuseListed, TakeProduct, UpsertRow, UpsertRowFails, FinishPages, VerifyTargets,
       FinishRun, SaveState, RunDies, LoseProcess, procVars
  <2>. QED
    BY <2>1, <2>2, StillUp
<1>7. ASSUME NEW k \in Languages, DraftPage(k) PROVE Stays
  <2>1. saved' = saved /\ UNCHANGED recordVars
    BY <1>7 DEF DraftPage
  <2>2. Claimed0
    BY <1>7, <2>1, DraftEntries
  <2>. QED
    BY <2>1, <2>2, StillUp
<1>8. ASSUME NEW h \in Gtins, Retract(h) \/ RetractRaises(h) PROVE Stays
  <2>1. /\ pc = "down" /\ saved' = saved /\ (mem' = mem \/ mem' = saved)
        /\ UNCHANGED recordVars \/ DisableRecord(h)
    BY <1>8 DEF Retract, RetractRaises, LoseProcess
  <2>. QED
    BY <2>1, StillUp, DisableKeepsUp
<1>9. CASE FinishTakeDown
  <2>1. /\ saved' = mem /\ mem' = mem /\ record' = record /\ pc = "down"
        /\ halfDown' = halfDown \ takenDown
    BY <1>9 DEF FinishTakeDown, SaveState
  <2>2. g \notin takenDown \cap halfDown
    BY <2>1 DEF TakeDownIsMarked
  <2>3. g \in halfDown \/ (record[g].enabled /\ Up(g, l))
    BY <2>1 DEF LinkedIsUp
  <2>. QED
    BY <2>1, <2>2, <2>3, UpSteps
<1>10. ASSUME \/ \E products \in SUBSET Gtins : StartTakeDown(products)
              \/ \E k \in Languages : DraftPageFails(k)
              \/ ProductDown \/ TakeDownDies
       PROVE  Stays
  <2>1. UNCHANGED <<recordVars, saved>> /\ (mem' = mem \/ mem' = saved)
    BY <1>10 DEF StartTakeDown, BeginOn, DraftPageFails, ProductDown, TakeDownDies,
       LoseProcess, remoteVars, procVars
  <2>. QED
    BY <2>1, StillUp
<1>. QED
  BY <1>1, <1>2, <1>3, <1>4, <1>5, <1>6, <1>7, <1>8, <1>9, <1>10, MarkSteps DEF DownNext, DownSteps

\* What a run has seen serving of the product in work is up.
LEMMA TargetsUpStep ==
  ASSUME Inductive, EntriesAreMeant, TargetsAreUp, [Next]_vars
  PROVE  TargetsAreUp'
<1>. DEFINE Fresh == \A l \in fresh' : Up(cur, l)'
            Set == pc' = "resolver" => \A l \in Languages : links'[l] = "own" => Up(cur, l)'
            Pointed0 == (pc' = "commit" /\ WritesLinks(mode')) =>
                          /\ cur' \notin halfDown'
                          /\ \A l \in Languages : record'[cur'].links[l] = "own" => Up(cur, l)'
<1>0. ASSUME cur' = cur, pc \in RunPcs \ {"next"}, NEW l \in Languages, Up(cur, l)
      PROVE  Up(cur, l)'
  <2>1. cur \in Gtins /\ pc # "draft"
    BY <1>0 DEF RunPcs, Inductive, WorkIsKnown
  <2>2. Up(cur, l)' <=> (site'[cur][l].status = "publish" \/ <<cur, l>> \in byHand')
    BY <1>0 DEF Up
  <2>. QED
    BY <1>0, <2>1, <2>2, UpSteps DEF Up
<1>1. Fresh
  <2>1. ASSUME fresh' = fresh, cur' = cur, NEW l \in fresh PROVE Up(cur, l)'
    <3>1. pc \in RunPcs \ {"next"} /\ l \in Languages
      BY <2>1 DEF EntriesAreMeant, RunPcs, Inductive, TypeOK, RunTypeOK
    <3>2. Up(cur, l)
      BY <2>1 DEF TargetsAreUp
    <3>. QED
      BY <1>0, <2>1, <3>1, <3>2
  <2>2. ASSUME NEW k \in Languages, UpsertRow(k), NEW l \in fresh' PROVE Up(cur, l)'
    <3>1. /\ cur' = cur /\ pc = "rows" /\ fresh' = fresh \cup {k} /\ cur \in Gtins
          /\ site' = [site EXCEPT ![cur][k] = Written(k)]
      BY <2>2 DEF UpsertRow, procVars, Inductive, WorkIsKnown
    <3>2. CASE l = k
      <4>1. site'[cur][l] = Written(l)
        BY <3>1, <3>2 DEF Inductive, TypeOK, WorldTypeOK
      <4>. QED
        BY <3>1, <4>1 DEF Written, Up
    <3>3. CASE l # k
      <4>1. l \in fresh /\ l \in Languages
        BY <2>2, <3>1, <3>3 DEF Inductive, TypeOK, RunTypeOK
      <4>2. Up(cur, l)
        BY <4>1 DEF TargetsAreUp
      <4>. QED
        BY <1>0, <3>1, <4>1, <4>2 DEF RunPcs
    <3>. QED
      BY <3>2, <3>3
  <2>. QED
    BY <2>1, <2>2, FreshSteps
<1>2. ASSUME UNCHANGED <<recordVars, saved, procVars, runVars, downVars>>
      PROVE  Set /\ Pointed0
  <2>1. UNCHANGED <<pc, cur, links, mode, record, halfDown>>
    BY <1>2 DEF procVars, runVars
  <2>. QED
    BY <1>0, <2>1 DEF TargetsAreUp, RunPcs
<1>3. CASE VerifyTargets
  <2>1. PICK set \in LinkSets :
          /\ \A l \in Unverified(set) : Serves(l, set[l])
          /\ links' = set
    BY <1>3 DEF VerifyTargets
  <2>2. pc = "targets" /\ pc' = "resolver" /\ cur' = cur
    BY <1>3 DEF VerifyTargets
  <2>3. ASSUME NEW l \in Languages, links'[l] = "own" PROVE Up(cur, l)
    <3>1. CASE l \in fresh
      BY <3>1 DEF TargetsAreUp
    <3>2. CASE l \notin fresh
      BY <2>1, <2>3, <3>2 DEF Unverified, Serves, Up
    <3>. QED
      BY <3>1, <3>2
  <2>. QED
    BY <1>0, <1>1, <2>2, <2>3 DEF TargetsAreUp, RunPcs
<1>4. CASE WriteResolver
  <2>1. /\ pc = "resolver" /\ pc' = "commit" /\ cur' = cur /\ cur \in Gtins /\ PointRecord
    BY <1>4 DEF WriteResolver, Inductive, WorkIsKnown
  <2>2. record'[cur].links = links /\ cur \notin halfDown'
    BY <2>1 DEF PointRecord, Inductive, TypeOK, WorldTypeOK
  <2>. QED
    BY <1>0, <1>1, <2>1, <2>2 DEF TargetsAreUp, RunPcs
<1>5. ASSUME RunNext, ~VerifyTargets, ~WriteResolver PROVE Set /\ Pointed0
  <2>1. ASSUME BlockProduct \/ FinishPagesFails \/ VerifyTargetsFails \/ WriteResolverFails
        PROVE  pc' = "next"
    BY <2>1, GivesUp
  <2>2. FinishPages => pc' # "resolver" /\ (pc' = "commit" => ~WritesLinks(mode'))
    BY DEF FinishPages
  <2>. QED
    BY <1>5, <2>1, <2>2 DEF RunNext, RunSteps, StartRun, BeginOn, RefuseListed, TakeProduct,
       UpsertRow, UpsertRowFails, CommitState, FinishRun, RunDies,
       SaveState, LoseProcess, procVars
<1>6. ASSUME DownNext, UNCHANGED runVars PROVE Set /\ Pointed0
  BY <1>6, DownIsElsewhere
<1>7. ASSUME Forgets PROVE Set /\ Pointed0
  BY <1>7 DEF Forgets
<1>. QED
  BY <1>1, <1>2, <1>3, <1>4, <1>5, <1>6, <1>7, MarkSteps DEF TargetsAreUp

\* A take-down is marked until it is saved or dies, and unlinks what it drafts.
LEMMA MarkedStep ==
  ASSUME Inductive, TakeDownIsMarked, [Next]_vars
  PROVE  TakeDownIsMarked'
<1>. USE DEF TakeDownIsMarked, DownPcs
<1>1. ASSUME UNCHANGED <<recordVars, saved, procVars, runVars, downVars>> PROVE TakeDownIsMarked'
  BY <1>1 DEF procVars, downVars
<1>2. ASSUME Forgets, halfDown' = halfDown, takenDown' = {} PROVE TakeDownIsMarked'
  BY <1>2 DEF Forgets
<1>3. ASSUME RunNext, UNCHANGED downVars PROVE TakeDownIsMarked'
  <2>1. pc \notin DownPcs /\ pc' # "draft" /\ halfDown' \subseteq halfDown
    <3>1. ASSUME BlockProduct \/ FinishPagesFails \/ VerifyTargetsFails \/ WriteResolverFails
          PROVE  pc \notin DownPcs /\ pc' # "draft" /\ halfDown' \subseteq halfDown
      BY <3>1, GivesUp DEF PointRecord
    <3>. QED
      BY <1>3, <3>1 DEF RunNext, RunSteps, StartRun, BeginOn, RefuseListed, TakeProduct,
         UpsertRow, UpsertRowFails, FinishPages, VerifyTargets, WriteResolver, PointRecord,
         CommitState, FinishRun, RunDies, SaveState, LoseProcess, remoteVars, procVars, RunPcs
  <2>. QED
    BY <1>3, <2>1 DEF downVars
<1>4. ASSUME NEW products \in SUBSET Gtins, StartTakeDown(products) PROVE TakeDownIsMarked'
  BY <1>4 DEF StartTakeDown, BeginOn, remoteVars, downVars
<1>5. ASSUME NEW g \in Gtins, Retract(g) PROVE TakeDownIsMarked'
  <2>1. /\ pc = "down" /\ pc' = "draft" /\ cur' = g /\ mem' = mem
        /\ left' = RecordedLanguages(mem, g) /\ halfDown' = halfDown \cup {g}
        /\ takenDown' = takenDown \ {g}
    BY <1>5 DEF Retract
  <2>2. \A l \in Languages \ left' : ~mem[g][l].linked
    BY <2>1 DEF RecordedLanguages, Inductive, LinkedIsRecorded
  <2>. QED
    BY <2>1, <2>2
<1>6. ASSUME NEW g \in Gtins, RetractRaises(g) PROVE TakeDownIsMarked'
  BY <1>6 DEF RetractRaises, LoseProcess
<1>7. ASSUME NEW l \in Languages, DraftPage(l) PROVE TakeDownIsMarked'
  <2>1. /\ pc = "draft" /\ pc' = pc /\ cur' = cur /\ cur \in Gtins /\ clean' = clean
        /\ left' = left \ {l} /\ UNCHANGED <<halfDown, takenDown>>
    BY <1>7 DEF DraftPage, Inductive, WorkIsKnown
  <2>2. \A g \in Gtins, k \in Languages :
          IF g = cur /\ k = l THEN ~mem'[g][k].linked ELSE mem'[g][k] = mem[g][k]
    BY <1>7, DraftEntries
  <2>3. ASSUME clean, NEW k \in Languages \ left' PROVE ~mem'[cur][k].linked
    BY <2>1, <2>2, <2>3
  <2>4. ASSUME NEW g \in takenDown \cap halfDown, NEW k \in Languages
        PROVE  ~mem'[g][k].linked
    <3>1. g \in Gtins /\ ~mem[g][k].linked
      BY <2>4 DEF Inductive, TypeOK, DownTypeOK
    <3>. QED
      BY <2>2, <3>1
  <2>. QED
    BY <2>1, <2>3, <2>4
<1>8. ASSUME NEW l \in Languages, DraftPageFails(l) PROVE TakeDownIsMarked'
  BY <1>8 DEF DraftPageFails, procVars
<1>9. ASSUME ProductDown PROVE TakeDownIsMarked'
  BY <1>9 DEF ProductDown, remoteVars
<1>10. ASSUME FinishTakeDown PROVE TakeDownIsMarked'
  BY <1>10 DEF FinishTakeDown, SaveState, downVars
<1>11. ASSUME TakeDownDies PROVE TakeDownIsMarked'
  BY <1>11 DEF TakeDownDies, LoseProcess, remoteVars
<1>. QED
  BY <1>1, <1>2, <1>3, <1>4, <1>5, <1>6, <1>7, <1>8, <1>9, <1>10, <1>11, MarkSteps
  DEF DownNext, DownSteps

\* What a run holds changed in memory has every leg done.
LEMMA CommitsStep ==
  ASSUME Inductive, EntriesAreMeant, WrittenIsEnabled, AllOrNothing, [Next]_vars
  PROVE  AllOrNothing'
<1>. SUFFICES ASSUME pc' \in RunPcs, NEW g \in Gtins \ ListedGtins, mem'[g] # saved'[g],
                     NEW l, l \in RowsOf(g)', Recorded(mem'[g][l])
              PROVE  /\ WritesPages(mode') => mem'[g][l].content = planned'[g][l].content
                     /\ WritesLinks(mode') =>
                           /\ mem'[g][l].linked
                           /\ record'[g].enabled
                           /\ record'[g].links[l] = "own"
  BY DEF AllOrNothing, OwnLanguages, RowsOf
<1>1. pc \in RunPcs /\ UNCHANGED <<rows, mode, planned, saved>>
  BY RunFrame
<1>2. l \in RowsOf(g) /\ l \in Languages
  BY <1>1 DEF RowsOf
<1>3. record' = record \/ (pc = "resolver" /\ PointRecord)
  <2>1. ASSUME NEW h \in Gtins, record' = [record EXCEPT ![h] = Disabled(@)],
               ~(record' = record \/ (pc = "resolver" /\ PointRecord))
        PROVE  FALSE
    <3>1. ASSUME RunNext PROVE FALSE
      <4>1. ASSUME BlockProduct \/ FinishPagesFails \/ VerifyTargetsFails \/ WriteResolverFails
            PROVE  FALSE
        BY <2>1, <4>1, GivesUp
      <4>. QED
        BY <2>1, <3>1, <4>1 DEF RunNext, RunSteps, StartRun, RefuseListed, TakeProduct,
           UpsertRow, UpsertRowFails, FinishPages, VerifyTargets, WriteResolver, CommitState,
           FinishRun, RunDies, remoteVars
    <3>2. ASSUME DownNext, UNCHANGED runVars PROVE FALSE
      BY <3>2, DownIsElsewhere DEF RunPcs
    <3>. QED
      BY <2>1, <3>1, <3>2, Steps DEF Forgets
  <2>. QED
    BY <2>1, RecordSteps
<1>4. CASE CommitState
  <2>1. pc = "commit" /\ record' = record /\ cur \in Gtins
    BY <1>4 DEF CommitState, remoteVars, Inductive, WorkIsKnown
  <2>2. CASE g # cur
    <3>1. mem'[g] = mem[g]
      BY <1>4, <2>1, <2>2 DEF CommitState, Inductive, TypeOK, WorldTypeOK
    <3>. QED
      BY <1>1, <1>2, <2>1, <3>1 DEF AllOrNothing, OwnLanguages
  <2>3. CASE g = cur
    <3>1. mem'[g][l] = Committed(l)
      BY <1>2, <1>4, <2>3, CommitEntries
    <3>2. WritesLinks(mode) => record[g].links[l] = "own"
      <4>1. Known(l)
        BY <1>2, <2>1, <2>3, <3>1, CommitKeepsLinks DEF Known, OwnRow
      <4>. QED
        BY <1>2, <2>1, <2>3, <4>1 DEF Inductive, LinkSetIsComplete
    <3>3. WritesLinks(mode) => record[g].enabled
      BY <2>1, <2>3 DEF WrittenIsEnabled
    <3>. QED
      BY <1>1, <1>2, <2>1, <2>3, <3>1, <3>2, <3>3, CommittedContents
  <2>. QED
    BY <2>2, <2>3
<1>5. CASE mem' = mem
  <2>1. /\ WritesPages(mode) => mem[g][l].content = planned[g][l].content
        /\ WritesLinks(mode) =>
              mem[g][l].linked /\ record[g].enabled /\ record[g].links[l] = "own"
    BY <1>1, <1>2, <1>5 DEF AllOrNothing, OwnLanguages
  <2>2. CASE record' = record
    BY <1>1, <1>5, <2>1, <2>2
  <2>3. CASE pc = "resolver" /\ PointRecord
    <3>1. cur \in Gtins /\ record \in [Gtins -> Record]
      BY <2>3 DEF Inductive, WorkIsKnown, TypeOK, WorldTypeOK
    <3>2. CASE g # cur
      <4>1. record'[g] = record[g]
        BY <2>3, <3>1, <3>2 DEF PointRecord
      <4>. QED
        BY <1>1, <1>5, <2>1, <4>1
    <3>3. CASE g = cur
      <4>1. record'[g] = [enabled |-> TRUE, links |-> links]
        BY <2>3, <3>1, <3>3 DEF PointRecord
      <4>2. links[l] = "own"
        <5>1. Known(l)
          BY <1>5, <3>3 DEF Known, OwnRow
        <5>. QED
          BY <1>2, <2>3, <5>1 DEF Inductive, LinkSetIsComplete
      <4>. QED
        BY <1>1, <1>5, <2>1, <4>1, <4>2
    <3>. QED
      BY <3>2, <3>3
  <2>. QED
    BY <1>3, <2>2, <2>3
<1>6. ASSUME NEW k \in Languages, DraftPage(k) PROVE FALSE
  BY <1>1, <1>6 DEF DraftPage, RunPcs
<1>7. ~Forgets
  BY <1>1 DEF Forgets, RunPcs
<1>8. ~(mem' = saved /\ saved' = saved)
  OBVIOUS
<1>. QED
  BY <1>4, <1>5, <1>6, <1>7, <1>8, MemorySteps

-------------------------------------------------------------------------------
(* The invariant, and what follows. *)

\* It holds at first.
LEMMA CommitInit ==
  ASSUME Init
  PROVE  CommitInductive
<1>. USE DEF Init, WorldInit, PlanInit, RunInit
<1>1. \A g \in Gtins, l \in Languages :
         /\ saved[g][l] = NoEntry /\ mem[g][l] = NoEntry
         /\ site[g][l].shows = 0 /\ planned[g][l].content = 0 /\ content[g][l] = 1
  BY DEF NothingRecorded, NoPage
<1>2. EntriesAreMeant
  BY DEF EntriesAreMeant, RunPcs, NoEntries, NoEntry, Recorded
<1>3. WrittenIsEnabled /\ ListedIsLast /\ AllOrNothing
  BY DEF WrittenIsEnabled, ListedIsLast, AllOrNothing, RunPcs
<1>4. VersionsFollow
  <2>1. NoEntry.content = 0
    BY DEF NoEntry
  <2>2. VersionsFollow <=>
          \A g \in Gtins, l \in Languages :
             /\ saved[g][l].content <= planned[g][l].content
             /\ mem[g][l].content <= planned[g][l].content
             /\ site[g][l].shows <= planned[g][l].content
             /\ planned[g][l].content <= content[g][l]
    BY DEF VersionsFollow
  <2>3. ASSUME NEW g \in Gtins, NEW l \in Languages
        PROVE  /\ saved[g][l].content <= planned[g][l].content
               /\ mem[g][l].content <= planned[g][l].content
               /\ site[g][l].shows <= planned[g][l].content
               /\ planned[g][l].content <= content[g][l]
    BY <1>1, <2>1
  <2>. QED
    BY <2>2, <2>3
<1>5. PagesKeepUp
  BY <1>1 DEF PagesKeepUp, NoEntry
<1>6. LinkedIsUp
  <2>1. ~NoEntry.linked
    BY DEF NoEntry
  <2>2. \A g \in Gtins, l \in Languages : ~saved[g][l].linked /\ ~mem[g][l].linked
    BY <1>1, <2>1
  <2>. QED
    BY <2>2 DEF LinkedIsUp
<1>7. TargetsAreUp /\ TakeDownIsMarked
  BY DEF TargetsAreUp, TakeDownIsMarked, DownInit
<1>. QED
  BY <1>2, <1>3, <1>4, <1>5, <1>6, <1>7 DEF CommitInductive

\* Every step preserves it.
LEMMA CommitStep ==
  ASSUME Inductive, CommitInductive, [Next]_vars
  PROVE  CommitInductive'
  BY MeantStep, EnabledStep, VersionsStep, KeepUpStep, LinkedUpStep, TargetsUpStep, MarkedStep,
     ListedLastStep, CommitsStep
  DEF CommitInductive

\* So it always holds.
LEMMA CommitInvariance == Spec => []CommitInductive
<1>1. Init => CommitInductive
  BY CommitInit
<1>2. Inductive /\ CommitInductive /\ [Next]_vars => CommitInductive'
  BY CommitStep
<1>. QED
  BY <1>1, <1>2, Invariance, PTL DEF Spec

\* What a run holds changed in memory has every leg done: its page has the plan's
\* content, its record names it and is enabled (run_execute._commit_state: "all at
\* once or not at all").
THEOREM CommitsAreWhole == Spec => []AllOrNothing
<1>1. CommitInductive => AllOrNothing
  BY DEF CommitInductive
<1>. QED
  BY <1>1, CommitInvariance, PTL

\* UNCHANGED means there is nothing left to do: the page is published with today's
\* content, its record enabled and naming it, whatever failed, was killed or lost
\* before (state._classify).  It may be otherwise only after a take-down of the
\* product that began and has not succeeded since, unless a run enabled the record
\* again, and for a page an editor took down and no run has written since; and of a
\* product with a listed page it is so of the default language only.
THEOREM UnchangedIsDone == Spec => []UnchangedIsPublished
<1>1. ASSUME Inductive, CommitInductive PROVE UnchangedIsPublished
  <2>1. ASSUME NEW g \in Gtins, NEW l \in Languages, OwnRow(g, l),
               Classify(saved[g][l], content[g][l]) = "unchanged"
        PROVE  /\ l \in OwnLanguages(record[g])
               /\ site[g][l].status = "publish" => site[g][l].shows = content[g][l]
               /\ g \notin halfDown =>
                     /\ record[g].enabled
                     /\ site[g][l].status = "publish" \/ <<g, l>> \in byHand
    <3>1. saved[g][l].linked /\ saved[g][l].content = content[g][l]
      BY <2>1 DEF Classify, HasNoResolverLink
    <3>2. l \in OwnLanguages(record[g])
      BY <1>1, <2>1, <3>1 DEF Inductive, LinkedMeansInRecord
    <3>3. /\ content[g][l] \in Nat /\ planned[g][l].content \in Nat
          /\ site[g][l].shows \in Nat
      BY <1>1, VersionTypes DEF Inductive
    <3>4. site[g][l].shows <= planned[g][l].content /\ planned[g][l].content <= content[g][l]
      BY <1>1 DEF CommitInductive, VersionsFollow
    <3>5. site[g][l].status = "publish" => saved[g][l].content <= site[g][l].shows
      BY <1>1 DEF CommitInductive, PagesKeepUp
    <3>6. g \in halfDown \/ (record[g].enabled /\ Up(g, l))
      BY <1>1, <2>1, <3>1 DEF CommitInductive, LinkedIsUp
    <3>. QED
      BY <3>1, <3>2, <3>3, <3>4, <3>5, <3>6 DEF Up
  <2>. QED
    BY <2>1 DEF UnchangedIsPublished
<1>. QED
  BY <1>1, Invariance, CommitInvariance, PTL

\* A record is pointed at a listed page only when the product has no page of ours in
\* the default language, in the state file or on the site (run_execute._listed_pages).
THEOREM OwnPagesComeFirst == Spec => ListedNeverOverridesOwn
<1>1. ASSUME Inductive, CommitInductive, [Next]_vars, NEW g \in Gtins,
             record'[g] # record[g], record'[g].enabled,
             record'[g].links[DefaultLanguage] = "listed"
      PROVE  /\ ~Recorded(saved[g][DefaultLanguage])
             /\ site[g][DefaultLanguage].status # "publish"
  <2>. record \in [Gtins -> Record]
    BY <1>1 DEF Inductive, TypeOK, WorldTypeOK
  <2>1. CASE pc = "resolver" /\ PointRecord
    <3>1. g = cur /\ record'[g].links = links
      BY <1>1, <2>1 DEF PointRecord, Inductive, WorkIsKnown
    <3>. QED
      BY <1>1, <2>1, <3>1, WorldAssumption DEF CommitInductive, ListedIsLast, RunPcs
  <2>2. ASSUME NEW h \in Gtins, record' = [record EXCEPT ![h] = Disabled(@)] PROVE FALSE
    <3>1. g = h /\ record'[g] = Disabled(record[g])
      BY <1>1, <2>2
    <3>2. Exists(record[g])
      BY <1>1, <3>1 DEF Disabled
    <3>. QED
      BY <1>1, <3>1, <3>2 DEF Disabled, Record
  <2>. QED
    BY <1>1, <2>1, <2>2, RecordSteps
<1>2. Inductive /\ CommitInductive /\ [Next]_vars =>
        [\A g \in Gtins :
            (record'[g] # record[g] /\ record'[g].enabled
               /\ record'[g].links[DefaultLanguage] = "listed")
               => /\ ~Recorded(saved[g][DefaultLanguage])
                  /\ site[g][DefaultLanguage].status # "publish"]_vars
  BY <1>1
<1>. QED
  BY <1>2, Invariance, CommitInvariance, PTL DEF Spec, ListedNeverOverridesOwn

-------------------------------------------------------------------------------
(* What was taken down stays down, through any failures and kills, until the  *)
(* state file is lost, as long as plans are made afresh and nobody gives      *)
(* --revive, edits pages by hand or lists one.                               *)

\* What a take-down leaves of an entry is held, and an entry nobody wrote is not.
LEMMA HeldEntries ==
  ASSUME NEW entry \in StateEntry, NEW there \in BOOLEAN
  PROVE  /\ IsHeld(DownEntry(entry, there))
         /\ DownEntry(entry, there).content = entry.content
         /\ ~IsHeld(NoEntry)
  BY DEF IsHeld, DownEntry, StateEntry, NoEntry

\* Nothing that is forgotten is held, or recorded.
LEMMA NothingIsHeld ==
  \A g \in Gtins, l \in Languages :
     ~IsHeld(NothingRecorded[g][l]) /\ ~Recorded(NothingRecorded[g][l])
  BY DEF NothingRecorded, NoEntry, IsHeld, Recorded

\* A row being worked on is not held, on disk or in memory.
LEMMA RowsAreNotHeld ==
  ASSUME RunsLeaveHeld, pc \in RunPcs, NEW g \in Gtins, NEW l \in RowsOf(g)
  PROVE  ~IsHeld(saved[g][l]) /\ ~IsHeld(mem[g][l])
  BY DEF RunsLeaveHeld, RowsOf

\* A commit holds and releases nothing, and leaves what is held as it is.
LEMMA CommitsLeaveHeld ==
  ASSUME Inductive, RunsLeaveHeld, pc = "commit", NEW l \in Languages
  PROVE  IF IsHeld(mem[cur][l]) THEN Committed(l) = mem[cur][l] ELSE ~IsHeld(Committed(l))
<1>1. cur \in Gtins /\ mem[cur][l] \in StateEntry /\ entries[l] \in StateEntry
  BY DEF Inductive, WorkIsKnown, TypeOK, WorldTypeOK, RunTypeOK
<1>2. ~IsHeld(entries[l])
  BY DEF RunsLeaveHeld
<1>3. CASE l \notin RowsOf(cur)
  BY <1>3 DEF Committed
<1>4. CASE l \in RowsOf(cur)
  <2>. DEFINE entry == IF Recorded(entries[l]) THEN entries[l] ELSE mem[cur][l]
  <2>1. ~IsHeld(mem[cur][l])
    BY <1>1, <1>4, RowsAreNotHeld DEF RunPcs
  <2>2. entry \in StateEntry /\ ~IsHeld(entry)
    BY <1>1, <1>2, <2>1
  <2>. HIDE DEF entry
  <2>3. ~IsHeld([entry EXCEPT !.linked = TRUE, !.retracted = FALSE])
    BY <2>2 DEF IsHeld, StateEntry
  <2>4. Committed(l) \in {entry, [entry EXCEPT !.linked = TRUE, !.retracted = FALSE]}
    BY <1>4 DEF Committed, entry
  <2>. QED
    BY <2>1, <2>2, <2>3, <2>4
<1>. QED
  BY <1>3, <1>4

\* Drafting a page holds its entry, keeps what entries are recorded and changes no
\* other one; the page is down afterwards.
LEMMA DraftHolds ==
  ASSUME Inductive, NoOverrides, NEW k \in Languages, DraftPage(k),
         NEW g \in Gtins, NEW l \in Languages
  PROVE  /\ mem'[g][l].content = mem[g][l].content
         /\ IF g = cur /\ l = k
            THEN IsHeld(mem'[g][l]) /\ site'[g][l].status # "publish"
            ELSE mem'[g][l] = mem[g][l] /\ site'[g][l] = site[g][l]
<1>1. PICK there \in BOOLEAN :
        /\ ~there => site[cur][k].status = "absent"
        /\ site' = IF there THEN [site EXCEPT ![cur][k].status = "draft"] ELSE site
        /\ mem' = [mem EXCEPT ![cur][k] = DownEntry(@, there)]
  BY DEF DraftPage, NoOverrides
<1>2. /\ mem \in [Gtins -> [Languages -> StateEntry]]
      /\ site \in [Gtins -> [Languages -> Page]]
  BY DEF Inductive, TypeOK, WorldTypeOK
<1>3. CASE g = cur /\ l = k
  <2>1. mem[g][l] \in StateEntry /\ mem'[g][l] = DownEntry(mem[g][l], there)
    BY <1>1, <1>2, <1>3
  <2>2. site'[g][l].status # "publish"
    <3>1. CASE there
      <4>1. site[g][l] \in Page /\ site'[g][l] = [site[g][l] EXCEPT !.status = "draft"]
        BY <1>1, <1>2, <1>3, <3>1
      <4>. QED
        BY <4>1 DEF Page
    <3>2. CASE ~there
      BY <1>1, <1>3, <3>2
    <3>. QED
      BY <3>1, <3>2
  <2>. QED
    BY <1>3, <2>1, <2>2, HeldEntries
<1>4. CASE ~(g = cur /\ l = k)
  BY <1>1, <1>2, <1>4
<1>. QED
  BY <1>3, <1>4

-------------------------------------------------------------------------------
(* The parts of the invariant, one by one. *)

\* What is held in the state file after a step was held in it or in memory.
LEMMA SavedHeld ==
  ASSUME [Next]_vars, NEW g \in Gtins, NEW l \in Languages, IsHeld(saved'[g][l])
  PROVE  \/ saved'[g][l] = saved[g][l]
         \/ saved'[g][l] = mem[g][l] /\ mem' = mem
  BY SavedSteps, NothingIsHeld DEF Forgets

\* What is held in memory after a step was held before, or its page was drafted.
LEMMA MemoryHeld ==
  ASSUME Inductive, RunsLeaveHeld, [Next]_vars,
         NEW g \in Gtins, NEW l \in Languages, IsHeld(mem'[g][l])
  PROVE  \/ mem'[g][l] = mem[g][l]
         \/ mem'[g][l] = saved[g][l]
         \/ g = cur /\ DraftPage(l)
<1>1. CASE CommitState
  <2>1. pc = "commit"
    BY <1>1 DEF CommitState
  <2>. QED
    BY <1>1, <2>1, CommitEntries, CommitsLeaveHeld
<1>2. ASSUME NEW k \in Languages, DraftPage(k)
      PROVE  mem'[g][l] = mem[g][l] \/ (g = cur /\ DraftPage(l))
  <2>1. PICK there \in BOOLEAN : mem' = [mem EXCEPT ![cur][k] = DownEntry(@, there)]
    BY <1>2 DEF DraftPage
  <2>2. CASE g = cur /\ l = k
    BY <1>2, <2>2
  <2>3. CASE ~(g = cur /\ l = k)
    BY <2>1, <2>3 DEF Inductive, TypeOK, WorldTypeOK
  <2>. QED
    BY <2>2, <2>3
<1>3. ~Forgets
  BY NothingIsHeld DEF Forgets
<1>. QED
  BY <1>1, <1>2, <1>3, MemorySteps

\* What is held is an entry whose page is down.
LEMMA HeldIsDownStep ==
  ASSUME NoOverrides, Inductive, HeldInductive, [Next]_vars
  PROVE  HeldIsDown'
<1>. USE DEF HeldInductive
<1>1. ASSUME NEW g \in Gtins, NEW l \in Languages, Recorded(saved[g][l]) \/ Recorded(mem[g][l]),
             IsHeld(saved[g][l]) \/ IsHeld(mem[g][l])
      PROVE  site'[g][l].status # "publish"
  <2>1. site[g][l].status # "publish"
    BY <1>1 DEF HeldIsDown
  <2>2. ~(pc = "rows" /\ g = cur /\ l \in Pending)
    BY <1>1, RowsAreNotHeld DEF Pending, RunPcs
  <2>. QED
    BY <2>1, <2>2, SiteSteps
<1>2. ASSUME NEW g \in Gtins, NEW l \in Languages, IsHeld(saved'[g][l])
      PROVE  Recorded(saved'[g][l]) /\ site'[g][l].status # "publish"
  <2>1. CASE saved'[g][l] = saved[g][l]
    BY <1>1, <1>2, <2>1 DEF HeldIsDown
  <2>2. CASE saved'[g][l] = mem[g][l]
    BY <1>1, <1>2, <2>2 DEF HeldIsDown
  <2>. QED
    BY <1>2, <2>1, <2>2, SavedHeld
<1>3. ASSUME NEW g \in Gtins, NEW l \in Languages, IsHeld(mem'[g][l])
      PROVE  Recorded(mem'[g][l]) /\ site'[g][l].status # "publish"
  <2>1. CASE mem'[g][l] = mem[g][l]
    BY <1>1, <1>3, <2>1 DEF HeldIsDown
  <2>2. CASE mem'[g][l] = saved[g][l]
    BY <1>1, <1>3, <2>2 DEF HeldIsDown
  <2>3. CASE g = cur /\ DraftPage(l)
    <3>1. Recorded(mem[g][l])
      BY <2>3 DEF DraftPage, TakeDownIsNoted, RecordedLanguages
    <3>. QED
      BY <2>3, <3>1, DraftHolds DEF Recorded
  <2>. QED
    BY <1>3, <2>1, <2>2, <2>3, MemoryHeld
<1>. QED
  BY <1>2, <1>3 DEF HeldIsDown

\* A fresh plan's rows, without the held products', hold no held row.
LEMMA StartsOnOthers ==
  ASSUME NoOverrides, TypeOK, HeldIsDown,
         NEW m \in Modes, NEW withRevive \in BOOLEAN, NEW confirmed \in Confirmations,
         NEW kept \in SUBSET Units, StartRun(m, withRevive, confirmed, kept),
         NEW g \in Gtins, NEW l \in Languages, <<g, l>> \in kept
  PROVE  ~IsHeld(saved[g][l])
<1>1. PlanIsCurrent /\ withRevive = FALSE
  BY DEF StartRun, NoOverrides
<1>2. kept \subseteq DropHeld(confirmed, FALSE)
  BY <1>1 DEF StartRun, Kept
<1>3. SUFFICES ASSUME IsHeld(saved[g][l]) PROVE FALSE
  OBVIOUS
<1>4. Classify(saved[g][l], content[g][l]) = "held"
  BY <1>3 DEF HeldIsDown, Classify
<1>5. planned[g][l].class = "held"
  BY <1>1, <1>4 DEF PlanIsCurrent, CurrentRows
<1>6. <<g, l>> \in confirmed
  BY <1>2 DEF DropHeld
<1>7. g \in {u[1] : u \in {r \in confirmed : planned[r[1]][r[2]].class = "held"}}
  <2>1. <<g, l>> \in {r \in confirmed : planned[r[1]][r[2]].class = "held"}
    BY <1>5, <1>6
  <2>. QED
    BY <2>1
<1>. QED
  BY <1>2, <1>7 DEF DropHeld

\* What a run has written of a product is among its rows.
LEMMA FreshAreRows ==
  ASSUME Inductive, EntriesAreMeant, RunsLeaveHeld, [Next]_vars
  PROVE  (fresh \subseteq RowsOf(cur))'
<1>1. EntriesAreMeant'
  BY MeantStep
<1>2. CASE fresh' = {}
  BY <1>2
<1>3. CASE fresh' # {} /\ fresh' = fresh /\ cur' = cur
  <2>1. pc' \in RunPcs /\ pc # "idle"
    BY <1>1, <1>3 DEF EntriesAreMeant, RunPcs
  <2>2. rows' = rows
    BY <2>1, RunFrame
  <2>. QED
    BY <1>3, <2>2 DEF RunsLeaveHeld, RowsOf
<1>4. ASSUME NEW l \in Languages, UpsertRow(l) PROVE (fresh \subseteq RowsOf(cur))'
  BY <1>4 DEF UpsertRow, Pending, RunsLeaveHeld, RowsOf, procVars
<1>. QED
  BY <1>2, <1>3, <1>4, FreshSteps

\* What is to be committed holds nothing.
LEMMA EntriesAreFree ==
  ASSUME RunsLeaveHeld, [Next]_vars
  PROVE  \A l \in Languages : ~IsHeld(entries'[l])
<1>. DEFINE Free == \A l \in Languages : ~IsHeld(entries'[l])
<1>. \A l \in Languages : ~IsHeld(entries[l])
  BY DEF RunsLeaveHeld
<1>. \A l \in Languages : ~IsHeld(NoEntries[l])
  BY DEF NoEntries, NoEntry, IsHeld
<1>1. ASSUME FinishPages PROVE Free
  BY <1>1 DEF FinishPages, PublishedEntry, NoEntry, IsHeld
<1>2. ASSUME BlockProduct \/ FinishPagesFails \/ VerifyTargetsFails \/ WriteResolverFails
      PROVE  Free
  BY <1>2, GivesUp DEF ClearProduct
<1>3. ASSUME CommitState \/ FinishRun \/ RunDies PROVE Free
  BY <1>3 DEF CommitState, FinishRun, RunDies, ClearRun, ClearProduct
<1>4. ASSUME RunNext PROVE Free
  BY <1>1, <1>2, <1>3, <1>4 DEF RunNext, RunSteps, StartRun, RefuseListed, TakeProduct,
     UpsertRow, UpsertRowFails, VerifyTargets, WriteResolver, runVars
<1>. QED
  BY <1>4, Steps DEF Forgets, runVars

\* The targets of a held product are not all seen to serve.
LEMMA HeldIsNotVerified ==
  ASSUME NoOverrides, Inductive, HeldInductive, VerifyTargets
  PROVE  ~HeldGtin(saved, cur)
<1>1. pc = "targets" /\ cur \in Gtins
  BY DEF VerifyTargets, Inductive, WorkIsKnown
<1>2. LinkSets = {PagesForLinks}
  BY <1>1, WorldAssumption
  DEF LinkSets, UsesListedPage, Inductive, ListedIsAllowed, NoOverrides
<1>3. \A l \in Unverified(PagesForLinks) : Serves(l, PagesForLinks[l])
  BY <1>2 DEF VerifyTargets
<1>4. SUFFICES ASSUME NEW l \in Languages, IsHeld(saved[cur][l]) PROVE FALSE
  BY DEF HeldGtin
<1>5. IsHeld(mem[cur][l]) /\ l \notin RowsOf(cur)
  BY <1>1, <1>4, RowsAreNotHeld DEF HeldInductive, RunsLeaveHeld, RunPcs
<1>6. Recorded(mem[cur][l]) /\ site[cur][l].status # "publish"
  BY <1>1, <1>5 DEF HeldInductive, HeldIsDown
<1>7. PagesForLinks[l] = "own"
  BY <1>6 DEF PagesForLinks, KnownLanguages, RecordedLanguages
<1>8. l \notin fresh
  BY <1>5 DEF HeldInductive, RunsLeaveHeld
<1>. QED
  BY <1>3, <1>6, <1>7, <1>8 DEF Unverified, Serves

\* A run works on no held row, and points no held product's record.
LEMMA RunsLeaveHeldStep ==
  ASSUME NoOverrides, Inductive, EntriesAreMeant, HeldInductive, [Next]_vars
  PROVE  RunsLeaveHeld'
<1>. RunsLeaveHeld
  BY DEF HeldInductive
<1>1. (fresh \subseteq RowsOf(cur))' /\ \A l \in Languages : ~IsHeld(entries'[l])
  BY FreshAreRows, EntriesAreFree
<1>2. ASSUME pc' \in RunPcs, NEW g \in Gtins, NEW l \in Languages
      PROVE  IsHeld(mem'[g][l]) <=> IsHeld(saved'[g][l])
  <2>1. CASE mem' = saved /\ saved' = saved
    BY <2>1
  <2>2. CASE pc \in RunPcs /\ saved' = saved
    <3>1. IsHeld(mem[g][l]) <=> IsHeld(saved[g][l])
      BY <2>2 DEF RunsLeaveHeld
    <3>2. CASE CommitState
      <4>1. pc = "commit"
        BY <3>2 DEF CommitState
      <4>. QED
        BY <2>2, <3>1, <3>2, <4>1, CommitEntries, CommitsLeaveHeld
    <3>3. ASSUME NEW k \in Languages, DraftPage(k) PROVE FALSE
      BY <2>2, <3>3 DEF DraftPage, RunPcs
    <3>4. ~Forgets
      BY <2>2 DEF Forgets, RunPcs
    <3>. QED
      BY <2>2, <3>1, <3>2, <3>3, <3>4, MemorySteps
  <2>. QED
    BY <1>2, <2>1, <2>2, RunFrame
<1>3. ASSUME pc' \in RunPcs, NEW g \in Gtins, NEW l \in Languages, <<g, l>> \in rows'
      PROVE  ~IsHeld(saved'[g][l])
  <2>1. CASE pc \in RunPcs
    <3>1. rows' = rows /\ saved' = saved
      BY <1>3, <2>1, RunFrame DEF RunPcs
    <3>. QED
      BY <1>3, <2>1, <3>1, RowsAreNotHeld DEF RowsOf
  <2>2. CASE pc \notin RunPcs
    <3>1. PICK m \in Modes, withRevive \in BOOLEAN, confirmed \in Confirmations,
               kept \in SUBSET Units : StartRun(m, withRevive, confirmed, kept)
      <4>1. ASSUME RunSteps \/ RunDies PROVE FALSE
        <5>1. ASSUME BlockProduct \/ FinishPagesFails \/ VerifyTargetsFails \/ WriteResolverFails
              PROVE  FALSE
          BY <2>2, <5>1, GivesUp DEF RunPcs
        <5>. QED
          BY <2>2, <4>1, <5>1 DEF RunSteps, RefuseListed, TakeProduct, UpsertRow,
             UpsertRowFails, FinishPages, VerifyTargets, WriteResolver, CommitState, FinishRun,
             RunDies, RunPcs
      <4>2. ASSUME UNCHANGED <<record, saved, procVars, runVars>> PROVE FALSE
        BY <1>3, <2>2, <4>2 DEF procVars
      <4>3. ASSUME DownNext, UNCHANGED runVars PROVE FALSE
        BY <1>3, <4>3, DownIsElsewhere DEF RunPcs
      <4>4. ~Forgets
        BY <1>3 DEF Forgets, RunPcs
      <4>. QED
        BY <4>1, <4>2, <4>3, <4>4, Steps DEF RunNext
    <3>2. rows' = kept /\ saved' = saved
      BY <3>1 DEF StartRun
    <3>3. ~IsHeld(saved[g][l])
      BY <1>3, <3>1, <3>2, StartsOnOthers DEF Inductive, HeldInductive
    <3>. QED
      BY <3>2, <3>3
  <2>. QED
    BY <2>1, <2>2
<1>4. ASSUME pc' = "resolver" PROVE ~HeldGtin(saved', cur')
  <2>1. ASSUME UNCHANGED <<record, saved, procVars, runVars>> PROVE ~HeldGtin(saved', cur')
    BY <1>4, <2>1 DEF procVars, RunsLeaveHeld, HeldGtin
  <2>2. ASSUME VerifyTargets PROVE ~HeldGtin(saved', cur')
    BY <2>2, HeldIsNotVerified DEF VerifyTargets, HeldGtin
  <2>3. ASSUME RunNext, ~VerifyTargets PROVE FALSE
    <3>1. ASSUME BlockProduct \/ FinishPagesFails \/ VerifyTargetsFails \/ WriteResolverFails
          PROVE  FALSE
      BY <1>4, <3>1, GivesUp
    <3>. QED
      BY <1>4, <2>3, <3>1 DEF RunNext, RunSteps, StartRun, BeginOn, RefuseListed, TakeProduct,
         UpsertRow, UpsertRowFails, FinishPages, WriteResolver, CommitState, FinishRun, RunDies,
         SaveState, LoseProcess, procVars
  <2>4. ~Forgets
    BY <1>4 DEF Forgets
  <2>5. ASSUME DownNext, UNCHANGED runVars PROVE FALSE
    BY <1>4, <2>5, DownIsElsewhere
  <2>. QED
    BY <2>1, <2>2, <2>3, <2>4, <2>5, Steps
<1>. QED
  BY <1>1, <1>2, <1>3, <1>4 DEF RunsLeaveHeld, RowsOf


\* A disabled record is not enabled.
LEMMA DisabledIsDown ==
  ASSUME Inductive, NEW g \in Gtins
  PROVE  ~Disabled(record[g]).enabled
<1>1. record[g] \in Record
  BY DEF Inductive, TypeOK, WorldTypeOK
<1>2. CASE Exists(record[g])
  BY <1>1, <1>2 DEF Disabled, Record
<1>3. CASE ~Exists(record[g])
  BY <1>3 DEF Disabled, Inductive, DisabledWhileDrafting
<1>. QED
  BY <1>2, <1>3

\* A run leaves what was taken down as it is.
LEMMA RunsLeaveDown ==
  ASSUME Inductive, HeldInductive, [Next]_vars, RunNext, NEW g \in takenDown
  PROVE  /\ pc \notin DownPcs /\ pc' \notin DownPcs
         /\ ~record'[g].enabled
         /\ HeldGtin(saved', g)
<1>. g \in Gtins
  BY DEF Inductive, TypeOK, DownTypeOK
<1>1. pc \in RunPcs \cup {"idle"} /\ pc' \in RunPcs \cup {"idle"}
  <2>1. ASSUME BlockProduct \/ FinishPagesFails \/ VerifyTargetsFails \/ WriteResolverFails
        PROVE  pc \in RunPcs /\ pc' = "next"
    BY <2>1, GivesUp DEF RunPcs
  <2>. QED
    BY <2>1 DEF RunNext, RunSteps, StartRun, BeginOn, RefuseListed, TakeProduct,
       UpsertRow, UpsertRowFails, FinishPages, VerifyTargets, WriteResolver, CommitState,
       FinishRun, RunDies, SaveState, LoseProcess, procVars, RunPcs
<1>2. ~record[g].enabled /\ HeldGtin(saved, g)
  BY <1>1 DEF HeldInductive, TakeDownIsNoted, RunPcs, DownPcs
<1>3. ~record'[g].enabled
  <2>1. CASE record' = record
    BY <1>2, <2>1
  <2>2. CASE pc = "resolver" /\ PointRecord
    <3>1. g # cur
      BY <1>2, <2>2 DEF HeldInductive, RunsLeaveHeld
    <3>. QED
      BY <1>2, <2>2, <3>1 DEF PointRecord, Inductive, TypeOK, WorldTypeOK
  <2>3. ASSUME NEW h \in Gtins, record' = [record EXCEPT ![h] = Disabled(@)]
        PROVE  ~record'[g].enabled
    BY <1>2, <2>3, DisabledIsDown DEF Inductive, TypeOK, WorldTypeOK
  <2>. QED
    BY <2>1, <2>2, <2>3, RecordSteps
<1>4. HeldGtin(saved', g)
  <2>1. CASE saved' = saved
    BY <1>2, <2>1
  <2>2. CASE saved' = mem /\ saved' # saved
    <3>1. pc \in RunPcs
      <4>1. ASSUME pc = "idle" PROVE saved' = saved
        <5>1. ASSUME BlockProduct \/ FinishPagesFails \/ VerifyTargetsFails \/ WriteResolverFails
              PROVE  FALSE
          BY <4>1, <5>1, GivesUp
        <5>. QED
          BY <4>1, <5>1 DEF RunNext, RunSteps, StartRun, RefuseListed, TakeProduct,
             UpsertRow, UpsertRowFails, FinishPages, VerifyTargets, WriteResolver, CommitState,
             FinishRun, RunDies, RunPcs
      <4>. QED
        BY <1>1, <2>2, <4>1
    <3>2. PICK l \in Languages : IsHeld(saved[g][l])
      BY <1>2 DEF HeldGtin
    <3>3. IsHeld(mem[g][l])
      BY <3>1, <3>2 DEF HeldInductive, RunsLeaveHeld
    <3>. QED
      BY <2>2, <3>3 DEF HeldGtin
  <2>3. ASSUME Forgets PROVE saved' = saved
    <3>1. ASSUME BlockProduct \/ FinishPagesFails \/ VerifyTargetsFails \/ WriteResolverFails
          PROVE  FALSE
      BY <2>3, <3>1, GivesUp DEF Forgets
    <3>. QED
      BY <2>3, <3>1 DEF Forgets, RunNext, RunSteps, StartRun, RefuseListed, TakeProduct,
         UpsertRow, UpsertRowFails, FinishPages, VerifyTargets, WriteResolver, CommitState,
         FinishRun, RunDies, RunPcs
  <2>. QED
    BY <1>2, <2>1, <2>2, <2>3, SavedSteps
<1>. QED
  BY <1>1, <1>3, <1>4 DEF RunPcs, DownPcs

\* What a take-down has done is in memory until it is saved.
LEMMA DownIsNoted ==
  ASSUME NoOverrides, Inductive, TakeDownIsMarked, HeldInductive, DownNext
  PROVE  TakeDownIsNoted'
<1>. USE DEF TakeDownIsNoted, DownPcs
<1>. TakeDownIsNoted
  BY DEF HeldInductive
<1>. /\ record \in [Gtins -> Record]
     /\ takenDown \subseteq Gtins /\ todo \subseteq Gtins
     /\ pc = "draft" => cur \in Gtins
  BY DEF Inductive, TypeOK, WorldTypeOK, DownTypeOK, WorkIsKnown
<1>1. ASSUME NEW products \in SUBSET Gtins, StartTakeDown(products) PROVE TakeDownIsNoted'
  BY <1>1 DEF StartTakeDown, BeginOn, RecordedLanguages, remoteVars, downVars
<1>2. ASSUME NEW g \in Gtins, Retract(g) PROVE TakeDownIsNoted'
  <2>1. /\ pc = "down" /\ pc' = "draft" /\ g \in todo /\ todo' = todo \ {g}
        /\ cur' = g /\ left' = RecordedLanguages(mem, g)
        /\ record' = [record EXCEPT ![g] = Disabled(@)]
        /\ halfDown' = halfDown \cup {g} /\ takenDown' = takenDown \ {g}
        /\ UNCHANGED <<saved, mem>>
    BY <1>2 DEF Retract
  <2>2. \A h \in takenDown : ~record'[h].enabled
    BY <2>1, DisabledIsDown
  <2>3. RecordedLanguages(mem, g) # {}
    BY <2>1
  <2>. QED
    BY <2>1, <2>2, <2>3 DEF RecordedLanguages, HeldGtin
<1>3. ASSUME NEW g \in Gtins, RetractRaises(g) PROVE TakeDownIsNoted'
  <2>1. /\ pc = "down" /\ pc' = "idle" /\ saved' = saved /\ takenDown' = takenDown \ halfDown'
        /\ UNCHANGED recordVars \/ DisableRecord(g)
    BY <1>3 DEF RetractRaises, LoseProcess
  <2>2. \A h \in takenDown : ~record'[h].enabled
    BY <2>1, DisabledIsDown
  <2>. QED
    BY <2>1, <2>2
<1>4. ASSUME NEW l \in Languages, DraftPage(l) PROVE TakeDownIsNoted'
  <2>1. /\ pc = "draft" /\ cur \in Gtins /\ l \in left /\ left' = left \ {l}
        /\ UNCHANGED <<record, halfDown, saved, pc, todo, cur, clean, takenDown>>
    BY <1>4 DEF DraftPage
  <2>2. \A g \in Gtins : RecordedLanguages(mem', g) = RecordedLanguages(mem, g)
    BY <1>4, DraftHolds DEF RecordedLanguages, Recorded
  <2>3. \A g \in Gtins, k \in Languages :
           IF g = cur /\ k = l THEN IsHeld(mem'[g][k]) ELSE mem'[g][k] = mem[g][k]
    BY <1>4, DraftHolds
  <2>4. \A g \in takenDown : HeldGtin(mem', g)
    BY <2>1, <2>3 DEF HeldGtin
  <2>5. \A g \in todo : RecordedLanguages(mem', g) # {}
    BY <2>1, <2>2
  <2>6. /\ left' \subseteq RecordedLanguages(mem', cur)
        /\ RecordedLanguages(mem', cur) # {}
    BY <2>1, <2>2
  <2>7. ASSUME clean, NEW k \in RecordedLanguages(mem', cur) \ left' PROVE IsHeld(mem'[cur][k])
    <3>1. k \in Languages
      BY DEF RecordedLanguages
    <3>2. CASE k = l
      BY <2>1, <2>3, <3>1, <3>2
    <3>3. CASE k # l
      <4>1. IsHeld(mem[cur][k])
        BY <2>1, <2>2, <2>7, <3>3
      <4>. QED
        BY <2>1, <2>3, <3>1, <3>3, <4>1
    <3>. QED
      BY <3>2, <3>3
  <2>8. \A g \in takenDown : ~record[g].enabled
    OBVIOUS
  <2>. QED
    BY <2>1, <2>4, <2>5, <2>6, <2>7, <2>8
<1>5. ASSUME NEW l \in Languages, DraftPageFails(l) PROVE TakeDownIsNoted'
  BY <1>5 DEF DraftPageFails, procVars, RecordedLanguages, HeldGtin
<1>6. ASSUME ProductDown PROVE TakeDownIsNoted'
  <2>1. /\ pc = "draft" /\ pc' = "down" /\ left = {}
        /\ takenDown' = IF clean THEN takenDown \cup {cur} ELSE takenDown
        /\ UNCHANGED <<record, halfDown, saved, mem, todo>>
    BY <1>6 DEF ProductDown, remoteVars
  <2>2. ~record[cur].enabled /\ cur \in halfDown
    BY <2>1 DEF Inductive, DisabledWhileDrafting, TakeDownIsMarked
  <2>3. clean => HeldGtin(mem, cur)
    BY <2>1 DEF HeldGtin, RecordedLanguages
  <2>. QED
    BY <2>1, <2>2, <2>3 DEF HeldGtin, RecordedLanguages
<1>7. ASSUME FinishTakeDown PROVE TakeDownIsNoted'
  BY <1>7 DEF FinishTakeDown, SaveState, downVars, HeldGtin
<1>8. ASSUME TakeDownDies PROVE TakeDownIsNoted'
  BY <1>8 DEF TakeDownDies, LoseProcess, remoteVars
<1>. QED
  BY <1>1, <1>2, <1>3, <1>4, <1>5, <1>6, <1>7, <1>8 DEF DownNext, DownSteps

\* What was taken down is noted, whatever happens.
LEMMA NotedStep ==
  ASSUME NoOverrides, Inductive, TakeDownIsMarked, HeldInductive, [Next]_vars
  PROVE  TakeDownIsNoted'
<1>. USE DEF TakeDownIsNoted, DownPcs
<1>. TakeDownIsNoted
  BY DEF HeldInductive
<1>1. ASSUME Environment, UNCHANGED downVars PROVE TakeDownIsNoted'
  <2>1. UNCHANGED <<recordVars, saved, procVars>>
    BY <1>1 DEF Environment, ContentChanges, OperatorLists, EditorTakesDown, BecomeCalm,
                remoteVars, envVars, procVars
  <2>. QED
    BY <1>1, <2>1 DEF procVars, downVars, RecordedLanguages, HeldGtin
<1>2. ASSUME BuildPlan, UNCHANGED downVars PROVE TakeDownIsNoted'
  BY <1>2 DEF BuildPlan, worldVars, envVars, remoteVars, procVars, downVars, RecordedLanguages,
              HeldGtin
<1>3. ASSUME StateIsLost, ForgetTakeDowns PROVE TakeDownIsNoted'
  BY <1>3 DEF StateIsLost, ForgetTakeDowns
<1>4. ASSUME RunNext, UNCHANGED downVars PROVE TakeDownIsNoted'
  <2>1. pc' \notin DownPcs
    <3>1. ASSUME BlockProduct \/ FinishPagesFails \/ VerifyTargetsFails \/ WriteResolverFails
          PROVE  pc' = "next"
      BY <3>1, GivesUp
    <3>. QED
      BY <1>4, <3>1 DEF RunNext, RunSteps, StartRun, BeginOn, RefuseListed, TakeProduct,
         UpsertRow, UpsertRowFails, FinishPages, VerifyTargets, WriteResolver, CommitState,
         FinishRun, RunDies, SaveState, LoseProcess, procVars, RunPcs
  <2>2. \A g \in takenDown : ~record'[g].enabled /\ HeldGtin(saved', g)
    BY <1>4, RunsLeaveDown
  <2>. QED
    BY <1>4, <2>1, <2>2 DEF downVars
<1>5. ASSUME UNCHANGED vars PROVE TakeDownIsNoted'
  BY <1>5 DEF vars, worldVars, envVars, remoteVars, procVars, downVars, RecordedLanguages, HeldGtin
<1>. QED
  BY <1>1, <1>2, <1>3, <1>4, <1>5, DownIsNoted DEF Next

-------------------------------------------------------------------------------
(* The invariant, and what follows. *)

\* It holds at first.
LEMMA HeldInit ==
  ASSUME Init
  PROVE  HeldInductive
<1>. USE DEF Init, WorldInit, RunInit, DownInit
<1>1. HeldIsDown
  BY NothingIsHeld DEF HeldIsDown
<1>2. RunsLeaveHeld
  BY DEF RunsLeaveHeld, RunPcs, NoEntries, NoEntry, IsHeld
<1>3. TakeDownIsNoted
  BY DEF TakeDownIsNoted, DownPcs
<1>. QED
  BY <1>1, <1>2, <1>3 DEF HeldInductive

\* Every step preserves it.
LEMMA HeldStep ==
  ASSUME NoOverrides, Inductive, EntriesAreMeant, TakeDownIsMarked, HeldInductive, [Next]_vars
  PROVE  HeldInductive'
  BY HeldIsDownStep, RunsLeaveHeldStep, NotedStep DEF HeldInductive

\* So it always holds.
LEMMA HeldInvariance ==
  ASSUME NoOverrides
  PROVE  Spec => []HeldInductive
<1>1. Init => HeldInductive
  BY HeldInit
<1>2. Inductive /\ CommitInductive /\ HeldInductive /\ [Next]_vars => HeldInductive'
  BY HeldStep DEF CommitInductive
<1>. QED
  BY <1>1, <1>2, Invariance, CommitInvariance, PTL DEF Spec

\* What a take-down reported as down stays down and is remembered, through any plans,
\* runs and other take-downs, finished or not, until the state file is lost; also
\* where a page was gone already (run_unpublish._unpublish_gtin, state._is_held).
\* Plans are made afresh, nobody gives --revive, edits pages by hand or lists one.
THEOREM TakeDownsLast ==
  ASSUME NoOverrides
  PROVE  Spec => []TakenDownIsHeld
<1>1. HeldInductive => TakenDownIsHeld
  BY DEF HeldInductive, TakeDownIsNoted, TakenDownIsHeld, DownPcs
<1>. QED
  BY <1>1, HeldInvariance, PTL

\* A record that a take-down disabled is not enabled again as long as the state file
\* holds the product: whatever rows are confirmed, the drafted sibling is not seen
\* to serve (run_execute._verify_targets).
THEOREM HeldRecordsStay ==
  ASSUME NoOverrides
  PROVE  Spec => HeldRecordStaysDown
<1>1. ASSUME Inductive, HeldInductive, [Next]_vars, NEW g \in Gtins,
             HeldGtin(saved, g), ~record[g].enabled
      PROVE  ~record'[g].enabled
  <2>. record \in [Gtins -> Record]
    BY <1>1 DEF Inductive, TypeOK, WorldTypeOK
  <2>1. CASE record' = record
    BY <1>1, <2>1
  <2>2. CASE pc = "resolver" /\ PointRecord
    <3>1. g # cur
      BY <1>1, <2>2 DEF HeldInductive, RunsLeaveHeld
    <3>. QED
      BY <1>1, <2>2, <3>1 DEF PointRecord
  <2>3. ASSUME NEW h \in Gtins, record' = [record EXCEPT ![h] = Disabled(@)]
        PROVE  ~record'[g].enabled
    BY <1>1, <2>3, DisabledIsDown
  <2>. QED
    BY <1>1, <2>1, <2>2, <2>3, RecordSteps
<1>2. Inductive /\ HeldInductive /\ [Next]_vars =>
        [\A g \in Gtins :
            (HeldGtin(saved, g) /\ ~record[g].enabled) => ~record'[g].enabled]_vars
  BY <1>1
<1>. QED
  BY <1>2, Invariance, HeldInvariance, PTL DEF Spec, HeldRecordStaysDown

-------------------------------------------------------------------------------
(* Reconciliation: a check reads the file and the site while they change.   *)

\* A check observes: whatever Publishing promises holds of it with checks on.
THEOREM ChecksOnlyObserve == CheckedSpec => Spec
<1>1. CheckedInit => Init
  BY DEF CheckedInit
<1>2. [CheckedNext]_<<vars, checkVars>> => [Next]_vars
  BY DEF CheckedNext, Meanwhile, StartCheck, EndCheck, AskLanguage, CheckFails
<1>. QED
  BY <1>1, <1>2, PTL DEF CheckedSpec, Spec

\* No step writes both a page and the state file.
LEMMA OneAtATime ==
  ASSUME Next
  PROVE  UNCHANGED site \/ UNCHANGED saved
<1>. USE DEF envVars, remoteVars, procVars, worldVars, envVars, remoteVars, procVars
<1>1. CASE Environment
  BY <1>1 DEF Environment, ContentChanges, OperatorLists, EditorTakesDown, BecomeCalm
<1>2. CASE BuildPlan \/ StateIsLost
  BY <1>2 DEF BuildPlan, StateIsLost
<1>3. CASE RunSteps
  BY <1>3 DEF RunSteps, RefuseListed, TakeProduct, UpsertRow, UpsertRowFails, BlockProduct,
              FinishPages, FinishPagesFails, VerifyTargets, VerifyTargetsFails, WriteResolver,
              WriteResolverFails, CommitState, FinishRun
<1>4. CASE RunNext
  BY <1>3, <1>4 DEF RunNext, StartRun, RunDies
<1>5. CASE DownNext
  BY <1>5 DEF DownNext, DownSteps, StartTakeDown, Retract, RetractRaises, DraftPage,
              DraftPageFails, ProductDown, FinishTakeDown, TakeDownDies
<1>. QED
  BY <1>1, <1>2, <1>4, <1>5 DEF Next

\* What a check holds while it is on: a row that has been a gap ever since was
\* recorded when it began and was not found, and a row that was never apart is
\* now as it was when the check began, and has been found if it was asked for.
CheckHolds ==
  /\ asking \subseteq Languages /\ entered \subseteq Units /\ found \subseteq Units
  /\ asking # {} =>
        /\ lasting \subseteq (Gaps \cap entered) \ found
        /\ \A u \in Units \ apart :
              /\ Live(u) <=> u \in entered
              /\ Recorded(saved[u[1]][u[2]]) <=> u \in entered
              /\ u \in found => u \in entered
              /\ u \in entered => u \in found \/ u[2] \in asking

\* The pages of a language the site answers with are those that are live.
LEMMA AnswersAreLive ==
  ASSUME NEW l \in Languages
  PROVE  PagesWithGtin(l) = {u \in Units : u[2] = l /\ Live(u)}
  BY DEF PagesWithGtin, Live, Foreign

\* A gap is a row the file has, of a page that is not live.
LEMMA GapsAreRecorded ==
  ASSUME NEW u \in Gaps
  PROVE  u \in Units /\ Recorded(saved[u[1]][u[2]]) /\ ~Live(u)
  BY DEF Gaps, Classify

\* Whatever the check does, it keeps this, and so does all that goes on meanwhile.
LEMMA CheckStep ==
  ASSUME CheckHolds, [CheckedNext]_<<vars, checkVars>>
  PROVE  CheckHolds'
<1>1. CASE UNCHANGED <<vars, checkVars>>
  BY <1>1 DEF vars, worldVars, envVars, remoteVars, procVars, checkVars, CheckHolds, Gaps, Live
<1>2. CASE StartCheck
  <2>1. UNCHANGED <<saved, site, content, found>>
    BY <1>2 DEF StartCheck, vars, worldVars, envVars, remoteVars, procVars
  <2>2. /\ found = {} /\ asking' = Languages /\ entered' = EntriesIn(saved)
        /\ lasting' = Gaps /\ apart' = Apart
    BY <1>2 DEF StartCheck, NoCheck
  <2>3. Gaps' = Gaps /\ \A u : Live(u)' <=> Live(u)
    BY <2>1 DEF Gaps, Live
  <2>4. lasting' \subseteq (Gaps' \cap entered') \ found'
    BY <2>1, <2>2, <2>3, GapsAreRecorded DEF EntriesIn
  <2>. QED
    BY <2>1, <2>2, <2>3, <2>4 DEF CheckHolds, EntriesIn, Apart
<1>3. CASE EndCheck
  BY <1>3 DEF EndCheck, CheckHolds
<1>4. ASSUME NEW l \in Languages, AskLanguage(l), asking # {l}
      PROVE  CheckHolds'
  <2>1. UNCHANGED <<saved, site, content, entered, lasting, apart>>
    BY <1>4 DEF AskLanguage, vars, worldVars, envVars, remoteVars, procVars
  <2>2. /\ l \in asking /\ asking' = asking \ {l}
        /\ found' = found \cup {u \in Units : u[2] = l /\ Live(u)}
    BY <1>4, AnswersAreLive DEF AskLanguage
  <2>3. Gaps' = Gaps /\ \A u : Live(u)' <=> Live(u)
    BY <2>1 DEF Gaps, Live
  <2>4. lasting' \subseteq (Gaps' \cap entered') \ found'
    BY <2>1, <2>2, <2>3, GapsAreRecorded DEF CheckHolds
  <2>. QED
    BY <2>1, <2>2, <2>3, <2>4 DEF CheckHolds
<1>5. CASE Meanwhile /\ asking # {}
  <2>1. /\ UNCHANGED <<asking, entered, found>> /\ lasting' = lasting \cap Gaps'
        /\ apart' = apart \cup Apart'
    BY <1>5 DEF Meanwhile
  <2>2. ASSUME NEW u \in Units \ apart'
        PROVE  /\ Live(u)' <=> Live(u)
               /\ Recorded(saved[u[1]][u[2]])' <=> Recorded(saved[u[1]][u[2]])
    <3>1. Live(u) <=> Recorded(saved[u[1]][u[2]])
      BY <1>5, <2>1 DEF CheckHolds
    <3>2. Live(u)' <=> Recorded(saved[u[1]][u[2]])'
      BY <2>1 DEF Apart
    <3>3. UNCHANGED site \/ UNCHANGED saved
      BY <1>5, OneAtATime DEF Meanwhile
    <3>. QED
      BY <3>1, <3>2, <3>3 DEF Live
  <2>3. lasting' \subseteq (Gaps' \cap entered') \ found'
    BY <1>5, <2>1 DEF CheckHolds
  <2>. QED
    BY <1>5, <2>1, <2>2, <2>3 DEF CheckHolds
<1>6. CASE Meanwhile /\ asking = {}
  BY <1>6 DEF Meanwhile, CheckHolds
<1>. QED
  BY <1>1, <1>2, <1>3, <1>4, <1>5, <1>6 DEF CheckedNext, CheckFails, AskLanguage

\* So it always holds.
LEMMA CheckInvariance == CheckedSpec => []CheckHolds
<1>1. CheckedInit => CheckHolds
  BY DEF CheckedInit, NoCheck, CheckHolds
<1>. QED
  BY <1>1, CheckStep, PTL DEF CheckedSpec

\* A gap no plan will close is in the report if it was there all the while,
\* whoever else was at work.
THEOREM LastingGapsShow == CheckedSpec => LastingGapsAreReported
<1>1. ASSUME CheckHolds, NEW l \in Languages, Reports(l)
      PROVE  [kind : {"recorded_not_live"}, unit : lasting] \subseteq Reported(l)
  <2>1. lasting \subseteq (Gaps \cap entered) \ found
    BY <1>1 DEF CheckHolds, Reports
  <2>2. lasting \subseteq entered \ (found \cup PagesWithGtin(l))
    BY <2>1, AnswersAreLive, GapsAreRecorded
  <2>. QED
    BY <2>2 DEF Reported, Findings
<1>2. CheckHolds =>
        [\A l \in Languages : Reports(l) =>
            [kind : {"recorded_not_live"}, unit : lasting] \subseteq Reported(l)]_<<vars, checkVars>>
  BY <1>1
<1>. QED
  BY <1>2, CheckInvariance, PTL DEF LastingGapsAreReported

\* No row is reported on which the site and the file agreed all the while.
THEOREM FindingsAreTrue == CheckedSpec => FindingsWereTrue
<1>1. ASSUME CheckHolds, NEW l \in Languages, Reports(l), NEW f \in Reported(l)
      PROVE  f.unit \in apart
  <2>. DEFINE pages == found \cup {u \in Units : u[2] = l /\ Live(u)}
  <2>1. asking = {l}
    BY <1>1 DEF Reports
  <2>2. f.unit \in (pages \ entered) \cup (entered \ pages)
    BY <1>1, AnswersAreLive DEF Reported, Findings
  <2>3. f.unit \in Units
    BY <1>1, <2>2 DEF CheckHolds
  <2>4. ASSUME f.unit \notin apart PROVE FALSE
    <3>. DEFINE u == f.unit
    <3>1. /\ Live(u) <=> u \in entered
          /\ u \in found => u \in entered
          /\ u \in entered => u \in found \/ u[2] = l
      BY <1>1, <2>1, <2>3, <2>4 DEF CheckHolds
    <3>. QED
      BY <2>2, <2>3, <3>1
  <2>. QED
    BY <2>4
<1>2. CheckHolds =>
        [\A l \in Languages : Reports(l) =>
            \A f \in Reported(l) : f.unit \in apart]_<<vars, checkVars>>
  BY <1>1
<1>. QED
  BY <1>2, CheckInvariance, PTL DEF FindingsWereTrue

===============================================================================
