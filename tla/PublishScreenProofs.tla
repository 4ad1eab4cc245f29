-------------------------- MODULE PublishScreenProofs --------------------------
(***************************************************************************)
(* The invariant behind the safety properties of PublishScreen, for any    *)
(* rows, plans, languages, configuration, and any haste of the operator.   *)
(***************************************************************************)
EXTENDS PublishScreen, TLAPS

\* The dry run was answered after there was one, and a real run needs that answer.
DryRunWasRead ==
    /\ answers["dry_run"] = "go" => previewed
    /\ launched > 0 => previewed

\* No button to press once the walk has run.
ButtonIsFirst == button = "enabled" => ~ran

\* An acknowledgement of a permanent run stands for its gate, and a run that writes was
\* accepted with what it read.
RunsAreAccepted ==
    \A slot \in Slots :
        /\ /\ runs[slot].acknowledged /\ runs[slot].mode # "pages"
           => runs[slot].confirmedProduction
        /\ runs[slot].state = "writing" => Accepts(runs[slot])

\* Without haste the screen shows plan.json, unless a build is about to say that it wrote
\* it, and decisions are about what it shows.
ScreenIsCurrent ==
    /\ plan.version = 0 => \A row \in Rows : plan.class[row] = "OTHER"
    /\ haste = 0 /\ building # "written" =>
          /\ shown = plan
          /\ \A row \in Rows : applied[row] \in {0, shown.version}

\* Without haste a run has, or will find, the rows that were meant.
RunsAreMeant ==
    haste = 0 =>
        \A slot \in Slots : runs[slot].state # "none" => runs[slot].rows = runs[slot].meant

\* Without haste the one real run a walk started goes on or has been noted.
RunIsNoted ==
    haste = 0 =>
        /\ launched <= 1
        /\ launched = 1 =>
              ran \/ \E slot \in Slots : runs[slot].state # "none" /\ runs[slot].ours

Inductive ==
    /\ TypeOK /\ DryRunWasRead /\ ButtonIsFirst /\ RunsAreAccepted
    /\ ScreenIsCurrent /\ RunsAreMeant /\ RunIsNoted

-------------------------------------------------------------------------------

\* No answers yet are answers.
LEMMA NothingAnswered == NoAnswers \in [Gates -> Answers]
<1>1. "intent" \in Gates /\ "open" \in Options("intent")
  BY DEF Gates, Options
<1>2. "open" \in Answers
  BY <1>1 DEF Answers
<1>. QED
  BY <1>2 DEF NoAnswers

\* Plans are numbered from zero.
LEMMA ZeroIsAPlan == 0 \in 0..MaxPlans
BY SessionAssumption

\* A free slot holds a run that is none.
LEMMA NoRunIsARun == NoRun \in RunsOfAll
BY DEF NoRun, RunsOfAll, Modes

\* What happens to a run leaves it one.
LEMMA RunChanges ==
    ASSUME NEW run \in RunsOfAll, NEW rows \in SUBSET Rows, NEW links \in BOOLEAN
    PROVE  /\ [run EXCEPT !.rows = rows, !.linksOnly = links] \in RunsOfAll
           /\ [run EXCEPT !.ours = FALSE] \in RunsOfAll
           /\ [run EXCEPT !.state = "writing"] \in RunsOfAll
           /\ [run EXCEPT !.state = "refused"] \in RunsOfAll
BY DEF RunsOfAll

\* No plan yet is a plan.
LEMMA NoPlanIsAPlan == NoPlan \in Plans
BY ZeroIsAPlan DEF NoPlan, Plans, Classes

\* The invariant holds at the start.
LEMMA InitInductive == Init => Inductive
<1>. SUFFICES ASSUME Init PROVE Inductive
  OBVIOUS
<1>1. TypeOK
  <2>1. SessionTypeOK
    BY SessionAssumption, NothingAnswered, ZeroIsAPlan
    DEF Init, SessionTypeOK, Modes, NoAnswers, NothingApplied
  <2>2. plan \in Plans /\ shown \in Plans
    BY NoPlanIsAPlan DEF Init
  <2>3. runs \in [Slots -> RunsOfAll]
    BY NoRunIsARun DEF Init
  <2>4. haste \in 0..MaxHaste /\ launched \in Nat
    BY ScreenAssumption DEF Init
  <2>. QED
    BY <2>1, <2>2, <2>3, <2>4 DEF Init, TypeOK
<1>2. DryRunWasRead /\ ButtonIsFirst /\ ScreenIsCurrent /\ RunIsNoted
  BY DEF Init, DryRunWasRead, ButtonIsFirst, ScreenIsCurrent, RunIsNoted, NoAnswers,
         NothingApplied, NoPlan, Gates
<1>3. RunsAreAccepted /\ RunsAreMeant
  BY DEF Init, RunsAreAccepted, RunsAreMeant, NoRun
<1>. QED
  BY <1>1, <1>2, <1>3 DEF Inductive

-------------------------------------------------------------------------------
(* Types. *)

\* A redraw shows a plan and a button.
LEMMA RedrawTypes ==
    ASSUME Redraw, plan' \in Plans
    PROVE  shown' \in Plans /\ button' \in {"none", "enabled", "busy"}
BY DEF Redraw

\* What a build writes is a plan.
LEMMA PlanTypes ==
    ASSUME TypeOK, plan.version < MaxPlans, NEW content \in Contents, NEW linksOnly \in BOOLEAN
    PROVE  PlanOf(content, linksOnly) \in Plans
BY SessionAssumption DEF PlanOf, Plans, TypeOK

\* What is confirmed are rows.
LEMMA PairsAreRows ==
    ASSUME NEW class, NEW on PROVE ConfirmedBy(class, on) \in SUBSET Rows
BY DEF ConfirmedBy

\* What is written to the file reaches runs that stay runs.
LEMMA WriteTypes ==
    ASSUME NEW these \in [Slots -> RunsOfAll], TypeOK, WriteConfirmed(these)
    PROVE  runs' \in [Slots -> RunsOfAll]
<1>1. ConfirmedPairs(plan.class) \in SUBSET Rows
  BY PairsAreRows DEF ConfirmedPairs
<1>2. plan.linksOnly \in BOOLEAN
  BY DEF TypeOK, Plans
<1>. QED
  BY <1>1, <1>2, RunChanges DEF WriteConfirmed

\* A run that starts is one.
LEMMA NewRunTypes == TypeOK => NewRun \in RunsOfAll
<1>. SUFFICES ASSUME TypeOK PROVE NewRun \in RunsOfAll
  OBVIOUS
<1>1. Meant \in SUBSET Rows
  BY PairsAreRows DEF Meant
<1>2. ProductionAcknowledged(shown.dropped) \in BOOLEAN
  BY SessionAssumption DEF ProductionAcknowledged, Proceeded
<1>3. mode \in Modes
  BY DEF TypeOK, SessionTypeOK
<1>. QED
  BY <1>1, <1>2, <1>3 DEF NewRun, NoRun, RunsOfAll

\* Haste is counted up to its bound.
LEMMA ActTypes == TypeOK /\ Act => haste' \in 0..MaxHaste
BY ScreenAssumption DEF TypeOK, Act

\* Every step keeps the types.
LEMMA TypeStep == TypeOK /\ [Next]_vars => TypeOK'
<1>. SUFFICES ASSUME TypeOK, [Next]_vars PROVE TypeOK'
  OBVIOUS
<1>. USE DEF TypeOK, SessionTypeOK
<1>1. ASSUME NEW gate \in Gates, NEW value \in Options(gate), Answer(gate, value) PROVE TypeOK'
  <2>1. plan' \in Plans /\ shown' \in Plans /\ button' \in {"none", "enabled", "busy"}
    BY <1>1, RedrawTypes DEF Answer
  <2>2. answers' \in [Gates -> Answers] /\ \A g \in Gates : answers'[g] \in Options(g) \cup {"open"}
    BY <1>1 DEF Answer, Record, Answers
  <2>. QED
    BY <1>1, <2>1, <2>2, ActTypes DEF Answer, Record, processVars, flowVars
<1>2. ASSUME NEW m \in Modes, PickMode(m) PROVE TypeOK'
  <2>1. plan' \in Plans /\ shown' \in Plans /\ button' \in {"none", "enabled", "busy"}
    BY <1>2, RedrawTypes DEF PickMode
  <2>. QED
    BY <1>2, <2>1, ActTypes DEF PickMode, processVars, flowVars
<1>3. ASSUME NEW choice \in SUBSET Languages, ChooseLanguages(choice) PROVE TypeOK'
  <2>1. languages' \in (SUBSET Languages) \ {{}}
    BY <1>3, SessionAssumption DEF ChooseLanguages, Chosen
  <2>. QED
    BY <1>3, <2>1, ActTypes DEF ChooseLanguages, processVars, flowVars, drawnVars
<1>4. ASSUME NEW row \in Rows, NEW apply \in BOOLEAN, Decide(row, apply) PROVE TypeOK'
  <2>1. plan' \in Plans /\ shown' \in Plans /\ button' \in {"none", "enabled", "busy"}
    BY <1>4, RedrawTypes DEF Decide
  <2>2. shown.version \in 0..MaxPlans
    BY DEF Plans
  <2>3. applied' \in [Rows -> 0..MaxPlans]
    BY <1>4, <2>2, ZeroIsAPlan DEF Decide, ApplyRow
  <2>. QED
    BY <1>4, <2>1, <2>3, ActTypes DEF Decide, ApplyRow, processVars, flowVars
<1>5. CASE BuildPlan
  BY <1>5, ActTypes DEF BuildPlan, sessionVars, drawnVars, flowVars
<1>6. CASE RunDry
  <2>1. runs' \in [Slots -> RunsOfAll]
    BY <1>6, WriteTypes DEF RunDry
  <2>2. previewing' \in BOOLEAN
    BY <1>6 DEF RunDry, Authorises
  <2>. QED
    BY <1>6, <2>1, <2>2, ActTypes DEF RunDry, sessionVars, drawnVars, flowVars
<1>7. ASSUME NEW slot \in Slots, RunForReal(slot) PROVE TypeOK'
  <2>1. runs' \in [Slots -> RunsOfAll]
    <3>1. [runs EXCEPT ![slot] = NewRun] \in [Slots -> RunsOfAll]
      BY NewRunTypes
    <3>. QED
      BY <1>7, <3>1, WriteTypes DEF RunForReal
  <2>2. button' \in {"none", "enabled", "busy"} /\ launched' \in Nat
    <3>1. CASE button' = "busy" /\ launched' = launched + 1
      BY <3>1
    <3>2. CASE UNCHANGED <<button, launched>>
      BY <3>2
    <3>. QED
      BY <1>7, <3>1, <3>2, Zenon DEF RunForReal
  <2>3. UNCHANGED <<mode, languages, answers, applied, plan, shown>>
    BY <1>7 DEF RunForReal, sessionVars
  <2>4. /\ building' \in {"no", "running", "written"}
        /\ buildLinks' \in BOOLEAN /\ previewing' \in BOOLEAN
        /\ previewed' \in BOOLEAN /\ ran' \in BOOLEAN
    BY <1>7 DEF RunForReal
  <2>5. haste' \in 0..MaxHaste
    BY <1>7, ActTypes DEF RunForReal
  <2>. QED
    BY <2>1, <2>2, <2>3, <2>4, <2>5 DEF sessionVars
<1>8. CASE Reopen
  <2>1. plan' \in Plans /\ shown' \in Plans /\ button' \in {"none", "enabled", "busy"}
    BY <1>8, RedrawTypes DEF Reopen
  <2>2. PICK m \in Modes : Begin(m)
    BY <1>8 DEF Reopen, Modes
  <2>3. SessionTypeOK'
    BY <2>2, SessionAssumption, NothingAnswered, ZeroIsAPlan
    DEF Begin, NoAnswers, NothingApplied
  <2>4. runs' \in [Slots -> RunsOfAll]
    BY <1>8, RunChanges DEF Reopen
  <2>. QED
    BY <1>8, <2>1, <2>3, <2>4, ActTypes DEF Reopen
<1>9. CASE PlanElsewhere
  BY <1>9, PlanTypes, ScreenAssumption
  DEF PlanElsewhere, sessionVars, drawnVars, processVars, flowVars
<1>10. CASE PlanWritten
  BY <1>10, PlanTypes DEF PlanWritten, sessionVars, drawnVars, flowVars
<1>11. CASE BuildEnds
  <2>1. plan' \in Plans /\ shown' \in Plans /\ button' \in {"none", "enabled", "busy"}
    BY <1>11, RedrawTypes DEF BuildEnds
  <2>2. applied' \in [Rows -> 0..MaxPlans]
    BY <1>11, ZeroIsAPlan DEF BuildEnds, ClearRowDecisions, NothingApplied
  <2>. QED
    BY <1>11, <2>1, <2>2 DEF BuildEnds, ClearRowDecisions, flowVars
<1>12. CASE BuildTimesOut
  BY <1>12 DEF BuildTimesOut, sessionVars, drawnVars, flowVars
<1>13. CASE PreviewEnds
  <2>1. plan' \in Plans /\ shown' \in Plans /\ button' \in {"none", "enabled", "busy"}
    BY <1>13, RedrawTypes DEF PreviewEnds
  <2>. QED
    BY <1>13, <2>1 DEF PreviewEnds, sessionVars
<1>14. ASSUME NEW slot \in Slots, RunReads(slot) PROVE TypeOK'
  <2>1. runs' \in [Slots -> RunsOfAll]
    BY <1>14, RunChanges DEF RunReads
  <2>. QED
    BY <1>14, <2>1 DEF RunReads, sessionVars, drawnVars, flowVars
<1>15. ASSUME NEW slot \in Slots, RunEnds(slot) PROVE TypeOK'
  <2>1. runs' \in [Slots -> RunsOfAll]
    BY <1>15, NoRunIsARun DEF RunEnds
  <2>2. shown' \in Plans /\ button' \in {"none", "enabled", "busy"} /\ ran' \in BOOLEAN
    BY <1>15, RedrawTypes DEF RunEnds, HasRun, drawnVars
  <2>. QED
    BY <1>15, <2>1, <2>2 DEF RunEnds, sessionVars
<1>16. CASE UNCHANGED vars
  BY <1>16 DEF vars, sessionVars, drawnVars, processVars, flowVars
<1>. QED
  BY <1>1, <1>2, <1>3, <1>4, <1>5, <1>6, <1>7, <1>8, <1>9, <1>10, <1>11, <1>12, <1>13,
     <1>14, <1>15, <1>16 DEF Next, ProcessSteps

-------------------------------------------------------------------------------
(* What a step of the screen does to its parts. *)

\* An act without haste meets no child.
LEMMA PatientAct == TypeOK /\ Act /\ haste' = 0 => haste = 0 /\ Idle
BY ScreenAssumption DEF TypeOK, Act

\* What is written to plan.confirmed.json reaches the runs that have not read it.
LEMMA WriteReaches ==
    ASSUME TypeOK, NEW these \in [Slots -> RunsOfAll], WriteConfirmed(these), NEW slot \in Slots
    PROVE  /\ runs'[slot].state = these[slot].state
           /\ runs'[slot].ours = these[slot].ours
           /\ runs'[slot].mode = these[slot].mode
           /\ runs'[slot].acknowledged = these[slot].acknowledged
           /\ runs'[slot].confirmedProduction = these[slot].confirmedProduction
           /\ runs'[slot].meant = these[slot].meant
           /\ these[slot].state # "starting" => runs'[slot] = these[slot]
           /\ these[slot].state = "starting" => runs'[slot].rows = ConfirmedPairs(plan.class)
<1>1. these[slot] \in RunsOfAll
  OBVIOUS
<1>. QED
  BY <1>1 DEF WriteConfirmed, RunsOfAll

\* A real run is only authorised once the dry run was looked at.
LEMMA RealRunWasRead ==
    ASSUME TypeOK, NEW dropped, Authorises(FALSE, dropped) PROVE answers["dry_run"] = "go"
<1>1. "dry_run" \in Gates /\ "dry_run" \in Required
  BY DEF Gates, Required
<1>2. "dry_run" \in Walk(mode, dropped)
  BY <1>1 DEF Walk
<1>3. answers["dry_run"] \notin {"stop", "open"}
  BY <1>1, <1>2 DEF Authorises, Blocking
<1>4. answers["dry_run"] \in {"go", "stop", "open"}
  BY <1>1 DEF TypeOK, SessionTypeOK, Options
<1>. QED
  BY <1>3, <1>4

\* An acknowledgement comes from the gate for production.
LEMMA AcknowledgedAtItsGate ==
    ASSUME TypeOK, NEW dropped, ProductionAcknowledged(dropped), mode # "pages"
    PROVE  answers["production"] = "go"
<1>1. "production" \in Gates
  BY DEF Gates
<1>2. "production" \in Walk(mode, dropped)
  BY <1>1 DEF Walk, ProductionAcknowledged
<1>3. answers["production"] \notin {"stop", "open"}
  BY <1>2 DEF ProductionAcknowledged, Proceeded
<1>4. answers["production"] \in {"go", "stop", "open"}
  BY <1>1 DEF TypeOK, SessionTypeOK, Options
<1>. QED
  BY <1>3, <1>4

\* Where the screen is current, what is written is what was meant.
LEMMA ConfirmedIsMeant ==
    ASSUME TypeOK, ScreenIsCurrent, haste = 0, building # "written"
    PROVE  ConfirmedPairs(plan.class) = Meant
<1>1. shown = plan /\ \A row \in Rows : applied[row] \in {0, shown.version}
  BY DEF ScreenIsCurrent
<1>2. CASE plan.version = 0
  <2>1. \A row \in Rows : plan.class[row] = "OTHER"
    BY <1>2 DEF ScreenIsCurrent
  <2>. QED
    BY <1>1, <2>1 DEF ConfirmedPairs, Meant, ConfirmedBy
<1>3. CASE plan.version # 0
  <2>1. \A row \in Rows : (applied[row] # 0) = (applied[row] = shown.version)
    BY <1>1, <1>3
  <2>2. [row \in Rows |-> applied[row] # 0] = [row \in Rows |-> applied[row] = shown.version]
    BY <2>1
  <2>. QED
    BY <1>1, <2>2 DEF ConfirmedPairs, Meant
<1>. QED
  BY <1>2, <1>3
-------------------------------------------------------------------------------
(* Every step keeps each part. *)

\* The answer about the dry run comes after it.
LEMMA DryRunStep == TypeOK /\ DryRunWasRead /\ [Next]_vars => DryRunWasRead'
<1>. SUFFICES ASSUME TypeOK, DryRunWasRead, [Next]_vars PROVE DryRunWasRead'
  OBVIOUS
<1>. USE DEF DryRunWasRead
<1>1. ASSUME NEW gate \in Gates, NEW value \in Options(gate), Answer(gate, value)
      PROVE  DryRunWasRead'
  <2>1. CASE gate = "dry_run"
    BY <1>1, <2>1 DEF Answer, Offered, flowVars
  <2>2. CASE gate # "dry_run"
    BY <1>1, <2>2 DEF Answer, Record, flowVars
  <2>. QED
    BY <2>1, <2>2
<1>2. ASSUME NEW m \in Modes, PickMode(m) PROVE DryRunWasRead'
  BY <1>2 DEF PickMode, sessionVars, drawnVars, processVars, flowVars
<1>3. ASSUME NEW choice \in SUBSET Languages, ChooseLanguages(choice) PROVE DryRunWasRead'
  BY <1>3 DEF ChooseLanguages, sessionVars, drawnVars, processVars, flowVars
<1>4. ASSUME NEW row \in Rows, NEW apply \in BOOLEAN, Decide(row, apply) PROVE DryRunWasRead'
  BY <1>4 DEF Decide, ApplyRow, flowVars
<1>5. CASE BuildPlan
  BY <1>5 DEF BuildPlan, sessionVars, drawnVars, processVars, flowVars
<1>6. CASE RunDry
  BY <1>6 DEF RunDry, sessionVars, drawnVars, processVars, flowVars
<1>7. ASSUME NEW slot \in Slots, RunForReal(slot) PROVE DryRunWasRead'
  <2>1. UNCHANGED <<answers, previewed>>
    BY <1>7 DEF RunForReal, sessionVars
  <2>2. CASE Authorises(FALSE, shown.dropped)
    BY <2>1, <2>2, RealRunWasRead
  <2>3. CASE ~Authorises(FALSE, shown.dropped)
    BY <1>7, <2>1, <2>3 DEF RunForReal
  <2>. QED
    BY <2>2, <2>3
<1>8. CASE Reopen
  <2>1. answers' = NoAnswers /\ launched' = 0
    BY <1>8 DEF Reopen, Begin
  <2>2. "dry_run" \in Gates
    BY DEF Gates
  <2>. QED
    BY <2>1, <2>2 DEF NoAnswers
<1>9. CASE PlanElsewhere
  BY <1>9 DEF PlanElsewhere, sessionVars, drawnVars, processVars, flowVars
<1>10. CASE PlanWritten
  BY <1>10 DEF PlanWritten, sessionVars, drawnVars, processVars, flowVars
<1>11. CASE BuildEnds
  BY <1>11 DEF BuildEnds, ClearRowDecisions, flowVars
<1>12. CASE BuildTimesOut
  BY <1>12 DEF BuildTimesOut, sessionVars, drawnVars, processVars, flowVars
<1>13. CASE PreviewEnds
  BY <1>13 DEF PreviewEnds
<1>14. ASSUME NEW slot \in Slots, RunReads(slot) PROVE DryRunWasRead'
  BY <1>14 DEF RunReads, sessionVars, drawnVars, processVars, flowVars
<1>15. ASSUME NEW slot \in Slots, RunEnds(slot) PROVE DryRunWasRead'
  BY <1>15 DEF RunEnds, sessionVars
<1>16. CASE UNCHANGED vars
  BY <1>16 DEF vars, sessionVars, drawnVars, processVars, flowVars
<1>. QED
  BY <1>1, <1>2, <1>3, <1>4, <1>5, <1>6, <1>7, <1>8, <1>9, <1>10, <1>11, <1>12, <1>13,
     <1>14, <1>15, <1>16 DEF Next, ProcessSteps

\* A button that runs for real is drawn only before the walk has run.
LEMMA ButtonStep == TypeOK /\ ButtonIsFirst /\ [Next]_vars => ButtonIsFirst'
<1>. SUFFICES ASSUME TypeOK, ButtonIsFirst, [Next]_vars PROVE ButtonIsFirst'
  OBVIOUS
<1>. USE DEF ButtonIsFirst
<1>1. ASSUME NEW gate \in Gates, NEW value \in Options(gate), Answer(gate, value)
      PROVE  ButtonIsFirst'
  BY <1>1 DEF Answer, Redraw
<1>2. ASSUME NEW m \in Modes, PickMode(m) PROVE ButtonIsFirst'
  BY <1>2 DEF PickMode, Redraw
<1>3. ASSUME NEW choice \in SUBSET Languages, ChooseLanguages(choice) PROVE ButtonIsFirst'
  BY <1>3 DEF ChooseLanguages, drawnVars, flowVars
<1>4. ASSUME NEW row \in Rows, NEW apply \in BOOLEAN, Decide(row, apply) PROVE ButtonIsFirst'
  BY <1>4 DEF Decide, Redraw
<1>5. CASE BuildPlan
  BY <1>5 DEF BuildPlan, drawnVars, flowVars
<1>6. CASE RunDry
  BY <1>6 DEF RunDry, drawnVars, flowVars
<1>7. ASSUME NEW slot \in Slots, RunForReal(slot) PROVE ButtonIsFirst'
  <2>1. UNCHANGED ran /\ (button' = "busy" \/ button' = button)
    BY <1>7 DEF RunForReal
  <2>. QED
    BY <2>1
<1>8. CASE Reopen
  BY <1>8 DEF Reopen, Redraw
<1>9. CASE PlanElsewhere
  BY <1>9 DEF PlanElsewhere, drawnVars, flowVars
<1>10. CASE PlanWritten
  BY <1>10 DEF PlanWritten, drawnVars, flowVars
<1>11. CASE BuildEnds
  BY <1>11 DEF BuildEnds, Redraw
<1>12. CASE BuildTimesOut
  BY <1>12 DEF BuildTimesOut, drawnVars, flowVars
<1>13. CASE PreviewEnds
  BY <1>13 DEF PreviewEnds, Redraw
<1>14. ASSUME NEW slot \in Slots, RunReads(slot) PROVE ButtonIsFirst'
  BY <1>14 DEF RunReads, drawnVars, flowVars
<1>15. ASSUME NEW slot \in Slots, RunEnds(slot) PROVE ButtonIsFirst'
  BY <1>15 DEF RunEnds, Redraw, drawnVars
<1>16. CASE UNCHANGED vars
  BY <1>16 DEF vars, drawnVars, flowVars
<1>. QED
  BY <1>1, <1>2, <1>3, <1>4, <1>5, <1>6, <1>7, <1>8, <1>9, <1>10, <1>11, <1>12, <1>13,
     <1>14, <1>15, <1>16 DEF Next, ProcessSteps

\* What a run was accepted with does not change under it.
LEMMA AcceptedStep == TypeOK /\ RunsAreAccepted /\ [Next]_vars => RunsAreAccepted'
<1>. SUFFICES ASSUME TypeOK, RunsAreAccepted, [Next]_vars PROVE RunsAreAccepted'
  OBVIOUS
<1>1. UNCHANGED runs => RunsAreAccepted'
  BY DEF RunsAreAccepted, Accepts
<1>2. CASE RunDry
  <2>1. runs \in [Slots -> RunsOfAll]
    BY DEF TypeOK
  <2>. QED
    BY <1>2, <2>1, WriteReaches DEF RunDry, RunsAreAccepted, Accepts
<1>3. ASSUME NEW slot \in Slots, RunForReal(slot) PROVE RunsAreAccepted'
  <2>1. runs \in [Slots -> RunsOfAll]
    BY DEF TypeOK
  <2>2. CASE Authorises(FALSE, shown.dropped)
    <3>. DEFINE these == [runs EXCEPT ![slot] = NewRun]
    <3>1. these \in [Slots -> RunsOfAll] /\ WriteConfirmed(these)
      BY <1>3, <2>1, <2>2, NewRunTypes DEF RunForReal
    <3>2. ASSUME NEW other \in Slots, other # slot
          PROVE  /\ /\ runs'[other].acknowledged /\ runs'[other].mode # "pages"
                    => runs'[other].confirmedProduction
                 /\ runs'[other].state = "writing" => Accepts(runs'[other])
      <4>1. these[other] = runs[other]
        BY <2>1, <3>2
      <4>. HIDE DEF these
      <4>2. /\ runs'[other].state = runs[other].state /\ runs'[other].mode = runs[other].mode
            /\ runs'[other].acknowledged = runs[other].acknowledged
            /\ runs'[other].confirmedProduction = runs[other].confirmedProduction
            /\ runs[other].state # "starting" => runs'[other] = runs[other]
        BY <3>1, <4>1, WriteReaches
      <4>. QED
        BY <4>2 DEF RunsAreAccepted, Accepts
    <3>3. /\ these[slot].state = "starting" /\ these[slot].mode = mode
          /\ these[slot].acknowledged = ProductionAcknowledged(shown.dropped)
          /\ these[slot].confirmedProduction = (answers["production"] = "go")
      BY <2>1 DEF NewRun, NoRun
    <3>4. /\ runs'[slot].acknowledged /\ runs'[slot].mode # "pages"
             => runs'[slot].confirmedProduction
          /\ runs'[slot].state = "starting"
      BY <3>1, <3>3, WriteReaches, AcknowledgedAtItsGate
    <3>. QED
      BY <3>2, <3>4 DEF RunsAreAccepted, Accepts
  <2>3. CASE ~Authorises(FALSE, shown.dropped)
    BY <1>3, <2>1, <2>3, WriteReaches DEF RunForReal, RunsAreAccepted, Accepts
  <2>. QED
    BY <2>2, <2>3
<1>4. CASE Reopen
  <2>1. ASSUME NEW slot \in Slots
        PROVE  /\ runs'[slot].state = runs[slot].state /\ runs'[slot].mode = runs[slot].mode
               /\ runs'[slot].acknowledged = runs[slot].acknowledged
               /\ runs'[slot].confirmedProduction = runs[slot].confirmedProduction
               /\ runs'[slot].linksOnly = runs[slot].linksOnly
    <3>1. runs[slot] \in RunsOfAll
      BY DEF TypeOK
    <3>. QED
      BY <1>4, <3>1 DEF Reopen, RunsOfAll
  <2>. QED
    BY <2>1 DEF RunsAreAccepted, Accepts
<1>5. ASSUME NEW slot \in Slots, RunReads(slot) PROVE RunsAreAccepted'
  <2>1. runs[slot] \in RunsOfAll /\ runs \in [Slots -> RunsOfAll]
    BY DEF TypeOK
  <2>2. /\ runs'[slot].mode = runs[slot].mode /\ runs'[slot].linksOnly = runs[slot].linksOnly
        /\ runs'[slot].acknowledged = runs[slot].acknowledged
        /\ runs'[slot].confirmedProduction = runs[slot].confirmedProduction
        /\ runs'[slot].state = "writing" => Accepts(runs[slot])
    BY <1>5, <2>1 DEF RunReads, RunsOfAll
  <2>3. \A other \in Slots : other # slot => runs'[other] = runs[other]
    BY <1>5, <2>1 DEF RunReads
  <2>. QED
    BY <2>2, <2>3 DEF RunsAreAccepted, Accepts
<1>6. ASSUME NEW slot \in Slots, RunEnds(slot) PROVE RunsAreAccepted'
  <2>1. runs' = [runs EXCEPT ![slot] = NoRun] /\ runs \in [Slots -> RunsOfAll]
    BY <1>6 DEF RunEnds, TypeOK
  <2>2. NoRun.state = "none" /\ ~NoRun.acknowledged
    BY DEF NoRun
  <2>. QED
    BY <2>1, <2>2 DEF RunsAreAccepted, Accepts
<1>7. CASE \/ \E gate \in Gates : \E value \in Options(gate) : Answer(gate, value)
           \/ \E m \in Modes : PickMode(m)
           \/ \E choice \in SUBSET Languages : ChooseLanguages(choice)
           \/ \E row \in Rows, apply \in BOOLEAN : Decide(row, apply)
           \/ BuildPlan \/ PlanElsewhere \/ PlanWritten \/ BuildEnds \/ BuildTimesOut
           \/ PreviewEnds \/ UNCHANGED vars
  BY <1>1, <1>7 DEF Answer, PickMode, ChooseLanguages, Decide, BuildPlan, PlanElsewhere,
                    PlanWritten, BuildEnds, BuildTimesOut, PreviewEnds, vars, processVars
<1>. QED
  BY <1>2, <1>3, <1>4, <1>5, <1>6, <1>7 DEF Next, ProcessSteps
\* Only a build that has written its plan, and haste, part the screen from plan.json.
LEMMA CurrentStep == TypeOK /\ ScreenIsCurrent /\ [Next]_vars => ScreenIsCurrent'
<1>. SUFFICES ASSUME TypeOK, ScreenIsCurrent, [Next]_vars PROVE ScreenIsCurrent'
  OBVIOUS
<1>. USE DEF ScreenIsCurrent
<1>1. ASSUME NEW gate \in Gates, NEW value \in Options(gate), Answer(gate, value)
      PROVE  ScreenIsCurrent'
  <2>1. UNCHANGED <<applied, plan, building>> /\ shown' = plan'
    BY <1>1 DEF Answer, Redraw, Record, processVars
  <2>2. haste' = 0 => haste = 0 /\ building = "no"
    BY <1>1, PatientAct DEF Answer, Idle
  <2>. QED
    BY <2>1, <2>2
<1>2. ASSUME NEW m \in Modes, PickMode(m) PROVE ScreenIsCurrent'
  <2>1. UNCHANGED <<applied, plan, building>> /\ shown' = plan'
    BY <1>2 DEF PickMode, Redraw, processVars
  <2>2. haste' = 0 => haste = 0 /\ building = "no"
    BY <1>2, PatientAct DEF PickMode, Idle
  <2>. QED
    BY <2>1, <2>2
<1>3. ASSUME NEW choice \in SUBSET Languages, ChooseLanguages(choice) PROVE ScreenIsCurrent'
  <2>1. UNCHANGED <<applied, plan, shown, building>>
    BY <1>3 DEF ChooseLanguages, drawnVars, processVars
  <2>2. haste' = 0 => haste = 0
    BY <1>3, PatientAct DEF ChooseLanguages
  <2>. QED
    BY <2>1, <2>2
<1>4. ASSUME NEW row \in Rows, NEW apply \in BOOLEAN, Decide(row, apply) PROVE ScreenIsCurrent'
  <2>1. UNCHANGED <<plan, building>> /\ shown' = plan'
    BY <1>4 DEF Decide, Redraw, processVars
  <2>2. haste' = 0 => haste = 0 /\ building = "no"
    BY <1>4, PatientAct DEF Decide, Idle
  <2>3. applied' = [applied EXCEPT ![row] = IF apply THEN shown.version ELSE 0]
    BY <1>4 DEF Decide, ApplyRow
  <2>4. applied \in [Rows -> 0..MaxPlans]
    BY DEF TypeOK, SessionTypeOK
  <2>. QED
    BY <2>1, <2>2, <2>3, <2>4
<1>5. CASE BuildPlan
  <2>1. UNCHANGED <<applied, plan, shown>>
    BY <1>5 DEF BuildPlan, sessionVars, drawnVars
  <2>2. haste' = 0 => haste = 0 /\ building = "no"
    BY <1>5, PatientAct DEF BuildPlan, Idle
  <2>. QED
    BY <2>1, <2>2
<1>6. CASE RunDry
  <2>1. UNCHANGED <<applied, plan, shown>>
    BY <1>6 DEF RunDry, sessionVars, drawnVars
  <2>2. haste' = 0 => haste = 0 /\ building = "no"
    BY <1>6, PatientAct DEF RunDry, Idle
  <2>. QED
    BY <2>1, <2>2
<1>7. ASSUME NEW slot \in Slots, RunForReal(slot) PROVE ScreenIsCurrent'
  <2>1. UNCHANGED <<applied, plan, shown>>
    BY <1>7 DEF RunForReal, sessionVars, drawnVars
  <2>2. haste' = 0 => haste = 0 /\ building = "no"
    BY <1>7, PatientAct DEF RunForReal, Idle
  <2>. QED
    BY <2>1, <2>2
<1>8. CASE Reopen
  <2>1. applied' = NothingApplied /\ UNCHANGED plan /\ shown' = plan'
    BY <1>8 DEF Reopen, Begin, Redraw
  <2>. QED
    BY <2>1 DEF NothingApplied
<1>9. CASE PlanElsewhere
  <2>1. haste' # 0 /\ plan'.version # 0
    BY <1>9 DEF PlanElsewhere, PlanOf, TypeOK, Plans
  <2>. QED
    BY <2>1
<1>10. CASE PlanWritten
  <2>1. building' = "written" /\ plan'.version # 0
    BY <1>10 DEF PlanWritten, PlanOf, TypeOK, Plans
  <2>. QED
    BY <2>1
<1>11. CASE BuildEnds
  <2>1. applied' = NothingApplied /\ UNCHANGED plan /\ shown' = plan'
    BY <1>11 DEF BuildEnds, ClearRowDecisions, Redraw
  <2>. QED
    BY <2>1 DEF NothingApplied
<1>12. CASE BuildTimesOut
  <2>1. building = "running" /\ UNCHANGED <<applied, plan, shown, haste>>
    BY <1>12 DEF BuildTimesOut, sessionVars, drawnVars
  <2>. QED
    BY <2>1
<1>13. CASE PreviewEnds
  <2>1. UNCHANGED <<applied, plan, building, haste>> /\ shown' = plan'
    BY <1>13 DEF PreviewEnds, sessionVars, Redraw
  <2>. QED
    BY <2>1
<1>14. ASSUME NEW slot \in Slots, RunReads(slot) PROVE ScreenIsCurrent'
  <2>1. UNCHANGED <<applied, plan, shown, building, haste>>
    BY <1>14 DEF RunReads, sessionVars, drawnVars
  <2>. QED
    BY <2>1
<1>15. ASSUME NEW slot \in Slots, RunEnds(slot) PROVE ScreenIsCurrent'
  <2>1. UNCHANGED <<applied, plan, building, haste>> /\ shown' \in {plan, shown}
    BY <1>15 DEF RunEnds, sessionVars, drawnVars, Redraw
  <2>. QED
    BY <2>1
<1>16. CASE UNCHANGED vars
  <2>1. UNCHANGED <<applied, plan, shown, building, haste>>
    BY <1>16 DEF vars, sessionVars, drawnVars, processVars
  <2>. QED
    BY <2>1
<1>. QED
  BY <1>1, <1>2, <1>3, <1>4, <1>5, <1>6, <1>7, <1>8, <1>9, <1>10, <1>11, <1>12, <1>13,
     <1>14, <1>15, <1>16 DEF Next, ProcessSteps

\* Haste is never taken back.
LEMMA PatientStep == TypeOK /\ [Next]_vars /\ haste' = 0 => haste = 0
<1>. SUFFICES ASSUME TypeOK, [Next]_vars, haste' = 0 PROVE haste = 0
  OBVIOUS
<1>1. Act => haste = 0
  BY PatientAct
<1>2. CASE \/ \E gate \in Gates : \E value \in Options(gate) : Answer(gate, value)
           \/ \E m \in Modes : PickMode(m)
           \/ \E choice \in SUBSET Languages : ChooseLanguages(choice)
           \/ \E row \in Rows, apply \in BOOLEAN : Decide(row, apply)
           \/ BuildPlan \/ RunDry \/ (\E slot \in Slots : RunForReal(slot)) \/ Reopen
  BY <1>1, <1>2 DEF Answer, PickMode, ChooseLanguages, Decide, BuildPlan, RunDry, RunForReal,
                    Reopen
<1>3. CASE PlanElsewhere
  BY <1>3 DEF PlanElsewhere, TypeOK
<1>4. CASE ProcessSteps \/ UNCHANGED vars
  BY <1>4 DEF ProcessSteps, PlanWritten, BuildEnds, BuildTimesOut, PreviewEnds, RunReads,
              RunEnds, vars
<1>. QED
  BY <1>2, <1>3, <1>4 DEF Next

\* A real run is started with what was meant, and a patient operator starts nothing while
\* it goes on.
LEMMA MeantStep ==
    TypeOK /\ ScreenIsCurrent /\ RunsAreMeant /\ [Next]_vars => RunsAreMeant'
<1>. SUFFICES ASSUME TypeOK, ScreenIsCurrent, RunsAreMeant, [Next]_vars, haste' = 0
              PROVE  \A slot \in Slots : runs'[slot].state # "none"
                                            => runs'[slot].rows = runs'[slot].meant
  BY DEF RunsAreMeant
<1>. DEFINE Kept == \A slot \in Slots : runs'[slot].state # "none"
                                            => runs'[slot].rows = runs'[slot].meant
<1>1. haste = 0 /\ runs \in [Slots -> RunsOfAll] /\ (Act => Idle)
  BY PatientStep, PatientAct DEF TypeOK
<1>2. NoRun.state = "none"
  BY DEF NoRun
<1>3. CASE RunDry
  <2>1. Idle
    BY <1>1, <1>3 DEF RunDry
  <2>2. \A slot \in Slots : runs'[slot].state = "none"
    BY <1>1, <1>2, <1>3, <2>1, WriteReaches DEF RunDry, Idle
  <2>. QED
    BY <2>2
<1>4. ASSUME NEW slot \in Slots, RunForReal(slot) PROVE Kept
  <2>1. Idle
    BY <1>1, <1>4 DEF RunForReal
  <2>2. CASE Authorises(FALSE, shown.dropped)
    <3>. DEFINE these == [runs EXCEPT ![slot] = NewRun]
    <3>1. these \in [Slots -> RunsOfAll] /\ WriteConfirmed(these)
      BY <1>1, <1>4, <2>2, NewRunTypes DEF RunForReal
    <3>2. /\ \A other \in Slots : other # slot => these[other].state = "none"
          /\ these[slot].state = "starting" /\ these[slot].meant = Meant
      BY <1>1, <1>2, <2>1 DEF Idle, NewRun, NoRun
    <3>. HIDE DEF these
    <3>3. \A other \in Slots : other # slot => runs'[other].state = "none"
      BY <3>1, <3>2, WriteReaches
    <3>4. runs'[slot].rows = ConfirmedPairs(plan.class) /\ runs'[slot].meant = Meant
      BY <3>1, <3>2, WriteReaches
    <3>5. ConfirmedPairs(plan.class) = Meant
      BY <1>1, <2>1, ConfirmedIsMeant DEF Idle
    <3>. QED
      BY <3>3, <3>4, <3>5
  <2>3. CASE ~Authorises(FALSE, shown.dropped)
    <3>1. \A other \in Slots : runs'[other].state = "none"
      BY <1>1, <1>2, <1>4, <2>1, <2>3, WriteReaches DEF RunForReal, Idle
    <3>. QED
      BY <3>1
  <2>. QED
    BY <2>2, <2>3
<1>5. CASE Reopen
  <2>1. Idle
    BY <1>1, <1>5 DEF Reopen
  <2>2. \A slot \in Slots : runs'[slot].state = "none"
    BY <1>5, <2>1 DEF Reopen, Idle, NoRun
  <2>. QED
    BY <2>2
<1>6. ASSUME NEW slot \in Slots, RunReads(slot) PROVE Kept
  <2>1. runs[slot] \in RunsOfAll /\ runs[slot].state = "starting"
    BY <1>1, <1>6 DEF RunReads
  <2>2. runs'[slot].rows = runs[slot].rows /\ runs'[slot].meant = runs[slot].meant
    BY <1>1, <1>6, <2>1 DEF RunReads, RunsOfAll
  <2>3. \A other \in Slots : other # slot => runs'[other] = runs[other]
    BY <1>1, <1>6 DEF RunReads
  <2>. QED
    BY <1>1, <2>1, <2>2, <2>3 DEF RunsAreMeant
<1>7. ASSUME NEW slot \in Slots, RunEnds(slot) PROVE Kept
  <2>1. runs' = [runs EXCEPT ![slot] = NoRun]
    BY <1>7 DEF RunEnds
  <2>. QED
    BY <1>1, <1>2, <2>1 DEF RunsAreMeant
<1>8. CASE \/ \E gate \in Gates : \E value \in Options(gate) : Answer(gate, value)
           \/ \E m \in Modes : PickMode(m)
           \/ \E choice \in SUBSET Languages : ChooseLanguages(choice)
           \/ \E row \in Rows, apply \in BOOLEAN : Decide(row, apply)
           \/ BuildPlan \/ PlanElsewhere \/ PlanWritten \/ BuildEnds \/ BuildTimesOut
           \/ PreviewEnds \/ UNCHANGED vars
  BY <1>1, <1>8 DEF RunsAreMeant, Answer, PickMode, ChooseLanguages, Decide, BuildPlan,
                          PlanElsewhere, PlanWritten, BuildEnds, BuildTimesOut, PreviewEnds,
                          vars, processVars
<1>. QED
  BY <1>3, <1>4, <1>5, <1>6, <1>7, <1>8 DEF Next, ProcessSteps

\* The one real run of a patient walk is there until real_log is.
LEMMA NotedStep ==
    TypeOK /\ ButtonIsFirst /\ RunIsNoted /\ [Next]_vars => RunIsNoted'
<1>. SUFFICES ASSUME TypeOK, ButtonIsFirst, RunIsNoted, [Next]_vars, haste' = 0
              PROVE  /\ launched' <= 1
                     /\ launched' = 1 =>
                           \/ ran'
                           \/ \E slot \in Slots : runs'[slot].state # "none" /\ runs'[slot].ours
  BY DEF RunIsNoted
<1>. DEFINE Noted == /\ launched' <= 1
                     /\ launched' = 1 =>
                           \/ ran'
                           \/ \E slot \in Slots : runs'[slot].state # "none" /\ runs'[slot].ours
<1>1. haste = 0 /\ runs \in [Slots -> RunsOfAll] /\ launched \in Nat /\ (Act => Idle)
  BY PatientStep, PatientAct DEF TypeOK
<1>2. NoRun.state = "none" /\ ~NoRun.ours
  BY DEF NoRun
<1>3. CASE RunDry
  <2>1. \A slot \in Slots : /\ runs'[slot].state = runs[slot].state
                            /\ runs'[slot].ours = runs[slot].ours
    BY <1>1, <1>3, WriteReaches DEF RunDry
  <2>2. UNCHANGED <<ran, launched>>
    BY <1>3 DEF RunDry, flowVars
  <2>. QED
    BY <1>1, <2>1, <2>2 DEF RunIsNoted
<1>4. ASSUME NEW slot \in Slots, RunForReal(slot) PROVE Noted
  <2>1. Idle /\ ~ran /\ UNCHANGED ran
    BY <1>1, <1>4 DEF RunForReal, ButtonIsFirst
  <2>2. launched = 0
    BY <1>1, <1>2, <2>1 DEF RunIsNoted, Idle
  <2>3. CASE Authorises(FALSE, shown.dropped)
    <3>. DEFINE these == [runs EXCEPT ![slot] = NewRun]
    <3>1. these \in [Slots -> RunsOfAll] /\ WriteConfirmed(these) /\ launched' = launched + 1
      BY <1>1, <1>4, <2>3, NewRunTypes DEF RunForReal
    <3>2. these[slot].state = "starting" /\ these[slot].ours
      BY <1>1 DEF NewRun, NoRun
    <3>. HIDE DEF these
    <3>3. runs'[slot].state = "starting" /\ runs'[slot].ours
      BY <3>1, <3>2, WriteReaches
    <3>. QED
      BY <2>2, <3>1, <3>3
  <2>4. CASE ~Authorises(FALSE, shown.dropped)
    BY <1>4, <2>2, <2>4 DEF RunForReal
  <2>. QED
    BY <2>3, <2>4
<1>5. CASE Reopen
  BY <1>5 DEF Reopen
<1>6. ASSUME NEW slot \in Slots, RunReads(slot) PROVE Noted
  <2>1. runs[slot] \in RunsOfAll /\ UNCHANGED <<ran, launched>>
    BY <1>1, <1>6 DEF RunReads, flowVars
  <2>2. runs'[slot].state # "none" /\ runs'[slot].ours = runs[slot].ours
    BY <1>1, <1>6, <2>1 DEF RunReads, RunsOfAll
  <2>3. \A other \in Slots : other # slot => runs'[other] = runs[other]
    BY <1>1, <1>6 DEF RunReads
  <2>. QED
    BY <1>1, <2>1, <2>2, <2>3 DEF RunIsNoted
<1>7. ASSUME NEW slot \in Slots, RunEnds(slot) PROVE Noted
  <2>1. runs' = [runs EXCEPT ![slot] = NoRun] /\ UNCHANGED launched
    BY <1>7 DEF RunEnds
  <2>2. CASE runs[slot].ours
    BY <1>1, <1>7, <2>1, <2>2 DEF RunEnds, HasRun, RunIsNoted
  <2>3. CASE ~runs[slot].ours
    <3>1. UNCHANGED ran
      BY <1>7, <2>3 DEF RunEnds
    <3>2. \A other \in Slots : runs[other].ours => runs'[other] = runs[other]
      BY <1>1, <2>1, <2>3
    <3>. QED
      BY <1>1, <2>1, <3>1, <3>2 DEF RunIsNoted
  <2>. QED
    BY <2>2, <2>3
<1>8. CASE \/ \E gate \in Gates : \E value \in Options(gate) : Answer(gate, value)
           \/ \E m \in Modes : PickMode(m)
           \/ \E choice \in SUBSET Languages : ChooseLanguages(choice)
           \/ \E row \in Rows, apply \in BOOLEAN : Decide(row, apply)
           \/ BuildPlan \/ PlanElsewhere \/ PlanWritten \/ BuildEnds \/ BuildTimesOut
           \/ PreviewEnds \/ UNCHANGED vars
  BY <1>1, <1>8 DEF RunIsNoted, Answer, PickMode, ChooseLanguages, Decide, BuildPlan,
                          PlanElsewhere, PlanWritten, BuildEnds, BuildTimesOut, PreviewEnds,
                          vars, processVars, flowVars
<1>. QED
  BY <1>3, <1>4, <1>5, <1>6, <1>7, <1>8 DEF Next, ProcessSteps

-------------------------------------------------------------------------------

\* The invariant always holds.
LEMMA Invariance == Spec => []Inductive
<1>1. Inductive /\ [Next]_vars => Inductive'
  BY TypeStep, DryRunStep, ButtonStep, AcceptedStep, CurrentStep, MeantStep, NotedStep
  DEF Inductive
<1>. QED
  BY InitInductive, <1>1, PTL DEF Spec

\* Every variable of the screen, of the processes and of the answers stays within its type,
\* and a walk never covers no language (Chosen, from set_languages of PublishSession).
THEOREM ScreenTypeCorrect == Spec => []TypeOK
<1>1. Inductive => TypeOK
  BY DEF Inductive
<1>. QED
  BY Invariance, <1>1, PTL

\* A run that writes permanent records to production was confirmed at the production gate of
\* its walk, however the operator changed the mode, the plan and the answers before, and
\* whatever else was running (gates_for, production_acknowledged, main of run_execute).
THEOREM PermanentRunsAreConfirmed == Spec => []ProductionIsConfirmed
<1>1. Inductive => ProductionIsConfirmed
  BY DEF Inductive, ProductionIsConfirmed, Writing, RunsAreAccepted, Accepts
<1>. QED
  BY Invariance, <1>1, PTL

\* Whichever plan a run finds in plan.confirmed.json, one without copy writes no pages
\* (_LINKS_ONLY_REFUSAL).
THEOREM CopylessPlansStayLinks == Spec => []LinksOnlyWritesNoPages
<1>1. Inductive => LinksOnlyWritesNoPages
  BY DEF Inductive, LinksOnlyWritesNoPages, Writing, RunsAreAccepted, Accepts
<1>. QED
  BY Invariance, <1>1, PTL

\* No walk runs for real before a dry run of it came to its end (_gate_dry_run).
THEOREM RealRunsFollowPreviews == Spec => []RealRunsArePreviewed
<1>1. Inductive => RealRunsArePreviewed
  BY DEF Inductive, RealRunsArePreviewed, DryRunWasRead
<1>. QED
  BY Invariance, <1>1, PTL

\* Of an operator who waits, with nobody else planning, every run writes the rows that were
\* approved of the plan on the screen (confirmed_pairs, clear_row_decisions).
THEOREM PatientRunsAreMeant == Spec => []PatientRunsWriteWhatWasMeant
<1>1. Inductive => PatientRunsWriteWhatWasMeant
  BY DEF Inductive, PatientRunsWriteWhatWasMeant, Writing, RunsAreMeant
<1>. QED
  BY Invariance, <1>1, PTL

\* Of an operator who waits, every walk runs for real once at most (real_log).
THEOREM PatientWalksRunOnce == Spec => []PatientRunsOnce
<1>1. Inductive => PatientRunsOnce
  BY DEF Inductive, PatientRunsOnce, RunIsNoted
<1>. QED
  BY Invariance, <1>1, PTL

===============================================================================
