----------------------------- MODULE PublishScreen -----------------------------
(***************************************************************************)
(* The publish screen: it walks the gates, and its buttons start processes *)
(* that go on while the operator may answer something else.  Screen and    *)
(* processes meet in two files, plan.json and plan.confirmed.json.  The    *)
(* second is not a variable: what a run that has yet to read it would find *)
(* there is in rows and linksOnly of that run.                             *)
(***************************************************************************)
EXTENDS PublishSession

CONSTANTS
    ModeFromBatch,  \* the mode was saved with the batch, on the Data screen
    Slots,          \* real runs there may be at a time, 1..n (bound)
    MaxHaste        \* bound on the acts that do not wait

ASSUME ScreenAssumption ==
    ModeFromBatch \in BOOLEAN /\ Slots \subseteq Nat /\ MaxHaste \in Nat

VARIABLES
    plan,       \* plan.json
    shown,      \* the plan the screen was last drawn from
    button,     \* the button that runs it for real: "none", "enabled", "busy"
    previewed,  \* has_run_dry
    ran,        \* real_log is not None
    building,   \* the process Build the plan has started: "no", "running", "written"
    buildLinks, \* and whether for links only
    previewing, \* a dry run goes on
    runs,       \* runs[slot]: a real run going on
    launched,   \* history: the real runs this walk started
    haste       \* history: the acts of an operator who did not wait for a handler to end,
                \* and of somebody else who planned

drawnVars == <<shown, button>>
processVars == <<building, buildLinks, previewing, runs>>
flowVars == <<previewed, ran, launched>>
vars == <<sessionVars, plan, drawnVars, processVars, flowVars, haste>>

NoPlan == [version |-> 0, class |-> [row \in Rows |-> "OTHER"], dropped |-> FALSE,
           linksOnly |-> FALSE]
PlanOf(content, linksOnly) ==
    [version |-> plan.version + 1, class |-> content.class, dropped |-> content.dropped,
     linksOnly |-> linksOnly]

\* ours: this walk started it.  confirmedProduction and meant are history: whether the
\* production gate was, and which rows of the plan on screen the operator approved.
NoRun == [state |-> "none", ours |-> FALSE, mode |-> "pages", acknowledged |-> FALSE,
          rows |-> {}, linksOnly |-> FALSE, confirmedProduction |-> FALSE, meant |-> {}]

Idle == building = "no" /\ ~previewing /\ \A slot \in Slots : runs[slot] = NoRun

\* The operator presses something, having waited or not.
Act == IF Idle THEN UNCHANGED haste ELSE haste < MaxHaste /\ haste' = haste + 1

Plans == [version : 0..MaxPlans, class : [Rows -> Classes], dropped : BOOLEAN,
          linksOnly : BOOLEAN]
RunsOfAll == [state : {"none", "starting", "writing", "refused"}, ours : BOOLEAN,
              mode : Modes, acknowledged : BOOLEAN, rows : SUBSET Rows,
              linksOnly : BOOLEAN, confirmedProduction : BOOLEAN, meant : SUBSET Rows]

\* Every variable stays within its type; in particular a walk never covers no language.
TypeOK ==
    /\ SessionTypeOK
    /\ plan \in Plans /\ shown \in Plans
    /\ button \in {"none", "enabled", "busy"}
    /\ building \in {"no", "running", "written"}
    /\ buildLinks \in BOOLEAN /\ previewing \in BOOLEAN
    /\ previewed \in BOOLEAN /\ ran \in BOOLEAN /\ haste \in 0..MaxHaste
    /\ runs \in [Slots -> RunsOfAll]
    /\ launched \in Nat

\* The first walk begins without a plan; later ones find what earlier ones left.
Init ==
    /\ mode \in IF ModeFromBatch THEN Modes ELSE {"pages"}
    /\ languages = Languages /\ answers = NoAnswers /\ applied = NothingApplied
    /\ plan = NoPlan
    /\ shown = plan /\ button = "none"
    /\ previewed = FALSE /\ ran = FALSE /\ launched = 0
    /\ building = "no" /\ buildLinks = FALSE /\ previewing = FALSE
    /\ runs = [slot \in Slots |-> NoRun]
    /\ haste = 0

\* Everything on the screen is drawn anew, from plan.json and from the answers given.
Redraw ==
    /\ shown' = plan'
    /\ button' = IF Authorises(FALSE, plan.dropped)' /\ ~ran' THEN "enabled" ELSE "none"

-------------------------------------------------------------------------------
(* What the operator does. *)

\* Mutated form: the dry run's answer is offered before there is one to read.
OfferedAtOnce(gate) == gate = "plan_review" => shown.version # 0

Offered(gate) ==
    /\ gate = "plan_review" => shown.version # 0
    /\ gate = "dry_run" => previewed

Answer(gate, value) ==
    /\ Act
    /\ gate \in Walk(mode, shown.dropped) /\ Offered(gate) /\ value \in Options(gate)
    /\ gate = "intent" /\ value = "open" => ~ModeFromBatch
    /\ Record(gate, value)
    /\ UNCHANGED <<plan, processVars, flowVars>>
    /\ Redraw

PickMode(m) ==
    /\ Act
    /\ ~ModeFromBatch
    /\ mode' = m /\ UNCHANGED <<languages, answers, applied>>
    /\ UNCHANGED <<plan, processVars, flowVars>>
    /\ Redraw

\* Nothing is drawn anew.
ChooseLanguages(choice) ==
    /\ Act
    /\ languages' = Chosen(choice) /\ UNCHANGED <<mode, answers, applied>>
    /\ UNCHANGED <<plan, drawnVars, processVars, flowVars>>

Decide(row, apply) ==
    /\ Act
    /\ answers["plan_review"] = "changed-review" /\ shown.class[row] = "CHANGED"
    /\ ApplyRow(row, IF apply THEN shown.version ELSE 0)
    /\ UNCHANGED <<plan, processVars, flowVars>>
    /\ Redraw

BuildPlan ==
    /\ Act
    /\ building = "no"
    /\ building' = "running"
    /\ buildLinks' = (mode = "links")
    /\ UNCHANGED <<sessionVars, plan, drawnVars, previewing, runs, flowVars>>

\* plan.confirmed.json gets plan.json and the rows confirmed of it; it is not written
\* when there are none.  Of these runs, those still to read it will find that.
WriteConfirmed(these) ==
    LET pairs == ConfirmedPairs(plan.class)
    IN  /\ pairs # {}
        /\ runs' = [slot \in Slots |->
                      IF these[slot].state # "starting" THEN these[slot]
                      ELSE [these[slot] EXCEPT !.rows = pairs, !.linksOnly = plan.linksOnly]]

\* The file is written before the answers are looked at.
RunDry ==
    /\ Act
    /\ ~previewing
    /\ WriteConfirmed(runs)
    /\ previewing' = Authorises(TRUE, shown.dropped)
    /\ UNCHANGED <<sessionVars, plan, drawnVars, building, buildLinks, flowVars>>

\* The rows the operator approved of the plan on screen.
Meant == ConfirmedBy(shown.class, [row \in Rows |-> applied[row] = shown.version])

NewRun ==
    [NoRun EXCEPT !.state = "starting", !.ours = TRUE, !.mode = mode,
                  !.acknowledged = ProductionAcknowledged(shown.dropped),
                  !.confirmedProduction = answers["production"] = "go",
                  !.meant = Meant]

RunForReal(slot) ==
    /\ Act
    /\ button = "enabled"
    /\ runs[slot] = NoRun /\ \A other \in Slots : other < slot => runs[other] # NoRun
    /\ IF Authorises(FALSE, shown.dropped)
       THEN /\ WriteConfirmed([runs EXCEPT ![slot] = NewRun])
            /\ button' = "busy" /\ launched' = launched + 1
       ELSE WriteConfirmed(runs) /\ UNCHANGED <<button, launched>>
    /\ UNCHANGED <<sessionVars, plan, shown, building, buildLinks, previewing, previewed, ran>>

\* Another screen is opened, and this one again: a new walk.  What was started goes on.
Reopen ==
    /\ Act
    /\ \E m \in IF ModeFromBatch THEN Modes ELSE {"pages"} : Begin(m)
    /\ previewed' = FALSE /\ ran' = FALSE /\ launched' = 0
    /\ building' = "no" /\ buildLinks' = FALSE /\ previewing' = FALSE
    /\ runs' = [slot \in Slots |-> [runs[slot] EXCEPT !.ours = FALSE]]
    /\ UNCHANGED <<plan>>
    /\ Redraw

\* A plan is built in a terminal, or by a handler of an earlier walk.
PlanElsewhere ==
    /\ haste < MaxHaste /\ haste' = haste + 1
    /\ plan.version < MaxPlans
    /\ \E content \in Contents, linksOnly \in BOOLEAN : plan' = PlanOf(content, linksOnly)
    /\ UNCHANGED <<sessionVars, drawnVars, processVars, flowVars>>

-------------------------------------------------------------------------------
(* What the processes do, and what their handlers do when they end. *)

PlanWritten ==
    /\ building = "running"
    /\ plan.version < MaxPlans
    /\ \E content \in Contents : plan' = PlanOf(content, buildLinks)
    /\ building' = "written"
    /\ UNCHANGED <<sessionVars, drawnVars, buildLinks, previewing, runs, flowVars,
                   haste>>

\* Whether it wrote a plan or not.
BuildEnds ==
    /\ building # "no"
    /\ building' = "no" /\ buildLinks' = FALSE
    /\ ClearRowDecisions
    /\ UNCHANGED <<plan, previewing, runs, flowVars, haste>>
    /\ Redraw

\* The handler raises.  run_plan has nothing to wait for once plan.json is written.
BuildTimesOut ==
    /\ building = "running"
    /\ building' = "no" /\ buildLinks' = FALSE
    /\ UNCHANGED <<sessionVars, plan, drawnVars, previewing, runs, flowVars,
                   haste>>

PreviewEnds ==
    /\ previewing
    /\ previewing' = FALSE
    /\ previewed' = TRUE
    /\ UNCHANGED <<sessionVars, plan, building, buildLinks, runs, ran, launched, haste>>
    /\ Redraw

\* Mutated form: the acknowledgement is all that is asked of a run.
AcceptsAnyPlan(run) == IsProduction => run.acknowledged

\* run_execute refuses a plan without copy in a mode that writes pages, and production
\* without the acknowledgement.
Accepts(run) ==
    /\ run.linksOnly => run.mode = "links"
    /\ IsProduction => run.acknowledged

RunReads(slot) ==
    /\ runs[slot].state = "starting"
    /\ runs' = [runs EXCEPT ![slot].state = IF Accepts(runs[slot]) THEN "writing" ELSE "refused"]
    /\ UNCHANGED <<sessionVars, plan, drawnVars, building, buildLinks, previewing, flowVars,
                   haste>>

HasRun == ran' = TRUE

\* It ends, or is stopped after its time.
RunEnds(slot) ==
    /\ runs[slot].state # "none"
    /\ runs' = [runs EXCEPT ![slot] = NoRun]
    /\ UNCHANGED <<sessionVars, plan, building, buildLinks, previewing, previewed, launched,
                   haste>>
    /\ IF runs[slot].ours THEN HasRun /\ Redraw ELSE UNCHANGED <<ran, drawnVars>>

ProcessSteps ==
    \/ PlanWritten \/ BuildEnds \/ BuildTimesOut \/ PreviewEnds
    \/ \E slot \in Slots : RunReads(slot) \/ RunEnds(slot)

Next ==
    \/ \E gate \in Gates : \E value \in Options(gate) : Answer(gate, value)
    \/ \E m \in Modes : PickMode(m)
    \/ \E choice \in SUBSET Languages : ChooseLanguages(choice)
    \/ \E row \in Rows, apply \in BOOLEAN : Decide(row, apply)
    \/ BuildPlan \/ RunDry \/ (\E slot \in Slots : RunForReal(slot))
    \/ Reopen \/ PlanElsewhere
    \/ ProcessSteps

Spec == Init /\ [][Next]_vars

-------------------------------------------------------------------------------
(* Properties. *)

Writing == {slot \in Slots : runs[slot].state = "writing"}

\* No permanent record is written to production unless somebody confirmed that at its
\* own gate in this walk, however the mode was changed before (gates_for,
\* production_acknowledged, main of run_execute).
ProductionIsConfirmed ==
    \A slot \in Writing :
        IsProduction /\ runs[slot].mode # "pages" => runs[slot].confirmedProduction

\* A plan that kept products without copy never reaches a run that writes pages, whichever
\* plan was in the file by then (_LINKS_ONLY_REFUSAL).
LinksOnlyWritesNoPages ==
    \A slot \in Writing : runs[slot].linksOnly => runs[slot].mode = "links"

\* A walk runs for real only after a dry run of it came to its end (_gate_dry_run).
RealRunsArePreviewed == launched > 0 => previewed

\* As long as the operator waits for what was started, and nobody else plans, a run writes
\* the rows that were approved of the plan on the screen and no other: no decision about a
\* row of an earlier plan counts (confirmed_pairs, clear_row_decisions, _write_confirmed).
PatientRunsWriteWhatWasMeant ==
    haste = 0 => \A slot \in Writing : runs[slot].rows = runs[slot].meant

\* As long as the operator waits, a walk runs for real once (real_log in _execute_panel).
PatientRunsOnce == haste = 0 => launched <= 1

\* "A walk runs for real once": real_log is there so that a second press during or after
\* a real run is no second real run (_Flow).
RunsForRealOnce == launched <= 1

===============================================================================
