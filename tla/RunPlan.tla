------------------------------- MODULE RunPlan --------------------------------
(***************************************************************************)
(* scripts/run_plan: compare what should be published with state.json and  *)
(* write plan.json.  Skipped units (no copy, no name, no photo, no video)  *)
(* are not planned; a run that leaves them out is a run that confirms a    *)
(* smaller set of rows, which RunExecute allows.                           *)
(***************************************************************************)
EXTENDS World

VARIABLES
    planned,        \* planned[g][l]: the plan's row; version 0 before any plan
    plannedListed   \* plannedListed[g]: the listed page the rows carry

planVars == <<planned, plannedListed>>

PlanRow == [class : Classification, content : 0..MaxVersion]

PlanTypeOK ==
    /\ planned \in [Gtins -> [Languages -> PlanRow]]
    /\ plannedListed \in [Gtins -> BOOLEAN]

PlanInit ==
    /\ planned = [g \in Gtins |-> [l \in Languages |->
                     [class |-> "new", content |-> 0]]]
    /\ plannedListed = [g \in Gtins |-> FALSE]

\* The rows diff_against_state produces for the state file as it is now.
CurrentRows ==
    [g \in Gtins |-> [l \in Languages |->
        [class   |-> Classify(saved[g][l], content[g][l]),
         content |-> content[g][l]]]]

PlanIsCurrent == planned = CurrentRows /\ plannedListed = listed

BuildPlan ==
    /\ pc = "idle"
    /\ ~PlanIsCurrent
    /\ planned' = CurrentRows
    /\ plannedListed' = listed
    /\ UNCHANGED worldVars

===============================================================================
