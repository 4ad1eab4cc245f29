----------------------------- MODULE PublishSession -----------------------------
(***************************************************************************)
(* The answers of one publish walk: which gates are in it, which of them   *)
(* stand between it and a run, and the rows and the command it authorises. *)
(***************************************************************************)
EXTENDS Naturals

CONSTANTS
    Gtins,
    Languages,      \* wordpress.languages of the client
    HasGenerator,   \* the client has a generator block
    IsProduction,   \* gs1.environment is production
    Contents,       \* what plans may say: [class : [Rows -> Classes], dropped : BOOLEAN]
    MaxPlans        \* bound on the plans built

Rows == Gtins \X Languages
Modes == {"pages", "links", "both"}

\* OTHER is UNCHANGED, HELD, or no row at all: never confirmed.
Classes == {"NEW", "CHANGED", "OTHER"}

ASSUME SessionAssumption ==
    /\ Languages # {}
    /\ HasGenerator \in BOOLEAN /\ IsProduction \in BOOLEAN
    /\ Contents \subseteq [class : [Rows -> Classes], dropped : BOOLEAN]
    /\ MaxPlans \in Nat \ {0}

VARIABLES
    mode,       \* the leg this walk publishes
    languages,  \* the languages it covers
    answers,    \* answers[gate]
    applied     \* applied[row]: the plan on screen when the row was applied, 0 if it
                \* was skipped or not decided

sessionVars == <<mode, languages, answers, applied>>

\* The gates whose answers decide anything: languages is a variable of its own, and
\* what is answered at row_diff and post_run is only displayed.
Gates == {"intent", "content_review", "missing_field", "plan_review", "production", "dry_run"}
Required == Gates \ {"missing_field"}

\* An answer is what it does: "stop" refuses, "open" is no answer yet or one that shows
\* the gate again, the others carry the walk on.  At missing_field, which is not required,
\* those that skip the unit decide no more than no answer.
Options(gate) ==
    CASE gate \in {"intent", "content_review"} -> {"go", "stop", "open"}
      [] gate = "plan_review" -> {"all", "new-only", "changed-review", "stop"}
      [] gate = "missing_field" -> {"stop", "open"}
      [] OTHER -> {"go", "stop"}

Answers == UNION {Options(gate) : gate \in Gates}
Proceeded(answer) == answer \notin {"open", "stop"}

NoAnswers == [gate \in Gates |-> "open"]
NothingApplied == [row \in Rows |-> 0]

SessionTypeOK ==
    /\ mode \in Modes
    /\ languages \in (SUBSET Languages) \ {{}}
    /\ answers \in [Gates -> Answers]
    /\ \A gate \in Gates : answers[gate] \in Options(gate) \cup {"open"}
    /\ applied \in [Rows -> 0..MaxPlans]

-------------------------------------------------------------------------------

\* Mutated form: the gates are those of the mode the walk began in.
FirstWalk(m, dropped) == Gates \ {"production", "missing_field"}

\* The gates of a walk in mode m whose plan dropped units without a name, or not.
Walk(m, dropped) ==
    {gate \in Gates :
        /\ gate = "content_review" => m # "links" /\ HasGenerator
        /\ gate = "production" => m # "pages" /\ IsProduction
        /\ gate = "missing_field" => dropped}

\* Refused gates, and required ones not answered.
Blocking(m, dropped) ==
    {gate \in Walk(m, dropped) :
        answers[gate] \in IF gate \in Required THEN {"stop", "open"} ELSE {"stop"}}

\* A dry run needs no answer to its own gate.
Authorises(dryRun, dropped) ==
    Blocking(mode, dropped) \subseteq IF dryRun THEN {"dry_run"} ELSE {}

\* The run may say that someone confirmed production: at that gate or, where the walk
\* does not have it, at the first.
ProductionAcknowledged(dropped) ==
    /\ IsProduction
    /\ Proceeded(answers[IF "production" \in Walk(mode, dropped) THEN "production"
                         ELSE "intent"])

\* on[row]: the row was applied.
ConfirmedBy(class, on) ==
    {row \in Rows :
        /\ row[2] \in languages
        /\ \/ class[row] = "NEW"
           \/ /\ class[row] = "CHANGED"
              /\ answers["plan_review"] # "new-only"
              /\ answers["plan_review"] = "changed-review" => on[row]}

ConfirmedPairs(class) == ConfirmedBy(class, [row \in Rows |-> applied[row] # 0])

-------------------------------------------------------------------------------

Record(gate, value) ==
    answers' = [answers EXCEPT ![gate] = value] /\ UNCHANGED <<mode, languages, applied>>

ApplyRow(row, on) ==
    applied' = [applied EXCEPT ![row] = on] /\ UNCHANGED <<mode, languages, answers>>

\* Mutated form: a rebuilt plan keeps them.
KeepRowDecisions == UNCHANGED sessionVars

ClearRowDecisions == applied' = NothingApplied /\ UNCHANGED <<mode, languages, answers>>

\* Clearing every language means all of them.
Chosen(choice) == IF choice = {} THEN Languages ELSE choice

Begin(m) ==
    /\ mode' = m
    /\ languages' = Languages
    /\ answers' = NoAnswers
    /\ applied' = NothingApplied
===============================================================================
