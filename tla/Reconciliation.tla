---------------------------- MODULE Reconciliation ----------------------------
(***************************************************************************)
(* scripts/reconcile: a diagnostic that reads state.json once, asks the    *)
(* site for the pages of one language after the other, and compares the    *)
(* two.  It holds nothing still: plans, runs, take-downs and editors go on *)
(* between its reads.                                                      *)
(*                                                                         *)
(* Page ids are not modelled, so DIFFERENT_PAGE is left out; and the site  *)
(* answers with published pages only (no status is asked for), so a page   *)
(* is never found NOT_PUBLISHED: one that was drafted is not found.        *)
(***************************************************************************)
EXTENDS Publishing

VARIABLES
    asking,     \* languages whose pages are still to be read; {} when no check is on
    entered,    \* the rows state.json had when it was read
    found,      \* pages with a meta.gtin the site has answered with so far
    lasting,    \* history: rows that have been gaps ever since the check began
    apart       \* history: rows that were apart at some moment of the check

checkVars == <<asking, entered, found, lasting, apart>>

NoCheck == asking = {} /\ entered = {} /\ found = {} /\ lasting = {} /\ apart = {}

Divergence == {"live_not_recorded", "recorded_not_live"}

EntriesIn(state) == {u \in Units : Recorded(state[u[1]][u[2]])}

\* Mutated form: pages without a meta.gtin are let through.
AnyPages(l) == {u \in Units : u[2] = l /\ site[u[1]][l].status = "publish"}

\* list_pages_with_gtin: the published pages of a language that carry a GTIN.
PagesWithGtin(l) ==
    {u \in Units : /\ u[2] = l
                   /\ site[u[1]][l].status = "publish"
                   /\ ~Foreign(site[u[1]][l])}

\* Mutated form: only what the site answered with is looked up in the state.
FindingsOfPages(noted, pages) == [kind : {"live_not_recorded"}, unit : pages \ noted]

\* reconcile: both directions; a row that is in both or in neither agrees.
Findings(noted, pages) ==
    [kind : {"live_not_recorded"}, unit : pages \ noted]
       \cup [kind : {"recorded_not_live"}, unit : noted \ pages]

-------------------------------------------------------------------------------
(* What is so at one moment, whatever a check has read. *)

Live(u) == site[u[1]][u[2]].status = "publish" /\ site[u[1]][u[2]].shows # 0

\* The planner calls the row UNCHANGED and its page is not there.
Gaps == {u \in Units : /\ Classify(saved[u[1]][u[2]], content[u[1]][u[2]]) = "unchanged"
                       /\ ~Live(u)}

\* The site serves a page the state file does not know, or the reverse.
Apart == {u \in Units : Live(u) # Recorded(saved[u[1]][u[2]])}

-------------------------------------------------------------------------------
\* peek_state reads the file without moving a corrupt one aside.
StartCheck ==
    /\ NoCheck
    /\ asking' = Languages
    /\ entered' = EntriesIn(saved)
    /\ lasting' = Gaps
    /\ apart' = Apart
    /\ UNCHANGED <<vars, found>>

EndCheck ==
    /\ asking' = {} /\ entered' = {} /\ found' = {} /\ lasting' = {} /\ apart' = {}
    /\ UNCHANGED vars

\* One paginated GET per language; after the last the report is printed.
AskLanguage(l) ==
    /\ l \in asking
    /\ IF asking = {l} THEN EndCheck
       ELSE /\ asking' = asking \ {l}
            /\ found' = found \cup PagesWithGtin(l)
            /\ UNCHANGED <<vars, entered, lasting, apart>>

\* An unreadable site, a corrupt state file or a closed terminal: no report.
CheckFails == asking # {} /\ EndCheck

\* Everything else goes on meanwhile.
Meanwhile ==
    /\ Next
    /\ UNCHANGED <<asking, entered, found>>
    /\ IF asking = {} THEN UNCHANGED <<lasting, apart>>
       ELSE lasting' = lasting \cap Gaps' /\ apart' = apart \cup Apart'

CheckedNext ==
    \/ Meanwhile
    \/ StartCheck
    \/ \E l \in Languages : AskLanguage(l)
    \/ CheckFails

CheckedInit == Init /\ NoCheck

CheckedSpec == CheckedInit /\ [][CheckedNext]_<<vars, checkVars>>

-------------------------------------------------------------------------------
Reports(l) == asking = {l} /\ AskLanguage(l)
Reported(l) == Findings(entered, found \cup PagesWithGtin(l))

\* A gap no plan will close, because its row is UNCHANGED and its page gone, is in
\* the report if it was there all the while, whoever else was at work
\* (lib/reconcile.reconcile, RECORDED_NOT_LIVE: "and leave the gap").
LastingGapsAreReported ==
    [][\A l \in Languages : Reports(l) =>
          [kind : {"recorded_not_live"}, unit : lasting] \subseteq Reported(l)]_<<vars, checkVars>>

\* No row is reported on which the site and the file agreed all the while.  The
\* kind may be another one than the row ever had: a run may save its entry and
\* a later one write its page anew between the two reads.
FindingsWereTrue ==
    [][\A l \in Languages : Reports(l) =>
          \A f \in Reported(l) : f.unit \in apart]_<<vars, checkVars>>

===============================================================================
