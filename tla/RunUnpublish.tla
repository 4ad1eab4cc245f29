----------------------------- MODULE RunUnpublish -----------------------------
(***************************************************************************)
(* scripts/run_unpublish: take named products down.  Per product: disable  *)
(* the GS1 record, then draft every recorded language's page and mark its  *)
(* entry; the state file is written once, after the last product.          *)
(***************************************************************************)
EXTENDS World

VARIABLES
    left,       \* recorded languages of cur whose page is still to be drafted
    clean,      \* history: no language of cur has failed
    takenDown   \* history: products whose last take-down succeeded and, once it is
                \* over, was saved; forgotten only with the state file

downVars == <<left, clean, takenDown>>

DownPcs == {"down", "draft"}

DownTypeOK ==
    /\ left \in SUBSET Languages
    /\ clean \in BOOLEAN
    /\ takenDown \in SUBSET Gtins

DownInit == left = {} /\ clean = TRUE /\ takenDown = {}

\* Products without any entry are refused: there would be no page to draft.
StartTakeDown(products) ==
    /\ products # {}
    /\ \A g \in products : RecordedLanguages(saved, g) # {}
    /\ BeginOn(products, "down")
    /\ UNCHANGED <<envVars, remoteVars, saved, downVars>>

\* Mutated form: the record is left enabled, for the pages to go first.
LeftEnabled(rec) == rec

\* retract: a product without a record is left alone; the links stay.
Disabled(rec) == IF Exists(rec) THEN [rec EXCEPT !.enabled = FALSE] ELSE rec

DisableRecord(g) ==
    /\ record' = [record EXCEPT ![g] = Disabled(@)]
    /\ halfDown' = halfDown \cup {g}

Retract(g) ==
    /\ pc = "down"
    /\ g \in todo
    /\ DisableRecord(g)
    /\ todo' = todo \ {g}
    /\ cur' = g
    /\ left' = RecordedLanguages(mem, g)
    /\ clean' = TRUE
    /\ takenDown' = takenDown \ {g}
    /\ pc' = "draft"
    /\ UNCHANGED <<envVars, siteVars, saved, mem>>

\* Nothing catches what retract raises: the script ends with a traceback, which
\* is exit code 1, and save_state is never reached.
RetractRaises(g) ==
    /\ pc = "down"
    /\ g \in todo
    /\ ~calm
    /\ \/ UNCHANGED recordVars
       \/ Exists(record[g]) /\ DisableRecord(g)
    /\ LoseProcess
    /\ takenDown' = takenDown \ halfDown'
    /\ UNCHANGED <<envVars, siteVars, left, clean>>

\* Mutated form: the hash of the link set survives the take-down.
LinkedDownEntry(entry, found) ==
    [entry EXCEPT !.wp_status = IF found THEN "draft" ELSE @,
                  !.retracted = TRUE]

\* The entry after its page was drafted, or found to be gone already.
DownEntry(entry, found) ==
    [entry EXCEPT !.wp_status = IF found THEN "draft" ELSE @,
                  !.retracted = TRUE,
                  !.linked = FALSE]

\* The page is found by the recorded id, which misses a page that was deleted and
\* published anew by a run whose commit was lost.
DraftPage(l) ==
    /\ pc = "draft"
    /\ l \in left
    /\ \E found \in BOOLEAN :
          /\ found => site[cur][l].status # "absent"
          /\ ~found => site[cur][l].status = "absent" \/ EditorDrafts
          /\ site' = IF found THEN [site EXCEPT ![cur][l].status = "draft"] ELSE site
          /\ mem' = [mem EXCEPT ![cur][l] = DownEntry(@, found)]
    /\ left' = left \ {l}
    /\ UNCHANGED <<envVars, byHand, recordVars, saved, pc, todo, cur, clean, takenDown>>

\* The status write raised, having reached the site or not; the language's
\* entry is left as it was and the loop goes on.
DraftPageFails(l) ==
    /\ pc = "draft"
    /\ l \in left
    /\ ~calm
    /\ \/ UNCHANGED site
       \/ /\ site[cur][l].status # "absent"
          /\ site' = [site EXCEPT ![cur][l].status = "draft"]
    /\ left' = left \ {l}
    /\ clean' = FALSE
    /\ UNCHANGED <<envVars, byHand, recordVars, saved, procVars, takenDown>>

ProductDown ==
    /\ pc = "draft"
    /\ left = {}
    /\ takenDown' = IF clean THEN takenDown \cup {cur} ELSE takenDown
    /\ clean' = TRUE
    /\ cur' = NoGtin
    /\ pc' = "down"
    /\ UNCHANGED <<envVars, remoteVars, saved, mem, todo, left>>

FinishTakeDown ==
    /\ pc = "down"
    /\ todo = {}
    /\ SaveState
    /\ halfDown' = halfDown \ takenDown
    /\ UNCHANGED <<envVars, siteVars, record, downVars>>

TakeDownDies ==
    /\ pc \in DownPcs
    /\ Kills /\ ~calm
    /\ LoseProcess
    /\ left' = {} /\ clean' = TRUE /\ takenDown' = takenDown \ halfDown
    /\ UNCHANGED <<envVars, remoteVars>>

DownSteps ==
    \/ \E g \in Gtins : Retract(g) \/ RetractRaises(g)
    \/ \E l \in Languages : DraftPage(l) \/ DraftPageFails(l)
    \/ ProductDown \/ FinishTakeDown

DownNext ==
    \/ \E products \in SUBSET Gtins : StartTakeDown(products)
    \/ DownSteps
    \/ TakeDownDies

===============================================================================
