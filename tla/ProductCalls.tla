----------------------------- MODULE ProductCalls -----------------------------
(***************************************************************************)
(* One product's run at the level of HTTP calls: its rows one after the    *)
(* other and, if all of them went well, its GS1 record, whose client needs *)
(* an access token that the server may stop honouring at any time.         *)
(***************************************************************************)
EXTENDS RowWrites

VARIABLES
    token,      \* the cached access token: "none", "good", or "revoked"
    refreshed,  \* token_refreshed of the call being made
    pointed     \* the run whose pages the record names; 0 for none

recordVars == <<token, refreshed, pointed>>
vars == <<siteVars, runVars, pc, rowVars, tryVars, recordVars>>

RecordPcs == {"get", "point"}

Init ==
    /\ RowInit
    /\ pc = "idle"
    /\ token = "none" /\ refreshed = FALSE /\ pointed = 0

\* The state file is read and every row of the product is confirmed.
StartRun ==
    /\ pc = "idle"
    /\ run < MaxRuns
    /\ run' = run + 1
    /\ outcome' = [l \in Languages |-> "pending"]
    /\ result' = [l \in Languages |-> NoId]
    /\ pc' = "next"
    /\ UNCHANGED <<siteVars, recorded, rowVars, tryVars, recordVars>>

\* A sibling's failure blocks the product: no record, no state.
BlockProduct ==
    /\ pc = "next"
    /\ \A l \in Languages : outcome[l] # "pending"
    /\ \E l \in Languages : outcome[l] = "failed"
    /\ GoTo("idle")
    /\ UNCHANGED <<siteVars, tryVars, recordVars>>

FinishLinks ==
    /\ pc = "next"
    /\ \A l \in Languages : outcome[l] = "ok"
    /\ GoTo("get")
    /\ UNCHANGED <<siteVars, tryVars, recordVars>>

-------------------------------------------------------------------------------
(* The GS1 client's requests. *)

\* The server may stop honouring the cached token at any time; its expiry comes
\* near only between calls, since a token outlives the attempts of one.
TokenAges ==
    /\ token = "good"
    /\ \/ token' = "revoked"
       \/ token' = "none" /\ pc \notin RecordPcs
    /\ UNCHANGED <<siteVars, runVars, pc, rowVars, tryVars, refreshed, pointed>>

\* The product has failed: no state.
Raise == GoTo("idle") /\ refreshed' = FALSE

\* Mutated form: each 401 is answered with a new token.
RefreshAgain ==
    /\ refreshed' = TRUE
    /\ token' = "none"
    /\ Stay
    /\ UNCHANGED tryVars

\* A 401 is answered with a new token once; the second one is final.
Refresh ==
    /\ token' = IF refreshed THEN token ELSE "none"
    /\ IF refreshed THEN Raise /\ FreshTries
       ELSE refreshed' = TRUE /\ Stay /\ UNCHANGED tryVars

\* Minting is not retried.
MintToken ==
    /\ pc \in RecordPcs
    /\ token = "none"
    /\ \/ token' = "good" /\ Stay /\ UNCHANGED <<tryVars, refreshed>>
       \/ Raise /\ FreshTries /\ UNCHANGED token
    /\ UNCHANGED <<siteVars, pointed>>

Unauthorized ==
    /\ pc \in RecordPcs
    /\ token # "none"
    /\ Refresh
    /\ UNCHANGED <<siteVars, pointed>>

StaySame == Stay /\ UNCHANGED refreshed

GetRecord ==
    /\ pc = "get"
    /\ token = "good"
    /\ Reads(StaySame, GoTo("point") /\ refreshed' = FALSE, Raise)
    /\ UNCHANGED <<siteVars, token, pointed>>

\* Replaces the record's links by this run's pages; a resent write ends the same.
PointRecord ==
    /\ pc = "point"
    /\ token = "good"
    /\ Writes(pointed' = run, UNCHANGED pointed,
              StaySame, GoTo("commit") /\ refreshed' = FALSE, Raise)
    /\ UNCHANGED <<siteVars, token>>

CommitState ==
    /\ pc = "commit"
    /\ recorded' = result
    /\ pc' = "idle"
    /\ UNCHANGED <<siteVars, run, outcome, result, rowVars, tryVars, recordVars>>

ProductSteps ==
    \/ RowSteps /\ UNCHANGED recordVars
    \/ BlockProduct \/ FinishLinks
    \/ MintToken \/ Unauthorized \/ GetRecord \/ PointRecord \/ CommitState

Next == StartRun \/ ProductSteps \/ TokenAges

Spec == Init /\ [][Next]_vars

\* Each attempt is answered or times out.
FairSpec == Spec /\ WF_vars(ProductSteps)

-------------------------------------------------------------------------------
(* Properties. *)

Pcs == {"idle", "next", "find", "discard", "create", "fragment", "finalise", "lookup",
        "write", "acf", "verify", "rollback", "get", "point", "commit"}

\* Every variable stays within its type, and the tries below their limits.
TypeOK ==
    /\ RowTypeOK
    /\ pc \in Pcs
    /\ token \in {"none", "good", "revoked"}
    /\ refreshed \in BOOLEAN
    /\ pointed \in 0..MaxRuns

\* An upload that was cut off never becomes the answer to its own hash: what holds
\* the slug of a file, was measured and is ours has all of the file (_create_media
\* measures before it finalises).
SlugMeansWhole ==
    \A m \in MediaIds :
        library[m].slug /\ library[m].hash /\ library[m].checked => library[m].whole

\* The client's own attachments are neither deleted nor changed, not even one that
\* has the slug of a file and another size (_is_whole, delete_media).
ClientMediaStay ==
    [][\A m \in MediaIds :
          library[m].slug /\ ~library[m].hash => library'[m] = library[m]]_vars

CarriedBy(page) ==
    ({page.featured} \cup {page.fields[f] : f \in Files}) \ {NoId}

\* A sibling row that fails after a row came out ok takes none of that row's whole
\* media down with it, though both may use the same attachment (_rollback_media,
\* _is_whole).
OkPagesKeepMedia ==
    [][\A l \in Languages : outcome[l] = "ok" =>
          \A m \in CarriedBy(pages[result[l]]) :
              library[m].whole => library'[m] = library[m]]_vars

\* Once the record names this run's pages, every one of them shows this run's
\* content in its body and in its fields, whatever was retried on the way, and the
\* language of each is the row's (upsert_page, _execute_gtin).
PointedPagesShowTheRun ==
    pointed = run /\ run > 0 =>
        \A l \in Languages :
            LET page == pages[result[l]]
            IN  page.language = l /\ page.body = run /\ page.acf = run

\* A run ends, whatever mixture of timeouts, rate limits, refused tokens and lost
\* answers it meets (_request of both clients).
RunsEnd == pc # "idle" ~> pc = "idle"

===============================================================================
