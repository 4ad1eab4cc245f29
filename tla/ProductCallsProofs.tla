-------------------------- MODULE ProductCallsProofs --------------------------
(***************************************************************************)
(* The invariant behind the safety properties of ProductCalls, and the     *)
(* properties themselves, for any rows, files, attempts and runs.          *)
(***************************************************************************)
EXTENDS ProductCalls, TLAPS

Uploading == {"find", "discard", "create", "fragment", "finalise"}
Attached == {"discard", "fragment", "finalise"}
InRow == Uploading \cup {"lookup", "write", "acf", "verify", "rollback"}

\* A row has files left while it uploads and went through them before it has a page;
\* nothing outside a row has any.
ChosenFits ==
    /\ pc \in InRow \ Uploading => chosen # <<>>
    /\ pc \in Uploading => Len(chosen) < Len(FilesOf[row])
    /\ pc \notin InRow => chosen = <<>>

\* What is discarded or finalised is ours, and it is whole if it was measured.
UploadIsOurs ==
    /\ pc \in Attached => /\ upload \in MediaIds
                          /\ library[upload].slug => library[upload].hash
    /\ pc = "finalise" => (library[upload].checked => library[upload].whole)

\* Rows write to pages of their own language, the body before the fields.
TargetIsOwn ==
    /\ \A l \in Languages : recorded[l] # NoId => pages[recorded[l]].language = l
    /\ pc \in {"write", "acf", "verify"} /\ target # NoId => pages[target].language = row
    /\ pc \in {"acf", "verify"} => target \in PageIds /\ pages[target].body = run
    /\ pc = "verify" => pages[target].acf = run

ShowsTheRun(l) ==
    /\ result[l] \in PageIds
    /\ pages[result[l]].language = l
    /\ pages[result[l]].body = run /\ pages[result[l]].acf = run

\* A row that came out ok shows the run, the row in work is pending, and the record
\* is only touched when all are ok.
OutcomesAreTrue ==
    /\ \A l \in Languages : outcome[l] = "ok" => ShowsTheRun(l)
    /\ pc \in InRow => outcome[row] = "pending"
    /\ pc \in {"get", "point", "commit"} => \A l \in Languages : outcome[l] = "ok"
    /\ pointed <= run
    /\ pointed = run /\ run > 0 => \A l \in Languages : outcome[l] = "ok"

Inductive ==
    TypeOK /\ SlugMeansWhole /\ ChosenFits /\ UploadIsOurs /\ TargetIsOwn /\ OutcomesAreTrue

-------------------------------------------------------------------------------
(* What a step may do to the library, to the pages and to the row. *)

KeepsMedia ==
    /\ library' \in [MediaIds -> Attachment]
    /\ SlugMeansWhole'
    /\ \A m \in MediaIds :
          library[m].slug /\ ~library[m].hash => library'[m] = library[m]
    /\ pc \in Attached =>
          /\ library'[upload].slug => library'[upload].hash
          /\ pc = "finalise" => (library'[upload].checked => library'[upload].whole)

KeepsPages ==
    /\ pages' \in [PageIds -> PageOf]
    /\ \A p \in PageIds :
          /\ pages[p].language \notin {row, "none"} => pages'[p] = pages[p]
          /\ pages[p].language = row => pages'[p].language = row
          /\ pages[p].language = row /\ pages[p].body = run => pages'[p].body = run

TakesUp ==
    /\ pc = "next" /\ pc' = "find"
    /\ row' \in Languages /\ outcome[row'] = "pending"
    /\ UNCHANGED <<pages, runVars, chosen, created, upload, target>>

Chooses ==
    /\ pc \in Uploading
    /\ \E m \in MediaIds \cup {NoId} : Choose(m)
    /\ created' \in SUBSET MediaIds

Uploads ==
    /\ pc \in Uploading /\ pc' \in Attached \cup {"create"}
    /\ upload' \in MediaIds \cup {NoId}
    /\ pc' \in Attached => /\ upload' \in MediaIds
                           /\ library'[upload'].slug => library'[upload'].hash
    /\ pc' = "finalise" => (library'[upload'].checked => library'[upload'].whole)
    /\ UNCHANGED <<row, chosen, created, target, runVars>>

Fails == pc \in InRow /\ FailRow

Withdraws == pc \in {"lookup", "write", "acf"} /\ GoTo("rollback")

Targets ==
    \/ /\ pc = "lookup" /\ pc' = "write"
       /\ target' \in PageIds \cup {NoId}
       /\ target' # NoId => pages'[target'].language = row
       /\ UNCHANGED <<row, chosen, created, upload, runVars>>
    \/ /\ pc = "write" /\ pc' = "acf"
       /\ target' \in PageIds
       /\ pages'[target'].language = row /\ pages'[target'].body = run
       /\ UNCHANGED <<row, chosen, created, upload, runVars>>
    \/ /\ pc = "acf" /\ GoTo("verify")
       /\ pages'[target].acf = run

Serves ==
    /\ pc = "verify" /\ pc' = "next"
    /\ outcome' = [outcome EXCEPT ![row] = "ok"]
    /\ result' = [result EXCEPT ![row] = target]
    /\ ClearRow
    /\ UNCHANGED <<pages, run, recorded>>

Stays == pc \in InRow \ {"verify"} /\ Stay

RowMoves == Stays \/ TakesUp \/ Chooses \/ Uploads \/ Fails \/ Withdraws \/ Targets \/ Serves

RowStep ==
    KeepsMedia /\ KeepsPages /\ TriesTypeOK' /\ RowMoves /\ UNCHANGED recordVars

-------------------------------------------------------------------------------
\* The invariant holds at the start.
LEMMA InitInductive ==
  ASSUME Init
  PROVE  Inductive
<1>. USE RequestsAssumption, RowWritesAssumption
<1>1. PICK clients \in [1..Cardinality(ClientFiles) -> ClientFiles] :
        /\ {clients[m] : m \in DOMAIN clients} = ClientFiles
        /\ library = [m \in MediaIds |-> IF m \in DOMAIN clients THEN ClientMedia(clients[m])
                                         ELSE NoMedia]
  BY Zenon DEF Init, RowInit
<1>2. /\ library \in [MediaIds -> Attachment]
      /\ \A m \in MediaIds : ~library[m].hash
  BY <1>1 DEF ClientMedia, NoMedia, Attachment
<1>3. pages \in [PageIds -> PageOf]
  BY DEF Init, RowInit, NoPage, PageOf
<1>4. TriesTypeOK
  BY DEF Init, RowInit, TriesTypeOK
<1>5. row \in Languages
  BY DEF Init, RowInit, Languages
<1>6. RowTypeOK
  BY <1>2, <1>3, <1>4, <1>5 DEF Init, RowInit, RowTypeOK, NoId
<1>7. pc = "idle" /\ token = "none" /\ refreshed = FALSE /\ pointed = 0
  BY DEF Init
<1>9. TypeOK
  <2>1. pointed \in 0..MaxRuns
    BY <1>7
  <2>2. pc \in Pcs /\ token \in {"none", "good", "revoked"} /\ refreshed \in BOOLEAN
    BY <1>7 DEF Pcs
  <2>. QED
    BY <1>6, <2>1, <2>2 DEF TypeOK
<1>8. SlugMeansWhole
  BY <1>2 DEF SlugMeansWhole
<1>. QED
  BY <1>8, <1>9 DEF Inductive, Init, RowInit, ChosenFits, UploadIsOurs, TargetIsOwn,
                    OutcomesAreTrue, InRow, Uploading, Attached, NoId

\* A step of a row keeps its types and leaves the record's part alone.
LEMMA RowStepTypes ==
  ASSUME Inductive, RowStep
  PROVE  /\ TypeOK'
         /\ run \in Nat /\ run' = run /\ recorded' = recorded /\ pointed' = pointed
<1>. USE DEF Inductive, RowStep
<1>1. /\ run' = run /\ recorded' = recorded /\ pointed' = pointed
      /\ token' = token /\ refreshed' = refreshed
  BY DEF RowMoves, Stays, Stay, TakesUp, Chooses, Choose, Uploads, Fails, FailRow, Withdraws, GoTo,
         Targets, Serves, runVars, recordVars
<1>2. run \in Nat
  BY RowWritesAssumption DEF TypeOK, RowTypeOK
<1>3. pc' \in Pcs
  BY DEF RowMoves, Stays, Stay, TakesUp, Chooses, Choose, Uploads, Fails, FailRow, Withdraws, GoTo,
         Targets, Serves, TypeOK, Pcs, Attached
<1>4. row' \in Languages
  BY DEF RowMoves, Stays, Stay, TakesUp, Chooses, Choose, Uploads, Fails, FailRow, Withdraws, GoTo,
         Targets, Serves, TypeOK, RowTypeOK, ClearRow, rowVars
<1>5. /\ outcome' \in [Languages -> {"pending", "ok", "failed"}]
      /\ result' \in [Languages -> PageIds \cup {NoId}]
  BY DEF RowMoves, Stays, Stay, TakesUp, Chooses, Choose, Uploads, Fails, FailRow, Withdraws, GoTo,
         Targets, Serves, TypeOK, RowTypeOK, ClearRow, rowVars, runVars
<1>6. chosen' \in Seq(MediaIds \cup {NoId})
  <2>1. chosen' = chosen \/ chosen' = <<>> \/ Chooses
    BY DEF RowMoves, Stays, Stay, TakesUp, Uploads, Fails, FailRow, Withdraws, GoTo,
           Targets, Serves, ClearRow, rowVars
  <2>2. CASE Chooses
    <3>1. PICK m \in MediaIds \cup {NoId} : Choose(m)
      BY <2>2 DEF Chooses
    <3>. QED
      BY <3>1 DEF Choose, TypeOK, RowTypeOK
  <2>3. <<>> \in Seq(MediaIds \cup {NoId})
    OBVIOUS
  <2>4. chosen \in Seq(MediaIds \cup {NoId})
    BY DEF TypeOK, RowTypeOK
  <2>. QED
    BY <2>1, <2>2, <2>3, <2>4 DEF Chooses
<1>7. created' \in SUBSET MediaIds
  BY DEF RowMoves, Stays, Stay, TakesUp, Chooses, Choose, Uploads, Fails, FailRow, Withdraws, GoTo,
         Targets, Serves, TypeOK, RowTypeOK, ClearRow, rowVars
<1>8. upload' \in MediaIds \cup {NoId}
  BY DEF RowMoves, Stays, Stay, TakesUp, Chooses, Choose, Uploads, Fails, FailRow, Withdraws, GoTo,
         Targets, Serves, TypeOK, RowTypeOK, ClearRow, rowVars
<1>9. target' \in PageIds \cup {NoId}
  BY DEF RowMoves, Stays, Stay, TakesUp, Chooses, Choose, Uploads, Fails, FailRow, Withdraws, GoTo,
         Targets, Serves, TypeOK, RowTypeOK, ClearRow, rowVars
<1>10. RowTypeOK'
  BY <1>1, <1>4, <1>5, <1>6, <1>7, <1>8, <1>9 DEF RowTypeOK, TypeOK, KeepsMedia, KeepsPages
<1>. QED
  BY <1>1, <1>2, <1>3, <1>10 DEF TypeOK

\* It leaves the files and the upload of the row in order.
LEMMA RowStepUploads ==
  ASSUME Inductive, RowStep
  PROVE  ChosenFits' /\ UploadIsOurs'
<1>. USE DEF Inductive, RowStep, Uploading, Attached, InRow
<1>1. CASE Stays
  BY <1>1 DEF Stays, Stay, rowVars, ChosenFits, UploadIsOurs, KeepsMedia
<1>2. CASE TakesUp
  <2>1. chosen' = <<>>
    BY <1>2 DEF TakesUp, ChosenFits
  <2>2. FilesOf[row'] \in Seq(Files) /\ FilesOf[row'] # <<>>
    BY <1>2, RowWritesAssumption DEF TakesUp
  <2>3. Len(chosen') < Len(FilesOf[row'])
    BY <2>1, <2>2
  <2>. QED
    BY <1>2, <2>3 DEF TakesUp, ChosenFits, UploadIsOurs
<1>3. CASE Chooses
  <2>1. /\ chosen \in Seq(MediaIds \cup {NoId})
        /\ FilesOf[row] \in Seq(Files)
        /\ Len(chosen) < Len(FilesOf[row])
    BY <1>3, RowWritesAssumption DEF Chooses, ChosenFits, TypeOK, RowTypeOK
  <2>2. PICK m \in MediaIds \cup {NoId} : Choose(m)
    BY <1>3 DEF Chooses
  <2>3. Len(chosen') = Len(chosen) + 1 /\ row' = row
    BY <2>1, <2>2 DEF Choose
  <2>4. \/ pc' = "lookup"
        \/ pc' = "find" /\ Len(chosen) + 1 # Len(FilesOf[row])
    BY <2>2 DEF Choose
  <2>5. Len(chosen) \in Nat /\ Len(FilesOf[row]) \in Nat
    BY <2>1
  <2>. QED
    BY <2>1, <2>3, <2>4, <2>5 DEF ChosenFits, UploadIsOurs
<1>4. CASE Uploads
  BY <1>4 DEF Uploads, ChosenFits, UploadIsOurs
<1>5. CASE Fails
  BY <1>5 DEF Fails, FailRow, ClearRow, ChosenFits, UploadIsOurs
<1>6. CASE Withdraws
  BY <1>6 DEF Withdraws, GoTo, rowVars, ChosenFits, UploadIsOurs
<1>7. CASE Targets
  BY <1>7 DEF Targets, GoTo, rowVars, ChosenFits, UploadIsOurs
<1>8. CASE Serves
  BY <1>8 DEF Serves, ClearRow, ChosenFits, UploadIsOurs
<1>. QED
  BY <1>1, <1>2, <1>3, <1>4, <1>5, <1>6, <1>7, <1>8 DEF RowMoves

\* It writes to pages of the row's language only, so that the rows that came out ok
\* still show the run.
LEMMA RowStepPages ==
  ASSUME Inductive, RowStep
  PROVE  TargetIsOwn' /\ OutcomesAreTrue'
<1>. USE DEF Inductive, RowStep
<1>1. /\ run \in Nat /\ run' = run /\ recorded' = recorded /\ pointed' = pointed
  BY RowStepTypes
<1>2. row \in Languages /\ "none" \notin Languages /\ NoId \notin PageIds
  BY RowWritesAssumption DEF TypeOK, RowTypeOK
<1>3. ASSUME NEW l \in Languages, recorded[l] # NoId
      PROVE  pages'[recorded'[l]].language = l
  BY <1>1, <1>2, <1>3 DEF TargetIsOwn, KeepsPages, TypeOK, RowTypeOK
<1>4. ASSUME NEW l \in Languages, l # row, outcome[l] = "ok", result'[l] = result[l]
      PROVE  ShowsTheRun(l)'
  BY <1>1, <1>2, <1>4 DEF OutcomesAreTrue, KeepsPages, ShowsTheRun
<1>5. ASSUME pc \in InRow, outcome' = outcome, result' = result
      PROVE  \A l \in Languages : outcome'[l] = "ok" => ShowsTheRun(l)'
  BY <1>2, <1>4, <1>5 DEF OutcomesAreTrue
<1>6. CASE Stays
  <2>1. TargetIsOwn'
    BY <1>1, <1>2, <1>3, <1>6 DEF Stays, Stay, runVars, rowVars, TargetIsOwn, KeepsPages,
                                  TypeOK, RowTypeOK
  <2>. QED
    BY <1>1, <1>5, <1>6, <2>1 DEF Stays, Stay, runVars, rowVars, OutcomesAreTrue
<1>7. CASE TakesUp
  <2>1. TargetIsOwn'
    BY <1>1, <1>3, <1>7 DEF TakesUp, TargetIsOwn
  <2>2. \A l \in Languages : outcome[l] = "ok" => ShowsTheRun(l)'
    BY <1>1, <1>7 DEF TakesUp, runVars, OutcomesAreTrue, ShowsTheRun
  <2>. QED
    BY <1>1, <1>7, <2>1, <2>2 DEF TakesUp, runVars, OutcomesAreTrue, InRow, Uploading
<1>8. CASE Chooses
  <2>1. TargetIsOwn'
    BY <1>1, <1>3, <1>8 DEF Chooses, Choose, TargetIsOwn
  <2>. QED
    BY <1>1, <1>2, <1>5, <1>8, <2>1 DEF Chooses, Choose, runVars, OutcomesAreTrue, InRow,
                                   Uploading
<1>9. CASE Uploads
  <2>1. TargetIsOwn'
    BY <1>1, <1>3, <1>9 DEF Uploads, TargetIsOwn, Attached
  <2>. QED
    BY <1>1, <1>2, <1>5, <1>9, <2>1 DEF Uploads, runVars, OutcomesAreTrue, InRow, Uploading,
                                   Attached
<1>10. CASE Fails
  <2>1. TargetIsOwn'
    BY <1>1, <1>3, <1>10 DEF Fails, FailRow, TargetIsOwn
  <2>2. outcome' = [outcome EXCEPT ![row] = "failed"] /\ result' = result
    BY <1>10 DEF Fails, FailRow
  <2>3. ASSUME NEW l \in Languages, outcome'[l] = "ok" PROVE l # row /\ outcome[l] = "ok"
    BY <2>2, <2>3 DEF TypeOK, RowTypeOK
  <2>. QED
    BY <1>1, <1>4, <1>10, <2>1, <2>2, <2>3 DEF Fails, FailRow, OutcomesAreTrue, InRow,
                                               Uploading
<1>11. CASE Withdraws
  <2>1. TargetIsOwn'
    BY <1>1, <1>3, <1>11 DEF Withdraws, GoTo, TargetIsOwn
  <2>. QED
    BY <1>1, <1>5, <1>11, <2>1 DEF Withdraws, GoTo, runVars, rowVars, OutcomesAreTrue, InRow,
                                   Uploading
<1>12. CASE Targets
  <2>1. TargetIsOwn'
    BY <1>1, <1>2, <1>3, <1>12 DEF Targets, GoTo, rowVars, TargetIsOwn, KeepsPages
  <2>. QED
    BY <1>1, <1>5, <1>12, <2>1 DEF Targets, GoTo, runVars, rowVars, OutcomesAreTrue, InRow,
                                   Uploading
<1>13. CASE Serves
  <2>1. TargetIsOwn'
    BY <1>1, <1>3, <1>13 DEF Serves, TargetIsOwn
  <2>2. /\ outcome[row] = "pending" /\ target \in PageIds
        /\ pages[target].language = row
        /\ pages[target].body = run /\ pages[target].acf = run
    BY <1>2, <1>13 DEF Serves, TargetIsOwn, OutcomesAreTrue, InRow, Uploading
  <2>3. ASSUME NEW l \in Languages, outcome'[l] = "ok" PROVE ShowsTheRun(l)'
    <3>1. CASE l # row
      BY <1>4, <1>13, <2>3, <3>1 DEF Serves, TypeOK, RowTypeOK
    <3>2. CASE l = row
      BY <1>1, <1>13, <2>2, <3>2 DEF Serves, ShowsTheRun, TypeOK, RowTypeOK
    <3>. QED
      BY <3>1, <3>2
  <2>. QED
    BY <1>1, <1>13, <2>1, <2>2, <2>3 DEF Serves, OutcomesAreTrue, InRow, Uploading, ClearRow
<1>. QED
  BY <1>6, <1>7, <1>8, <1>9, <1>10, <1>11, <1>12, <1>13 DEF RowMoves

-------------------------------------------------------------------------------
(* Every action of a row is such a step. *)

\* A step may leave the library alone.
LEMMA SameMedia ==
  ASSUME Inductive, UNCHANGED library
  PROVE  KeepsMedia
BY DEF Inductive, TypeOK, RowTypeOK, SlugMeansWhole, UploadIsOurs, KeepsMedia

\* It may leave the pages alone.
LEMMA SamePages ==
  ASSUME Inductive, UNCHANGED pages
  PROVE  KeepsPages
BY DEF Inductive, TypeOK, RowTypeOK, KeepsPages

\* Attachments that are not the client's may be deleted.
LEMMA DeletionKeepsMedia ==
  ASSUME Inductive, NEW gone \in SUBSET MediaIds,
         \A m \in gone : library[m].slug => library[m].hash,
         library' = [m \in MediaIds |-> IF m \in gone THEN Deleted ELSE library[m]]
  PROVE  KeepsMedia
<1>1. Deleted \in Attachment /\ ~Deleted.slug
  BY DEF Deleted, NoMedia, Attachment
<1>. QED
  BY <1>1 DEF Inductive, TypeOK, RowTypeOK, SlugMeansWhole, UploadIsOurs, Attached,
              KeepsMedia, Deleted, NoMedia

\* So may the row's own upload.
LEMMA UploadDeleted ==
  ASSUME Inductive, pc \in Attached, library' = [library EXCEPT ![upload] = Deleted]
  PROVE  KeepsMedia
<1>1. /\ upload \in MediaIds
      /\ library[upload].slug => library[upload].hash
  BY DEF Inductive, UploadIsOurs
<1>2. library' = [m \in MediaIds |-> IF m \in {upload} THEN Deleted ELSE library[m]]
  BY DEF Inductive, TypeOK, RowTypeOK
<1>. QED
  BY <1>1, <1>2, DeletionKeepsMedia

\* A row that starts has nothing yet.
LEMMA StartRowSteps ==
  ASSUME Inductive, NEW i \in DOMAIN Plan, StartRow(i), UNCHANGED recordVars
  PROVE  RowStep
<1>1. KeepsMedia /\ KeepsPages
  BY SameMedia, SamePages DEF StartRow, siteVars
<1>2. TakesUp
  BY DEF StartRow, TakesUp, Languages, siteVars
<1>3. TriesTypeOK'
  BY DEF StartRow, Inductive, TypeOK, RowTypeOK, TriesTypeOK, tryVars
<1>. QED
  BY <1>1, <1>2, <1>3 DEF RowStep, RowMoves

\* A row may be refused, or go without a file.
LEMMA EarlyEndSteps ==
  ASSUME Inductive, RefuseRow \/ GoWithout, UNCHANGED recordVars
  PROVE  RowStep
<1>1. KeepsMedia /\ KeepsPages
  BY SameMedia, SamePages DEF RefuseRow, GoWithout, siteVars
<1>2. Fails \/ Chooses
  BY DEF RefuseRow, GoWithout, Fails, Chooses, InRow, Uploading, Inductive, TypeOK, RowTypeOK
<1>3. TriesTypeOK'
  BY DEF RefuseRow, GoWithout, Inductive, TypeOK, RowTypeOK, TriesTypeOK, tryVars
<1>. QED
  BY <1>1, <1>2, <1>3 DEF RowStep, RowMoves

\* The number of tries stays below its limits.
LEMMA Tries ==
  ASSUME Inductive
  PROVE  /\ tries429 \in 0..MaxTries429 - 1 /\ tries5xx \in 0..MaxTries5xx - 1
         /\ FreshTries => TriesTypeOK'
         /\ UNCHANGED tryVars => TriesTypeOK'
         /\ tries5xx + 1 < MaxTries5xx /\ tries5xx' = tries5xx + 1 /\ UNCHANGED tries429
               => TriesTypeOK'
         /\ tries429 + 1 < MaxTries429 /\ tries429' = tries429 + 1 /\ UNCHANGED tries5xx
               => TriesTypeOK'
<1>1. /\ tries429 \in 0..MaxTries429 - 1 /\ tries5xx \in 0..MaxTries5xx - 1
      /\ MaxTries429 \in Nat \ {0} /\ MaxTries5xx \in Nat \ {0}
  BY RequestsAssumption DEF Inductive, TypeOK, RowTypeOK, TriesTypeOK
<1>. QED
  BY <1>1 DEF TriesTypeOK, FreshTries, tryVars

\* A file is found, discarded or still to be created.
LEMMA FindMediaSteps ==
  ASSUME Inductive, FindMedia, UNCHANGED recordVars
  PROVE  RowStep
<1>1. KeepsMedia /\ KeepsPages
  BY SameMedia, SamePages DEF FindMedia, siteVars
<1>2. TriesTypeOK'
  BY Tries, RequestsAssumption
  DEF FindMedia, Reads, Answered, Troubled, Declined, RateLimited
<1>3. \/ Stay
      \/ FailRow
      \/ GoTo("create")
      \/ \E m \in Held(File) : UseHeld(m)
  BY DEF FindMedia, Reads, Answered, Troubled, Declined, RateLimited
<1>4. pc = "find" /\ UNCHANGED library
  BY DEF FindMedia, siteVars
<1>5. ASSUME NEW m \in Held(File), UseHeld(m) PROVE RowMoves
  <2>1. m \in MediaIds
    BY DEF Held
  <2>2. CASE Choose(m) /\ UNCHANGED created
    BY <1>4, <2>1, <2>2 DEF Chooses, RowMoves, Uploading, Inductive, TypeOK, RowTypeOK
  <2>3. CASE DiscardFragment(m)
    BY <1>4, <2>1, <2>3 DEF DiscardFragment, Uploads, Fails, RowMoves, Uploading, Attached, InRow
  <2>. QED
    BY <1>5, <2>2, <2>3 DEF UseHeld
<1>6. ASSUME GoTo("create") PROVE RowMoves
  BY <1>4, <1>6 DEF GoTo, rowVars, Uploads, RowMoves, Uploading, Attached, Inductive, TypeOK,
                    RowTypeOK
<1>7. RowMoves
  BY <1>3, <1>4, <1>5, <1>6 DEF RowMoves, Stays, Fails, InRow, Uploading
<1>. QED
  BY <1>1, <1>2, <1>7 DEF RowStep

\* A fragment is discarded before the file is uploaded anew.
LEMMA DiscardMediaSteps ==
  ASSUME Inductive, DiscardMedia, UNCHANGED recordVars
  PROVE  RowStep
<1>1. pc = "discard" /\ UNCHANGED pages
  BY DEF DiscardMedia
<1>2. KeepsMedia /\ KeepsPages
  BY <1>1, SameMedia, SamePages, UploadDeleted DEF DiscardMedia, Attached
<1>3. TriesTypeOK'
  BY Tries, RequestsAssumption
  DEF DiscardMedia, Answered, Troubled, Aborted, Declined, RateLimited
<1>4. Stay \/ FailRow \/ GoTo("create")
  BY DEF DiscardMedia, Answered, Troubled, Aborted, Declined, RateLimited
<1>5. RowMoves
  BY <1>1, <1>4 DEF GoTo, rowVars, Uploads, Stays, Fails, RowMoves, InRow, Uploading, Attached,
                    Inductive, TypeOK, RowTypeOK
<1>. QED
  BY <1>2, <1>3, <1>5 DEF RowStep

\* A new attachment has no slug yet; it is finalised only if nobody knows it short.
LEMMA CreateMediaSteps ==
  ASSUME Inductive, CreateMedia, UNCHANGED recordVars
  PROVE  RowStep
<1>1. pc = "create" /\ UNCHANGED pages
  BY DEF CreateMedia
<1>2. TriesTypeOK'
  BY Tries, RequestsAssumption
  DEF CreateMedia, Answered, Troubled, Aborted, Declined, RateLimited
<1>3. File \in Files
  <2>1. /\ chosen \in Seq(MediaIds \cup {NoId}) /\ row \in Languages
        /\ FilesOf[row] \in Seq(Files) /\ Len(chosen) < Len(FilesOf[row])
    BY <1>1, RowWritesAssumption DEF Inductive, TypeOK, RowTypeOK, ChosenFits, Uploading
  <2>. QED
    BY <2>1 DEF File
<1>4. ASSUME NEW m \in NextMedia, NEW whole \in BOOLEAN, NEW measured \in BOOLEAN,
             library' = [library EXCEPT ![m] = Uploaded(File, whole, measured)]
      PROVE  /\ KeepsMedia
             /\ CheckUpload(m, whole, measured) => Uploads
  <2>1. m \in MediaIds /\ library[m] = NoMedia
    BY <1>4, RowWritesAssumption DEF NextMedia
  <2>2. /\ library'[m] = Uploaded(File, whole, measured)
        /\ library' \in [MediaIds -> Attachment]
        /\ \A n \in MediaIds \ {m} : library'[n] = library[n]
    BY <1>3, <1>4, <2>1 DEF Inductive, TypeOK, RowTypeOK, Uploaded, Attachment
  <2>3. ~library'[m].slug /\ library'[m].checked = measured /\ library'[m].whole = whole
    BY <2>2 DEF Uploaded
  <2>4. KeepsMedia
    BY <1>1, <2>1, <2>2, <2>3 DEF KeepsMedia, Inductive, SlugMeansWhole, NoMedia, Attached
  <2>. QED
    BY <1>1, <2>1, <2>3, <2>4 DEF CheckUpload, Uploads, Uploading, Attached
<1>5. \/ KeepsMedia /\ (Stay \/ FailRow)
      \/ KeepsMedia /\ Uploads
  <2>1. CASE UNCHANGED library
    BY <2>1, SameMedia, <1>1, <1>4 DEF CreateMedia, Answered, Troubled, Aborted, Declined, RateLimited
  <2>2. CASE ~UNCHANGED library
    BY <2>2, <1>4 DEF CreateMedia, Answered, Troubled, Aborted
  <2>. QED
    BY <2>1, <2>2
<1>. QED
  BY <1>1, <1>2, <1>5, SamePages DEF RowStep, RowMoves, Stays, Fails, InRow, Uploading

\* An upload known to be short fails its row.
LEMMA DropFragmentSteps ==
  ASSUME Inductive, DropFragment, UNCHANGED recordVars
  PROVE  RowStep
<1>1. pc = "fragment" /\ UNCHANGED pages /\ FailRow /\ UNCHANGED tryVars
  BY DEF DropFragment
<1>2. KeepsMedia
  BY <1>1, SameMedia, UploadDeleted DEF DropFragment, Attached
<1>3. Fails
  BY <1>1 DEF Fails, InRow, Uploading
<1>. QED
  BY <1>1, <1>2, <1>3, SamePages, Tries DEF RowStep, RowMoves

\* Only an upload nobody knows to be short gets the slug.
LEMMA FinaliseMediaSteps ==
  ASSUME Inductive, FinaliseMedia, UNCHANGED recordVars
  PROVE  RowStep
<1>1. pc = "finalise" /\ UNCHANGED pages /\ upload \in MediaIds
  BY DEF FinaliseMedia, Inductive, UploadIsOurs, Attached
<1>2. TriesTypeOK'
  BY Tries, RequestsAssumption
  DEF FinaliseMedia, Writes, Answered, Troubled, Aborted, Declined, RateLimited
<1>3. ASSUME library' = [library EXCEPT ![upload].slug = TRUE, ![upload].hash = TRUE]
      PROVE  KeepsMedia
  <2>1. library[upload] \in Attachment
    BY <1>1 DEF Inductive, TypeOK, RowTypeOK
  <2>2. /\ library' \in [MediaIds -> Attachment]
        /\ \A n \in MediaIds \ {upload} : library'[n] = library[n]
        /\ library'[upload].hash
        /\ library'[upload].checked = library[upload].checked
        /\ library'[upload].whole = library[upload].whole
    BY <1>1, <1>3, <2>1 DEF Inductive, TypeOK, RowTypeOK, Attachment
  <2>. QED
    BY <1>1, <2>2 DEF KeepsMedia, Inductive, SlugMeansWhole, UploadIsOurs, Attached
<1>4. KeepsMedia
  BY <1>3, SameMedia DEF FinaliseMedia, Writes
<1>5. Stay \/ FailRow \/ (Choose(upload) /\ created' = created \cup {upload})
  BY DEF FinaliseMedia, Writes, Answered, Troubled, Aborted, Declined, RateLimited
<1>6. Choose(upload) /\ created' = created \cup {upload} => Chooses
  BY <1>1 DEF Chooses, Uploading, Inductive, TypeOK, RowTypeOK
<1>. QED
  BY <1>1, <1>2, <1>4, <1>5, <1>6, SamePages
  DEF RowStep, RowMoves, Stays, Fails, InRow, Uploading

\* The rollback asks of each attachment whether it is ours.
LEMMA RollBackSteps ==
  ASSUME Inductive, RollBack, UNCHANGED recordVars
  PROVE  RowStep
<1>1. pc = "rollback" /\ UNCHANGED pages /\ FailRow /\ UNCHANGED tryVars
  BY DEF RollBack
<1>2. PICK gone \in SUBSET {m \in RollBackOwn : library[m].hash} :
        library' = [m \in MediaIds |-> IF m \in gone THEN Deleted ELSE library[m]]
  BY DEF RollBack
<1>3. gone \in SUBSET MediaIds /\ \A m \in gone : library[m].slug => library[m].hash
  BY <1>2 DEF RollBackOwn, Inductive, TypeOK, RowTypeOK
<1>4. KeepsMedia
  BY <1>2, <1>3, DeletionKeepsMedia
<1>. QED
  BY <1>1, <1>4, SamePages, Tries DEF RowStep, RowMoves, Fails, InRow

\* The page found is one of the row's language.
LEMMA LookUpPageSteps ==
  ASSUME Inductive, LookUpPage, UNCHANGED recordVars
  PROVE  RowStep
<1>1. pc = "lookup" /\ UNCHANGED pages /\ UNCHANGED library
  BY DEF LookUpPage, siteVars
<1>2. TriesTypeOK'
  BY Tries, RequestsAssumption
  DEF LookUpPage, Reads, Answered, Troubled, Declined, RateLimited
<1>3. ASSUME NEW p \in Found
      PROVE  p \in PageIds \cup {NoId} /\ (p # NoId => pages[p].language = row)
  BY DEF Found, PagesOf, Inductive, TypeOK, RowTypeOK, TargetIsOwn
<1>4. \/ Stay \/ GoTo("rollback")
      \/ \E p \in Found : /\ target' = p /\ pc' = "write"
                          /\ UNCHANGED <<row, chosen, created, upload, runVars>>
  BY DEF LookUpPage, Reads, Answered, Troubled, Declined, RateLimited
<1>5. RowMoves
  BY <1>1, <1>3, <1>4 DEF RowMoves, Stays, Withdraws, Targets, InRow
<1>. QED
  BY <1>1, <1>2, <1>5, SameMedia, SamePages DEF RowStep

\* The page written is of the row's language and has this run's body.
LEMMA WritePageSteps ==
  ASSUME Inductive, WritePage, UNCHANGED recordVars
  PROVE  RowStep
<1>1. pc = "write" /\ UNCHANGED library
  BY DEF WritePage
<1>2. TriesTypeOK'
  BY Tries, RequestsAssumption
  DEF WritePage, Answered, Troubled, Aborted, Declined, RateLimited
<1>3. ASSUME NEW p \in (IF target = NoId THEN NextPage ELSE {target}),
             pages' = [pages EXCEPT ![p] = IF target = NoId THEN NewPage ELSE Updated(@)]
      PROVE  /\ KeepsPages
             /\ p \in PageIds /\ pages'[p].language = row /\ pages'[p].body = run
  <2>1. /\ p \in PageIds
        /\ target = NoId => pages[p] = NoPage
        /\ target # NoId => pages[p].language = row
    BY <1>1, <1>3, RowWritesAssumption
    DEF NextPage, Inductive, TypeOK, RowTypeOK, TargetIsOwn
  <2>2. Hero \in MediaIds \cup {NoId}
    BY <1>1 DEF Hero, Inductive, ChosenFits, InRow, Uploading, TypeOK, RowTypeOK
  <2>3. run \in 0..MaxRuns /\ row \in Languages /\ pages[p] \in PageOf
    BY <2>1 DEF Inductive, TypeOK, RowTypeOK
  <2>4. /\ NewPage \in PageOf /\ NewPage.language = row /\ NewPage.body = run
    BY <2>2, <2>3, RowWritesAssumption DEF NewPage, NoPage, PageOf
  <2>5. /\ Updated(pages[p]) \in PageOf
        /\ Updated(pages[p]).language = pages[p].language
        /\ Updated(pages[p]).body = run
    BY <2>2, <2>3 DEF Updated, PageOf
  <2>6. /\ pages' \in [PageIds -> PageOf]
        /\ \A q \in PageIds \ {p} : pages'[q] = pages[q]
        /\ pages'[p].language = row /\ pages'[p].body = run
    BY <1>3, <2>1, <2>4, <2>5 DEF Inductive, TypeOK, RowTypeOK
  <2>7. pages[p].language \in {row, "none"}
    BY <2>1 DEF NoPage
  <2>. QED
    BY <2>1, <2>6, <2>7 DEF KeepsPages
<1>4. ASSUME NEW p \in (IF target = NoId THEN NextPage ELSE {target}),
             pages' = [pages EXCEPT ![p] = IF target = NoId THEN NewPage ELSE Updated(@)],
             \/ Answered(/\ target' = p /\ pc' = "acf"
                         /\ UNCHANGED <<row, chosen, created, upload, runVars>>)
             \/ Troubled(Stay, GoTo("rollback")) \/ Aborted(GoTo("rollback"))
      PROVE  KeepsPages /\ RowMoves
  <2>1. KeepsPages /\ p \in PageIds /\ pages'[p].language = row /\ pages'[p].body = run
    BY <1>3, <1>4
  <2>. QED
    BY <1>1, <1>4, <2>1
    DEF Answered, Troubled, Aborted, RowMoves, Targets, Stays, Withdraws, InRow
<1>5. CASE UNCHANGED pages /\ (Troubled(Stay, GoTo("rollback")) \/ Declined(Stay, GoTo("rollback")))
  <2>1. Stay \/ GoTo("rollback")
    BY <1>5 DEF Troubled, Declined, RateLimited
  <2>. QED
    BY <1>1, <1>2, <1>5, <2>1, SameMedia, SamePages
    DEF RowStep, RowMoves, Stays, Withdraws, InRow
<1>. QED
  BY <1>1, <1>2, <1>4, <1>5, SameMedia DEF WritePage, RowStep

\* The fields go to the page that has this run's body.
LEMMA WriteAcfSteps ==
  ASSUME Inductive, WriteAcf, UNCHANGED recordVars
  PROVE  RowStep
<1>1. /\ pc = "acf" /\ UNCHANGED library
      /\ target \in PageIds /\ pages[target].language = row
  BY RowWritesAssumption DEF WriteAcf, Inductive, TargetIsOwn
<1>2. TriesTypeOK'
  BY Tries, RequestsAssumption
  DEF WriteAcf, Writes, Answered, Troubled, Aborted, Declined, RateLimited
<1>3. ASSUME pages' = [pages EXCEPT ![target] = WithAcf(@)]
      PROVE  KeepsPages /\ pages'[target].acf = run
  <2>1. pages[target] \in PageOf /\ run \in 0..MaxRuns /\ chosen \in Seq(MediaIds \cup {NoId})
    BY <1>1 DEF Inductive, TypeOK, RowTypeOK
  <2>2. ASSUME NEW f PROVE Given(f) \subseteq MediaIds
    BY <2>1 DEF Given
  <2>3. /\ WithAcf(pages[target]) \in PageOf
        /\ WithAcf(pages[target]).language = row
        /\ WithAcf(pages[target]).body = pages[target].body
        /\ WithAcf(pages[target]).acf = run
    BY <1>1, <2>1, <2>2 DEF WithAcf, PageOf
  <2>4. /\ pages' \in [PageIds -> PageOf]
        /\ pages'[target] = WithAcf(pages[target])
        /\ \A q \in PageIds \ {target} : pages'[q] = pages[q]
    BY <1>1, <1>3, <2>3 DEF Inductive, TypeOK, RowTypeOK
  <2>. QED
    BY <1>1, <2>3, <2>4 DEF KeepsPages
<1>4. \/ pages' = [pages EXCEPT ![target] = WithAcf(@)]
         /\ (Stay \/ GoTo("verify") \/ GoTo("rollback"))
      \/ UNCHANGED pages /\ (Stay \/ GoTo("rollback"))
  BY DEF WriteAcf, Writes, Answered, Troubled, Aborted, Declined, RateLimited
<1>5. KeepsPages /\ RowMoves
  BY <1>1, <1>3, <1>4, SamePages DEF RowMoves, Targets, Stays, Withdraws, InRow
<1>. QED
  BY <1>1, <1>2, <1>5, SameMedia DEF RowStep

\* A page that serves makes its row ok.
LEMMA VerifyPageSteps ==
  ASSUME Inductive, VerifyPage, UNCHANGED recordVars
  PROVE  RowStep
<1>1. KeepsMedia /\ KeepsPages
  BY SameMedia, SamePages DEF VerifyPage, siteVars
<1>2. Fails \/ Serves
  BY DEF VerifyPage, Fails, Serves, InRow, siteVars
<1>. QED
  BY <1>1, <1>2, Tries DEF VerifyPage, RowStep, RowMoves

\* So every action of a row is such a step.
LEMMA RowStepsAreSteps ==
  ASSUME Inductive, RowSteps, UNCHANGED recordVars
  PROVE  RowStep
BY StartRowSteps, EarlyEndSteps, FindMediaSteps, DiscardMediaSteps, CreateMediaSteps,
   DropFragmentSteps, FinaliseMediaSteps, LookUpPageSteps, WritePageSteps, WriteAcfSteps,
   RollBackSteps, VerifyPageSteps
DEF RowSteps

\* And every action of a row keeps the invariant.
LEMMA RowInductive ==
  ASSUME Inductive, RowSteps, UNCHANGED recordVars
  PROVE  Inductive'
<1>1. RowStep
  BY RowStepsAreSteps
<1>2. SlugMeansWhole'
  BY <1>1 DEF RowStep, KeepsMedia
<1>. QED
  BY <1>1, <1>2, RowStepTypes, RowStepUploads, RowStepPages DEF Inductive

-------------------------------------------------------------------------------
(* The steps around the rows leave the site and the row alone. *)

RecordMoves ==
    \/ /\ pc = "idle" /\ pc' = "next" /\ run' = run + 1 /\ run < MaxRuns
       /\ outcome' = [l \in Languages |-> "pending"]
       /\ result' = [l \in Languages |-> NoId]
       /\ UNCHANGED <<recorded, recordVars>>
    \/ /\ pc \notin InRow /\ pc' = "idle"
       /\ recorded' = result /\ pc = "commit"
       /\ UNCHANGED <<run, outcome, result, recordVars>>
    \/ /\ \/ pc' = pc
          \/ pc \notin InRow /\ pc' = "idle"
          \/ pc = "next" /\ pc' = "get" /\ \A l \in Languages : outcome[l] = "ok"
          \/ pc = "get" /\ pc' = "point"
          \/ pc = "point" /\ pc' = "commit"
       /\ pointed' = pointed \/ (pc = "point" /\ pointed' = run)
       /\ token' \in {"none", "good", "revoked"} /\ refreshed' \in BOOLEAN
       /\ UNCHANGED runVars

\* They keep the invariant.
LEMMA RecordMovesInductive ==
  ASSUME Inductive, RecordMoves, UNCHANGED <<siteVars, rowVars>>, TriesTypeOK'
  PROVE  Inductive'
<1>. USE DEF Inductive
<1>1. /\ MaxRuns \in Nat /\ run \in 0..MaxRuns /\ pointed \in 0..MaxRuns
      /\ NoId \notin PageIds
  BY RowWritesAssumption DEF TypeOK, RowTypeOK
<1>2. /\ library' = library /\ pages' = pages /\ row' = row /\ chosen' = chosen
      /\ created' = created /\ upload' = upload /\ target' = target
  BY DEF siteVars, rowVars
<1>3. /\ run' \in 0..MaxRuns /\ pointed' \in 0..MaxRuns /\ pointed' <= run'
  BY <1>1 DEF RecordMoves, runVars, recordVars, OutcomesAreTrue
<1>4. /\ pc' \in Pcs
      /\ pc' \in InRow => pc' = pc
      /\ pc' \notin InRow => pc \notin InRow
  BY DEF RecordMoves, TypeOK, Pcs, InRow, Uploading
<1>5. TypeOK'
  <2>1. /\ token' \in {"none", "good", "revoked"} /\ refreshed' \in BOOLEAN
    BY DEF RecordMoves, TypeOK, recordVars
  <2>2. /\ outcome' \in [Languages -> {"pending", "ok", "failed"}]
        /\ result' \in [Languages -> PageIds \cup {NoId}]
        /\ recorded' \in [Languages -> PageIds \cup {NoId}]
    BY DEF RecordMoves, TypeOK, RowTypeOK, runVars
  <2>3. RowTypeOK'
    BY <1>2, <1>3, <2>2 DEF TypeOK, RowTypeOK
  <2>. QED
    BY <1>3, <1>4, <2>1, <2>3 DEF TypeOK
<1>6. SlugMeansWhole'
  BY <1>2 DEF SlugMeansWhole
<1>7. ChosenFits' /\ UploadIsOurs'
  BY <1>2, <1>4 DEF ChosenFits, UploadIsOurs, InRow, Uploading, Attached
<1>8. pc' \in InRow => run' = run
  BY DEF RecordMoves, runVars, InRow, Uploading
<1>9. TargetIsOwn'
  <2>1. ASSUME NEW l \in Languages, recorded'[l] # NoId
        PROVE  pages'[recorded'[l]].language = l
    BY <1>2, <2>1 DEF RecordMoves, TargetIsOwn, OutcomesAreTrue, ShowsTheRun, runVars
  <2>. QED
    BY <1>2, <1>4, <1>8, <2>1 DEF TargetIsOwn, InRow, Uploading
<1>10. OutcomesAreTrue'
  <2>1. CASE pc = "idle" /\ run' = run + 1
    BY <1>1, <1>3, <2>1 DEF RecordMoves, recordVars, runVars, OutcomesAreTrue, InRow, Uploading
  <2>2. CASE UNCHANGED <<run, outcome, result>>
    <3>1. \A l \in Languages : ShowsTheRun(l) <=> ShowsTheRun(l)'
      BY <1>2, <2>2 DEF ShowsTheRun
    <3>2. pointed' = pointed \/ (pc = "point" /\ pointed' = run)
      BY DEF RecordMoves, recordVars
    <3>3. pc' \in {"get", "point", "commit"} =>
             pc \in {"get", "point"} \/ pc' = pc \/ \A l \in Languages : outcome[l] = "ok"
      BY DEF RecordMoves
    <3>. QED
      BY <1>2, <1>3, <1>4, <2>2, <3>1, <3>2, <3>3 DEF OutcomesAreTrue
  <2>. QED
    BY <2>1, <2>2 DEF RecordMoves, runVars
<1>. QED
  BY <1>5, <1>6, <1>7, <1>9, <1>10

\* Every action around the rows is such a move.
LEMMA ProductStepsAreMoves ==
  ASSUME Inductive,
         \/ StartRun \/ TokenAges \/ BlockProduct \/ FinishLinks
         \/ MintToken \/ Unauthorized \/ GetRecord \/ PointRecord \/ CommitState
  PROVE  RecordMoves /\ UNCHANGED <<siteVars, rowVars>> /\ TriesTypeOK'
<1>0. TypeOK /\ OutcomesAreTrue
  BY DEF Inductive
<1>1. CASE StartRun
  BY <1>1, Tries DEF StartRun, RecordMoves
<1>2. CASE TokenAges
  BY <1>0, <1>2, Tries DEF TokenAges, RecordMoves, TypeOK
<1>3. CASE BlockProduct
  BY <1>0, <1>3, Tries DEF BlockProduct, GoTo, RecordMoves, TypeOK, recordVars, InRow, Uploading
<1>4. CASE FinishLinks
  BY <1>0, <1>4, Tries DEF FinishLinks, GoTo, RecordMoves, TypeOK, recordVars
<1>5. CASE MintToken
  BY <1>0, <1>5, Tries
  DEF MintToken, Raise, Stay, GoTo, RecordMoves, RecordPcs, TypeOK, recordVars, InRow, Uploading
<1>6. CASE Unauthorized
  BY <1>0, <1>6, Tries
  DEF Unauthorized, Refresh, Raise, Stay, GoTo, RecordMoves, RecordPcs, TypeOK, recordVars,
      InRow, Uploading
<1>7. CASE GetRecord
  <2>1. TriesTypeOK'
    BY <1>7, Tries, RequestsAssumption
    DEF GetRecord, Reads, Answered, Troubled, Declined, RateLimited
  <2>2. StaySame \/ (GoTo("point") /\ refreshed' = FALSE) \/ Raise
    BY <1>7 DEF GetRecord, Reads, Answered, Troubled, Declined, RateLimited
  <2>. QED
    BY <1>0, <1>7, <2>1, <2>2
    DEF GetRecord, StaySame, Raise, Stay, GoTo, RecordMoves, TypeOK, recordVars, InRow, Uploading
<1>8. CASE PointRecord
  <2>1. TriesTypeOK'
    BY <1>8, Tries, RequestsAssumption
    DEF PointRecord, Writes, Answered, Troubled, Aborted, Declined, RateLimited
  <2>2. StaySame \/ (GoTo("commit") /\ refreshed' = FALSE) \/ Raise
    BY <1>8 DEF PointRecord, Writes, Answered, Troubled, Aborted, Declined, RateLimited
  <2>3. pointed' = run \/ pointed' = pointed
    BY <1>8 DEF PointRecord, Writes
  <2>. QED
    BY <1>0, <1>8, <2>1, <2>2, <2>3
    DEF PointRecord, StaySame, Raise, Stay, GoTo, RecordMoves, TypeOK, recordVars, InRow, Uploading
<1>9. CASE CommitState
  BY <1>9, Tries DEF CommitState, RecordMoves, recordVars, InRow, Uploading
<1>. QED
  BY <1>1, <1>2, <1>3, <1>4, <1>5, <1>6, <1>7, <1>8, <1>9

\* The invariant is kept by every step, and the client's media by every step from it.
LEMMA StepInductive ==
  ASSUME Inductive, [Next]_vars
  PROVE  /\ Inductive'
         /\ \A m \in MediaIds :
               library[m].slug /\ ~library[m].hash => library'[m] = library[m]
<1>1. CASE RowSteps /\ UNCHANGED recordVars
  BY <1>1, RowInductive, RowStepsAreSteps DEF RowStep, KeepsMedia
<1>2. CASE \/ StartRun \/ TokenAges \/ BlockProduct \/ FinishLinks
           \/ MintToken \/ Unauthorized \/ GetRecord \/ PointRecord \/ CommitState
  BY <1>2, ProductStepsAreMoves, RecordMovesInductive DEF siteVars
<1>3. CASE UNCHANGED vars
  <2>1. RecordMoves /\ UNCHANGED <<siteVars, rowVars>> /\ TriesTypeOK'
    BY <1>3, Tries DEF vars, RecordMoves, recordVars, Inductive, TypeOK
  <2>. QED
    BY <2>1, RecordMovesInductive DEF siteVars
<1>. QED
  BY <1>1, <1>2, <1>3 DEF Next, ProductSteps

\* The invariant always holds.
LEMMA Invariance == Spec => []Inductive
<1>1. Init => Inductive
  BY InitInductive
<1>2. Inductive /\ [Next]_vars => Inductive'
  BY StepInductive
<1>. QED
  BY <1>1, <1>2, PTL DEF Spec

-------------------------------------------------------------------------------
\* Every variable keeps its type, and no request is tried more often than its limits
\* allow (_request of both clients).
THEOREM CallsTypeCorrect == Spec => []TypeOK
<1>1. Inductive => TypeOK
  BY DEF Inductive
<1>. QED
  BY <1>1, Invariance, PTL

\* No upload that was measured short ever answers for the slug of its file, whatever
\* was lost or retried (_create_media, _assert_whole).
THEOREM ShortUploadsAreNeverFound == Spec => []SlugMeansWhole
<1>1. Inductive => SlugMeansWhole
  BY DEF Inductive
<1>. QED
  BY <1>1, Invariance, PTL

\* No step of any run deletes or changes an attachment of the client's (_is_whole,
\* delete_media).
THEOREM ClientMediaAreKept == Spec => ClientMediaStay
<1>1. Inductive /\ [Next]_vars =>
         [\A m \in MediaIds :
             library[m].slug /\ ~library[m].hash => library'[m] = library[m]]_vars
  BY StepInductive
<1>. QED
  BY <1>1, Invariance, PTL DEF Spec, ClientMediaStay

\* A record that names this run's pages names pages of the right languages whose body
\* and fields are both this run's (upsert_page, _execute_gtin).
THEOREM RecordPointsAtTheRun == Spec => []PointedPagesShowTheRun
<1>1. Inductive => PointedPagesShowTheRun
  BY DEF Inductive, OutcomesAreTrue, ShowsTheRun, PointedPagesShowTheRun
<1>. QED
  BY <1>1, Invariance, PTL

-------------------------------------------------------------------------------
(* The media of the pages that came out ok are out of reach of the rows     *)
(* after them.                                                             *)

Present(m) == library[m].file # "none"
InHand == {chosen[i] : i \in DOMAIN chosen} \ {NoId}

\* What the row in work may change although it is whole: its own upload on its way
\* to a slug, and on a rollback what it put there.
OwnMedia ==
    IF pc = "finalise" THEN {upload} ELSE IF pc = "rollback" THEN created ELSE {}

\* What the site has of the media: whatever a page or the row uses is there, and a
\* fragment is not whole.
MediaAreThere ==
    /\ \A p \in PageIds : \A m \in CarriedBy(pages[p]) : Present(m)
    /\ \A m \in InHand : Present(m)
    /\ pc \in Attached => Present(upload)
    /\ pc \in {"discard", "fragment"} => ~library[upload].whole

\* What the row put there, and what it is about to, is on no page of another row.
OwnMediaAreApart ==
    /\ pc \notin InRow => created = {}
    /\ pc \in InRow =>
          \A p \in PageIds : pages[p].language # row => CarriedBy(pages[p]) \cap created = {}
    /\ pc = "finalise" => \A p \in PageIds : upload \notin CarriedBy(pages[p])

MediaAreApart == MediaAreThere /\ OwnMediaAreApart

SparesMedia ==
    \A m \in MediaIds :
        /\ Present(m) => Present(m)' /\ (library'[m].whole => library[m].whole)
        /\ m \notin OwnMedia /\ library[m].whole => library'[m] = library[m]

AddsInHand ==
    \A p \in PageIds :
        \/ pages'[p] = pages[p]
        \/ /\ pc \in {"write", "acf"}
           /\ pages'[p].language = row
           /\ CarriedBy(pages'[p]) \subseteq CarriedBy(pages[p]) \cup InHand

\* What a step adds to the row in work.
TakesWhatIsThere ==
    /\ \A m \in InHand' : m \in InHand \/ Present(m)'
    /\ pc' \in Attached =>
          /\ pc \in Uploading
          /\ Present(upload)'
          /\ pc' # "finalise" => ~library'[upload'].whole
          /\ pc' = "finalise" => \A p \in PageIds : upload' \notin CarriedBy(pages[p])
    /\ pc' \notin InRow => created' = {}
    /\ pc' \in InRow => \/ pc \notin InRow /\ created' = {}
                        \/ pc \in InRow /\ row' = row /\ created' \subseteq created \cup OwnMedia

\* What a page carries are attachments.
LEMMA CarriedAreMedia ==
  ASSUME Inductive, NEW p \in PageIds
  PROVE  CarriedBy(pages[p]) \subseteq MediaIds
BY DEF Inductive, TypeOK, RowTypeOK, PageOf, CarriedBy

\* So is what a row has in hand.
LEMMA InHandAreMedia ==
  ASSUME Inductive
  PROVE  InHand \subseteq MediaIds
<1>1. chosen \in Seq(MediaIds \cup {NoId})
  BY DEF Inductive, TypeOK, RowTypeOK
<1>. QED
  BY <1>1 DEF InHand

\* Such a step keeps the media of the pages apart.
LEMMA MediaStayApart ==
  ASSUME Inductive, MediaAreApart, SparesMedia, AddsInHand, TakesWhatIsThere
  PROVE  MediaAreApart'
<1>1. ASSUME NEW p \in PageIds, NEW m \in CarriedBy(pages'[p])
      PROVE  Present(m)'
  <2>1. m \in CarriedBy(pages[p]) \/ m \in InHand
    BY <1>1 DEF AddsInHand
  <2>2. m \in MediaIds /\ Present(m)
    BY <2>1, CarriedAreMedia, InHandAreMedia DEF MediaAreApart, MediaAreThere
  <2>. QED
    BY <2>2 DEF SparesMedia
<1>2. ASSUME NEW m \in InHand' PROVE Present(m)'
  BY <1>2, InHandAreMedia DEF TakesWhatIsThere, SparesMedia, MediaAreApart, MediaAreThere
<1>3. MediaAreThere'
  BY <1>1, <1>2 DEF MediaAreThere, TakesWhatIsThere, Attached
<1>4. ASSUME NEW p \in PageIds, pc' \in InRow, pages'[p].language # row'
      PROVE  CarriedBy(pages'[p]) \cap created' = {}
  <2>1. CASE created' = {}
    BY <2>1
  <2>2. CASE pc \in InRow /\ row' = row /\ created' \subseteq created \cup OwnMedia
    <3>1. pages'[p] = pages[p]
      BY <1>4, <2>2 DEF AddsInHand
    <3>2. CarriedBy(pages[p]) \cap created = {}
      BY <1>4, <2>2, <3>1 DEF MediaAreApart, OwnMediaAreApart
    <3>3. CarriedBy(pages[p]) \cap OwnMedia = {}
      BY <3>2 DEF OwnMedia, MediaAreApart, OwnMediaAreApart
    <3>. QED
      BY <2>2, <3>1, <3>2, <3>3
  <2>. QED
    BY <1>4, <2>1, <2>2 DEF TakesWhatIsThere
<1>5. ASSUME NEW p \in PageIds, pc' = "finalise" PROVE upload' \notin CarriedBy(pages'[p])
  BY <1>5 DEF TakesWhatIsThere, AddsInHand, Attached, Uploading
<1>6. OwnMediaAreApart'
  BY <1>4, <1>5 DEF OwnMediaAreApart, TakesWhatIsThere
<1>. QED
  BY <1>3, <1>6 DEF MediaAreApart

\* Such a step spares the whole media of the rows that came out ok.
LEMMA OkPagesAreSpared ==
  ASSUME Inductive, MediaAreApart, SparesMedia,
         NEW l \in Languages, outcome[l] = "ok",
         NEW m \in CarriedBy(pages[result[l]]), library[m].whole
  PROVE  library'[m] = library[m]
<1>1. result[l] \in PageIds /\ pages[result[l]].language = l
  BY DEF Inductive, OutcomesAreTrue, ShowsTheRun
<1>2. m \in MediaIds
  BY <1>1, CarriedAreMedia
<1>3. pc \in InRow => row # l
  BY DEF Inductive, OutcomesAreTrue
<1>4. m \notin OwnMedia
  BY <1>1, <1>3 DEF OwnMedia, MediaAreApart, OwnMediaAreApart, InRow, Uploading
<1>. QED
  BY <1>2, <1>4 DEF SparesMedia


\* A library left alone is spared.
LEMMA SameLibrarySpares ==
  ASSUME UNCHANGED library
  PROVE  SparesMedia
BY DEF SparesMedia, Present

\* Pages left alone take nothing up.
LEMMA SamePagesAddNothing ==
  ASSUME UNCHANGED pages
  PROVE  AddsInHand
BY DEF AddsInHand

\* Waiting, failing, and going on with nothing new take nothing up.
LEMMA NothingTaken ==
  ASSUME Inductive, MediaAreApart, SparesMedia, pc \in InRow,
         \/ Stay \/ FailRow
         \/ \E next \in {"create", "verify", "rollback"} : GoTo(next)
  PROVE  TakesWhatIsThere
<1>1. CASE Stay
  <2>1. /\ pc' = pc /\ row' = row /\ created' = created /\ upload' = upload
        /\ InHand' = InHand
    BY <1>1 DEF Stay, rowVars, InHand
  <2>2. pc \in Attached => /\ upload \in MediaIds /\ Present(upload)
                           /\ pc # "finalise" => ~library[upload].whole
    BY DEF Inductive, UploadIsOurs, MediaAreApart, MediaAreThere, Attached
  <2>3. pc \in Attached => Present(upload)' /\ (pc # "finalise" => ~library'[upload].whole)
    BY <2>1, <2>2 DEF SparesMedia, Present
  <2>. QED
    BY <2>1, <2>2, <2>3
    DEF TakesWhatIsThere, MediaAreApart, OwnMediaAreApart, Attached, Uploading, InRow
<1>2. CASE FailRow
  <2>1. InHand' = {} /\ created' = {} /\ pc' = "next"
    BY <1>2 DEF FailRow, ClearRow, InHand
  <2>. QED
    BY <2>1 DEF TakesWhatIsThere, Attached, InRow, Uploading
<1>3. ASSUME NEW next \in {"create", "verify", "rollback"}, GoTo(next)
      PROVE  TakesWhatIsThere
  <2>1. pc' = next /\ row' = row /\ created' = created /\ InHand' = InHand
    BY <1>3 DEF GoTo, rowVars, InHand
  <2>. QED
    BY <2>1 DEF TakesWhatIsThere, Attached, InRow, Uploading
<1>. QED
  BY <1>1, <1>2, <1>3

\* A file gets an attachment that is there, or none.
LEMMA ChosenIsTaken ==
  ASSUME Inductive, pc \in Uploading, NEW m \in MediaIds \cup {NoId},
         m # NoId => library'[m].file # "none", Choose(m), created' \subseteq created \cup OwnMedia
  PROVE  TakesWhatIsThere
<1>1. chosen \in Seq(MediaIds \cup {NoId})
  BY DEF Inductive, TypeOK, RowTypeOK
<1>2. InHand' \subseteq InHand \cup ({m} \ {NoId})
  BY <1>1 DEF Choose, InHand
<1>3. pc' \in {"lookup", "find"} /\ row' = row
  BY DEF Choose
<1>. QED
  BY <1>2, <1>3 DEF TakesWhatIsThere, Present, Attached, InRow, Uploading

Spares == SparesMedia /\ AddsInHand /\ TakesWhatIsThere

\* A row that starts has put nothing there yet.
LEMMA StartRowSpares ==
  ASSUME Inductive, MediaAreApart, NEW i \in DOMAIN Plan, StartRow(i)
  PROVE  Spares
<1>1. SparesMedia /\ AddsInHand
  BY SameLibrarySpares, SamePagesAddNothing DEF StartRow, siteVars
<1>2. pc = "next" /\ pc' = "find" /\ created' = created /\ InHand' = InHand
  BY DEF StartRow, InHand
<1>3. created = {}
  BY <1>2 DEF MediaAreApart, OwnMediaAreApart, InRow, Uploading
<1>. QED
  BY <1>1, <1>2, <1>3 DEF Spares, TakesWhatIsThere, Attached, InRow, Uploading

\* A row that is refused, or goes without a file, takes nothing up.
LEMMA EarlyEndSpares ==
  ASSUME Inductive, MediaAreApart, RefuseRow \/ GoWithout
  PROVE  Spares
<1>1. SparesMedia /\ AddsInHand /\ pc = "find"
  BY SameLibrarySpares, SamePagesAddNothing DEF RefuseRow, GoWithout, siteVars
<1>2. FailRow \/ (Choose(NoId) /\ created' = created)
  BY DEF RefuseRow, GoWithout
<1>. QED
  BY <1>1, <1>2, NothingTaken, ChosenIsTaken DEF Spares, InRow, Uploading

\* The file in work is one of the plan's.
LEMMA FileIsAFile ==
  ASSUME Inductive, pc \in Uploading
  PROVE  File \in Files
<1>1. /\ chosen \in Seq(MediaIds \cup {NoId}) /\ row \in Languages
      /\ FilesOf[row] \in Seq(Files) /\ Len(chosen) < Len(FilesOf[row])
  BY RowWritesAssumption DEF Inductive, TypeOK, RowTypeOK, ChosenFits
<1>. QED
  BY <1>1 DEF File

\* What is found under a slug is there; it is discarded only if it is not whole.
LEMMA FindMediaSpares ==
  ASSUME Inductive, MediaAreApart, FindMedia
  PROVE  Spares
<1>1. SparesMedia /\ AddsInHand /\ pc = "find" /\ library' = library
  BY SameLibrarySpares, SamePagesAddNothing DEF FindMedia, siteVars
<1>2. \/ Stay \/ FailRow \/ GoTo("create")
      \/ \E m \in Held(File) : UseHeld(m)
  BY DEF FindMedia, Reads, Answered, Troubled, Declined, RateLimited
<1>3. ASSUME NEW m \in Held(File), UseHeld(m) PROVE TakesWhatIsThere
  <2>1. m \in MediaIds /\ Present(m) /\ Present(m)'
    BY <1>1, FileIsAFile, RowWritesAssumption DEF Held, Present, Uploading
  <2>2. CASE Choose(m) /\ UNCHANGED created
    BY <1>1, <2>1, <2>2, ChosenIsTaken DEF Present, Uploading
  <2>3. CASE FailRow
    BY <1>1, <2>3, NothingTaken DEF InRow, Uploading
  <2>4. CASE ~library[m].whole /\ library[m].hash /\ DiscardFragment(m)
    <3>1. /\ upload' = m /\ pc' = "discard" /\ row' = row /\ created' = created
          /\ InHand' = InHand
      BY <2>4 DEF DiscardFragment, InHand
    <3>. QED
      BY <1>1, <2>1, <2>4, <3>1 DEF TakesWhatIsThere, Attached, InRow, Uploading
  <2>. QED
    BY <1>3, <2>2, <2>3, <2>4 DEF UseHeld, DiscardFragment
<1>. QED
  BY <1>1, <1>2, <1>3, NothingTaken DEF Spares, InRow, Uploading


\* What is discarded or dropped is not whole.
LEMMA DeletingSpares ==
  ASSUME Inductive, MediaAreApart, pc \in {"discard", "fragment"},
         library' = [library EXCEPT ![upload] = Deleted]
  PROVE  SparesMedia
<1>1. upload \in MediaIds /\ ~library[upload].whole
  BY DEF Inductive, UploadIsOurs, Attached, MediaAreApart, MediaAreThere
<1>2. /\ library'[upload] = Deleted
      /\ \A m \in MediaIds \ {upload} : library'[m] = library[m]
  BY <1>1 DEF Inductive, TypeOK, RowTypeOK
<1>. QED
  BY <1>1, <1>2 DEF SparesMedia, Present, Deleted, NoMedia

\* Only a fragment is discarded.
LEMMA DiscardMediaSpares ==
  ASSUME Inductive, MediaAreApart, DiscardMedia
  PROVE  Spares
<1>1. pc = "discard" /\ AddsInHand
  BY SamePagesAddNothing DEF DiscardMedia
<1>2. SparesMedia
  BY <1>1, SameLibrarySpares, DeletingSpares DEF DiscardMedia
<1>3. Stay \/ FailRow \/ GoTo("create")
  BY DEF DiscardMedia, Answered, Troubled, Aborted, Declined, RateLimited
<1>. QED
  BY <1>1, <1>2, <1>3, NothingTaken DEF Spares, InRow, Uploading

\* Only an upload known to be short is dropped.
LEMMA DropFragmentSpares ==
  ASSUME Inductive, MediaAreApart, DropFragment
  PROVE  Spares
<1>1. pc = "fragment" /\ AddsInHand /\ FailRow
  BY SamePagesAddNothing DEF DropFragment
<1>2. SparesMedia
  BY <1>1, SameLibrarySpares, DeletingSpares DEF DropFragment
<1>. QED
  BY <1>1, <1>2, NothingTaken DEF Spares, InRow, Uploading

\* A new attachment is on no page, and it is whole unless it was measured short.
LEMMA CreateMediaSpares ==
  ASSUME Inductive, MediaAreApart, CreateMedia
  PROVE  Spares
<1>1. pc = "create" /\ AddsInHand
  BY SamePagesAddNothing DEF CreateMedia
<1>2. ASSUME NEW m \in NextMedia, NEW whole \in BOOLEAN, NEW measured \in BOOLEAN,
             library' = [library EXCEPT ![m] = Uploaded(File, whole, measured)]
      PROVE  /\ SparesMedia
             /\ CheckUpload(m, whole, measured) => TakesWhatIsThere
  <2>1. m \in MediaIds /\ library[m] = NoMedia
    BY RowWritesAssumption DEF NextMedia
  <2>2. /\ library'[m] = Uploaded(File, whole, measured)
        /\ \A n \in MediaIds \ {m} : library'[n] = library[n]
    BY <1>2, <2>1 DEF Inductive, TypeOK, RowTypeOK
  <2>3. ~Present(m) /\ ~library[m].whole /\ Present(m)'
    BY <1>1, <2>1, <2>2, FileIsAFile, RowWritesAssumption
    DEF Present, NoMedia, Uploaded, Uploading
  <2>4. SparesMedia
    BY <2>2, <2>3 DEF SparesMedia, Present
  <2>5. \A p \in PageIds : m \notin CarriedBy(pages[p])
    BY <2>3 DEF MediaAreApart, MediaAreThere
  <2>6. library'[m].whole = whole
    BY <2>2 DEF Uploaded
  <2>7. ASSUME CheckUpload(m, whole, measured) PROVE TakesWhatIsThere
    <3>1. /\ upload' = m /\ row' = row /\ created' = created /\ InHand' = InHand
          /\ pc' = IF measured /\ ~whole THEN "fragment" ELSE "finalise"
      BY <2>7 DEF CheckUpload, InHand
    <3>. QED
      BY <1>1, <2>3, <2>5, <2>6, <3>1 DEF TakesWhatIsThere, Attached, InRow, Uploading
  <2>. QED
    BY <2>4, <2>7
<1>3. \/ UNCHANGED library /\ (Stay \/ FailRow)
      \/ \E m \in NextMedia, whole, measured \in BOOLEAN :
            /\ library' = [library EXCEPT ![m] = Uploaded(File, whole, measured)]
            /\ Stay \/ FailRow \/ CheckUpload(m, whole, measured)
  BY DEF CreateMedia, Answered, Troubled, Aborted, Declined, RateLimited
<1>4. SparesMedia /\ (Stay \/ FailRow \/ TakesWhatIsThere)
  BY <1>2, <1>3, SameLibrarySpares
<1>. QED
  BY <1>1, <1>4, NothingTaken DEF Spares, InRow, Uploading

\* Only the row's own upload gets the slug.
LEMMA FinaliseMediaSpares ==
  ASSUME Inductive, MediaAreApart, FinaliseMedia
  PROVE  Spares
<1>1. /\ pc = "finalise" /\ AddsInHand
      /\ upload \in MediaIds /\ Present(upload) /\ OwnMedia = {upload}
  BY SamePagesAddNothing
  DEF FinaliseMedia, Inductive, UploadIsOurs, Attached, MediaAreApart, MediaAreThere, OwnMedia
<1>2. ASSUME library' = [library EXCEPT ![upload].slug = TRUE, ![upload].hash = TRUE]
      PROVE  SparesMedia
  <2>1. library[upload] \in Attachment
    BY <1>1 DEF Inductive, TypeOK, RowTypeOK
  <2>2. /\ \A n \in MediaIds \ {upload} : library'[n] = library[n]
        /\ library'[upload].file = library[upload].file
        /\ library'[upload].whole = library[upload].whole
    BY <1>1, <1>2, <2>1 DEF Inductive, TypeOK, RowTypeOK, Attachment
  <2>. QED
    BY <1>1, <2>2 DEF SparesMedia, Present
<1>3. SparesMedia
  BY <1>2, SameLibrarySpares DEF FinaliseMedia, Writes
<1>4. Stay \/ FailRow \/ (Choose(upload) /\ created' = created \cup {upload})
  BY DEF FinaliseMedia, Writes, Answered, Troubled, Aborted, Declined, RateLimited
<1>5. library'[upload].file # "none"
  BY <1>1, <1>3 DEF SparesMedia, Present
<1>. QED
  BY <1>1, <1>3, <1>4, <1>5, NothingTaken, ChosenIsTaken DEF Spares, InRow, Uploading


\* Only what this row put there is taken down again.
LEMMA RollBackSpares ==
  ASSUME Inductive, MediaAreApart, RollBack
  PROVE  Spares
<1>1. pc = "rollback" /\ AddsInHand /\ FailRow /\ OwnMedia = created
  BY SamePagesAddNothing DEF RollBack, OwnMedia
<1>2. PICK gone \in SUBSET {m \in RollBackOwn : library[m].hash} :
        library' = [m \in MediaIds |-> IF m \in gone THEN Deleted ELSE library[m]]
  BY DEF RollBack
<1>3. SparesMedia
  BY <1>1, <1>2 DEF RollBackOwn, SparesMedia, Present, Deleted, NoMedia
<1>. QED
  BY <1>1, <1>3, NothingTaken DEF Spares, InRow, Uploading

\* Looking for the page changes neither library nor pages.
LEMMA LookUpPageSpares ==
  ASSUME Inductive, MediaAreApart, LookUpPage
  PROVE  Spares
<1>1. SparesMedia /\ AddsInHand /\ pc = "lookup"
  BY SameLibrarySpares, SamePagesAddNothing DEF LookUpPage, siteVars
<1>2. \/ Stay \/ GoTo("rollback")
      \/ pc' = "write" /\ UNCHANGED <<row, chosen, created, upload>>
  BY DEF LookUpPage, Reads, Answered, Troubled, Declined, RateLimited
<1>3. pc' = "write" /\ UNCHANGED <<row, chosen, created, upload>> => TakesWhatIsThere
  BY <1>1 DEF TakesWhatIsThere, InHand, Attached, InRow, Uploading
<1>. QED
  BY <1>1, <1>2, <1>3, NothingTaken DEF Spares, InRow, Uploading

\* The page gets the row's hero image, or keeps the one it has.
LEMMA WritePageSpares ==
  ASSUME Inductive, MediaAreApart, WritePage
  PROVE  Spares
<1>1. pc = "write" /\ SparesMedia
  BY SameLibrarySpares DEF WritePage
<1>2. ASSUME NEW p \in (IF target = NoId THEN NextPage ELSE {target}),
             pages' = [pages EXCEPT ![p] = IF target = NoId THEN NewPage ELSE Updated(@)]
      PROVE  AddsInHand
  <2>1. /\ p \in PageIds
        /\ target # NoId => pages[p].language = row
    BY <1>1, <1>2, RowWritesAssumption
    DEF NextPage, Inductive, TypeOK, RowTypeOK, TargetIsOwn
  <2>2. Hero \in InHand \cup {NoId}
    BY <1>1 DEF Hero, InHand, Inductive, ChosenFits, InRow, Uploading, TypeOK, RowTypeOK
  <2>3. NewPage.language = row /\ CarriedBy(NewPage) \subseteq InHand
    BY <2>2 DEF NewPage, NoPage, CarriedBy
  <2>4. pages[p] \in PageOf
    BY <2>1 DEF Inductive, TypeOK, RowTypeOK
  <2>5. /\ Updated(pages[p]).language = pages[p].language
        /\ CarriedBy(Updated(pages[p])) \subseteq CarriedBy(pages[p]) \cup InHand
    <3>1. /\ Updated(pages[p]).language = pages[p].language
          /\ Updated(pages[p]).fields = pages[p].fields
          /\ Updated(pages[p]).featured \in {pages[p].featured, Hero}
      BY <2>4 DEF Updated, PageOf
    <3>. QED
      BY <2>2, <3>1 DEF CarriedBy
  <2>6. /\ \A q \in PageIds \ {p} : pages'[q] = pages[q]
        /\ pages'[p] = IF target = NoId THEN NewPage ELSE Updated(pages[p])
    BY <1>2, <2>1 DEF Inductive, TypeOK, RowTypeOK
  <2>. QED
    BY <1>1, <2>1, <2>3, <2>5, <2>6 DEF AddsInHand
<1>3. AddsInHand
  BY <1>2, SamePagesAddNothing DEF WritePage
<1>4. \/ Stay \/ GoTo("rollback")
      \/ pc' = "acf" /\ UNCHANGED <<row, chosen, created, upload>>
  BY DEF WritePage, Answered, Troubled, Aborted, Declined, RateLimited
<1>5. pc' = "acf" /\ UNCHANGED <<row, chosen, created, upload>> => TakesWhatIsThere
  BY <1>1 DEF TakesWhatIsThere, InHand, Attached, InRow, Uploading
<1>. QED
  BY <1>1, <1>3, <1>4, <1>5, NothingTaken DEF Spares, InRow, Uploading

\* A field gets the row's attachment of its file, or keeps the one it has.
LEMMA WriteAcfSpares ==
  ASSUME Inductive, MediaAreApart, WriteAcf
  PROVE  Spares
<1>1. /\ pc = "acf" /\ SparesMedia
      /\ target \in PageIds /\ pages[target].language = row
  BY SameLibrarySpares, RowWritesAssumption DEF WriteAcf, Inductive, TargetIsOwn
<1>2. ASSUME pages' = [pages EXCEPT ![target] = WithAcf(@)] PROVE AddsInHand
  <2>1. pages[target] \in PageOf
    BY <1>1 DEF Inductive, TypeOK, RowTypeOK
  <2>2. ASSUME NEW f PROVE Given(f) \subseteq InHand
    BY DEF Given, InHand
  <2>3. /\ WithAcf(pages[target]).language = row
        /\ WithAcf(pages[target]).featured = pages[target].featured
        /\ \A f \in Files : WithAcf(pages[target]).fields[f] \in InHand \cup {pages[target].fields[f]}
    <3>1. ASSUME NEW f \in Files, Given(f) # {}
          PROVE  (CHOOSE m \in Given(f) : TRUE) \in InHand
      BY <2>2, <3>1
    <3>. QED
      BY <1>1, <2>1, <3>1 DEF WithAcf, PageOf
  <2>4. CarriedBy(WithAcf(pages[target])) \subseteq CarriedBy(pages[target]) \cup InHand
    BY <2>3 DEF CarriedBy
  <2>5. /\ \A q \in PageIds \ {target} : pages'[q] = pages[q]
        /\ pages'[target] = WithAcf(pages[target])
    BY <1>1, <1>2 DEF Inductive, TypeOK, RowTypeOK
  <2>. QED
    BY <1>1, <2>3, <2>4, <2>5 DEF AddsInHand
<1>3. AddsInHand
  BY <1>2, SamePagesAddNothing DEF WriteAcf, Writes
<1>4. Stay \/ GoTo("verify") \/ GoTo("rollback")
  BY DEF WriteAcf, Writes, Answered, Troubled, Aborted, Declined, RateLimited
<1>. QED
  BY <1>1, <1>3, <1>4, NothingTaken DEF Spares, InRow, Uploading

\* Nor does the last check.
LEMMA VerifyPageSpares ==
  ASSUME Inductive, MediaAreApart, VerifyPage
  PROVE  Spares
<1>1. SparesMedia /\ AddsInHand /\ pc = "verify"
  BY SameLibrarySpares, SamePagesAddNothing DEF VerifyPage, siteVars
<1>2. FailRow \/ (pc' = "next" /\ ClearRow)
  BY DEF VerifyPage
<1>3. pc' = "next" /\ ClearRow => TakesWhatIsThere
  BY DEF ClearRow, TakesWhatIsThere, InHand, Attached, InRow, Uploading
<1>. QED
  BY <1>1, <1>2, <1>3, NothingTaken DEF Spares, InRow, Uploading

\* The steps around the rows, and no step at all, touch none of it.
LEMMA RecordMovesSpare ==
  ASSUME Inductive, MediaAreApart, RecordMoves, UNCHANGED <<siteVars, rowVars>>
  PROVE  Spares
<1>1. /\ SparesMedia /\ AddsInHand
      /\ row' = row /\ created' = created /\ upload' = upload /\ InHand' = InHand
  BY SameLibrarySpares, SamePagesAddNothing DEF siteVars, rowVars, InHand
<1>2. pc' = pc \/ (pc \notin InRow /\ pc' \notin InRow)
  BY DEF RecordMoves, InRow, Uploading
<1>3. CASE pc' = pc
  <2>1. pc \in Attached => /\ Present(upload) /\ upload \in MediaIds
                           /\ pc # "finalise" => ~library[upload].whole
    BY DEF Inductive, UploadIsOurs, MediaAreApart, MediaAreThere, Attached
  <2>2. library' = library
    BY DEF siteVars
  <2>. QED
    BY <1>1, <1>3, <2>1, <2>2
    DEF Spares, TakesWhatIsThere, Present, MediaAreApart, OwnMediaAreApart, Attached,
        Uploading, InRow
<1>4. CASE pc \notin InRow /\ pc' \notin InRow
  BY <1>1, <1>4 DEF Spares, TakesWhatIsThere, MediaAreApart, OwnMediaAreApart, Attached,
                    Uploading, InRow
<1>. QED
  BY <1>2, <1>3, <1>4

\* So every step does these three things at most.
LEMMA EveryStepSpares ==
  ASSUME Inductive, MediaAreApart, [Next]_vars
  PROVE  Spares
<1>1. CASE RowSteps
  BY <1>1, StartRowSpares, EarlyEndSpares, FindMediaSpares, DiscardMediaSpares,
     CreateMediaSpares, DropFragmentSpares, FinaliseMediaSpares, LookUpPageSpares,
     WritePageSpares, WriteAcfSpares, RollBackSpares, VerifyPageSpares
  DEF RowSteps
<1>2. CASE \/ StartRun \/ TokenAges \/ BlockProduct \/ FinishLinks
           \/ MintToken \/ Unauthorized \/ GetRecord \/ PointRecord \/ CommitState
  BY <1>2, ProductStepsAreMoves, RecordMovesSpare
<1>3. CASE UNCHANGED vars
  <2>1. RecordMoves /\ UNCHANGED <<siteVars, rowVars>>
    BY <1>3 DEF vars, RecordMoves, recordVars, Inductive, TypeOK
  <2>. QED
    BY <2>1, RecordMovesSpare
<1>. QED
  BY <1>1, <1>2, <1>3 DEF Next, ProductSteps

\* At the start there are no pages and no row.
LEMMA InitApart ==
  ASSUME Init
  PROVE  MediaAreApart
<1>1. /\ pages = [p \in PageIds |-> NoPage] /\ pc = "idle" /\ chosen = <<>> /\ created = {}
  BY DEF Init, RowInit
<1>2. \A p \in PageIds : CarriedBy(pages[p]) = {}
  BY <1>1 DEF NoPage, CarriedBy
<1>3. InHand = {}
  BY <1>1 DEF InHand
<1>. QED
  BY <1>1, <1>2, <1>3
  DEF MediaAreApart, MediaAreThere, OwnMediaAreApart, Attached, InRow, Uploading

\* Both invariants always hold.
LEMMA MediaInvariance == Spec => [](Inductive /\ MediaAreApart)
<1>1. Init => Inductive /\ MediaAreApart
  BY InitInductive, InitApart
<1>2. Inductive /\ MediaAreApart /\ [Next]_vars => (Inductive /\ MediaAreApart)'
  BY StepInductive, EveryStepSpares, MediaStayApart DEF Spares
<1>. QED
  BY <1>1, <1>2, PTL DEF Spec

\* A row that fails takes no whole media down with it that a page of a row that came
\* out ok carries, though both may use one attachment (_rollback_media, _is_whole).
THEOREM OkRowsKeepTheirMedia == Spec => OkPagesKeepMedia
<1>1. Inductive /\ MediaAreApart /\ [Next]_vars =>
         [\A l \in Languages : outcome[l] = "ok" =>
             \A m \in CarriedBy(pages[result[l]]) :
                 library[m].whole => library'[m] = library[m]]_vars
  BY EveryStepSpares, OkPagesAreSpared DEF Spares
<1>. QED
  BY <1>1, MediaInvariance, PTL DEF Spec, OkPagesKeepMedia

===============================================================================
