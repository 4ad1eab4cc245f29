------------------------------- MODULE RowWrites -------------------------------
(***************************************************************************)
(* What one row of a run does to WordPress, call by call: upload the hero  *)
(* image and the video unless the library has them, find the page, write   *)
(* it, write its ACF fields, and see it serve.                             *)
(***************************************************************************)
EXTENDS Requests, Sequences, FiniteSets

CONSTANTS
    Plan,           \* the languages of the product's rows, in the plan's order
    FilesOf,        \* FilesOf[l]: the files of l's page, the hero image first
    MediaIds,       \* attachment ids there may ever be (bounds the uploads)
    PageIds,        \* page ids there may ever be (bounds the creations)
    ClientFiles,    \* files whose slug is held by an attachment of the client's
    MaxRuns         \* bound on the runs

NoId == 0
Languages == {Plan[i] : i \in DOMAIN Plan}
Files == UNION {{FilesOf[l][i] : i \in DOMAIN FilesOf[l]} : l \in Languages}

ASSUME RowWritesAssumption ==
    /\ MediaIds \subseteq Nat \ {NoId} /\ PageIds \subseteq Nat \ {NoId}
    /\ Plan \in Seq(Languages) /\ Plan # <<>> /\ "none" \notin Languages
    /\ \A l \in Languages : FilesOf[l] \in Seq(Files) /\ FilesOf[l] # <<>>
    /\ ClientFiles \subseteq Files /\ "none" \notin Files
    /\ MaxRuns \in Nat \ {0}

VARIABLES
    library,    \* library[m]: the attachment with id m
    pages,      \* pages[p]: the page with id p
    recorded,   \* recorded[l]: the page id state.json has
    run,        \* the run, and so the version of the content it writes
    outcome,    \* outcome[l]: what became of the row in this run
    result,     \* result[l]: the page id an ok row returned
    pc,         \* the request about to be sent
    row,        \* the row in work
    chosen,     \* attachments of the row so far; NoId for a file it goes without
    created,    \* the ones among them this row put there
    upload,     \* attachment being discarded or finalised
    target      \* page being updated; NoId for one still to be created

siteVars == <<library, pages>>
rowVars == <<row, chosen, created, upload, target>>
runVars == <<run, outcome, result, recorded>>

\* slug: it holds the slug made of file's hash.  hash: meta.content_sha256, by
\* which the tool knows its own.  checked: its stored size was compared.
NoMedia == [file |-> "none", slug |-> FALSE, hash |-> FALSE, whole |-> FALSE,
            checked |-> FALSE]
Deleted == [NoMedia EXCEPT !.file = "deleted"]
ClientMedia(f) == [file |-> f, slug |-> TRUE, hash |-> FALSE, whole |-> FALSE,
                   checked |-> FALSE]
Uploaded(f, whole, checked) ==
    [file |-> f, slug |-> FALSE, hash |-> FALSE, whole |-> whole, checked |-> checked]

\* exact: it has the slug asked for, not that slug with -2.  body and acf: the run
\* whose content each half shows.
NoPage == [language |-> "none", exact |-> FALSE, body |-> 0, acf |-> 0,
           featured |-> NoId, fields |-> [f \in Files |-> NoId]]

\* The id WordPress gives the next attachment, and the next page: ids grow, and
\* those of deleted attachments are not given again.
NextMedia == {m \in MediaIds : \A n \in MediaIds : library[n] = NoMedia <=> n >= m}
NextPage == {p \in PageIds : \A n \in PageIds : pages[n] = NoPage <=> n >= p}
PagesOf(l) == {p \in PageIds : pages[p].language = l}

Attachment == [file : Files \cup {"none", "deleted"}, slug : BOOLEAN, hash : BOOLEAN,
               whole : BOOLEAN, checked : BOOLEAN]
PageOf == [language : Languages \cup {"none"}, exact : BOOLEAN, body : 0..MaxRuns,
           acf : 0..MaxRuns, featured : MediaIds \cup {NoId},
           fields : [Files -> MediaIds \cup {NoId}]]

RowTypeOK ==
    /\ library \in [MediaIds -> Attachment]
    /\ pages \in [PageIds -> PageOf]
    /\ recorded \in [Languages -> PageIds \cup {NoId}]
    /\ result \in [Languages -> PageIds \cup {NoId}]
    /\ run \in 0..MaxRuns
    /\ outcome \in [Languages -> {"pending", "ok", "failed"}]
    /\ row \in Languages
    /\ chosen \in Seq(MediaIds \cup {NoId})
    /\ created \in SUBSET MediaIds
    /\ upload \in MediaIds \cup {NoId}
    /\ target \in PageIds \cup {NoId}
    /\ TriesTypeOK

\* The client's attachments take the first ids.
RowInit ==
    /\ \E clients \in [1..Cardinality(ClientFiles) -> ClientFiles] :
          /\ {clients[m] : m \in DOMAIN clients} = ClientFiles
          /\ library = [m \in MediaIds |-> IF m \in DOMAIN clients THEN ClientMedia(clients[m])
                                          ELSE NoMedia]
    /\ pages = [p \in PageIds |-> NoPage]
    /\ recorded = [l \in Languages |-> NoId]
    /\ result = recorded
    /\ run = 0
    /\ outcome = [l \in Languages |-> "failed"]
    /\ row = Plan[1]
    /\ chosen = <<>> /\ created = {} /\ upload = NoId /\ target = NoId
    /\ tries429 = 0 /\ tries5xx = 0

Stay == UNCHANGED <<pc, rowVars, runVars>>
GoTo(next) == pc' = next /\ UNCHANGED <<rowVars, runVars>>

\* Locals of _upsert_row are gone with it.
ClearRow == chosen' = <<>> /\ created' = {} /\ upload' = NoId /\ target' = NoId /\ UNCHANGED row

\* The row is failed; whatever was uploaded stays.
FailRow ==
    /\ outcome' = [outcome EXCEPT ![row] = "failed"]
    /\ pc' = "next"
    /\ ClearRow
    /\ UNCHANGED <<run, result, recorded>>

-------------------------------------------------------------------------------
(* Media. *)

File == FilesOf[row][Len(chosen) + 1]

\* The file has its attachment, or goes without one.
Choose(m) ==
    /\ chosen' = Append(chosen, m)
    /\ pc' = IF Len(chosen) + 1 = Len(FilesOf[row]) THEN "lookup" ELSE "find"
    /\ upload' = NoId
    /\ UNCHANGED <<row, target, runVars>>

\* A row starts; rendering it, or finding its category, may refuse it at once.
StartRow(i) ==
    /\ pc = "next"
    /\ outcome[Plan[i]] = "pending" /\ \A j \in 1..i - 1 : outcome[Plan[j]] # "pending"
    /\ row' = Plan[i]
    /\ pc' = "find"
    /\ UNCHANGED <<siteVars, runVars, chosen, created, upload, target, tryVars>>

RefuseRow ==
    /\ pc = "find" /\ chosen = <<>>
    /\ FailRow
    /\ UNCHANGED <<siteVars, tryVars>>

\* An image that will not download, a video that is not there (E7).
GoWithout ==
    /\ pc = "find"
    /\ Choose(NoId) /\ UNCHANGED created
    /\ UNCHANGED <<siteVars, tryVars>>

Held(f) == {m \in MediaIds : library[m].file = f /\ library[m].slug}

\* A fragment is discarded, unless the client put it there.
DiscardFragment(m) ==
    IF library[m].hash
    THEN upload' = m /\ pc' = "discard" /\ UNCHANGED <<row, chosen, created, target, runVars>>
    ELSE FailRow

\* What is found under the slug is used if it is whole, or if nobody says how
\* large it is.
UseHeld(m) ==
    \/ Choose(m) /\ UNCHANGED created
    \/ ~library[m].whole /\ DiscardFragment(m)

FindMedia ==
    /\ pc = "find"
    /\ Reads(Stay,
             IF Held(File) = {} THEN GoTo("create") ELSE \E m \in Held(File) : UseHeld(m),
             FailRow)
    /\ UNCHANGED siteVars

\* A second attempt that finds it gone counts as a failed delete.
DiscardMedia ==
    /\ pc = "discard"
    /\ \/ /\ library[upload] # Deleted
          /\ library' = [library EXCEPT ![upload] = Deleted]
          /\ Answered(GoTo("create")) \/ Troubled(Stay, FailRow) \/ Aborted(FailRow)
       \/ UNCHANGED library /\ (Troubled(Stay, FailRow) \/ Declined(Stay, FailRow))
    /\ UNCHANGED pages

\* Mutated form: the slug is claimed before the stored size is compared.
FinaliseUnchecked(m, whole, measured) ==
    upload' = m /\ pc' = "finalise" /\ UNCHANGED <<row, chosen, created, target, runVars>>

\* An upload whose stored size differs never gets to claim the slug.
CheckUpload(m, whole, measured) ==
    /\ upload' = m
    /\ pc' = IF measured /\ ~whole THEN "fragment" ELSE "finalise"
    /\ UNCHANGED <<row, chosen, created, target, runVars>>

CreateMedia ==
    /\ pc = "create"
    /\ \/ \E m \in NextMedia, whole, measured \in BOOLEAN :
             /\ library' = [library EXCEPT ![m] = Uploaded(File, whole, measured)]
             /\ \/ Answered(CheckUpload(m, whole, measured))
                \/ ~measured /\ (Troubled(Stay, FailRow) \/ Aborted(FailRow))
       \/ UNCHANGED library /\ (Troubled(Stay, FailRow) \/ Declined(Stay, FailRow))
    /\ UNCHANGED pages

\* The fragment is deleted if that works; the row fails either way.
DropFragment ==
    /\ pc = "fragment"
    /\ library' = [library EXCEPT ![upload] = Deleted] \/ UNCHANGED library
    /\ FailRow
    /\ UNCHANGED <<pages, tryVars>>

FinaliseMedia ==
    /\ pc = "finalise"
    /\ Writes(library' = [library EXCEPT ![upload].slug = TRUE, ![upload].hash = TRUE],
              UNCHANGED library,
              Stay,
              Choose(upload) /\ created' = created \cup {upload},
              FailRow)
    /\ UNCHANGED pages

-------------------------------------------------------------------------------
(* The page. *)

\* Mutated form: everything the row uses is taken down.
RollBackChosen == {chosen[i] : i \in DOMAIN chosen} \ {NoId}

\* Only what this row put there is taken down again.
RollBackOwn == created

\* Attachments that are not ours are refused, and those whose deletion fails are
\* left to the operator.
RollBack ==
    /\ pc = "rollback"
    /\ \E gone \in SUBSET {m \in RollBackOwn : library[m].hash} :
          library' = [m \in MediaIds |-> IF m \in gone THEN Deleted ELSE library[m]]
    /\ FailRow
    /\ UNCHANGED <<pages, tryVars>>

\* By the id in the state file, by slug, or by meta.gtin, which not every site
\* lets us search.
Found ==
    IF recorded[row] # NoId THEN {recorded[row]}
    ELSE LET exact == {p \in PagesOf(row) : pages[p].exact}
         IN  IF exact # {} THEN exact ELSE PagesOf(row) \cup {NoId}

LookUpPage ==
    /\ pc = "lookup"
    /\ Reads(Stay,
             \E p \in Found :
                /\ target' = p /\ pc' = "write"
                /\ UNCHANGED <<row, chosen, created, upload, runVars>>,
             GoTo("rollback"))
    /\ UNCHANGED siteVars

Hero == chosen[1]

NewPage == [language |-> row, exact |-> \A p \in PagesOf(row) : ~pages[p].exact,
            body |-> run, acf |-> 0, featured |-> Hero, fields |-> NoPage.fields]
Updated(page) == [page EXCEPT !.body = run, !.featured = IF Hero = NoId THEN @ ELSE Hero]

\* A create is sent again like any other request.
WritePage ==
    /\ pc = "write"
    /\ \/ \E p \in IF target = NoId THEN NextPage ELSE {target} :
             /\ pages' = [pages EXCEPT ![p] = IF target = NoId THEN NewPage ELSE Updated(@)]
             /\ \/ Answered(/\ target' = p /\ pc' = "acf"
                            /\ UNCHANGED <<row, chosen, created, upload, runVars>>)
                \/ Troubled(Stay, GoTo("rollback")) \/ Aborted(GoTo("rollback"))
       \/ /\ UNCHANGED pages
          /\ Troubled(Stay, GoTo("rollback")) \/ Declined(Stay, GoTo("rollback"))
    /\ UNCHANGED library

\* Mutated form: an update is expected to have carried the fields along.
AcfOfNewPages(page) == IF page.acf = 0 THEN [page EXCEPT !.acf = run] ELSE page

\* The attachment the row has for f, if it has one.
Given(f) == {chosen[i] : i \in {j \in DOMAIN chosen : FilesOf[row][j] = f}} \ {NoId}

\* A field whose file the row goes without keeps its value.
WithAcf(page) ==
    [page EXCEPT !.acf = run,
                 !.fields = [f \in Files |-> IF Given(f) = {} THEN @[f]
                                             ELSE CHOOSE m \in Given(f) : TRUE]]

WriteAcf ==
    /\ pc = "acf"
    /\ Writes(pages' = [pages EXCEPT ![target] = WithAcf(@)], UNCHANGED pages,
              Stay, GoTo("verify"), GoTo("rollback"))
    /\ UNCHANGED library

\* One HEAD request, never repeated.
VerifyPage ==
    /\ pc = "verify"
    /\ \/ /\ outcome' = [outcome EXCEPT ![row] = "ok"]
          /\ result' = [result EXCEPT ![row] = target]
          /\ pc' = "next"
          /\ ClearRow
          /\ UNCHANGED <<run, recorded>>
       \/ FailRow
    /\ UNCHANGED <<siteVars, tryVars>>

RowSteps ==
    \/ \E i \in DOMAIN Plan : StartRow(i)
    \/ RefuseRow \/ GoWithout \/ FindMedia \/ DiscardMedia \/ CreateMedia \/ DropFragment
    \/ FinaliseMedia \/ LookUpPage \/ WritePage \/ WriteAcf \/ RollBack \/ VerifyPage

===============================================================================
