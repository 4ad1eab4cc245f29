# TLA+ models of gs1-product-link

The repository publishes product pages to WordPress, one page per product (GTIN)
and language, and points each product's GS1 Digital Link record at its pages, so
that the QR code on a package resolves to them.  A printed code cannot be
recalled: what the record says, what the site serves and what the tool remembers
must fit together, whatever fails on the way.  These modules model the part of
the program where that can go wrong, TLC checks them on small instances, and
TLAPS proves every safety property among them for every instance.

Paths below are relative to the repository's root.

## 1. The system

### 1.1 Components

| component | code | state it keeps | operations |
|---|---|---|---|
| state file | `lib/state.py`, `lib/records.py` | `state.json`: an entry per (GTIN, language) with content hash, link-set hash, WordPress id and status, `retracted`, the video of the page | `load_state` (a corrupt file is moved aside, E19), `peek_state`, `save_state` (temporary file, rename), `_classify` |
| planning | `scripts/run_plan.py`, `lib/state.py` | `plan.json` | `diff_against_state`: NEW, CHANGED, UNCHANGED or HELD per row; skipped units |
| execution | `scripts/run_execute.py` | a `State` object in memory, the per-product locals of `_execute_gtin` | drop held rows, upsert pages, link translations, verify targets, write the record, render QR, commit, save |
| take-down | `scripts/run_unpublish.py` | the same `State` object | retract the record, draft the pages, mark entries, save |
| WordPress client | `lib/wp_client.py` | none (the site is remote) | lookup by id, slug, `meta.gtin`; guarded upsert; media; status; `verify_url`; retries |
| GS1 client | `lib/gs1_dl_client.py` | an access token | get, replacing upsert, enable and disable, retract; retries |
| multilingual adapters | `lib/multilingual.py` | none | translation groups |
| publish session and gates | `ui/session.py`, `lib/gates.py` | mode, languages, answers, per-row decisions | applicability, answering, the command authorised |
| publish screen | `ui/pages/publish.py`, `ui/runner.py` | what is drawn, the logs of the dry and the real run, `plan.confirmed.json` | walk the gates, stream a child process |
| content generation | `lib/generator.py`, `lib/llm.py`, `scripts/run_generate.py`, `ui/pages/content.py` | the requests, the results file, the last look at the site | ask for units, answer by hand or by the API, merge into the plan, open Next |
| batches, provenance | `ui/pages/data.py`, `ui/batch_grid.py`, `lib/batch.py`, `lib/provenance.py`, `lib/input_layout.py`, ... | the export, the list, the selection, the snapshot of ticks, dated copies, the ledger | upload, tick, pick a mode, save, clear, open the next screen |
| videos | `lib/media_video.py`, `lib/video_signoff*.py`, `lib/holds.py`, `ui/video_*` | `mapping.yml`, the sheets of the client, the note on them | read answers back, fill in, admit or hold a product, notice that a video arrived |
| reconciliation | `lib/reconcile.py`, `lib/live_inventory.py` | none | compare state file and site |
| MCP servers | `mcps/gs1-nl`, `mcps/wordpress` | none | TypeScript twins of the two clients behind questions to a human |
| doctor and reports | `lib/preflight.py`, `lib/quality_report.py`, `lib/video_status.py`, ... | none | say beforehand what a run will do |
| export parsing | `lib/gdsn.py`, `lib/records.py`, `lib/mandatory.py`, `scripts/parse_export.py` | `products.json`, `source_issues.json` | build a record per product from the markets' rows, report gaps and conflicts |
| categories | `lib/categories.py`, `scripts/set_categories.py` | the term ids a run remembers | resolve a product's category, file live pages |
| configuration, media files | `lib/config.py`, `lib/media.py`, ... | none | functions of files |

PROJECT.json lists each of them with its status.

### 1.2 How they interact

An export is parsed into product records and a list of its gaps and conflicts.  On the
Data screen an export and a list become a batch: which products, and
whether pages, links or both.  On Content the texts that no feed has are asked for
and answered, by a session or the API.  A plan compares export and text with
`state.json` and writes `plan.json`; text, videos and data decide which units it
leaves out.  The operator confirms rows of it (screen or `--plan`), and a run
executes the confirmed rows against the site and the resolver and ends by
replacing `state.json`.  A take-down does the opposite for named products.
Between the steps everything is a file, read anew by whoever needs it.  All
processes of a client share the state file, and no lock guards it: one at a time
is the operator's promise (E20 in `lib/errors.py`'s catalogue), and the models
keep it.  Meanwhile the site, the export, the process list and the video mapping
belong to others, who change them between any two calls of a running process.
The MCP servers write to the same site and resolver, past all of these files.  So does
`set_categories`, which puts the pages that are live into their categories.

### 1.3 What is hard

* **Three stores, no transaction.**  The site, the resolver and the state file are
  written by separate calls; each may fail with or without having acted, and the
  process may be killed between any two.  The state file is written once, at the
  end of a run.
* **Replacing writes.**  A record's link array is replaced whole.  A run that
  confirms one language must carry along those it only knows from the state file.
* **Stale knowledge.**  Plans are executed against a later state file; recorded
  pages may have been drafted or deleted; a page's slug may be somebody else's.
* **Deliberate absence.**  A product that was taken down must not come back by
  itself, although its content still differs from nothing on the site.
* **A screen that does not wait.**  The publish screen streams its children while the
  operator goes on answering.  Both sides meet in `plan.json` and
  `plan.confirmed.json`, which anybody may replace meanwhile.
* **Facts in several files.**  What a batch is, publishes and was chosen from is in
  six files, each written on its own; what a product may get is computed by the
  screens, the doctor, the plan and the run, each at a moment of its own.
* **Answers that outlive their question.**  A results file, a client's sheet, the last
  look at the site and the ticks of a list are all read back later, when the export,
  the batch or the mapping may be another.
* **One failing part.**  A product is all its languages: one failure must hold
  back the others' commit, and one product's failure must not stop the run.

### 1.4 What makes it correct

* state file: an entry tells the truth about the record (`LinkedMeansInRecord`), the
  loss of the file included, and UNCHANGED means there is nothing left to do: the page is
  published with today's content and the record is enabled and names it, unless a take-down
  stopped half way or an editor took the page (`UnchangedIsPublished`);
* execution: a product is committed whole or not at all (`AllOrNothing`); a
  permanent record only points at pages seen serving (`OnlySeenTargets`); no
  claimed link is ever written away (`ClaimsFollowRecord`); a page the operator
  lists never wins over one of ours (`ListedNeverOverridesOwn`);
* take-down: the record goes first (`DisabledBeforeDrafted`), what was reported down
  is down and remembered (`TakenDownIsHeld`), and it stays down
  (`HeldRecordStaysDown`); one that stops half way is not (`InterruptedTakeDownIsHeld`, which
  `interrupted` violates);
* together: after failures stop, whole plans get everything published (`Converges`);
* requests of one product: an upload that was cut off is never taken for the file
  (`SlugMeansWhole`); the client's own attachments are not touched
  (`ClientMediaStay`); a failing row takes no image from under its sibling's page
  (`OkPagesKeepMedia`); a record is only pointed at pages that show this run's copy
  in body and fields, of the right language (`PointedPagesShowTheRun`); and a run
  ends, whatever the servers answer (`RunsEnd`);
* publish screen: a permanent run was confirmed at its own gate
  (`ProductionIsConfirmed`), after a dry run (`RealRunsArePreviewed`); a plan without
  copy writes no pages (`LinksOnlyWritesNoPages`); and an operator who waits gets
  what was approved on the screen (`PatientRunsWriteWhatWasMeant`), once
  (`PatientRunsOnce`);
* batches: what is remembered of a list belongs to it (`RememberedIsOfThisList`);
  later screens open on the batch that was saved (`OpenStepsHaveTheirBatch`); what the
  screen said can run is planned (`PlansKeepTheBatch`); and no list is lost
  (`SavesLoseNoList`);
* content: a complete answer leaves nothing out for want of text (`WrittenIsEnough`);
  no page gets the name of a feed gone by (`NamesFollowTheFeed`); the doctor foretold
  what the plan does (`DoctorAgreesWithPlan`); Next opens on what is known of this
  batch (`NextKnowsTheBatch`);
* videos: what doctor and report hold no run publishes, what a run leaves out both hold,
  and a page that goes live bare both had said so (`HeldMeansUnpublished`); a fill adds all
  that the sheet gives and no more, as the report then finds (`FillsOnlyAdd`); pages
  show what their entries record (`RecordedVideoShows`), and under the strict rule
  none goes live bare (`StrictPagesCarryVideo`); a confirmed video arrives
  (`ConfirmedVideoArrives`);
* parsing: what one market says otherwise than the record, and what holds a product, is in
  the report, or the parse warned that the field's sheet is not in the export
  (`NothingIsHidden`);
* categories: a run without an error had every page in the term of its own language
  (`DoneMeansFiled`);
* reconciliation: a gap that lasts is reported (`LastingGapsAreReported`), and nothing
  is that never was one (`FindingsWereTrue`);
* MCP servers: nothing is written unasked (`WritesAreConfirmed`); what is reported ok
  is there (`OkMeansWritten`); translations keep off each other's pages
  (`PagesKeepTheirLanguage`), products too (`ForeignPagesStay`); and only fragments
  are deleted (`OnlyFragmentsGo`).

## 2. The modules

| module | models | extends |
|---|---|---|
| `StateEntries` | a state entry and `_classify` | `Naturals` |
| `World` | the site, the resolver, `state.json`, content and list, the running process; the environment; loading, saving and losing a process | `StateEntries` |
| `RunPlan` | `run_plan`, `diff_against_state` | `World` |
| `RunExecute` | `run_execute`, with the calls of the two clients it makes | `RunPlan` |
| `RunUnpublish` | `run_unpublish` | `World` |
| `ResolverLedger` | abstract: claims follow links | - |
| `Publishing` | the composition, its properties, the refinement to `ResolverLedger`, the inductive invariants | `RunExecute`, `RunUnpublish` |
| `MCPublishing` | constants for TLC | `Publishing` |
| `Requests` | the retry loop of both clients, `_request` | `Naturals` |
| `RowWrites` | `_upsert_row` request by request: media library, page, ACF fields | `Requests`, `Sequences`, `FiniteSets` |
| `ProductCalls` | one product's rows and its GS1 record, with the access token | `RowWrites` |
| `MCProductCalls` | two rows that share an image, one of them with a video | `ProductCalls`, `TLC` |
| `ProductCallsProofs` | the invariants of `ProductCalls` and its theorems | `ProductCalls`, `TLAPS` |
| `PublishSession` | the answers of one walk: which gates there are, what stands between it and a run, which rows are confirmed | `Naturals` |
| `PublishScreen` | the screen and the processes it starts | `PublishSession` |
| `MCPublishScreen` | what plans may say | `PublishScreen`, `TLC` |
| `PublishScreenProofs` | the invariant of `PublishScreen` and its theorems | `PublishScreen`, `TLAPS` |
| `Reconciliation` | the check of the state file against the site, beside everything `Publishing` does | `Publishing` |
| `MCReconciliation` | constants for TLC | `Reconciliation` |
| `PublishingProofs` | the theorems about `Publishing` and `Reconciliation` | `Reconciliation`, `TLAPS` |
| `Eligibility` | which products of a list a run would act on | `Sequences`, `SequencesExt` |
| `BatchFiles` | the files of a batch and its ledger | `Eligibility` |
| `DataScreen` | the Data screen, the steps it opens, and what a plan makes of the batch | `BatchFiles` |
| `MCDataScreen` | two products, one list, three exports | `DataScreen`, `TLC` |
| `DataScreenProofs` | the invariant of `DataScreen` and its theorems | `DataScreen`, `FiniteSetTheorems`, `TLAPS` |
| `Copy` | what a producer is asked, which answer counts, what a plan leaves out and what the doctor says | `Sequences`, `SequencesExt` |
| `Generation` | producers, the Content screen, plans and runs over the shared files | `Copy`, `FiniteSets` |
| `MCGeneration` | two products under two feeds | `Generation` |
| `GenerationProofs` | the invariant of `Generation` and its theorems | `Generation`, `FiniteSetTheorems`, `TLAPS` |
| `VideoMap` | the mapping and everything read from it | - |
| `VideoSignoff` | what a sheet means for the mapping | `VideoMap`, `Sequences` |
| `Videos` | the windows, the plan that sees a video arrive, the run that uploads it | `VideoSignoff` |
| `MCVideos` | two products, languages and files, two sheets | `Videos` |
| `VideosProofs` | theorems about the rule, the fills, and what pages show | `Videos`, `TLAPS`, ... |
| `McpCalls` | a tool call: configuration, questions, attempts | `Sequences`, `FiniteSets` |
| `McpServers` | what the tools of the two servers write, two calls at a time | `McpCalls` |
| `MCMcpServers` | five workloads on three sites | `McpServers` |
| `McpProofs` | the invariants of `McpServers` and its theorems | `McpServers`, `TLAPS` |
| `Export` | an export as records and issues: `gdsn.build_records`, the flat format, `missing_mandatory` | `Naturals`, `SequencesExt`, `FiniteSetsExt` |
| `Categories` | from a brick to a category, and the coverage check | `Export` |
| `Intake` | `parse_export` step by step: the two files it leaves | `Categories` |
| `SetCategories` | `set_categories` beside parses, a run that publishes and editors | `Intake` |
| `MCSetCategories` | four clients and their exports | `SetCategories` |
| `SetCategoriesProofs` | the invariant of `SetCategories`, what a parse reports, and the theorems | `SetCategories`, `TLAPS`, ... |

There are eight models.  `Publishing` has the whole life of products:
plans, runs, take-downs, kills, other people; a row is written in one step that
works or fails.  `ProductCalls` opens that step for one product: every HTTP request
of it, with what the retry loops do about lost answers, rate limits and refused
tokens.  What `Publishing` says of a row (its page shows the run's version, or the
row has failed) is what `PointedPagesShowTheRun` shows of the requests.

`PublishScreen` is what comes before a run: how its plan, mode and confirmed rows come
about.  `Publishing` takes one process at a time and any subset of the NEW and CHANGED
rows; `PublishScreen` says which subset that is, and shows that the screen itself does
not keep processes apart (`once`).

`DataScreen`, `Generation` and `Videos` are what comes before a plan: the batch, the
text and the videos.  `Publishing` lets a run drop any rows for want of text or video;
`Copy` and `VideoMap` say which.  Each has the plan and the run in it as far as that
question needs them.  `Reconciliation` is `Publishing` with an observer.  `McpServers`
is another way to the same site and resolver; it shares no file with the rest.
`SetCategories` is what comes first, the parse, with the one script that works on the pages
from what was parsed; it writes nothing but the pages' terms.

### 2.1 State

* `content[g][l]` is a version number: it stands for the content hash together
  with the video file of the row, the two things whose change makes a published
  row CHANGED.  It only grows, up to `MaxVersion`: a product whose content goes
  back to an earlier text is not modelled.
* `site[g][l]` is the page at our slug: absent, published or draft, and the
  version it shows; version 0 is a page without our `meta.gtin`.
* `record[g]` is the GS1 record: `isEnabled`, and per language whether its link
  points at our page, at a page the operator lists, or nowhere.
* `saved` is `state.json` and `mem` the process's `State` object.  An entry keeps
  the version, whether the link-set hash is non-empty, the WordPress status and
  `retracted`.
* `pc`, `todo`, `cur` say which process runs, which products it has not begun and
  the one it works on; `fresh`, `failed`, `entries`, `links` are the locals of
  `_execute_gtin`; `left` those of `_unpublish_gtin`.
* `seen`, `clean`, `takenDown`, `halfDown` and `byHand` are history variables; of them only
  `clean`, whether a take-down has met no failure, is read by an action (it is the code's
  return value).  `takenDown` has the products whose last take-down succeeded, from its save
  until the state file is lost or another take-down of them stops or fails; plans and runs
  leave it alone.  `halfDown` has the products a take-down has begun on that no take-down
  has ended well since and no run has enabled; `byHand` the pages an editor drafted or
  deleted that no run has written since.

In `ProductCalls`:

* `library[m]` is an attachment.  `slug` says that it holds the slug made of its
  file's hash, `hash` that it has our `meta.content_sha256`, `whole` that the server
  stored all of the file, `checked` that the code compared sizes.
* `pages[p]` is a page with the run its body and its ACF fields show and the
  attachments they use.  WordPress gives ids in order and does not give them again;
  `MediaIds` and `PageIds` bound how many there may be.
* `recorded` is what `state.json` has, `outcome` and `result` are the rows of this
  run.
* `pc` names the request about to be sent.  `row`, `chosen`, `created`, `upload` and
  `target` are the locals of `_upsert_row` and of the functions below it;
  `tries429`, `tries5xx` and `refreshed` those of `_request`; `token` is the cached
  access token.

In `PublishScreen`:

* `mode`, `languages`, `answers` and `applied` are the `PublishSession`.  An answer is
  what it does: carry on, refuse, or show the gate again.  `applied[row]` keeps which
  plan was on the screen when the row was applied; the code keeps that it was.
  UNCHANGED, HELD and missing rows are OTHER: none is ever confirmed.
* `plan` is `plan.json`, `shown` the plan the screen was last drawn from, `button` the
  button that runs it for real.
* `building`, `previewing` and `runs` are children going on with the handlers that wait
  for them; a run of an earlier walk is not `ours`.
* `plan.confirmed.json` is not a variable.  What a run that has yet to read it would
  find there is in its `rows` and `linksOnly`, which every writer of the file sets.
* `launched` and `haste` are history: the real runs this walk started, and how often
  the operator did something while a child went on, or somebody else planned.

In `BatchFiles` and `DataScreen`:

* a list is its bytes: the rows as sent, or the rows a save wrote with the second it
  wrote them in, which the workbook carries.  `selection` is the control file a run
  reads, `listFile` the upload it was ticked from, `snapshot` the ticks with the bytes
  they belong to, `dated` the dated copies, `history` the lines of the ledger about
  saves, `torn` whether its last line was cut off.  `export` is the file, `parsed` the
  export that `products.json` was read from.
* `mode` and `ticks` are kept by the process and read from disk once; `grid`, `ready`,
  `counted` and `onward` are what the page shows.  `ticks` are row numbers, and so they
  note which list they number.  `checked` is what the links answered.
* `saves` and `strayed` are history: what each save saw, and whether Next went on
  without one.  `mishaps` counts what the program leaves to the operator: acts beside
  a parse, files that others put in place.

In `Copy` and `Generation`:

* a feed is what an export says of each product per language, by what the code tells
  apart: a name that is a text, blank, a placeholder or another language's; feature
  lines that are short enough to publish, too long, or mixed; a marketing message or
  none.  The name stands for every value that is translated when it is missing.
* `results` is a sequence of items, each with the unit, what its producer had read
  (`about`, the fingerprint), whether the item says so (`echoed`), and the text its
  translation was made from (`fill`).
* `jobs` are runs of the API, `page` the Content screen, `checks` the reads of the site
  that go on, `kept` the last one and the batch it is kept under.
* `whole` and `hurried` are history: what the last complete answer had read, and
  whether a batch was saved while a read went on.

In `VideoMap`, `VideoSignoff` and `Videos`:

* `mapping` gives each row, a language and a file, a product, Skip or nothing.  A gap is
  a row without an answer, a clash a product with two files for one language.
* `sheets` is the archive in the order of writing, `note` the sheet whose columns were
  chosen last, `panels` the windows, each with its sheet and the fills it has drawn.
* `saved[u]` keeps the content, the video and the file that did not prepare;
  `pages[u]` the video of the page; `run` a run with the mapping it read, the rows done
  of the product in work and the state it will write.
* `unsure` is history: pages whose video a run changed without having kept an entry
  that says so.

In `McpCalls` and `McpServers`:

* a call keeps what it asked for, the configuration it read, the questions answered
  with yes, the request it is at, and the counters of the retry loop.
* whatever was written carries the number of the call that wrote it: `records` of two
  environments, body and fields of `pages`, `media`.  0 was there before.

In `Export` to `SetCategories`:

* a text is what it says, whether it differs in letter case only, how it opens (with the
  brand to strip, with nearly that), its words and the language whose hallmarks it has; a
  limit on length counts in the same unit.  A value is the texts it was joined from, a
  record its values by field and language.
* an export is a position in `Deliveries`, which gives the client it belongs to and its
  sheets.  `delivered` is the export at the configured path; `products` and `issues` are
  the exports that the two files were written from, 0 when a file is empty or cut off;
  `parse` is the step a parse is at.
* `categories` is the block of `clients.yml`, `terms` what the site has, `pages[p]` whose
  page it is and the terms it is in, `ledger` the pages that are live in `state.json`.
* `script` is a run of `set_categories`: the products and categories it read, the
  plugin it resolved, the pages to do, the term in hand and those remembered.  Its
  `filed` and `dropped` are history: pages seen in exactly their category, terms that
  were deleted under it.

`Reconciliation` adds to `Publishing` what a check has read (`asking`, `entered`,
`found`) and, as history, the rows that were gaps all the while (`lasting`) and those
that were apart at some moment (`apart`).

### 2.2 Actions

In `Publishing` one action is one call to a remote system with everything the code does before
and after it.  Its failing twin is the same call raising, with or without the
remote side having acted: `UpsertRow`/`UpsertRowFails`,
`WriteResolver`/`WriteResolverFails`, `Retract`/`RetractRaises`,
`DraftPage`/`DraftPageFails` and so on.  `RunDies` and `TakeDownDies` are a kill
before `save_state`; `save_state` renames a complete temporary file, so no kill
leaves half a state.  `ContentChanges`, `OperatorLists` and `EditorTakesDown`
happen at any time, also while a process runs.  `StateIsLost` is a state file that does
not read: the next process to load it moves it aside and starts from nothing (E19).
`BecomeCalm` stops failures, kills
and the environment for good; liveness is stated from there.

`StartRun` covers the review (any subset of the NEW and CHANGED rows) and the bare
`--plan` (every row), the three `--only` modes, `--revive`, and plans of any age
when `StalePlans`.  The rows the copy check (E21) and the video rule drop are left
open: `kept` is any subset in a run that writes pages.

In `ProductCalls` one action is one attempt at one HTTP request.  `Writes` lists what
an attempt may come to: its effect with an answer; its effect and no answer (a
timeout, a 5xx), which is tried again or given up; its effect and an error the loop
does not catch; no effect, for the same reasons or because of a 429 or another 4xx.
`Reads` is the same without effects.  A token is minted when there is none, which is
not retried; a 401 is answered with a new one once per call.  The server may refuse a
token at any time, but its expiry is only noticed between calls: it is renewed a
minute before the end, and no call lasts that long.  Rows are worked on in the plan's
order.  Not repeated there: translation links and the HEAD requests on targets (in
`Publishing`), rendering and the category lookup (the row is refused at once), and
the choice of fields to write: the ACF map is never empty.  Files do not change from
run to run.

In `PublishScreen` an action is one handler up to its first `await`, or the rest of it
when the child has ended.  `Redraw` is part of every handler that calls `_redraw`, which
draws everything anew from `plan.json` and the answers; `ChooseLanguages` does not, and
`RunForReal` only disables its button.  `RunDry` and `RunForReal` write
`plan.confirmed.json` before the answers are looked at, so a press that is refused has
written it too.  `PlanWritten`, `RunReads`, `RunEnds` belong to the children;
`BuildTimesOut` is the half hour of `runner.run`, which raises in the handler and redraws
nothing.  A build that has written `plan.json` has nothing left to wait for, and ends.
`Reopen` is leaving for another screen and coming back: a new session and flow, while
children go on and their handlers draw on what is gone.  `PlanElsewhere` is `run_plan` in
a terminal, or the build of an earlier walk.

Not repeated there: what the answers at languages, row_diff and post_run do is a variable
of its own, per-row decisions, and nothing, respectively; a build may end without a plan,
and a run at any moment, for whatever reason.  There is one build and one dry run at a
time: a second press of either would only write the same files again.

In `DataScreen` a handler without an `await` is one step.  The upload of an export is two,
`ReceiveExport` and its end (`ExportRead`, `ExportRefused`, or `ExportHangs`, the half
hour that raises past the putting back).  Every handler that draws the list anew has
`DrawChoose` in it, with what it leaves of Next when there is nothing to draw.  Next is
`NextSaves`, the four files in their order, with twins for each place where it stops:
`NextDies`, `NextRaises`, and `NextSavesNothing` when there is no grid.  `Clear` moves
five files aside, `ClearFails` some of them.  `PlannedProducts` is what `run_plan` then
makes of the files.

In `Generation` a producer reads when it starts and writes when it ends: `Emit` and
`HandWrite` for a session that answers by hand, `StartApi` or `Generate` and
`ApiSaves` for the API, where one call that fails for good writes nothing
(`ApiFails`).  A read of the site is two steps, `StartCheck` and `FinishCheck`; so is
the one that follows a run of the page.  `Execute` is a plan made and run at once.

In `Videos` the windows draw (`Draw` writes the note and plans the fills), the operator
presses (`Apply` plans once more, against the mapping as it is), edits by hand, breaks
and mends the file.  A run reads the gate when it starts and the mapping once per row,
commits a product when its rows are done and replaces `state.json` at its end.
Reloading the mapping and writing it back is one step of `Apply`, without an `await`
between.

In `McpServers` an action is one attempt at one request, as in `ProductCalls`; between
two of them, and while a question waits, other calls and the configuration go on.
`ServerStops` ends one of the two processes with its calls.

`Export` and `Categories` have no actions: they are functions of the sheets, and `Intake`
is when they are applied.  Each file is emptied in one step and written in the next
(`OpenProducts`, `WriteProducts`, `OpenIssues`, `WriteIssues`), and `KillParse` may come
after any.  A parse with an error, and a dry run of one, change nothing and are no step.
In `SetCategories` an action is one call to the site: `Lookup` (one look-up of a term, at
most two requests, once per category and language), `ReadPage`, `GuardPage`, `WriteTerms`, with
`PageFails` for all of them.  The probe for the plugin is part of `ListPages`, where it
finds the plugin or nothing.  `PublishPage` is what a run of `run_execute` does to a page's terms, in
one step.  `EditMapping`, `CreateTerm`, `DeleteTerm` and `EditPage` are people.

In `Reconciliation` a check reads the state file in one step and each language's pages in
one; everything of `Publishing` may happen between (`Meanwhile`).

## 3. The runs

Each run asks one question of one model, and a property is listed once: the theorems
of section 4 carry it to every other instance.  Deadlock is checked wherever somebody
can always go on.  In `calls`, `copy`, `videos`, `mcp` and `filing` the operator, the
client and the calls stop after a bounded number of acts, or have nothing left to write,
and they say `CHECK_DEADLOCK FALSE`;
`RunsEnd` and `ConfirmedVideoArrives` show that what has begun does not stop earlier.

| run | constants | what it shows |
|---|---|---|
| `reviewed` | `Publishing`: 1 product, 2 languages, 2 versions, kills, a state file that is lost, an end of all that; plans made afresh, no `--revive`; fairness | `UnchangedIsPublished`, `OnlySeenTargets`, `AllOrNothing`, `TakenDownIsHeld`, `HeldRecordStaysDown`, `ClaimsFollowRecord`, `Converges` |
| `edits` | `Reconciliation`: 1 product, which may be listed, 1 language, 3 versions, a foreign page, editors, kills, lost state, `--revive`, stale plans | `UnchangedIsPublished`, `DisabledBeforeDrafted`, `ListedNeverOverridesOwn`, `LastingGapsAreReported`, `FindingsWereTrue` |
| `held_pages` | `Publishing`: 1 product, 2 languages, 1 version, nothing else | `HeldPagesStayDown` is violated |
| `interrupted` | `Publishing`: 1 product, 1 language, 1 version, kills | `InterruptedTakeDownIsHeld` is violated |
| `calls` | `ProductCalls`: rows nl (image, video) and fr (same image), the video's slug held by an attachment of the client's, 2 runs, 2 tries of each kind; fairness | `SlugMeansWhole`, `PointedPagesShowTheRun`, `OkPagesKeepMedia`, `RunsEnd` |
| `walk` | `PublishScreen`: 1 product, 2 languages, production, a generator, the mode picked on the screen; two plans, each a CHANGED and a NEW row or a CHANGED row and a unit without a name; 1 real run at a time, 1 act that does not wait | `ProductionIsConfirmed`, `LinksOnlyWritesNoPages`, `RealRunsArePreviewed`, `PatientRunsWriteWhatWasMeant` |
| `once` | as `walk` without a generator, 2 real runs at a time, 2 acts that do not wait | `RunsForRealOnce` is violated |
| `batch` | `DataScreen`: 2 products, one with an address on the site, 1 list to upload and 1 put in place by hand, 3 exports, one of which does not read and one with a gap, 2 mappings, the modes both and links, 4 acts, 1 mishap, saves within 1 second | `RememberedIsOfThisList`, `OpenStepsHaveTheirBatch`, `PlansKeepTheBatch`, `SavesLoseNoList` |
| `copy` | `Generation`: 2 products, 2 languages, 2 feeds, published from neither or from the second, batches of one or both, 1 run of the API at a time, 2 attempts, 4 acts | `WrittenIsEnough`, `DoctorAgreesWithPlan`, `NamesFollowTheFeed`, `NextKnowsTheBatch` |
| `videos` | `Videos`: 2 products, one in the batch, 2 languages, 2 files, 2 sheets in 2 windows, 2 edits by hand, three clients (the strict rule and no rule with nothing signed off, the bare one with a product signed off), 3 acts; fairness | `HeldMeansUnpublished`, `RecordedVideoShows`, `FillsOnlyAdd`, `StrictPagesCarryVideo`, `ConfirmedVideoArrives` |
| `mcp` | `McpServers`: 2 calls of five workloads, 3 sites, 2 configurations edited once, 3 pages, 3 attachments, 2 tries of each kind, chunks of one | `WritesAreConfirmed`, `OkMeansWritten`, `PagesKeepTheirLanguage`, `ForeignPagesStay`, `OnlyFragmentsGo` |
| `filing` | `SetCategories`: 77 exports of four clients (two markets, two languages; a client with every kind of field, one with bricks, a flat one and one without its columns), 3 pages, 2 terms, 2 contents of the categories block, 1 edit, WPML configured | `NothingIsHidden`, `DoneMeansFiled` |

### 3.1 Why the bounds are enough

* *Languages.*  Two languages are what the record's replacing write, the blocked
  sibling and the half-committed product need: one language that is confirmed and
  one that is only known.  A third behaves like one of the two.  `edits` has one: what
  it says is said of each row by itself.
* *Products.*  Products share nothing but `state.json` and the order they are
  worked on, and the runs of `Publishing` have one.  That a product fails or raises after
  another was committed in memory is left to the theorems, which are for any set of them.
* *Versions.*  Two versions tell new content from old.  Three let a plan be older
  than the state file and the content newer than both.
* *Failures* of calls are not counted in `Publishing`, `ProductCalls` and `McpServers`:
  any may fail at any time, any number of times.
* *Rows and files* (`calls`).  Two rows that share an image are what a rollback or a
  discarded fragment could do harm to; the second file of one of them comes after
  something was uploaded, and its slug is the client's.
* *Runs* (`calls`).  In the second run pages are found by id, or by slug when the
  first run failed after creating them, and are updated; fragments of the first are
  found and discarded.
* *Ids* (`calls`, `mcp`).  Three attachments are the one that was there and two of ours,
  two pages one for each language or two for the same one; a run that would need more
  stops finding any and is as good as refused.
* *Plans* (`walk`).  With two there is one to answer about and one that replaces it; a
  CHANGED row is what "new only", "all" and row by row treat differently, a NEW one what
  they treat alike.
* *Haste* (`walk`).  One act beside a child is enough for a mode change or a second plan
  to meet a child; two (`once`) are an answer and a second press.  What is said of an
  operator who waits is said of behaviours without any.
* *Tries* (`calls`, `copy`, `mcp`).  With two of each kind there is a first, a repeated
  and a given-up attempt; the code has three and five.
* *Acts* (`batch`, `copy`, `videos`).  An act is something that comes from outside: an
  upload, a save, a restart, another feed, an edit, a failure.  Four are a batch saved
  twice with a restart or another list between, or an answer, a new feed and the two
  acts of publishing; looking at pages, ticking and drawing are not counted.  In
  `videos` three acts are a sheet, an edit and a failure.  The longest case known to
  matter there takes four (section 3.3, the failed file), and `VideosShowAsRecorded`
  covers it.
* *One second* (`batch`).  Two saves in one second write the same bytes for the same rows,
  which is the hard case; saves in different seconds only differ more.
* *Mishaps* (`batch`).  One lets the operator act beside a parse, or others put a file in
  place, once.  What is said of a patient operator is said of behaviours without any.
* *Rules* (`videos`).  All three: a video everywhere, none needed, none asked for.  With the
  rule off the doctor, the plan and the run hold no product, and neither does the Data
  screen, which asks the same functions; the report's video section looks at
  `publish_without_video` alone and lists products as held all the same (section 3.3).
  `HeldMeansUnpublished` then asks of a run what the doctor says, and not what the report
  does.  The rule off with `publish_without_video` set is not among the configurations.
* *Calls* (`mcp`).  Two calls at once are what can overtake one another; a third meets
  each of them in the same way.  Chunks of one make two requests of two entries.

* *Exports* (`filing`).  The exports differ from a usual one in one field or in the rows of
  one market at a time: the checks look at one field, or at one field in two languages.  Two
  markets are one that wins and one that is hidden.  A second export may follow the first
  for three of the clients; it is enough for the two files, or a file and the script, to be of
  different exports.
* *Pages and terms* (`filing`).  Two pages of one product show whose language a term is
  in, a page of another one that what is remembered is per category and language.  One edit
  is what can make a term, a page or the map stale; a run that publishes is not counted.

### 3.2 Fairness

`RepeatedSpec` (`Converges`) assumes weak fairness of a process's own steps: a call
returns or raises.  Both clients give every request a timeout and a bounded number of
attempts, and no step waits for a person.  Nothing is assumed of kills, editors or
the operator, except that the latter keeps planning and keeps executing whole plans
(`--plan`, no `--revive`).  That is strong fairness, because other runs and
take-downs the operator starts in between disable a start again and again.  It is
an assumption about the operator, not about the code; the property says that the
code does not defeat such an operator once failures have stopped.

`FairSpec` of `ProductCalls` assumes that each attempt is answered or times out, as
the clients' timeouts see to.  `RunsEnd` needs the limits of both counters and that a
refused token is renewed only once: its mutants remove one of them.

`Spec` of `Videos` assumes the same of a run's steps (`WF_vars(RunSteps)`), and of the
operator that a mapping which does not read is put right in the end
(`WF_vars(HandMends)`) and that plans without finished products and runs of them keep
being made (`SF_vars(PlanAgain(FALSE))`, `SF_vars(StartRun)`).  Pressing Fill in is not
assumed: the property is about what the mapping says.

`PublishScreen`, `DataScreen`, `Generation`, `McpServers`, `SetCategories` and
`Reconciliation` state no fairness: a child, a parse, a human at a question may go on for ever, and the properties
are about what happens, not that something does.

### 3.3 Where code and words part

The three violating runs each take a sentence of the code's own and show a
behaviour that contradicts it.

* `held_pages`: `_drop_held` is said to drop the products that were deliberately
  unpublished, "by GTIN rather than by row".  It looks for HELD rows among the
  *confirmed* rows, and the review never confirms a HELD row.  A language of that
  product without an entry is NEW, is confirmed alone, and its page goes live.  The
  record does not follow (`HeldRecordStaysDown` holds): its drafted siblings fail
  the check that targets serve.
* `interrupted`: `_is_held` counts on "an interrupted run leaves entries with
  retracted=True and a still-published page; treating that as held is what lets the next run
  finish the job".  The entries of a take-down are in memory until `save_state`, after the last
  product.  One that is killed before, or stopped by what `retract` raises, leaves the record
  disabled, perhaps pages drafted, and a state file that says nothing of it: the product is
  not held, its rows classify UNCHANGED or CHANGED, and a run may put it back.  Hence the
  exception in `UnchangedIsPublished`.
* `once`: `real_log` is "the sign that this walk has run", because "a walk runs for real
  once".  It is set when the stream has ended.  Until then every redraw, which an answer,
  a row decision or a finished build brings about, draws an enabled button again, and a
  second press is a second real run beside the first: two processes on one state file.

Other places where a reader may expect more than the code does, seen while modelling and
not run on their own.  Publishing:

* `run_unpublish`'s exit code is explained with "state still saved for those that
  succeeded".  What `retract` raises is not caught, and the save comes after the list of
  products: those already down are forgotten.
* The loss of the state file is said to cost "redundant work, not corruption".  It also
  forgets take-downs, and a run that confirms one language after it replaces the record
  without the links of the others.
* A plan made before a take-down puts the product back: `_drop_held` uses the
  classification in the plan, not in the state file it has just loaded.  That is
  why `reviewed` plans afresh before every run.
* `_RunLog` speaks of rows "committed to state.json" after an interruption; the
  commit is to the object in memory, and the file is written once at the end.
* A run with `--only links` over a listed page stamps the entries of pages the
  record does not name.  Properties about claimed links leave out products that
  may be listed.
* `upsert_page` creates "idempotently".  A create whose answer was lost is sent again
  and leaves a second page, whose slug WordPress makes unique with `-2`.  The row goes
  on with that one, and so does its record; the first stays published.  The tool of the
  wordpress MCP server does the same.
* The rollback window of `_upsert_row` closes when `upsert_page` returns, as "the page
  exists and carries them" from there on.  `upsert_page` is two requests: when the ACF
  fields fail, or the answer to the page write is lost, the page is there with its
  featured image, and the rollback deletes that image.
* The rollback window opens after the uploads.  When the video's upload raises, the
  hero image uploaded just before stays, on no page.  The next run finds it by its
  slug, so it is not uploaded twice.
* A slug's attachment whose size nobody reports is used.  Should a later run learn
  that it is short, it is discarded, although a live page may carry it.
  `OkPagesKeepMedia` is therefore about whole attachments.
* A session's answers are said to be about the plan it was shown.  Building a new plan
  clears the per-row decisions only: the plan's approval, the production answer and the
  dry run's survive it, and a change of mode.  The real run may then write what no dry
  run showed.  `RealRunsArePreviewed` is about a dry run of the walk, not of the plan.
* A dry run that is refused for a missing answer has replaced `plan.confirmed.json`, and
  a real run that has not read the file yet takes what it finds.  Hence
  `PatientRunsWriteWhatWasMeant` is about operators who wait.
* Publish shows and executes an old `plan.json` after another batch was saved, until a
  new plan is built.

Reconciliation:

* Drafted pages are not listed, so every product that was taken down is reported as
  recorded and not live, for ever, with the explanation that its page was deleted by
  hand and that the next run will call it UNCHANGED; it is HELD.  For the same reason
  nothing is ever reported as not published.
* The file and the languages are read one after the other.  A finding may be of a kind
  its row never was; `FindingsWereTrue` only says that the row was apart at some moment.

Batches:

* After Clear all, picking a mode enables Next, and Next opens the following screen with
  nothing saved (`NextSavesNothing`).
* `export.xlsx` is overwritten before it is read.  A save during the parse records the
  new export as the one it was chosen against; a first export that does not read stays,
  though the message says it was put back; and a parse that hangs raises past the
  putting back.
* A line of the ledger that was cut off joins the next one, and both are lost.  With a
  save of the same bytes in the same second the older one's mode is then in force.  A walk
  whose batch has no line falls back to publishing pages (`ui/pages/publish.py`, `_Flow`)
  and shows that as the batch's mode.
* A list that is uploaded over one put in place by hand leaves no copy of the latter
  beside an uploaded one; `SavesLoseNoList` sets that apart.
* The screen offers rows by each product's first address; `run_plan` refuses the whole
  file for one address off the site or a product with two (`TargetsRefused`).
* Nothing calls `restore_from_upload`, which the layout's README promises.

Content:

* Next waits for text in the results file also for products whose lines the feed
  publishes itself, which no producer is asked for: it stays shut, after Generate too.
* Nor is a producer asked for a name such a unit lacks.  The unit counts as one that
  copy can complete, and the plan leaves it out.
* The doctor is said not to disagree with the plan.  A unit it counts as covered is left
  out when its answer lacks the translation of a name; `DoctorAgreesWithPlan` allows it.
* A placeholder name is asked for and answered, and kept all the same.
* Generate replaces the results file with the units of the products it names; what
  other products had is gone.
* A read of the site that was begun under one batch is kept under that batch's key
  although it answers for the one saved meanwhile (`hurried`).  The key is the barcodes
  alone, so that a new export with the same barcodes resumes the old read.
* The run's own `_validate` counts the first of two answers for a unit, the plan takes
  the last.

Videos:

* With the rule off the report still says of products without all their videos that they
  "are held and will not be published at all" (`lib/quality_report_video.py`,
  `lib/video_status.py`); nothing is held, and they are published.
* A press of Fill in fills all it can (`PressSettles`) where the sheet has one answer for a
  row.  With two, the panel may say "nothing left to apply" where a second press fills
  something: the line that was not taken no longer makes another ambiguous.
* A file that does not prepare carries over the video of the entry before.  If a run
  that died had put another video on the page, entry and page part; a page a run wrote
  before it died may show a video nobody recorded for good, when the mapping goes back
  to the file of the entry.  `unsure` sets such pages apart until a run has kept an
  entry with a file that prepares, or with none.
* Two lines of a sheet that give one row two products are both accepted; the later one
  is written.
* The gate is read once per run, the mapping once per row: a mapping edited under a
  run can publish bare what the strict rule would hold.  `StrictPagesCarryVideo` sets
  that apart.
* A kept sheet that is edited in place becomes the newest by its time of writing.
* A product that is published in some of its languages only is "already present", and a
  plan leaves it out.

Parsing and categories:

* Two rows of one barcode: `docs/data-source-export-schema.md` (E3) says "First wins; the
  rest WARN and are skipped".  That is what the flat format does.  A workbook keeps the
  last row of a barcode and market and says nothing; the two are never compared.
* An image address that another market has otherwise is not reported, only a blank is.
* A field whose sheet is not in the export is passed over without an issue
  (`_resolve_field` returns early).  When it is required every product is held, and the
  report has no line that says so; the parse warns of the sheet when it runs, and the warning
  is not kept.  `NothingIsHidden` counts the warning.
* A field with `report: false` and the columns carried along as extras have no line in the
  report; `NothingIsHidden` is about the others.
* Between the two files of a parse the report is of an earlier export, or empty and
  unreadable; a parse that is killed there leaves it so.  `NothingIsHidden` is about files
  of one export.
* Exit code 0 of `set_categories` is "every page has its category".  A page whose product
  has none is skipped, which is no error, and the message blames an unmapped brick also
  for a product without one and for one that is not in `products.json` at all.
* The products are read twice.  A parse in between may leave none, and then every page
  is skipped and the exit code is 0.
* A term deleted after its look-up is sent all the same, and the site leaves the page
  without any; `DoneMeansFiled` sets that apart.
* `set_page_terms` guards the barcode in one request and writes in the next; a page that
  changed hands between is written.

MCP servers:

* A page call without `meta.gtin` is not guarded and overwrites whatever page it finds;
  one with `existing_id` overwrites the page of another language.
  `multilingual_plugin` defaults to none.
* Two calls for one page at a time may both create it, or leave the body of one and the
  fields of the other.
* A discard whose answer was lost fails its call, although the fragment is gone; the
  next call uploads.
* The servers write past `state.json`, so nothing of what they publish or disable is
  known to a plan.

## 4. What is proved

Every invariant and every action property of the passing runs is a theorem, for every
value of the constants.  TLC keeps what the prover cannot do (section 4.9).

`Publishing`, for any finite or infinite sets of products and languages, any foreign and
listed pages, and every setting of `StalePlans`, `Revives`, `Kills`, `EditorDrafts`,
`StateSpoils`:

| theorem | statement |
|---|---|
| `TypeCorrect` | `Spec => []TypeOK` |
| `LinksAreInRecord` | `Spec => []LinkedMeansInRecord` |
| `TargetsAreSeen` | `Spec => OnlySeenTargets` |
| `RecordGoesFirst` | `Spec => DisabledBeforeDrafted` |
| `RecordsFollowLedger` | `Spec => ClaimsFollowRecord`: the composition implements `ResolverLedger` |
| `CommitsAreWhole` | `Spec => []AllOrNothing` |
| `UnchangedIsDone` | `Spec => []UnchangedIsPublished` |
| `OwnPagesComeFirst` | `Spec => ListedNeverOverridesOwn` |
| `TakeDownsLast` | `NoOverrides` gives `Spec => []TakenDownIsHeld` |
| `HeldRecordsStay` | `NoOverrides` gives `Spec => HeldRecordStaysDown` |

`Reconciliation`, for any products, languages and pages, beside everything that goes on
meanwhile:

| theorem | statement |
|---|---|
| `ChecksOnlyObserve` | `CheckedSpec => Spec`: a check adds no step to the publishing |
| `LastingGapsShow` | `CheckedSpec => LastingGapsAreReported` |
| `FindingsAreTrue` | `CheckedSpec => FindingsWereTrue` |

`ProductCalls`, for any plan of at least one row, any files, any bounds on ids, runs and
tries:

| theorem | statement |
|---|---|
| `CallsTypeCorrect` | `Spec => []TypeOK`, which includes that no request exceeds its tries |
| `ShortUploadsAreNeverFound` | `Spec => []SlugMeansWhole` |
| `ClientMediaAreKept` | `Spec => ClientMediaStay` |
| `RecordPointsAtTheRun` | `Spec => []PointedPagesShowTheRun` |
| `OkRowsKeepTheirMedia` | `Spec => OkPagesKeepMedia` |

`PublishScreen`, for any products, languages and plans, any configuration, any number of
real runs at a time and any haste:

| theorem | statement |
|---|---|
| `ScreenTypeCorrect` | `Spec => []TypeOK`, which includes that a walk covers a language |
| `PermanentRunsAreConfirmed` | `Spec => []ProductionIsConfirmed` |
| `CopylessPlansStayLinks` | `Spec => []LinksOnlyWritesNoPages` |
| `RealRunsFollowPreviews` | `Spec => []RealRunsArePreviewed` |
| `PatientRunsAreMeant` | `Spec => []PatientRunsWriteWhatWasMeant` |
| `PatientWalksRunOnce` | `Spec => []PatientRunsOnce` |

`DataScreen`, for any lists, exports, mappings and addresses, and any number of saves, acts
and mishaps:

| theorem | statement |
|---|---|
| `BatchHolds` | `Spec => []BatchInv`, the types and the invariant of the others |
| `MemoryIsOfThisList` | `Spec => []RememberedIsOfThisList` |
| `StepsOpenOnTheirBatch` | `Spec => []OpenStepsHaveTheirBatch` |
| `PlansHoldNothingBack` | `Spec => []PlansKeepTheBatch` |
| `NoListIsLost` | `Spec => SavesLoseNoList` |

`Generation`, for any finite set of products, any languages, feeds and batches, and any
number of runs and attempts:

| theorem | statement |
|---|---|
| `WritingHolds` | `Spec => []GenInv`, the types and the invariant of the others |
| `AnswersSuffice` | `Spec => []WrittenIsEnough` |
| `DoctorIsRight` | `NameRequired` gives `Spec => []DoctorAgreesWithPlan` |
| `NoNameOfAnotherFeed` | `Spec => []NamesFollowTheFeed` |
| `NextOpensOnTheBatch` | `Spec => []NextKnowsTheBatch` |

`Videos`, for any products, languages, files and mappings, any sheets in any number of
windows, all three rules and any number of acts:

| theorem | statement |
|---|---|
| `SignOffIsKept` | `Spec => SignedOffStays` |
| `FillsAddNoClash` | `Spec => ApplyAddsNoClash` |
| `PressesSettle` | `Spec => PressSettles` |
| `PressesOnlyAdd` | `Spec => FillsOnlyAdd`, the three together |
| `VideoTypesCorrect` | `Spec => []TypeOK` |
| `VideosShowAsRecorded` | `Spec => []RecordedVideoShows` |
| `StrictPagesAreNotBare` | `Spec => StrictPagesCarryVideo` |
| `RunsFollowTheReport` | `Spec => HeldMeansUnpublished` |

`McpServers`, for any number of tool calls side by side, any inputs, configurations and
sites, and any limits:

| theorem | statement |
|---|---|
| `ServersKeepTheirShape` | `Spec => []Inductive`, the invariant of the others |
| `ServerTypesCorrect` | `Spec => []TypeOK` |
| `McpWritesConfirmed` | `Spec => []WritesAreConfirmed` |
| `McpPagesKeepTheirLanguage` | `Spec => []PagesKeepTheirLanguage` |
| `McpForeignPagesStay` | `Spec => ForeignPagesStay` |
| `McpFragmentsOnly` | `Spec => OnlyFragmentsGo` |
| `McpOkIsWritten` | `Spec => []OkMeansWritten` |

`SetCategories` and the parse it reads from, for any clients, field maps, markets,
languages and exports, any pages, terms and brick maps:

| theorem | statement |
|---|---|
| `FilingHolds` | `Scoped` gives `Spec => []FilingInv`, the types and the invariant of the next |
| `NoErrorMeansFiled` | `Scoped` gives `Spec => []DoneMeansFiled` |
| `ParseHidesNothing` | `GroupsApart` gives `Spec => []NothingIsHidden` |

`LinkedMeansInRecord`, `ClientMediaStay`, `PatientRunsOnce` and the type invariants are
proved and therefore in no run.

Four theorems and `FilingHolds` have a hypothesis on the constants.  Each names a way of
using the program that the property is about:

* `NoOverrides`: plans are made afresh, nobody gives `--revive`, no editor drafts a page,
  no page is listed.  The first two put a product back on purpose.  A page an editor drafts
  leaves an entry that is not held behind a take-down.  With a listed page, a run with
  `--only links` over a product one of whose languages is held enables its record
  again.  The run `edits` has what is excluded here;
* `NameRequired`: a record needs a product name.  Otherwise a plan leaves out, for want of
  copy, a unit without a name that the doctor does not count;
* `Scoped`: WPML or Polylang is configured, or all pages are in the default language.
  Otherwise a term is looked up without a language and may be another's;
* `GroupsApart`: no either-or group of fields is called like a field.  Otherwise the
  report could not tell the gap of one from the gap of the other.

### 4.1 The argument for `Publishing` and `Reconciliation`

Assumptions: `MaxVersionAssumption` (a positive bound), `WorldAssumption` (the
default language is configured; foreign and listed pages belong to known
products), `RunAssumption`.  TLC evaluates them on every run.

Losing the state file empties every claim at once, and forgets what was taken down.  None of the properties is inductive.  That the file's claims are true says nothing
of the claims a process holds in memory, which `save_state` turns into the file's.
So `Inductive` adds:

* `MemoryLinkedInRecord`, the same of memory;
* `LinkedIsRecorded`: a claim belongs to an entry, and a run drops no claim the
  file makes.  Only a take-down does, and no run is going on then;
* `LinkSetIsComplete`: the link set about to be written names every recorded and
  every confirmed language, so that the replacing write loses none; between the
  write and the commit the record names every confirmed one;
* `EntriesCarryLink`: what phase 2 will commit has the link memory has;
* `WorkIsKnown` and `ListedIsAllowed`: the product in work is one of ours, has rows,
  and is only listed if it may be;
* `LinkSetIsSeen` and `DisabledWhileDrafting` for the two action properties.

`PublishingProofs` has one lemma for each part (one step per action), `Invariance`,
and the theorems.  The refinement needs no more than the invariant: a step that leaves
the record alone is a `Claim`, one that writes it leaves the file alone and is a `Point`
or, for a product that may be listed, a stutter.

What a commit says is a second layer on top, `CommitInductive`, whose proof uses
`Inductive` as a lemma:

* `EntriesAreMeant`: the entries held back until phase 2 are of rows this run wrote, at the
  plan's version, and of all confirmed rows when it writes pages;
* `WrittenIsEnabled`: between the record's write and the commit the record is enabled.
  With `EntriesAreMeant` this makes a commit whole (`AllOrNothing`);
* `VersionsFollow` and `PagesKeepUp`: entries and pages are not ahead of the plan, nor the
  plan of the content; and a published page shows at least what its entry says.  So an
  entry of today's content has a page of today's content (`UnchangedIsPublished`);
* `ListedIsLast`: a record is only pointed at a listed page when the default language has
  no entry and no page serving;
* `LinkedIsUp`: a page whose link is claimed is published and its record enabled, unless a
  take-down has begun on the product or an editor took the page.  `TargetsAreUp` says the same
  of the link set of the product in work, before and after the record is written, and
  `TakeDownIsMarked` that a take-down is marked as begun until its unlinked entries are saved.
  With them `UnchangedIsPublished` asks for the enabled record too.

What stays down is a third, `HeldInductive`, under `NoOverrides`: `HeldIsDown` (a held entry
is of a page that is down), `RunsLeaveHeld` (a run works on no held row and points no record
of a held product), `TakeDownIsNoted` (what a take-down has done so far is in memory, what
one reported is disabled and, once saved, held in the file).

A check reads the state file once and each language's pages once, while everything goes on.
`CheckHolds` says what it has in hand: a row that has been a gap ever since was recorded when
the check began and was not found, and a row that was never apart is as it was.  It is
inductive because no step of `Publishing` writes both a page and the state file
(`OneAtATime`): to get from published and recorded to neither, a row has to be apart in
between.

### 4.2 The argument for `ProductCalls`

Assumptions: `RequestsAssumption` (both limits positive) and `RowWritesAssumption` (ids
are positive, the plan has a row, each row has a file, the client's files are among
them, and no file is called `none`).

A request's effect and its answer are separate, so each property needs to know what a
process has in hand between two requests.  `Inductive` adds to `TypeOK` and
`SlugMeansWhole`:

* `ChosenFits`: what the row has chosen stays within its files, so that `File` is one;
* `UploadIsOurs`: the attachment to be discarded or finalised has no slug or has our
  hash, and one to be finalised was not measured short;
* `TargetIsOwn`: the page to be written has the row's language, and before the last
  check its body, and then its fields, are this run's;
* `OutcomesAreTrue`: the page of a row that came out ok shows this run, and stays so
  while its siblings are written.

The row's actions are first reduced to what the invariant needs of them (`RowStep`:
which attachments and pages a step leaves alone, and how the row moves on), the other
actions to `RecordMoves`, which touch neither library nor pages.

That a failing row takes no image from under its sibling's page needs to know where an
attachment may be in use.  `MediaAreApart` says that whatever a page or the row uses is in
the library, that what is about to be discarded is not whole, and that what the row in work
put there is on no page of another language.  A new attachment is on no page because its id
was never given before (`CreateMediaSpares`), and until the row is over only the row's own
page can take it up.  Each action then does three things at most (`Spares`): it changes a
whole attachment only if it is the row's own, adds to the row's page only what is in hand,
and takes in hand only what is there.

### 4.3 The argument for `PublishScreen`

Assumptions: `SessionAssumption` (there is a language; plans say something about every
row) and `ScreenAssumption` (slots and haste are numbers).

A property of runs that write must hold of what a run will find when it reads the file,
and of the screen before it starts one.  `Inductive` adds to `TypeOK`:

* `RunsAreAccepted`: a run's acknowledgement, in a mode that writes records, comes from
  the production gate, and a run that writes was accepted with what it read.  The first
  holds when it is started because the gate is in every walk of that mode, the second
  because what is written to the file later reaches runs only that have not read it
  (`WriteReaches`);
* `DryRunWasRead`: the answer about the dry run comes after its end.  A run is authorised
  by that answer, since its gate is in every walk (`RealRunWasRead`);
* `ScreenIsCurrent`: without haste the screen shows `plan.json`, unless a build is about
  to redraw it, and rows were applied of that plan.  So what is confirmed is what was
  meant (`ConfirmedIsMeant`), and stays so in `RunsAreMeant`;
* `ButtonIsFirst` and `RunIsNoted`: there is no button after `real_log`, and without haste
  the one run of a walk goes on or is in `real_log`.

### 4.4 The argument for `DataScreen`

Assumptions: `RuleAssumption`, `FilesAssumption` and `ScreenAssumption` (the rules are switched
on or off, lists have rows of known products and kinds of address, bounds are numbers).

A batch is in six files and on a screen, and each property compares two of them.  `BatchInv`
says of each what it is of:

* `PageOK`: what can run is among the rows drawn (`OnwardRuns`), and the grid, the ticks and
  Next are of the list in place, unless there was a mishap (`ScreenIsCurrent`);
* `ExportsAgree`: `products.json` is of the export in place, or while one is read of the one
  before it;
* `LedgerOK`: every line of the ledger is of a save, with its mode and its export
  (`HistoryIsOfSaves`), the snapshot has the ticks of a save of those bytes
  (`SnapshotIsOfSaves`), and the list in place has a dated copy, is a save's, or was put
  there by hand (`ListsAreKept`);
* `OfTheSave`: past the Data screen the selection is the last save's, and all of it can run.

`PlansKeepTheBatch` then is about the rules alone: a product that the screen lets run is one
that the export carries and the mapping and the image rule admit (`CanRunRuns`), and the
plan asks the same.

### 4.5 The argument for `Generation`

Assumptions: `CopyAssumption` (finitely many products, a default language among the languages)
and `GenerationAssumption` (positive limits; feeds and batches are of what there is).

A complete answer is one that had read everything it needed; what it needed is computed from
the feed, the state file and the batch at the moment of the question.  `GenInv` carries that
moment along: `RequestsAreEnough` (the requests ask for every unit that had to be asked for
when they were written), `JobsAreEnough` (of those a run of the API has each answered or
still to do), `AnswersAreEnough` (the results of the last complete answer have each), and
`OfOneBatch` (the screen, its reads of the site and the look that is kept are of the batch
that was saved, unless one was saved meanwhile).

`DoctorAgreesWithPlan` and `NamesFollowTheFeed` are about the operators of `Copy`, which
doctor and plan use in different orders; they need of the state only that every item answers
a unit of the feed it was made from (`ResultsAnswer`).

### 4.6 The argument for `Videos`

Assumption: `VideosAssumption` (the batch is of known products, the first mappings and the
edits by hand are of the mapping's rows and cells, the two marks of a page are no files).

A press of Fill in keeps what was signed off because
`Edits` plans only rows without an answer, against the mapping it writes to; it makes no
clash because a product it gives a file to had none in that language, in the mapping or in
another line (`_mark_ambiguous`).

`RecordedVideoShows` is not inductive: between `WriteRow` and `EndRun` the page is ahead of
the file, and what the run holds will replace it.  `ShowInv` adds `TypeOK` and
`RunFitsPages`: a run touches each row once; what it holds of a row it has kept or done
fits the page, or the row is `unsure`; and of every other row it holds what the file holds.

That a press leaves nothing to fill in (`PressSettles`) compares two plans, the window's and
the one the report makes of its own copy of the sheet.  `ArchiveMatches` says that the two have the
same sheet, whatever came later or was edited in place; `FillingSettles` is then about the
operators: a row that was filled has an answer, and a line that was ambiguous before the
fills is ambiguous after them, where no row has two answers.

`StrictPagesCarryVideo` needs `TodoIsAdmitted`: what a run has still to write is admitted by
the mapping it read when it started.  So does `HeldMeansUnpublished`, which adds what the
surfaces make of that mapping (`ReportsFollowTheGate`): they compute who is held from the
statuses of the rows, the run from the rows themselves.

### 4.7 The argument for `McpServers`

Assumptions: `McpCallsAssumption` (positive limits, three kinds of tools, two environments)
and `McpServersAssumption` (the sites the servers meet carry no call's number).

A call's effects come long after it looked, and other calls move in between.  `Inductive`
adds to `TypeOK` and the two invariants:

* `CallsAreProper`: a call makes the requests of its tool, and works only when every gate
  of the configuration it keeps is answered;
* `HandsAreClean`: the page in hand is there, is the call's own product's or one it did
  not ask about, and of its language; the attachment in hand is short and ours.  Both stay
  so whoever moves, because no step takes a page away, or changes its product or language,
  or makes a fragment whole (`PagesMove`, `MediaMove`, `HandsStay`);
* `WritersAreKnown`: what carries a call's number was written by a call that came in.

Every attempt is reduced to an `Outcome`: what becomes of the call (`Continues`) and how
records, pages and attachments may move.  The invariant and the two action properties
need no more of it.

`OkMeansWritten` has two parts more, `WrittenShows` (what a call has sent is there, of its
own or of a call that goes on beside it) and `EndedComeFirst` (a call that had ended when
another came in stays ended), because the last one to write may be either.

### 4.8 The argument for `SetCategories`

Assumptions: `MarketsAssumption` (the markets are a sequence), `TermsAssumption`,
`PagesAssumption` and `MappingsAssumption` (terms, pages and brick maps are of their kinds),
`DeliveriesAssumption` (a client's field map is well formed, flat rows are numbered).

`FilingInv` says of a run that it plans by what it read (`PlanIsRead`), that a term in hand or
remembered is of the category and language it was asked for and was on the site while the
script ran (`TermsAreAsked`), and that of the pages covered those that are not to come are
settled (`CoveredIsSettled`).  A page is settled when it was seen in exactly its category, or
when its product has none, or when its term was deleted under the script.

`ParseHidesNothing` is about the functions of `Export`, whatever is in the sheets.  A value
in a record is what the markets in their order say of it (`ValueIsRanked`); another market
either agrees with it once prefixes are off and case is folded (`StrippedThenFolded`,
`Consistent`), or is reported; a field without any value is a gap of itself or of its group
(`GapsAreOfFieldsOrGroups`), and every gap of a reported field is in the report.  A
field about which the parse did not warn has its sheet (`UnwarnedIsThere`).  The state
adds only that the two files are of deliveries (`FilesAreOfExports`).

### 4.9 Only model-checked

The liveness properties `Converges`, `RunsEnd` and `ConfirmedVideoArrives`: fairness and
ENABLED are out of the prover's reach.  The three violations, `HeldPagesStayDown`,
`InterruptedTakeDownIsHeld` and `RunsForRealOnce`, are shown by TLC's behaviours.

## 5. What is not modelled, and why

* *Media files* (`lib/media.py`, `lib/qr.py`), most of *configuration and environment*, *demo
  data and packaging*: functions of their inputs.  They keep no state between calls, and
  what they get wrong is wrong data, which the models take as it comes.
* *Parsing*: how header rows and cells become attributes and texts (`lib/gdsn_layout.py`,
  `lib/xlsx.py`), the `--output` option.
* *Categories*: a category mapped from a column of the export, the `--gtin` filter, term
  look-ups on a site with Polylang or without translations, drafting a brick map.
* *Reports*: most of `lib/preflight.py` and `lib/quality_report*.py` looks at one thing
  each and says so.  Modelled are the two statements that claim to foretell a plan (text
  and videos), the coverage of the brick map, and the sheet the report plans again.
* *Clients*: bulk and draft calls of the GS1 client and page deletion of the WordPress
  client, which no run uses; which requests plugin detection makes.
* *Screens*: Setup and Runs, layout and wording everywhere, the saved progress of a walk
  and the retry offered after a run, several windows on one process.
* *Videos*: ranking candidates and adding rows for new files, the cache of prepared files,
  entries older than the field that names their video.
* *MCP servers*: the tools that only read, and `qr-render`.

Every item of the plan this project began with is done.
