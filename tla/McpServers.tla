------------------------------ MODULE McpServers ------------------------------
(***************************************************************************)
(* What the tools of gs1-nl and wordpress write: records of two            *)
(* environments, pages and attachments of one multilingual site.  Whatever *)
(* a call wrote carries the call's number; 0 is what was there before.     *)
(***************************************************************************)
EXTENDS McpCalls

CONSTANTS
    Gtins,              \* products; a page's slug is named after its product
    Languages,
    DefaultLanguage,    \* what the site answers for when no language is given
    MaxPages, MaxMedia, \* bounds on the ids there are
    Sites,              \* the pages and attachments the site may begin with
    BatchSize           \* entries of a bulk request

PageIds == 1..MaxPages
MediaIds == 1..MaxMedia

NoPage == [there |-> FALSE, slug |-> "none", language |-> DefaultLanguage,
           gtin |-> "none", body |-> 0, fields |-> 0]
NoMedia == [there |-> FALSE, slugged |-> FALSE, whole |-> FALSE, hashed |-> FALSE, by |-> 0]

Page == [there : BOOLEAN, slug : Gtins \cup {"none", "suffixed"}, language : Languages,
         gtin : Gtins \cup {"none"}, body : {0} \cup Calls, fields : {0} \cup Calls]
Media == [there : BOOLEAN, slugged : BOOLEAN, whole : BOOLEAN, hashed : BOOLEAN,
          by : {0} \cup Calls]

ASSUME McpServersAssumption ==
    /\ MaxPages \in Nat /\ MaxMedia \in Nat /\ BatchSize \in Nat \ {0}
    /\ DefaultLanguage \in Languages
    /\ \A i \in Inputs : i.tool = "records" => i.entries \in Seq(Gtins)
    /\ \A i \in Inputs : i.tool = "page" =>
          i.slug \in Gtins /\ i.gtin \in Gtins \cup {"none"} /\ i.language \in Languages
    /\ \A site \in Sites :
          /\ site.pages \in [PageIds -> Page] /\ site.media \in [MediaIds -> Media]
          /\ \A p \in PageIds : site.pages[p].body = 0 /\ site.pages[p].fields = 0
          /\ \A m \in MediaIds : site.media[m].by = 0

VARIABLES
    records,    \* records[environment][gtin]: the call that wrote it last
    pages,      \* pages[id]
    media       \* media[id]

callVars == <<workload, config, edits, calls>>
vars == <<callVars, records, pages, media>>

Environments == {"test", "production"}

TypeOK ==
    /\ CallsTypeOK
    /\ records \in [Environments -> [Gtins -> {0} \cup Calls]]
    /\ pages \in [PageIds -> Page]
    /\ media \in [MediaIds -> Media]

Init ==
    /\ CallsInit
    /\ records = [e \in Environments |-> [g \in Gtins |-> 0]]
    /\ \E site \in Sites : pages = site.pages /\ media = site.media

\* The request of call c is over, as call says; the remote side is as it is.
Becomes(c, call) == calls' = [calls EXCEPT ![c] = call] /\ UNCHANGED <<workload, config, edits>>
Untouched == UNCHANGED <<records, pages, media>>

-------------------------------------------------------------------------------
(* gs1-nl: one entry or many, in chunks. *)

\* What the next request carries.
Chunk(entries, sent) ==
    {entries[n] : n \in {k \in DOMAIN entries : sent < k /\ k <= sent + BatchSize}}

\* The API writes some of a chunk, all of it when it answers well.
RecordsWritten(c, part) ==
    /\ records' = [records EXCEPT ![calls[c].config.environment] =
                      [g \in Gtins |-> IF g \in part THEN c ELSE @[g]]]
    /\ UNCHANGED <<pages, media>>

SendChunk(c) ==
    LET call == calls[c]
        sent == call.sent + BatchSize
    IN  /\ call.step = "send"
        /\ IF call.sent >= Len(call.input.entries)
           THEN Untouched /\ Becomes(c, Succeeded(call))
           ELSE /\ RecordsWritten(c, Chunk(call.input.entries, call.sent))
                /\ Becomes(c, [GoTo(call, "send") EXCEPT !.sent = sent])

\* The answer is lost or an error; some of the chunk may be written all the same.
SendChunkFails(c) ==
    LET call == calls[c]
    IN  /\ call.step = "send"
        /\ call.sent < Len(call.input.entries)
        /\ \E part \in SUBSET Chunk(call.input.entries, call.sent) : RecordsWritten(c, part)
        /\ Becomes(c, Retried(call)) \/ Becomes(c, Failed(call))

\* The token is refused before anything is written.
TokenRefused(c) ==
    /\ calls[c].step = "send"
    /\ calls[c].sent < Len(calls[c].input.entries)
    /\ Becomes(c, Renewed(calls[c]))
    /\ Untouched

-------------------------------------------------------------------------------
(* wordpress: a page is looked up three ways, and written twice. *)

\* Mutated form: the language is not sent along.
ScopeDefault(call) == DefaultLanguage

\* The language a lookup or a create is answered for: the site takes none for
\* the default, and the client sends one if it is configured as multilingual.
Scope(call) == IF call.config.multilingual THEN call.input.language ELSE DefaultLanguage

Taken(slug, language, id) ==
    \E p \in PageIds \ {id} :
        pages[p].there /\ pages[p].slug = slug /\ pages[p].language = language

\* Mutated form: only the wrong product is refused, not a page without one.
GuardedMismatch(page, input) ==
    input.gtin # "none" /\ page.gtin # "none" /\ page.gtin # input.gtin

\* A page found is not overwritten if it is another product's (E8), or nobody's
\* (E11); a call without meta.gtin is not checked.
Guarded(page, input) == input.gtin # "none" /\ page.gtin # input.gtin

Found(call, id) ==
    IF Guarded(pages[id], call.input) THEN Failed(call)
    ELSE [GoTo(call, "write") EXCEPT !.target = id]

LookUp(c) ==
    LET call == calls[c]
        input == call.input
        InScope(p) == pages[p].there /\ pages[p].language = Scope(call)
        slugged == {p \in PageIds : InScope(p) /\ pages[p].slug = input.slug}
        own == {p \in PageIds : InScope(p) /\ pages[p].gtin = input.gtin}
    IN  /\ Untouched
        /\ \/ /\ call.step = "by id"
              /\ Becomes(c, IF input.id \in PageIds /\ pages[input.id].there
                            THEN Found(call, input.id) ELSE GoTo(call, "by slug"))
           \/ /\ call.step = "by slug"
              /\ \/ \E p \in slugged : Becomes(c, Found(call, p))
                 \/ /\ slugged = {}
                    /\ Becomes(c, GoTo(call, IF input.gtin # "none" THEN "by gtin"
                                             ELSE "write"))
           \* A site that does not filter by meta may keep the page to itself.
           \/ /\ call.step = "by gtin"
              /\ \/ \E p \in own : Becomes(c, Found(call, p))
                 \/ Becomes(c, GoTo(call, "write"))

\* The body, in place or as a new page, whose slug gets a suffix if it is taken.
BodyWritten(c, id) ==
    LET input == calls[c].input
        old == pages[id]
        language == IF old.there THEN old.language ELSE Scope(calls[c])
    IN  /\ pages' = [pages EXCEPT ![id] =
              [there |-> TRUE, language |-> language,
               slug |-> IF Taken(input.slug, language, id) THEN "suffixed" ELSE input.slug,
               gtin |-> IF input.gtin # "none" THEN input.gtin ELSE old.gtin,
               body |-> c, fields |-> old.fields]]
        /\ UNCHANGED <<records, media>>

\* The page a write goes to: the one found, or a new one under the next id.
WriteTargets(call) ==
    IF call.target # 0 THEN {call.target}
    ELSE {p \in PageIds : \A q \in PageIds : pages[q].there <=> q < p}

\* Mutated form: an update does without the second call.
AfterBodyOfNew(call) ==
    IF call.input.fields /\ call.target = 0 THEN GoTo(call, "acf") ELSE Succeeded(call)

\* The ACF fields follow in a call of their own, if there are any.
AfterBody(call) == IF call.input.fields THEN GoTo(call, "acf") ELSE Succeeded(call)

WritePage(c) ==
    /\ calls[c].step = "write"
    /\ \E id \in WriteTargets(calls[c]) :
          /\ BodyWritten(c, id)
          /\ Becomes(c, [AfterBody(calls[c]) EXCEPT !.target = id])

\* A create whose answer is lost is sent again, and creates another page.
WritePageFails(c) ==
    /\ calls[c].step = "write"
    /\ Untouched \/ \E id \in WriteTargets(calls[c]) : BodyWritten(c, id)
    /\ Becomes(c, Retried(calls[c])) \/ Becomes(c, Failed(calls[c]))

FieldsWritten(c) ==
    /\ pages' = [pages EXCEPT ![calls[c].target].fields = c]
    /\ UNCHANGED <<records, media>>

WriteAcf(c) ==
    /\ calls[c].step = "acf"
    /\ FieldsWritten(c)
    /\ Becomes(c, Succeeded(calls[c]))

WriteAcfFails(c) ==
    /\ calls[c].step = "acf"
    /\ Untouched \/ FieldsWritten(c)
    /\ Becomes(c, Retried(calls[c])) \/ Becomes(c, Failed(calls[c]))

-------------------------------------------------------------------------------
(* wordpress: a file is looked up by its hash, and uploaded if it is missing. *)

\* Mutated form: an answer without a length counts as no bytes.
SizesAsZero(m) == {"short", IF m.whole THEN "whole" ELSE "short"}

\* What storedBytes may make of an attachment: nobody need say how long it is.
Sizes(m) == {"unknown", IF m.whole THEN "whole" ELSE "short"}

FindMedia(c) ==
    LET call == calls[c]
        slugged == {m \in MediaIds : media[m].there /\ media[m].slugged}
    IN  /\ call.step = "find"
        /\ Untouched
        /\ \/ slugged = {} /\ Becomes(c, GoTo(call, "upload"))
           \/ \E m \in slugged : \E size \in Sizes(media[m]) :
                 Becomes(c, CASE size # "short" -> [Succeeded(call) EXCEPT !.target = m]
                              [] size = "short" /\ media[m].hashed ->
                                    [GoTo(call, "discard") EXCEPT !.target = m]
                              [] OTHER -> Failed(call))

Deleted(c) ==
    /\ media' = [media EXCEPT ![calls[c].target].there = FALSE,
                             ![calls[c].target].slugged = FALSE]
    /\ UNCHANGED <<records, pages>>

\* The fragment found goes, and the file is uploaded; one already gone, or one
\* that cannot be deleted, ends the call.
Discard(c) ==
    /\ calls[c].step = "discard"
    /\ IF media[calls[c].target].there
       THEN /\ Deleted(c)
            /\ Becomes(c, [GoTo(calls[c], "upload") EXCEPT !.target = 0])
       ELSE Untouched /\ Becomes(c, Failed(calls[c]))

DiscardFails(c) ==
    /\ calls[c].step = "discard"
    /\ Untouched \/ Deleted(c)
    /\ Becomes(c, Retried(calls[c])) \/ Becomes(c, Failed(calls[c]))

Stored(c, m, whole) ==
    /\ media' = [media EXCEPT ![m] = [there |-> TRUE, slugged |-> FALSE, whole |-> whole,
                                      hashed |-> FALSE, by |-> c]]
    /\ UNCHANGED <<records, pages>>

\* The next id; none is used twice.
FreeMedia == {m \in MediaIds : \A n \in MediaIds : media[n] # NoMedia <=> n < m}

\* The bytes are stored, all or not, and measured before they get their slug.
Upload(c) ==
    /\ calls[c].step = "upload"
    /\ \E m \in FreeMedia, whole \in BOOLEAN :
          /\ Stored(c, m, whole)
          /\ \E size \in Sizes([whole |-> whole]) :
                Becomes(c, [GoTo(calls[c], IF size = "short" THEN "drop" ELSE "finalise")
                               EXCEPT !.target = m])

UploadFails(c) ==
    /\ calls[c].step = "upload"
    /\ Untouched \/ \E m \in FreeMedia, whole \in BOOLEAN : Stored(c, m, whole)
    /\ Becomes(c, Retried(calls[c])) \/ Becomes(c, Failed(calls[c]))

\* A short upload is deleted, if that succeeds, and reported either way.
Drop(c) ==
    /\ calls[c].step = "drop"
    /\ \/ Deleted(c) /\ Becomes(c, Failed(calls[c]))
       \/ Untouched /\ (Becomes(c, Retried(calls[c])) \/ Becomes(c, Failed(calls[c])))

\* The slug and the hash, by which the file is found from now on.
Finalised(c) ==
    LET m == calls[c].target
        taken == \E other \in MediaIds \ {m} : media[other].there /\ media[other].slugged
    IN  /\ media' = [media EXCEPT ![m].slugged = ~taken, ![m].hashed = TRUE]
        /\ UNCHANGED <<records, pages>>

Finalise(c) ==
    /\ calls[c].step = "finalise"
    /\ Finalised(c)
    /\ Becomes(c, Succeeded(calls[c]))

FinaliseFails(c) ==
    /\ calls[c].step = "finalise"
    /\ Untouched \/ Finalised(c)
    /\ Becomes(c, Retried(calls[c])) \/ Becomes(c, Failed(calls[c]))

-------------------------------------------------------------------------------
\* A read that fails, and any request the other side has no time for.
ReadFails(c) ==
    /\ calls[c].step \in {"by id", "by slug", "by gtin", "find"}
    /\ Becomes(c, Retried(calls[c])) \/ Becomes(c, Failed(calls[c]))
    /\ Untouched

TooMany(c) ==
    /\ calls[c].step = "send" => calls[c].sent < Len(calls[c].input.entries)
    /\ Becomes(c, Throttled(calls[c]))
    /\ Untouched

Attempt(c) ==
    /\ Working(c)
    /\ \/ SendChunk(c) \/ SendChunkFails(c) \/ TokenRefused(c)
       \/ LookUp(c) \/ WritePage(c) \/ WritePageFails(c) \/ WriteAcf(c) \/ WriteAcfFails(c)
       \/ FindMedia(c) \/ Discard(c) \/ DiscardFails(c) \/ Upload(c) \/ UploadFails(c)
       \/ Drop(c) \/ Finalise(c) \/ FinaliseFails(c)
       \/ ReadFails(c) \/ TooMany(c)

\* A server's process ends, and the calls it was working on with it.
ServerStops(tools) ==
    /\ \E c \in Calls : calls[c].status \in {"asking", "working"} /\ calls[c].input.tool \in tools
    /\ calls' = [c \in Calls |->
          IF calls[c].status \in {"asking", "working"} /\ calls[c].input.tool \in tools
          THEN Over(calls[c], "gone") ELSE calls[c]]
    /\ UNCHANGED <<workload, config, edits>>

Next ==
    \/ EditConfig /\ Untouched
    \/ \E c \in Calls :
          \/ (\E input \in Inputs : Begin(c, input)) /\ Untouched
          \/ (Accepts(c) \/ Refuses(c)) /\ Untouched
          \/ Attempt(c)
    \/ (ServerStops({"records"}) \/ ServerStops({"page", "media"})) /\ Untouched

Spec == Init /\ [][Next]_vars

-------------------------------------------------------------------------------
(* Properties. *)

\* Whatever a call wrote, a human had said yes to it, and had said so twice if it
\* is a record of the production environment (gs1-nl tools.ts, gateWrite; both
\* gate.ts): also when clients.yml is edited while the question is open.
WritesAreConfirmed ==
    \A c \in Calls :
        /\ \/ \E e \in Environments, g \in Gtins : records[e][g] = c
           \/ \E p \in PageIds : c \in {pages[p].body, pages[p].fields}
           \/ \E m \in MediaIds : media[m].by = c
           => "intent" \in calls[c].accepted
        /\ (\E g \in Gtins : records["production"][g] = c) => calls[c].accepted = Gates

\* A call's work can be overtaken by one that had not ended when it began.
Overtaken(c, d) == d # 0 /\ d \notin calls[c].before

\* A bulk upsert that reports ok has written every entry, in as many chunks as it
\* took, retried or not: each record is its own, or a later call's.
OkRecordsAreWritten ==
    \A c \in Calls :
        calls[c].status = "ok" /\ calls[c].input.tool = "records" =>
            \A n \in DOMAIN calls[c].input.entries :
                LET by == records[calls[c].config.environment][calls[c].input.entries[n]]
                IN  by = c \/ Overtaken(c, by)

\* A page that was reported ok shows the content of the call and, if there were
\* any, its fields, which travel in a second request (client.ts, upsertPage): or
\* those of a call that was at the same page later or meanwhile.
OkPagesAreWhole ==
    \A c \in Calls :
        calls[c].status = "ok" /\ calls[c].input.tool = "page" =>
            LET page == pages[calls[c].target]
            IN  /\ page.body = c \/ Overtaken(c, page.body)
                /\ calls[c].input.fields => page.fields = c \/ Overtaken(c, page.fields)

\* What is reported ok is there, all of it, however many requests it took.
OkMeansWritten == OkRecordsAreWritten /\ OkPagesAreWhole

\* On a site configured as multilingual a page holds the text of its language:
\* one slug and one product are shared by all languages, and only the scope of
\* the lookups keeps a translation off the page it translates (client.ts,
\* langParams).  A page named by existing_id is taken as it is.
PagesKeepTheirLanguage ==
    \A p \in PageIds :
        LET c == pages[p].body
        IN  c # 0 /\ calls[c].config.multilingual /\ calls[c].input.id = 0 =>
                pages[p].language = calls[c].input.language

\* A call that names its product changes no page of another product's and none
\* of nobody's (E8, E11; client.ts, guardGtinMatch), whichever lookup found the
\* page and whatever other calls did since.
ForeignPagesStay ==
    [][\A p \in PageIds, c \in Calls :
          /\ pages[p].there
          /\ (pages'[p].body = c /\ pages[p].body # c)
                \/ (pages'[p].fields = c /\ pages[p].fields # c)
          => calls[c].input.gtin \in {"none", pages[p].gtin}]_vars

\* An attachment that is whole is never deleted, nor one this tool did not upload
\* (client.ts, isWhole and assertWhole), though the size may be unknown and other
\* calls upload the same file.
OnlyFragmentsGo ==
    [][\A m \in MediaIds :
          media[m].there /\ ~media'[m].there =>
              ~media[m].whole /\ (media[m].hashed \/ media[m].by # 0)]_vars

===============================================================================
