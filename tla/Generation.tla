----------------------------- MODULE Generation -----------------------------
(***************************************************************************)
(* Writing the text of a batch and publishing it: scripts/run_generate.py, *)
(* lib/llm.py, what scripts/run_plan.py makes of the results file, and the *)
(* Content screen, ui/pages/content.py.                                    *)
(*                                                                         *)
(* Everything the steps share is a file: the parsed feed, the list of the  *)
(* batch, the state file, the requests and the results.  A producer is the *)
(* API, driven from the screen or a terminal, or a session that reads the  *)
(* requests and writes the results by hand.                                *)
(***************************************************************************)
EXTENDS Copy, FiniteSets

CONSTANTS Batches,      \* the sets of products that may be saved on Data
          SignOffs,     \* the sets of products that may have their media
          Published,    \* the feeds everything may have been published from before
          MaxAttempts,  \* attempts at one call of the API
          MaxJobs,      \* bound on the runs of the API at the same time
          MaxActs       \* bound on what the operator, the client and others do

ASSUME GenerationAssumption ==
    /\ MaxAttempts \in Nat \ {0} /\ MaxJobs \in Nat \ {0} /\ MaxActs \in Nat
    /\ Published \subseteq DOMAIN Feeds
    /\ Batches \cup SignOffs \subseteq SUBSET Products /\ Products \in Batches

VARIABLES
    feed,      \* the parsed export, with the prompt version
    admitted,  \* products with the videos and the image they need
    listed,    \* the products of the saved batch
    entries,   \* state.json: the feed each unit was published from, or never
    site,      \* per unit: no page, text, or a page whose text is gone
    requests,  \* generation_requests.json: what was seen, and the units
    results,   \* generation_results.json
    jobs,      \* the runs of the API backend
    page,      \* the Content screen
    checks,    \* reads of the site that go on, with the batch they are kept for
    kept,      \* the last read of the site, and its batch
    whole,     \* history: what the last complete answer had seen, and if it filled all
    hurried,   \* history: a batch was saved while a read of the site went on
    acts       \* history: how much was done

world == <<feed, admitted, listed, entries, site>>
files == <<requests, results, whole>>
screen == <<page, checks, kept>>
vars == <<world, files, jobs, screen, hurried, acts>>

(* What a run reads before it starts, and nothing read *)
Now == [feed |-> feed, admitted |-> admitted, listed |-> listed, entries |-> entries]
NotSeen == [feed |-> "none", admitted |-> {}, listed |-> {}, entries |-> <<>>]

NotRead == [read |-> FALSE, bucket |-> [p \in {} |-> "held"]]
Closed == [open |-> FALSE, batch |-> {}, shown |-> NotRead, ticks |-> {},
           onward |-> FALSE, after |-> FALSE]
NoResult == [seen |-> NotSeen, items |-> <<>>, named |-> {}]
NoAnswer == [seen |-> NotSeen, full |-> FALSE]

Init ==
    /\ feed \in DOMAIN Feeds
    /\ admitted = Products /\ listed = Products
    /\ \E before \in {"never"} \cup Published :
          /\ entries = [u \in Units |-> before]
          /\ site = [u \in Units |-> IF before = "never" THEN "no page" ELSE "text"]
    /\ requests = [seen |-> NotSeen, asked |-> {}]
    /\ results = <<>> /\ whole = NoAnswer
    /\ jobs = {}
    /\ page = Closed /\ checks = {}
    /\ kept = [batch |-> {}, payload |-> NotRead]
    /\ hurried = FALSE /\ acts = 0

Act == acts < MaxActs /\ acts' = acts + 1

-----------------------------------------------------------------------------
(* What changes what there is to write *)

ParseExport(f) ==
    /\ f # feed /\ Act
    /\ feed' = f
    /\ UNCHANGED <<admitted, listed, entries, site, files, jobs, screen, hurried>>

(* A batch is saved on Data; the reads that go on are of the one before. *)
SaveBatch(batch) ==
    /\ batch # listed /\ ~page.open /\ Act
    /\ listed' = batch
    /\ hurried' = (hurried \/ checks # {} \/ \E job \in jobs : job.by = "page")
    /\ UNCHANGED <<feed, admitted, entries, site, files, jobs, screen>>

SignOff(products) ==
    /\ products # admitted /\ Act
    /\ admitted' = products
    /\ UNCHANGED <<feed, listed, entries, site, files, jobs, screen, hurried>>

(* A plan is made and executed; the rows of the other products fail.  What *)
(* a row does is in the modules of the publishing.                         *)
Execute(products) ==
    LET rows == {u \in RowsToWrite(feed, admitted, entries, results, listed) :
                    u[1] \in products}
    IN  /\ Act /\ rows # {}
        /\ entries' = [u \in Units |-> IF u \in rows THEN feed ELSE entries[u]]
        /\ site' = [u \in Units |-> IF u \in rows THEN "text" ELSE site[u]]
        /\ UNCHANGED <<feed, admitted, listed, files, jobs, screen, hurried>>

EditorBlanks(u) ==
    /\ site[u] = "text" /\ Act
    /\ site' = [site EXCEPT ![u] = "blank"]
    /\ UNCHANGED <<feed, admitted, listed, entries, files, jobs, screen, hurried>>

-----------------------------------------------------------------------------
(* Producers *)

(* The units a run writes; every unit when that cannot be decided, because *)
(* the state file or the video mapping does not read                       *)
Scopes == {UnitsNeedingCopy(feed, admitted, entries, listed), UnitsOf(listed)}

Emit ==
    /\ Act
    /\ \E units \in Scopes : requests' = [seen |-> Now, asked |-> Pending(feed, units)]
    /\ UNCHANGED <<world, results, whole, jobs, screen, hurried>>

Answers(seen, units, echoed, translated) ==
    LET order == SetToSeq(units)
    IN  [i \in DOMAIN order |->
            Item(seen, order[i], echoed,
                 IF translated THEN SourceText(Record(seen, order[i][1]), order[i][2])
                 ELSE "nothing")]

(* A session answers the requests, or forgets a product; it may leave out  *)
(* the translations, not say what it read, and keep what was there.        *)
HandWrite ==
    /\ requests.asked # {} /\ Act
    /\ \E forgotten \in {{}} \cup {UnitsOf({p}) : p \in Products},
          echoed, translated, appended \in BOOLEAN :
          /\ results' = (IF appended THEN results ELSE <<>>)
                        \o Answers(requests.seen.feed, requests.asked \ forgotten,
                                   echoed, translated)
          /\ whole' = IF forgotten \cap requests.asked = {}
                   THEN [seen |-> requests.seen, full |-> translated]
                   ELSE NoAnswer
    /\ UNCHANGED <<world, requests, jobs, screen, hurried>>

Job(by, named, units) ==
    [by |-> by, here |-> by = "page", named |-> named, batch |-> page.batch, seen |-> Now,
     left |-> SetToSeq(Pending(feed, units)), items |-> <<>>, attempt |-> 1]

Becomes(job, next) == jobs' = (jobs \ {job}) \cup {next}

StartApi ==
    /\ Cardinality(jobs) < MaxJobs /\ Act
    /\ \E units \in Scopes : jobs' = jobs \cup {Job("terminal", {}, units)}
    /\ UNCHANGED <<world, files, screen, hurried>>

(* Only the translations asked for are taken from an answer, and an answer *)
(* may lack them.                                                          *)
ApiAnswers(job) ==
    LET u == Head(job.left)
    IN  /\ job.left # <<>>
        /\ \E fill \in {SourceText(Record(job.seen.feed, u[1]), u[2]), "nothing"} :
              Becomes(job, [job EXCEPT !.left = Tail(@), !.attempt = 1,
                                       !.items = Append(@, Item(job.seen.feed, u, TRUE, fill))])
        /\ UNCHANGED <<world, files, screen, hurried, acts>>

ApiRetries(job) ==
    /\ job.left # <<>> /\ job.attempt < MaxAttempts
    /\ Becomes(job, [job EXCEPT !.attempt = @ + 1])
    /\ UNCHANGED <<world, files, screen, hurried, acts>>

(* The end of a run; the screen then reads the site again. *)
Ends(job, after) ==
    /\ jobs' = jobs \ {job}
    /\ checks' = IF job.by = "page"
                 THEN checks \cup {[batch |-> job.batch, here |-> job.here, after |-> after]}
                 ELSE checks

(* One call that fails for good, and nothing is written. *)
ApiFails(job) ==
    /\ job.left # <<>>
    /\ Ends(job, NoResult)
    /\ UNCHANGED <<world, files, page, kept, hurried, acts>>

(* Every call answered: the file is replaced.  A run for named products is *)
(* no complete answer of the batch.                                        *)
ApiSaves(job) ==
    LET translated(item) ==
            item.fill = SourceText(Record(job.seen.feed, item.unit[1]), item.unit[2])
    IN  /\ job.left = <<>>
        /\ results' = job.items
        /\ whole' = IF job.named # {} THEN NoAnswer
                    ELSE [seen |-> job.seen,
                          full |-> \A i \in DOMAIN job.items : translated(job.items[i])]
        /\ Ends(job, [seen |-> job.seen, items |-> job.items, named |-> job.named])
        /\ UNCHANGED <<world, requests, page, kept, hurried, acts>>

JobKilled(job) ==
    /\ job.by = "terminal" /\ Act
    /\ jobs' = jobs \ {job}
    /\ UNCHANGED <<world, files, screen, hurried>>

-----------------------------------------------------------------------------
(* The Content screen *)
ProductsIn(shown, bucket) == {p \in DOMAIN shown.bucket : shown.bucket[p] = bucket}

(* Next opens once every product the site has no text for is in the file,  *)
(* in every language.                                                      *)
Drawn(base, shown, after) ==
    [base EXCEPT !.shown = shown, !.ticks = {}, !.after = after,
                 !.onward = /\ shown.read
                            /\ TextWrittenFor(ProductsIn(shown, "needs text"), results)]

Blank == [Closed EXCEPT !.open = TRUE, !.batch = listed]

\* Mutated form: a read is taken up again whatever batch it was of.
OpenContentAny ==
    /\ ~page.open
    /\ page' = Drawn(Blank, kept.payload, FALSE)
    /\ UNCHANGED <<world, files, jobs, checks, kept, hurried, acts>>

(* Coming back to the same batch takes up the last read of the site. *)
OpenContent ==
    /\ ~page.open
    /\ page' = Drawn(Blank, IF kept.batch = listed THEN kept.payload ELSE NotRead, FALSE)
    /\ UNCHANGED <<world, files, jobs, checks, kept, hurried, acts>>

(* What goes on goes on, and has no page to show. *)
Leave ==
    /\ page.open /\ Act
    /\ page' = Closed
    /\ jobs' = {[job EXCEPT !.here = FALSE] : job \in jobs}
    /\ checks' = {[check EXCEPT !.here = FALSE] : check \in checks}
    /\ UNCHANGED <<world, files, kept, hurried>>

(* The shell is stopped.  A command of its own dies with it or goes on.    *)
Restart ==
    /\ page.open \/ checks # {} \/ kept.payload.read \/ \E job \in jobs : job.by = "page"
    /\ Act
    /\ page' = Closed /\ checks' = {} /\ hurried' = FALSE
    /\ kept' = [batch |-> {}, payload |-> NotRead]
    /\ jobs' \in {{job \in jobs : job.by = "terminal"},
                  {[job EXCEPT !.by = "terminal", !.here = FALSE] : job \in jobs}}
    /\ UNCHANGED <<world, files>>

StartCheck ==
    /\ page.open /\ ~\E check \in checks : check.here
    /\ Act
    /\ checks' = checks \cup {[batch |-> page.batch, here |-> TRUE, after |-> NoResult]}
    /\ UNCHANGED <<world, files, jobs, page, kept, hurried>>

(* Whether a read follows a run that was to write all the site lacks, and  *)
(* nothing else happened                                                   *)
Followed(after, shown) ==
    /\ after.seen = Now /\ after.items = results
    /\ ProductsIn(shown, "needs text") \subseteq after.named

(* The site answers, or does not; only an answer is kept. *)
FinishCheck(check) ==
    LET buckets == [p \in listed |-> Bucket(feed, admitted, site, p)]
    IN  /\ checks' = checks \ {check}
        /\ \E shown \in {NotRead, [read |-> TRUE, bucket |-> buckets]} :
              /\ kept' = IF shown.read THEN [batch |-> check.batch, payload |-> shown] ELSE kept
              /\ page' = IF check.here
                         THEN Drawn(page, shown, shown.read /\ Followed(check.after, shown))
                         ELSE page
        /\ UNCHANGED <<world, files, jobs, hurried, acts>>

Tick(p) ==
    /\ p \in ProductsIn(page.shown, "has text") /\ Act
    /\ page' = [page EXCEPT !.ticks = IF p \in @ THEN @ \ {p} ELSE @ \cup {p}]
    /\ UNCHANGED <<world, files, jobs, checks, kept, hurried>>

Named == ProductsIn(page.shown, "needs text") \cup page.ticks

(* The text of the products the site lacks it for and of the ticked ones,  *)
(* in every language, whatever the state file says and the plan holds      *)
Generate ==
    /\ page.shown.read /\ Named # {}
    /\ ~\E check \in checks : check.here
    /\ Cardinality(jobs) < MaxJobs /\ Act
    /\ jobs' = jobs \cup {Job("page", Named, UnitsOf(Named \cap listed))}
    /\ UNCHANGED <<world, files, screen, hurried>>

-----------------------------------------------------------------------------
JobSteps ==
    \E job \in jobs : ApiAnswers(job) \/ ApiRetries(job) \/ ApiFails(job) \/ ApiSaves(job)

Next ==
    \/ \E f \in DOMAIN Feeds : ParseExport(f)
    \/ \E batch \in Batches : SaveBatch(batch)
    \/ \E products \in SignOffs : SignOff(products)
    \/ \E failing \in {{}} \cup {{p} : p \in Products} : Execute(Products \ failing)
    \/ \E u \in Units : EditorBlanks(u)
    \/ Emit \/ HandWrite \/ StartApi
    \/ JobSteps
    \/ \E job \in jobs : JobKilled(job)
    \/ OpenContent \/ Leave \/ Restart \/ StartCheck \/ Generate
    \/ \E check \in checks : FinishCheck(check)
    \/ \E p \in Products : Tick(p)

Spec == Init /\ [][Next]_vars

-----------------------------------------------------------------------------
(* What a producer is asked is enough.  After a complete answer, and while *)
(* feed, batch and videos are as they were, the plan leaves nothing out    *)
(* for want of copy (E21), except what was published from another feed in  *)
(* between: the units asked for, the lines the feed publishes itself and   *)
(* the fingerprints agree between run_generate and run_plan.               *)
WrittenIsEnough ==
    /\ whole.seen # NotSeen
    /\ [whole.seen EXCEPT !.entries = entries] = Now
    => \A u \in UnitsOf(listed) :
          Skipped(feed, admitted, entries, results, u) = "E21"
             => entries[u] # whole.seen.entries[u]

(* The doctor and the plan agree on a results file.  Each row the plan     *)
(* writes the doctor had counted as wanted and covered, each unit it       *)
(* counted so gets a row, unless a name that was to be translated was not, *)
(* and what the plan leaves out for want of copy or of a video the doctor  *)
(* had named: check_generation_results and run_plan read the same files    *)
(* through different functions, before and after the copy is merged.       *)
DoctorAgreesWithPlan ==
    LET doctor  == Verdict(feed, admitted, entries, results, listed)
        unfilled(p) ==
            \E l \in LanguageSet :
                HasGap(Record(feed, p), l) /\ ~Filled(feed, <<p, l>>, results)
    IN  \A u \in UnitsOf(listed) :
            LET covered == u \in doctor.wanted \ doctor.missing
                skip    == Skipped(feed, admitted, entries, results, u)
            IN  /\ skip = "no" /\ Classified(entries, feed, u) # "unchanged" => covered
                /\ covered => skip = "no" \/ unfilled(u[1])
                /\ skip = "E21" => u \in doctor.missing
                /\ skip = "E24" => u[1] \in doctor.video
                /\ u[1] \in doctor.data => skip = "E23"

(* A page never carries the name of a feed gone by.  When the copy says    *)
(* what it was about, the name published for a unit is the feed's own or   *)
(* the translation of what the feed says now, whatever was exported and    *)
(* answered in between.                                                    *)
NamesFollowTheFeed ==
    \A u \in UnitsOf(listed) :
        CopyOf(feed, u, results).echoed =>
            LET record == Record(feed, u[1])
            IN  MergedName(feed, u, results) \in
                   {record.name[u[2]]} \cup
                   (IF u[2] \in Carried(record) THEN {} ELSE {SourceText(record, u[2])})

(* When Next opens, the screen knows how each product of the saved batch   *)
(* stands, and those the site has no text for are in the results file: a   *)
(* read of another batch is never taken up again.  A batch saved while the *)
(* read went on is set apart (README 3.3).                                 *)
NextKnowsTheBatch ==
    [][ ~page.onward /\ page'.onward /\ ~hurried =>
           /\ listed' \subseteq DOMAIN page'.shown.bucket
           /\ \A p \in listed' :
                 page'.shown.bucket[p] = "needs text" => TextWrittenFor({p}, results') ]_vars
=============================================================================
