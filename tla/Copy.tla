-------------------------------- MODULE Copy --------------------------------
(***************************************************************************)
(* Which text a page gets, and who writes it: lib/generator.py over        *)
(* lib/holds.py, lib/state.py's classification and lib/live_copy.py.       *)
(*                                                                         *)
(* A feed gives each product, per language, a name, its feature lines      *)
(* (attribute 1067) and a marketing message (1083).  A name is a text, or  *)
(* blank, or a placeholder, or a text of another language.  Feature lines  *)
(* are none, all short enough to publish, all too long, or mixed.  The     *)
(* name stands for every value that may be translated into a language the  *)
(* feed lacks it in.                                                       *)
(*                                                                         *)
(* A results file is a sequence of items: the unit, the fingerprint of     *)
(* what its producer had read, whether the item echoes it, and the text    *)
(* its translation was made from, if it has one.                           *)
(***************************************************************************)
EXTENDS Naturals, Sequences, SequencesExt

CONSTANTS Products,         \* GTINs
          Languages,        \* the configured languages, as a sequence
          DefaultLanguage,  \* the language the feed is authored in
          Feeds,            \* per feed: its products, and the prompt version in force
          NameRequired      \* whether a product without a name is held (E23)

LanguageSet == {Languages[i] : i \in DOMAIN Languages}

ASSUME CopyAssumption ==
    /\ Languages \in Seq(LanguageSet) /\ DefaultLanguage \in LanguageSet
    /\ IsFiniteSet(Products) /\ NameRequired \in BOOLEAN

Units == Products \X LanguageSet
UnitsOf(products) == products \X LanguageSet
Record(feed, p) == Feeds[feed].products[p]

-----------------------------------------------------------------------------
(* What a producer is asked *)

(* The languages a name is carried in, whatever else their slots hold *)
Carried(record) ==
    {l \in LanguageSet : record.name[l] \notin {"blank", "placeholder", "foreign"}}

(* A missing name is translated from the default language if that has it,  *)
(* else from the first language that does, and never from nothing.         *)
HasGap(record, l) == LET carried == Carried(record) IN carried # {} /\ l \notin carried

SourceText(record, l) ==
    LET ranked == <<DefaultLanguage>> \o Languages
        first  == CHOOSE i \in DOMAIN ranked :
                     /\ ranked[i] \in Carried(record)
                     /\ \A j \in 1 .. i - 1 : ranked[j] \notin Carried(record)
    IN  IF HasGap(record, l) THEN record.name[ranked[first]] ELSE "nothing"

Inputs(record, l) ==
    [name |-> IF record.name[l] # "blank" THEN record.name[l] ELSE record.name[DefaultLanguage],
     message |-> record.message[l], lines |-> record.lines[l],
     source |-> SourceText(record, l)]

\* Mutated form: what a translation is made from is not part of it.
FingerprintOwn(feed, u) ==
    [inputs |-> [Inputs(Record(feed, u[1]), u[2]) EXCEPT !.source = "nothing"],
     language |-> u[2], prompt |-> Feeds[feed].prompt]

Fingerprint(feed, u) ==
    [inputs |-> Inputs(Record(feed, u[1]), u[2]),
     language |-> u[2], prompt |-> Feeds[feed].prompt]

(* Short feature lines are published as they stand, and nobody is asked. *)
Verbatim(feed, u) == Record(feed, u[1]).lines[u[2]] = "short"

\* Mutated form: one short line is enough to ask nobody.
PendingAny(feed, units) ==
    {u \in units : Record(feed, u[1]).lines[u[2]] \notin {"short", "mixed"}}

Pending(feed, units) == {u \in units : ~Verbatim(feed, u)}

(* What a run would create or change and the plan would not hold           *)
Classified(entries, feed, u) ==
    IF entries[u] = "never" THEN "new"
    ELSE IF Record(entries[u], u[1]) = Record(feed, u[1]) THEN "unchanged" ELSE "changed"

(* The first of the plan's rules that holds a product whatever is written  *)
HoldOf(feed, admitted, p) ==
    IF /\ NameRequired
       /\ \E l \in LanguageSet :
             Record(feed, p).name[l] = "blank" /\ ~HasGap(Record(feed, p), l)
    THEN "E23"
    ELSE IF p \notin admitted THEN "E24" ELSE "no"

Held(feed, admitted, p) == HoldOf(feed, admitted, p) # "no"

UnitsNeedingCopy(feed, admitted, entries, products) ==
    {u \in UnitsOf(products) :
        Classified(entries, feed, u) # "unchanged" /\ ~Held(feed, admitted, u[1])}

(* An answer to the request for u as made of a feed *)
Item(feed, u, echoed, fill) ==
    [unit |-> u, about |-> Fingerprint(feed, u), echoed |-> echoed, fill |-> fill]

-----------------------------------------------------------------------------
(* What a page gets *)
NoCopy == [by |-> "nobody", echoed |-> FALSE, fill |-> "nothing"]

AnswersTo(u, results) == {i \in DOMAIN results : results[i].unit = u}
Latest(positions) == CHOOSE i \in positions : \A j \in positions : j <= i

(* The feed's own lines come first.  Of several answers the last one       *)
(* counts, and an answer about other inputs counts for nothing; one that   *)
(* does not say what it was about is taken as it is.                       *)
CopyOf(feed, u, results) ==
    LET answers == AnswersTo(u, results)
        last    == results[Latest(answers)]
        stale   == last.echoed /\ last.about # Fingerprint(feed, u)
    IN  IF Verbatim(feed, u) THEN [by |-> "feed", echoed |-> TRUE, fill |-> "nothing"]
        ELSE IF answers = {} \/ stale THEN NoCopy
        ELSE [by |-> "producer", echoed |-> last.echoed, fill |-> last.fill]

(* A filled name is merged under the feed's own, and only a text of        *)
(* another language gives way to it.                                       *)
Filled(feed, u, results) ==
    HasGap(Record(feed, u[1]), u[2]) /\ CopyOf(feed, u, results).fill # "nothing"

MergedName(feed, u, results) ==
    LET own == Record(feed, u[1]).name[u[2]]
    IN  IF own \in {"blank", "foreign"} /\ Filled(feed, u, results)
        THEN CopyOf(feed, u, results).fill ELSE own

(* Why the plan leaves a unit out, in the plan's order *)
Skipped(feed, admitted, entries, results, u) ==
    LET nameless == {l \in LanguageSet : MergedName(feed, <<u[1], l>>, results) = "blank"}
    IN  IF NameRequired /\ nameless # {} THEN "E23"
        ELSE IF u[1] \notin admitted THEN "E24"
        ELSE IF u[2] \in nameless THEN "E18"
        ELSE IF /\ Classified(entries, feed, u) # "unchanged"
                /\ CopyOf(feed, u, results) = NoCopy THEN "E21"
        ELSE "no"

(* The rows of a plan that a run writes *)
RowsToWrite(feed, admitted, entries, results, products) ==
    {u \in UnitsOf(products) :
        /\ Skipped(feed, admitted, entries, results, u) = "no"
        /\ Classified(entries, feed, u) # "unchanged"}

-----------------------------------------------------------------------------
(* What the doctor says of a results file before there is a plan           *)

\* Mutated form: an answer counts whatever it was about.
MissingByUnit(feed, results, units) ==
    {u \in units : ~Verbatim(feed, u) /\ \A i \in DOMAIN results : results[i].unit # u}

(* The units still without text that counts                                *)
MissingCopy(feed, results, units) ==
    {u \in units : CopyOf(feed, u, results) = NoCopy}

(* Which of the products' units a run would write, which of them have no   *)
(* text, and the products it leaves alone, by what would change that       *)
Verdict(feed, admitted, entries, results, products) ==
    LET wanted   == UnitsNeedingCopy(feed, admitted, entries, products)
        because(hold) == {p \in products : HoldOf(feed, admitted, p) = hold}
    IN  [wanted |-> wanted, missing |-> MissingCopy(feed, results, wanted),
         video |-> because("E24"), data |-> because("E23"),
         unchanged |-> {p \in because("no") : UnitsOf({p}) \cap wanted = {}}]

-----------------------------------------------------------------------------
(* What the site says a product needs *)
HasCopyInputs(record) ==
    \E l \in LanguageSet : record.message[l] # "none" \/ record.lines[l] # "none"

Bucket(feed, admitted, site, p) ==
    IF Held(feed, admitted, p) THEN "held"
    ELSE IF \A l \in LanguageSet : site[<<p, l>>] = "text" THEN "has text"
    ELSE IF HasCopyInputs(Record(feed, p)) THEN "needs text" ELSE "no inputs"

(* Whether a results file has something for these products in every        *)
(* language                                                                *)
TextWrittenFor(products, results) ==
    \A u \in UnitsOf(products) : \E i \in DOMAIN results : results[i].unit = u
=============================================================================
