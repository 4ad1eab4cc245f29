---------------------------- MODULE GenerationProofs ----------------------------
(***************************************************************************)
(* The text of a batch is the text of its feed: what a producer is asked   *)
(* is enough, the doctor and the plan read a results file alike, no page   *)
(* gets a name of a feed gone by, and the Content screen opens Next on     *)
(* this batch: for any products, languages, feeds and batches, and any     *)
(* number of runs and acts.                                                *)
(***************************************************************************)
EXTENDS Generation, FiniteSetTheorems, TLAPS

(* Of some numbers up to N one is the largest                              *)
LEMMA LatestExists ==
    ASSUME NEW N \in Nat, NEW T, T \subseteq 1 .. N, T # {}
    PROVE  Latest(T) \in T /\ \A j \in T : j <= Latest(T)
<1>. DEFINE D == {N - i : i \in T}
<1>1. D \subseteq Nat /\ D # {}
  <2>1. ASSUME NEW i \in T PROVE N - i \in Nat
    BY i \in 1 .. N
  <2>. QED
    BY <2>1
<1>2. PICK d \in D : \A e \in D : ~ (<<e, d>> \in OpToRel(<, Nat))
  <2>. HIDE DEF D
  <2>. QED
    BY <1>1, WFMin, NatLessThanWellFounded
<1>3. \A e \in D : ~ (e < d)
  <2>. HIDE DEF D
  <2>. QED
    BY <1>1, <1>2 DEF OpToRel
<1>4. PICK i \in T : d = N - i
  OBVIOUS
<1>5. ASSUME NEW j \in T PROVE j <= i
  <2>1. N - j \in D
    OBVIOUS
  <2>2. ~ (N - j < N - i)
    BY <2>1, <1>3, <1>4
  <2>. QED
    BY <2>2, <1>4
<1>6. \E k \in T : \A j \in T : j <= k
  BY <1>5
<1>. QED
  BY <1>6 DEF Latest

(* Of some numbers from 1 on one is the smallest                           *)
LEMMA FirstExists ==
    ASSUME NEW T, T \subseteq Nat, T # {}
    PROVE  \E i \in T : \A j \in T : ~(j < i)
<1>1. PICK d \in T : \A e \in T : ~ (<<e, d>> \in OpToRel(<, Nat))
  BY WFMin, NatLessThanWellFounded
<1>. QED
  BY <1>1 DEF OpToRel

-----------------------------------------------------------------------------
(* Names                                                                   *)

(* A name that is translated is translated from a text                     *)
LEMMA SourceIsCarried ==
    ASSUME NEW record, NEW l, HasGap(record, l)
    PROVE  \E m \in Carried(record) : SourceText(record, l) = record.name[m]
<1>. DEFINE ranked == <<DefaultLanguage>> \o Languages
            T == {i \in DOMAIN ranked : ranked[i] \in Carried(record)}
            First(i) == /\ ranked[i] \in Carried(record)
                        /\ \A j \in 1 .. i - 1 : ranked[j] \notin Carried(record)
<1>1. Languages \in Seq(LanguageSet) /\ DefaultLanguage \in LanguageSet
  BY CopyAssumption
<1>2. ranked \in Seq(LanguageSet) /\ Len(ranked) = 1 + Len(Languages) /\ Len(Languages) \in Nat
  BY <1>1
<1>3. \A i \in DOMAIN Languages : i + 1 \in DOMAIN ranked /\ ranked[i + 1] = Languages[i]
  BY <1>1
<1>4. \A m \in LanguageSet : \E i \in DOMAIN ranked : ranked[i] = m
  BY <1>3 DEF LanguageSet
<1>. HIDE DEF ranked
<1>5. T # {} /\ T \subseteq Nat
  BY <1>2, <1>4 DEF HasGap, Carried
<1>6. PICK i \in T : \A j \in T : ~(j < i)
  <2>. HIDE DEF T
  <2>. QED
    BY <1>5, FirstExists
<1>7. i \in DOMAIN ranked /\ First(i)
  <2>1. i \in 1 .. Len(ranked)
    BY <1>2
  <2>2. ASSUME NEW j \in 1 .. i - 1 PROVE ranked[j] \notin Carried(record)
    <3>1. j \in DOMAIN ranked /\ j < i
      BY <1>2, <2>1
    <3>. QED
      BY <1>6, <3>1
  <2>. QED
    BY <2>1, <2>2
<1>8. First(CHOOSE k \in DOMAIN ranked : First(k))
  <2>. HIDE DEF First
  <2>. QED
    BY <1>7
<1>9. SourceText(record, l) = record.name[ranked[CHOOSE k \in DOMAIN ranked : First(k)]]
  BY DEF SourceText, ranked
<1>. QED
  BY <1>8, <1>9

(* So a translation is of no blank                                         *)
LEMMA SourceIsText ==
    ASSUME NEW record, NEW l
    PROVE  SourceText(record, l) # "blank"
<1>1. CASE HasGap(record, l)
  BY <1>1, SourceIsCarried DEF Carried
<1>2. CASE ~HasGap(record, l)
  BY <1>2 DEF SourceText
<1>. QED
  BY <1>1, <1>2

-----------------------------------------------------------------------------
(* Answers                                                                 *)

(* What a producer may have answered                                       *)
AnswerTo(item, f, u) ==
    /\ item.unit = u /\ item.about = Fingerprint(f, u) /\ item.echoed \in BOOLEAN
    /\ item.fill \in {SourceText(Record(f, u[1]), u[2]), "nothing"}

Answered(items) ==
    /\ DOMAIN items = 1 .. Len(items) /\ Len(items) \in Nat
    /\ \A i \in DOMAIN items : \E f \in DOMAIN Feeds, u \in Units : AnswerTo(items[i], f, u)

(* An item answers the unit it was made for, of the feed it was made from  *)
LEMMA ItemAnswers ==
    ASSUME NEW f, NEW u, NEW echoed \in BOOLEAN,
           NEW fill \in {SourceText(Record(f, u[1]), u[2]), "nothing"}
    PROVE  AnswerTo(Item(f, u, echoed, fill), f, u)
  BY DEF Item, AnswerTo

(* The text a page gets is the feed's, or nobody's, or the last answer     *)
LEMMA CopyIs ==
    ASSUME NEW f, NEW u, NEW given, Answered(given)
    PROVE  LET answers == AnswersTo(u, given)
               last == given[Latest(answers)]
               copy == CopyOf(f, u, given)
           IN  \/ /\ Verbatim(f, u)
                  /\ copy = [by |-> "feed", echoed |-> TRUE, fill |-> "nothing"]
               \/ /\ ~Verbatim(f, u) /\ copy = NoCopy
                  /\ answers = {} \/ (last.echoed /\ last.about # Fingerprint(f, u))
               \/ /\ ~Verbatim(f, u) /\ answers # {}
                  /\ Latest(answers) \in answers /\ \A i \in answers : i <= Latest(answers)
                  /\ last.echoed => last.about = Fingerprint(f, u)
                  /\ copy = [by |-> "producer", echoed |-> last.echoed, fill |-> last.fill]
<1>1. ASSUME AnswersTo(u, given) # {}
      PROVE  /\ Latest(AnswersTo(u, given)) \in AnswersTo(u, given)
             /\ \A i \in AnswersTo(u, given) : i <= Latest(AnswersTo(u, given))
  <2>1. AnswersTo(u, given) \subseteq 1 .. Len(given) /\ Len(given) \in Nat
    BY DEF AnswersTo, Answered
  <2>. QED
    BY <1>1, <2>1, LatestExists
<1>. QED
  BY <1>1 DEF CopyOf

(* An answer that fills a name was made from what the feed says now, or    *)
(* does not say what it was made from; and it is no blank                  *)
LEMMA FillsAreOfTheFeed ==
    ASSUME NEW f, NEW u, NEW given, Answered(given), Filled(f, u, given)
    PROVE  /\ CopyOf(f, u, given).fill # "blank"
           /\ CopyOf(f, u, given).echoed =>
                 CopyOf(f, u, given).fill = SourceText(Record(f, u[1]), u[2])
<1>. DEFINE last == given[Latest(AnswersTo(u, given))]
<1>1. /\ AnswersTo(u, given) # {} /\ Latest(AnswersTo(u, given)) \in AnswersTo(u, given)
      /\ last.echoed => last.about = Fingerprint(f, u)
      /\ CopyOf(f, u, given).fill = last.fill /\ CopyOf(f, u, given).echoed = last.echoed
      /\ last.fill # "nothing"
  BY CopyIs DEF Filled, NoCopy
<1>2. PICK g \in DOMAIN Feeds, v \in Units : AnswerTo(last, g, v)
  BY <1>1 DEF Answered, AnswersTo
<1>3. last.fill = SourceText(Record(g, v[1]), v[2])
  BY <1>1, <1>2 DEF AnswerTo
<1>4. last.about = Fingerprint(f, u) =>
          SourceText(Record(g, v[1]), v[2]) = SourceText(Record(f, u[1]), u[2])
  BY <1>2 DEF AnswerTo, Fingerprint, Inputs
<1>. QED
  BY <1>1, <1>3, <1>4, SourceIsText

(* An answer of this feed gives its own name or one made from it           *)
LEMMA NamesAreOfTheFeed ==
    ASSUME NEW f, NEW u, NEW given, Answered(given),
           CopyOf(f, u, given).echoed
    PROVE  LET record == Record(f, u[1])
           IN  MergedName(f, u, given) \in
                  {record.name[u[2]]} \cup
                  (IF u[2] \in Carried(record) THEN {} ELSE {SourceText(record, u[2])})
<1>1. CASE Filled(f, u, given)
  BY <1>1, FillsAreOfTheFeed DEF MergedName, Filled, HasGap
<1>2. CASE ~Filled(f, u, given)
  BY <1>2 DEF MergedName
<1>. QED
  BY <1>1, <1>2

(* A name that stays blank is one no answer filled                         *)
LEMMA BlankNames ==
    ASSUME NEW f, NEW u, NEW given, Answered(given)
    PROVE  MergedName(f, u, given) = "blank" <=>
               Record(f, u[1]).name[u[2]] = "blank" /\ ~Filled(f, u, given)
<1>1. CASE Filled(f, u, given)
  BY <1>1, FillsAreOfTheFeed DEF MergedName
<1>2. CASE ~Filled(f, u, given)
  BY <1>2 DEF MergedName
<1>. QED
  BY <1>1, <1>2

-----------------------------------------------------------------------------
(* The doctor and the plan                                                 *)

(* A product the doctor says lacks data the plan leaves out for that       *)
LEMMA HeldForData ==
    ASSUME NEW f, NEW shown, NEW given, Answered(given), NEW p, HoldOf(f, shown, p) = "E23"
    PROVE  /\ NameRequired
           /\ \E l \in LanguageSet : MergedName(f, <<p, l>>, given) = "blank"
<1>1. NameRequired
  BY DEF HoldOf
<1>2. PICK l \in LanguageSet : Record(f, p).name[l] = "blank" /\ ~HasGap(Record(f, p), l)
  BY DEF HoldOf
<1>3. ~Filled(f, <<p, l>>, given)
  BY <1>2 DEF Filled
<1>4. MergedName(f, <<p, l>>, given) = "blank"
  BY <1>2, <1>3, BlankNames
<1>. QED
  BY <1>1, <1>4

(* Where names are mandatory, the doctor and the plan agree on a unit      *)
LEMMA DoctorAgreesOn ==
    ASSUME NameRequired, NEW f, NEW shown, NEW before, NEW given, Answered(given),
           NEW products, NEW p \in products, NEW l \in LanguageSet
    PROVE  LET u == <<p, l>>
               doctor == Verdict(f, shown, before, given, products)
               covered == u \in doctor.wanted \ doctor.missing
               skip == Skipped(f, shown, before, given, u)
           IN  /\ skip = "no" /\ Classified(before, f, u) # "unchanged" => covered
               /\ covered => \/ skip = "no"
                             \/ \E m \in LanguageSet :
                                   HasGap(Record(f, p), m) /\ ~Filled(f, <<p, m>>, given)
               /\ skip = "E21" => u \in doctor.missing
               /\ skip = "E24" => p \in doctor.video
               /\ p \in doctor.data => skip = "E23"
<1>. DEFINE u == <<p, l>>
            doctor == Verdict(f, shown, before, given, products)
            skip == Skipped(f, shown, before, given, u)
            nameless == {m \in LanguageSet : MergedName(f, <<p, m>>, given) = "blank"}
<1>1. /\ doctor.wanted = UnitsNeedingCopy(f, shown, before, products)
      /\ doctor.missing = {v \in doctor.wanted : CopyOf(f, v, given) = NoCopy}
      /\ doctor.video = {q \in products : HoldOf(f, shown, q) = "E24"}
      /\ doctor.data = {q \in products : HoldOf(f, shown, q) = "E23"}
  BY DEF Verdict, MissingCopy
<1>2. u \in UnitsOf(products) /\ u[1] = p /\ u[2] = l
  BY DEF UnitsOf
<1>3. u \in doctor.wanted <=> Classified(before, f, u) # "unchanged" /\ HoldOf(f, shown, p) = "no"
  BY <1>1, <1>2 DEF UnitsNeedingCopy, Held
<1>4. HoldOf(f, shown, p) \in {"E23", "E24", "no"}
  BY DEF HoldOf
<1>5. HoldOf(f, shown, p) = "E23" => nameless # {}
  BY HeldForData
<1>6. HoldOf(f, shown, p) = "E24" => p \notin shown
  BY DEF HoldOf
<1>7. HoldOf(f, shown, p) = "no" => p \in shown
  BY DEF HoldOf
<1>8. skip = IF nameless # {} THEN "E23"
             ELSE IF p \notin shown THEN "E24"
             ELSE IF Classified(before, f, u) # "unchanged" /\ CopyOf(f, u, given) = NoCopy
                  THEN "E21" ELSE "no"
  BY <1>2 DEF Skipped
<1>9. ASSUME HoldOf(f, shown, p) = "no", nameless # {}
      PROVE  \E m \in LanguageSet : HasGap(Record(f, p), m) /\ ~Filled(f, <<p, m>>, given)
  <2>1. PICK m \in LanguageSet : MergedName(f, <<p, m>>, given) = "blank"
    BY <1>9
  <2>2. Record(f, p).name[m] = "blank" /\ ~Filled(f, <<p, m>>, given)
    BY <2>1, BlankNames
  <2>3. HasGap(Record(f, p), m)
    BY <1>9, <2>2 DEF HoldOf
  <2>. QED
    BY <2>2, <2>3
<1>. HIDE DEF doctor, skip, nameless, u
<1>10. skip = "no" /\ Classified(before, f, u) # "unchanged" => u \in doctor.wanted \ doctor.missing
  BY <1>1, <1>3, <1>4, <1>5, <1>6, <1>8
<1>11. u \in doctor.wanted \ doctor.missing =>
          \/ skip = "no"
          \/ \E m \in LanguageSet : HasGap(Record(f, p), m) /\ ~Filled(f, <<p, m>>, given)
  BY <1>1, <1>3, <1>7, <1>8, <1>9
<1>12. skip = "E21" => u \in doctor.missing
  BY <1>1, <1>3, <1>4, <1>5, <1>6, <1>8
<1>13. skip = "E24" => p \in doctor.video
  BY <1>1, <1>4, <1>5, <1>7, <1>8
<1>14. p \in doctor.data => skip = "E23"
  BY <1>1, <1>5, <1>8
<1>. QED
  BY <1>10, <1>11, <1>12, <1>13, <1>14 DEF u, doctor, skip


-----------------------------------------------------------------------------
(* Types                                                                   *)
Names == DOMAIN Feeds \cup {"never"}
Snapshots == [feed : DOMAIN Feeds, admitted : SUBSET Products, listed : SUBSET Products,
              entries : [Units -> Names]]

ItemsOf(f) ==
    {Item(f, u, echoed, SourceText(Record(f, u[1]), u[2])) : u \in Units, echoed \in BOOLEAN}
    \cup {Item(f, u, echoed, "nothing") : u \in Units, echoed \in BOOLEAN}
Items == UNION {ItemsOf(f) : f \in DOMAIN Feeds}

Buckets == {"held", "has text", "needs text", "no inputs"}
Shows == [read : BOOLEAN, bucket : UNION {[B -> Buckets] : B \in SUBSET Products}]
Pages == [open : BOOLEAN, batch : SUBSET Products, shown : Shows, ticks : SUBSET Products,
          onward : BOOLEAN, after : BOOLEAN]
Afters == [seen : Snapshots \cup {NotSeen}, items : Seq(Items), named : SUBSET Products]
Checks == [batch : SUBSET Products, here : BOOLEAN, after : Afters]
Jobs == [by : {"page", "terminal"}, here : BOOLEAN, named : SUBSET Products,
         batch : SUBSET Products, seen : Snapshots, left : Seq(Units), items : Seq(Items),
         attempt : Nat]

TypeOK ==
    /\ feed \in DOMAIN Feeds /\ admitted \in SUBSET Products /\ listed \in SUBSET Products
    /\ entries \in [Units -> Names]
    /\ results \in Seq(Items)
    /\ jobs \subseteq Jobs /\ checks \subseteq Checks
    /\ page \in Pages /\ kept \in [batch : SUBSET Products, payload : Shows]

-----------------------------------------------------------------------------
(* What is asked is what the run that reads it needs, and what a run of    *)
(* the API has still to ask and has been answered are that together        *)
Needed(seen) ==
    {u \in UnitsNeedingCopy(seen.feed, seen.admitted, seen.entries, seen.listed) :
        ~Verbatim(seen.feed, u)}

RequestsAreEnough ==
    requests.asked # {} =>
        /\ requests.seen \in Snapshots
        /\ Needed(requests.seen) \subseteq requests.asked /\ requests.asked \subseteq Units

JobIsEnough(job) ==
    /\ job.items \in Seq(ItemsOf(job.seen.feed))
    /\ job.named = {} =>
          \A u \in Needed(job.seen) :
              \/ \E i \in DOMAIN job.left : job.left[i] = u
              \/ \E i \in DOMAIN job.items : job.items[i].unit = u

JobsAreEnough == \A job \in jobs : JobIsEnough(job)

AnswersAreEnough ==
    whole.seen # NotSeen =>
        /\ whole.seen \in Snapshots
        /\ \A u \in Needed(whole.seen) : CopyOf(whole.seen.feed, u, results) # NoCopy

Enough == RequestsAreEnough /\ JobsAreEnough /\ AnswersAreEnough

(* The screen and what goes on for it are of one batch, unless a batch was *)
(* saved while something went on                                           *)
JobOfScreen(job) ==
    /\ job.here => job.by = "page" /\ page.open
    /\ ~hurried /\ job.by = "page" => job.batch = listed

CheckOfScreen(check) ==
    /\ check.here => page.open
    /\ ~hurried => check.batch = listed

OfOneBatch ==
    /\ page.open => page.batch = listed
    /\ page.shown.read => page.open
    /\ \A job \in jobs : JobOfScreen(job)
    /\ \A check \in checks : CheckOfScreen(check)
    /\ ~hurried /\ kept.payload.read => DOMAIN kept.payload.bucket = kept.batch

(* Every item of a feed answers some unit of it                            *)
LEMMA ItemsAnswer ==
    ASSUME NEW f, NEW item \in ItemsOf(f)
    PROVE  \E u \in Units : AnswerTo(item, f, u)
<1>1. PICK u \in Units, echoed \in BOOLEAN :
           \/ item = Item(f, u, echoed, SourceText(Record(f, u[1]), u[2]))
           \/ item = Item(f, u, echoed, "nothing")
  BY DEF ItemsOf
<1>. QED
  BY <1>1, ItemAnswers

(* What is made for a unit is one of the feed's items                      *)
LEMMA ItemsAre ==
    ASSUME NEW f, NEW u \in Units, NEW echoed \in BOOLEAN,
           NEW fill \in {SourceText(Record(f, u[1]), u[2]), "nothing"}
    PROVE  Item(f, u, echoed, fill) \in ItemsOf(f)
  BY DEF ItemsOf

(* Every item of a results file answers a unit of some feed                *)
LEMMA ResultsAnswer ==
    ASSUME NEW items \in Seq(Items)
    PROVE  Answered(items)
<1>1. \A i \in DOMAIN items : items[i] \in Items
  OBVIOUS
<1>2. ASSUME NEW i \in DOMAIN items
      PROVE  \E f \in DOMAIN Feeds, u \in Units : AnswerTo(items[i], f, u)
  <2>1. PICK f \in DOMAIN Feeds : items[i] \in ItemsOf(f)
    BY <1>1 DEF Items
  <2>. QED
    BY <2>1, ItemsAnswer
<1>. QED
  BY <1>2 DEF Answered

(* There are finitely many units, so some order has them all               *)
LEMMA FiniteUnits == IsFiniteSet(Units)
<1>1. Languages \in [1 .. Len(Languages) -> LanguageSet] /\ Len(Languages) \in Nat
  BY CopyAssumption
<1>2. Languages \in Surjection(1 .. Len(Languages), LanguageSet)
  BY <1>1 DEF Surjection, LanguageSet
<1>3. IsFiniteSet(1 .. Len(Languages))
  BY <1>1, FS_Interval
<1>4. IsFiniteSet(LanguageSet)
  BY <1>2, <1>3, FS_Surjection
<1>5. IsFiniteSet(Products)
  BY CopyAssumption
<1>. QED
  BY <1>4, <1>5, FS_Product DEF Units

(* A set of units in some order has each of them                           *)
LEMMA InSomeOrder ==
    ASSUME NEW S, S \subseteq Units
    PROVE  /\ SetToSeq(S) \in Seq(S) /\ SetToSeq(S) \in Seq(Units)
           /\ \A u \in S : \E i \in DOMAIN SetToSeq(S) : SetToSeq(S)[i] = u
<1>. DEFINE n == Cardinality(S)
            Orders(f) == f \in [1 .. n -> S] /\ IsInjective(f)
<1>1. IsFiniteSet(S)
  BY FiniteUnits, FS_Subset
<1>2. n \in Nat /\ ExistsBijection(1 .. n, S)
  BY <1>1, FS_CardinalityType
<1>3. \E f : Orders(f)
  BY <1>2 DEF ExistsBijection, Bijection, Injection
<1>4. Orders(SetToSeq(S))
  BY <1>3 DEF SetToSeq
<1>. HIDE DEF n
<1>5. SetToSeq(S) \in Injection(1 .. n, S)
  BY <1>4 DEF Injection
<1>6. IsFiniteSet(1 .. n) /\ Cardinality(1 .. n) = n
  BY <1>2, FS_Interval
<1>7. SetToSeq(S) \in Surjection(1 .. n, S)
  BY <1>1, <1>5, <1>6, FS_Injection DEF n
<1>8. \A u \in S : \E i \in 1 .. n : SetToSeq(S)[i] = u
  BY <1>7 DEF Surjection
<1>9. SetToSeq(S) \in [1 .. n -> S] /\ SetToSeq(S) \in [1 .. n -> Units]
  BY <1>4
<1>. QED
  BY <1>2, <1>8, <1>9

(* Of items past some place that answer a unit, made of one feed, the last *)
(* counts for that feed                                                    *)
LEMMA AnsweredAnew ==
    ASSUME NEW items \in Seq(Items), NEW f, NEW u, NEW n \in Nat,
           \E j \in DOMAIN items : j > n /\ items[j].unit = u,
           \A j \in DOMAIN items : j > n => items[j] \in ItemsOf(f)
    PROVE  CopyOf(f, u, items) # NoCopy
<1>. DEFINE answers == AnswersTo(u, items)
<1>1. Answered(items)
  BY ResultsAnswer
<1>2. PICK j \in answers : j > n
  BY DEF AnswersTo
<1>3. answers \subseteq 1 .. Len(items) /\ Len(items) \in Nat
  BY DEF AnswersTo
<1>4. Latest(answers) \in answers /\ j <= Latest(answers)
  BY <1>2, <1>3, LatestExists
<1>5. Latest(answers) \in DOMAIN items /\ Latest(answers) > n
  BY <1>2, <1>3, <1>4
<1>6. items[Latest(answers)] \in ItemsOf(f) /\ items[Latest(answers)].unit = u
  BY <1>4, <1>5 DEF AnswersTo
<1>7. items[Latest(answers)].about = Fingerprint(f, u)
  BY <1>6, ItemsAnswer DEF AnswerTo
<1>. QED
  BY <1>1, <1>2, <1>7, CopyIs DEF NoCopy


-----------------------------------------------------------------------------
(* What is asked                                                           *)

(* What there is to see now can be what a producer saw                     *)
LEMMA NowIsSeen ==
    ASSUME TypeOK
    PROVE  Now \in Snapshots
  BY DEF TypeOK, Now, Snapshots

(* Whatever a producer is asked to cover has all that is needed            *)
LEMMA ScopesAreEnough ==
    ASSUME TypeOK, NEW units \in Scopes
    PROVE  units \subseteq Units /\ Pending(feed, units) \subseteq Units
           /\ Needed(Now) \subseteq Pending(feed, units)
<1>1. UnitsOf(listed) \subseteq Units
  BY DEF TypeOK, UnitsOf, Units
<1>2. UnitsNeedingCopy(feed, admitted, entries, listed) \subseteq UnitsOf(listed)
  BY DEF UnitsNeedingCopy
<1>3. units \subseteq Units /\ UnitsNeedingCopy(feed, admitted, entries, listed) \subseteq units
  BY <1>1, <1>2 DEF Scopes
<1>. QED
  BY <1>3 DEF Needed, Now, Pending

(* A run that starts has everything before it                              *)
LEMMA NewJobs ==
    ASSUME TypeOK, NEW by \in {"page", "terminal"}, NEW named \in SUBSET Products,
           NEW units, units \subseteq Units
    PROVE  LET job == Job(by, named, units)
           IN  /\ job \in Jobs /\ job.by = by /\ (job.here => by = "page")
               /\ job.batch = page.batch /\ job.named = named /\ job.seen = Now
               /\ job.items = <<>>
               /\ \A u \in Pending(feed, units) : \E i \in DOMAIN job.left : job.left[i] = u
<1>1. Pending(feed, units) \subseteq Units
  BY DEF Pending
<1>. DEFINE left == SetToSeq(Pending(feed, units))
<1>2. /\ left \in Seq(Units)
      /\ \A u \in Pending(feed, units) : \E i \in DOMAIN left : left[i] = u
  BY <1>1, InSomeOrder
<1>3. Job(by, named, units) =
         [by |-> by, here |-> by = "page", named |-> named, batch |-> page.batch, seen |-> Now,
          left |-> left, items |-> <<>>, attempt |-> 1]
  BY DEF Job
<1>4. page.batch \in SUBSET Products /\ Now \in Snapshots /\ <<>> \in Seq(Items) /\ 1 \in Nat
      /\ (by = "page") \in BOOLEAN
  BY NowIsSeen DEF TypeOK, Pages
<1>. HIDE DEF left
<1>5. Job(by, named, units) \in Jobs
  BY <1>2, <1>3, <1>4 DEF Jobs
<1>6. Job(by, named, units).here = (by = "page")
  BY <1>3
<1>7. Job(by, named, units).here => by = "page"
  BY <1>6, Zenon
<1>8. /\ Job(by, named, units).by = by /\ Job(by, named, units).batch = page.batch
      /\ Job(by, named, units).named = named /\ Job(by, named, units).seen = Now
      /\ Job(by, named, units).items = <<>> /\ Job(by, named, units).left = left
  BY <1>3
<1>. QED
  BY <1>2, <1>5, <1>7, <1>8

(* A batch run begins with all it needs to ask                             *)
LEMMA NewJobsAreEnough ==
    ASSUME TypeOK, NEW by \in {"page", "terminal"}, NEW named \in SUBSET Products,
           NEW units, units \subseteq Units,
           named = {} => Needed(Now) \subseteq Pending(feed, units)
    PROVE  JobIsEnough(Job(by, named, units))
<1>. DEFINE job == Job(by, named, units)
<1>1. /\ job.named = named /\ job.seen = Now /\ job.items = <<>>
      /\ \A u \in Pending(feed, units) : \E i \in DOMAIN job.left : job.left[i] = u
  BY NewJobs
<1>. HIDE DEF job
<1>2. job.items \in Seq(ItemsOf(job.seen.feed))
  BY <1>1
<1>3. named = {} => \A u \in Needed(job.seen) : \E i \in DOMAIN job.left : job.left[i] = u
  BY <1>1
<1>4. JobIsEnough(job)
  BY <1>1, <1>2, <1>3 DEF JobIsEnough
<1>. QED
  BY <1>4 DEF job

(* A run that answers a unit leaves none out                               *)
LEMMA AnsweredJobs ==
    ASSUME NEW job \in Jobs, JobIsEnough(job), job.left # <<>>,
           NEW fill \in {SourceText(Record(job.seen.feed, Head(job.left)[1]), Head(job.left)[2]),
                         "nothing"},
           NEW next, next = [job EXCEPT !.left = Tail(@), !.attempt = 1,
                !.items = Append(@, Item(job.seen.feed, Head(job.left), TRUE, fill))]
    PROVE  /\ next \in Jobs /\ JobIsEnough(next)
           /\ next.by = job.by /\ next.here = job.here /\ next.batch = job.batch
<1>. DEFINE f == job.seen.feed
            u == Head(job.left)
            item == Item(f, u, TRUE, fill)
<1>1. job.left \in Seq(Units) /\ job.items \in Seq(Items) /\ job.seen \in Snapshots
      /\ f \in DOMAIN Feeds
  BY DEF Jobs, Snapshots
<1>2. u \in Units /\ Tail(job.left) \in Seq(Units)
  BY <1>1
<1>3. item \in ItemsOf(f) /\ item.unit = u
  BY <1>2, ItemsAre DEF Item
<1>4. ItemsOf(f) \subseteq Items
  BY <1>1 DEF Items
<1>. HIDE DEF item
<1>5. /\ next.left = Tail(job.left) /\ next.items = Append(job.items, item)
      /\ next.seen = job.seen /\ next.named = job.named
      /\ next.by = job.by /\ next.here = job.here /\ next.batch = job.batch
  BY DEF Jobs, item
<1>6. Append(job.items, item) \in Seq(Items) /\ Append(job.items, item) \in Seq(ItemsOf(f))
  BY <1>1, <1>3, <1>4 DEF JobIsEnough
<1>7. next \in Jobs
  <2>1. next = [job EXCEPT !.left = Tail(job.left), !.attempt = 1,
                           !.items = Append(job.items, item)]
    BY DEF item
  <2>. DEFINE left == Tail(job.left)
              items == Append(job.items, item)
  <2>2. left \in Seq(Units) /\ items \in Seq(Items)
    BY <1>2, <1>6
  <2>3. next = [job EXCEPT !.left = left, !.attempt = 1, !.items = items]
    BY <2>1
  <2>. HIDE DEF left, items
  <2>4. next = [by |-> job.by, here |-> job.here, named |-> job.named, batch |-> job.batch,
                seen |-> job.seen, left |-> left, items |-> items, attempt |-> 1]
    BY <2>3 DEF Jobs
  <2>. QED
    BY <2>2, <2>4 DEF Jobs
<1>8. ASSUME job.named = {}, NEW v \in Needed(job.seen)
      PROVE  \/ \E i \in DOMAIN next.left : next.left[i] = v
             \/ \E i \in DOMAIN next.items : next.items[i].unit = v
  <2>1. CASE \E i \in DOMAIN job.items : job.items[i].unit = v
    <3>1. PICK i \in DOMAIN job.items : job.items[i].unit = v
      BY <2>1
    <3>2. i \in DOMAIN Append(job.items, item) /\ Append(job.items, item)[i] = job.items[i]
      BY <1>1, <3>1
    <3>. QED
      BY <1>5, <3>1, <3>2
  <2>2. CASE \E i \in DOMAIN job.left : job.left[i] = v
    <3>1. PICK i \in DOMAIN job.left : job.left[i] = v
      BY <2>2
    <3>2. CASE i = 1
      <4>1. v = u
        BY <1>1, <3>1, <3>2
      <4>2. Len(job.items) + 1 \in DOMAIN Append(job.items, item)
            /\ Append(job.items, item)[Len(job.items) + 1] = item
        BY <1>1
      <4>. QED
        BY <1>3, <1>5, <4>1, <4>2
    <3>3. CASE i # 1
      <4>1. i - 1 \in DOMAIN Tail(job.left) /\ Tail(job.left)[i - 1] = v
        BY <1>1, <3>1, <3>3
      <4>. QED
        BY <1>5, <4>1
    <3>. QED
      BY <3>2, <3>3
  <2>. QED
    BY <1>8, <2>1, <2>2 DEF JobIsEnough
<1>. QED
  BY <1>5, <1>6, <1>7, <1>8 DEF JobIsEnough


(* What goes on when the screen is left goes on without it                 *)
LEMMA LeftJobs ==
    ASSUME NEW job \in Jobs, JobIsEnough(job), NEW next,
           next \in {[job EXCEPT !.here = FALSE], [job EXCEPT !.by = "terminal", !.here = FALSE]}
    PROVE  /\ next \in Jobs /\ JobIsEnough(next)
           /\ ~next.here /\ next.by \in {job.by, "terminal"} /\ next.batch = job.batch
<1>1. PICK by \in {job.by, "terminal"} :
          next = [by |-> by, here |-> FALSE, named |-> job.named, batch |-> job.batch,
                  seen |-> job.seen, left |-> job.left, items |-> job.items,
                  attempt |-> job.attempt]
  BY DEF Jobs
<1>. QED
  BY <1>1 DEF Jobs, JobIsEnough

(* Nor does one that tries again                                           *)
LEMMA RetriedJobs ==
    ASSUME NEW job \in Jobs, JobIsEnough(job), NEW next,
           next = [job EXCEPT !.attempt = @ + 1]
    PROVE  /\ next \in Jobs /\ JobIsEnough(next)
           /\ next.by = job.by /\ next.here = job.here /\ next.batch = job.batch
<1>1. next = [by |-> job.by, here |-> job.here, named |-> job.named, batch |-> job.batch,
              seen |-> job.seen, left |-> job.left, items |-> job.items,
              attempt |-> job.attempt + 1]
  BY DEF Jobs
<1>. QED
  BY <1>1 DEF Jobs, JobIsEnough

JobsGood == jobs \subseteq Jobs /\ \A job \in jobs : JobIsEnough(job) /\ JobOfScreen(job)

(* Jobs that go on, for a screen that goes on or has come                  *)
LEMMA JobsStay ==
    ASSUME JobsGood, jobs' \subseteq jobs, UNCHANGED <<listed, hurried>>, page.open => page'.open
    PROVE  JobsGood'
  BY DEF JobsGood, JobOfScreen

(* One run that moves leaves the others as they are                        *)
LEMMA OneJobMoves ==
    ASSUME JobsGood, NEW job \in jobs, NEW next, Becomes(job, next),
           UNCHANGED <<listed, hurried, page>>,
           next \in Jobs, JobIsEnough(next),
           next.by = job.by, next.here = job.here, next.batch = job.batch
    PROVE  JobsGood'
  BY DEF JobsGood, JobOfScreen, Becomes

(* Every step keeps the runs complete and of their screen                  *)
LEMMA JobsStep ==
    ASSUME TypeOK, JobsGood, OfOneBatch, [Next]_vars
    PROVE  JobsGood'
<1>1. CASE \/ \E f \in DOMAIN Feeds : ParseExport(f)
           \/ \E products \in SignOffs : SignOff(products)
           \/ \E failing \in {{}} \cup {{p} : p \in Products} : Execute(Products \ failing)
           \/ \E u \in Units : EditorBlanks(u)
           \/ Emit \/ HandWrite \/ StartCheck \/ UNCHANGED vars
  <2>1. UNCHANGED <<jobs, listed, hurried, page>>
    BY <1>1 DEF ParseExport, SignOff, Execute, EditorBlanks, Emit, HandWrite, StartCheck,
       world, files, screen, vars
  <2>. QED
    BY <2>1, JobsStay
<1>2. ASSUME NEW batch \in Batches, SaveBatch(batch) PROVE JobsGood'
  <2>1. /\ jobs' = jobs /\ page' = page /\ ~page.open
        /\ hurried' = (hurried \/ checks # {} \/ \E job \in jobs : job.by = "page")
    BY <1>2 DEF SaveBatch, screen
  <2>2. ~hurried' => \A job \in jobs : job.by # "page"
    BY <2>1
  <2>. QED
    BY <2>1, <2>2 DEF JobsGood, JobOfScreen
<1>3. CASE StartApi
  <2>1. PICK units \in Scopes : jobs' = jobs \cup {Job("terminal", {}, units)}
    BY <1>3 DEF StartApi
  <2>. DEFINE job == Job("terminal", {}, units)
  <2>2. UNCHANGED <<listed, hurried, page>>
    BY <1>3 DEF StartApi, world, screen
  <2>3. units \subseteq Units /\ Needed(Now) \subseteq Pending(feed, units)
    BY ScopesAreEnough
  <2>4. {} \in SUBSET Products
    OBVIOUS
  <2>5. job \in Jobs /\ job.by = "terminal" /\ (job.here => job.by = "page")
    BY <2>3, <2>4, NewJobs
  <2>6. JobIsEnough(job)
    BY <2>3, <2>4, NewJobsAreEnough
  <2>. HIDE DEF job
  <2>7. jobs' = jobs \cup {job}
    BY <2>1 DEF job
  <2>. QED
    BY <2>2, <2>5, <2>6, <2>7 DEF JobsGood, JobOfScreen
<1>4. CASE Generate
  <2>. DEFINE units == UnitsOf(Named \cap listed)
              job == Job("page", Named, units)
  <2>1. /\ jobs' = jobs \cup {job} /\ page.shown.read /\ Named # {}
        /\ UNCHANGED <<listed, hurried, page>>
    BY <1>4 DEF Generate, world, screen
  <2>2. Named \in SUBSET Products /\ units \subseteq Units
    <3>1. DOMAIN page.shown.bucket \subseteq Products /\ page.ticks \subseteq Products
      BY DEF TypeOK, Pages, Shows
    <3>2. Named \subseteq Products
      BY <3>1 DEF Named, ProductsIn
    <3>3. units \subseteq Units
      BY <3>2 DEF UnitsOf, Units
    <3>. QED
      BY <3>2, <3>3
  <2>. HIDE DEF units
  <2>3. job \in Jobs /\ job.by = "page" /\ job.batch = page.batch
    BY <2>2, NewJobs
  <2>4. JobIsEnough(job)
    BY <2>1, <2>2, NewJobsAreEnough
  <2>5. page.open /\ page.batch = listed
    BY <2>1 DEF OfOneBatch
  <2>. HIDE DEF job
  <2>. QED
    BY <2>1, <2>3, <2>4, <2>5 DEF JobsGood, JobOfScreen
<1>5. ASSUME NEW job \in jobs, ApiAnswers(job) PROVE JobsGood'
  <2>1. PICK fill \in {SourceText(Record(job.seen.feed, Head(job.left)[1]), Head(job.left)[2]),
                       "nothing"} :
           Becomes(job, [job EXCEPT !.left = Tail(@), !.attempt = 1,
               !.items = Append(@, Item(job.seen.feed, Head(job.left), TRUE, fill))])
    BY <1>5 DEF ApiAnswers
  <2>2. job.left # <<>> /\ UNCHANGED <<listed, hurried, page>>
    BY <1>5 DEF ApiAnswers, world, screen
  <2>. DEFINE next == [job EXCEPT !.left = Tail(@), !.attempt = 1,
                 !.items = Append(@, Item(job.seen.feed, Head(job.left), TRUE, fill))]
  <2>3. job \in Jobs /\ JobIsEnough(job)
    BY DEF JobsGood
  <2>4. /\ next \in Jobs /\ JobIsEnough(next)
        /\ next.by = job.by /\ next.here = job.here /\ next.batch = job.batch
    BY <2>2, <2>3, AnsweredJobs
  <2>5. Becomes(job, next)
    BY <2>1
  <2>. HIDE DEF next
  <2>. QED
    BY <2>2, <2>4, <2>5, OneJobMoves
<1>6. ASSUME NEW job \in jobs, ApiRetries(job) PROVE JobsGood'
  <2>. DEFINE next == [job EXCEPT !.attempt = @ + 1]
  <2>1. Becomes(job, next) /\ UNCHANGED <<listed, hurried, page>>
    BY <1>6 DEF ApiRetries, world, screen
  <2>2. job \in Jobs /\ JobIsEnough(job)
    BY DEF JobsGood
  <2>3. /\ next \in Jobs /\ JobIsEnough(next)
        /\ next.by = job.by /\ next.here = job.here /\ next.batch = job.batch
    BY <2>2, RetriedJobs
  <2>. HIDE DEF next
  <2>. QED
    BY <2>1, <2>3, OneJobMoves
<1>7. ASSUME NEW job \in jobs, ApiFails(job) \/ ApiSaves(job) \/ JobKilled(job) PROVE JobsGood'
  <2>1. jobs' \subseteq jobs /\ UNCHANGED <<listed, hurried, page>>
    BY <1>7 DEF ApiFails, ApiSaves, JobKilled, Ends, world, screen
  <2>. QED
    BY <2>1, JobsStay
<1>8. CASE OpenContent
  <2>1. UNCHANGED <<jobs, listed, hurried>> /\ page'.open
    BY <1>8 DEF OpenContent, Drawn, Blank, Closed, world
  <2>. QED
    BY <2>1, JobsStay
<1>9. CASE Leave
  <2>1. jobs' = {[job EXCEPT !.here = FALSE] : job \in jobs} /\ UNCHANGED <<listed, hurried>>
    BY <1>9 DEF Leave, world
  <2>2. ASSUME NEW next \in jobs' PROVE next \in Jobs /\ JobIsEnough(next) /\ JobOfScreen(next)'
    <3>1. PICK job \in jobs : next = [job EXCEPT !.here = FALSE]
      BY <2>1
    <3>2. /\ next \in Jobs /\ JobIsEnough(next) /\ ~next.here
          /\ next.by \in {job.by, "terminal"} /\ next.batch = job.batch
      BY <3>1, LeftJobs DEF JobsGood
    <3>. QED
      BY <2>1, <3>2 DEF JobsGood, JobOfScreen
  <2>. QED
    BY <2>2 DEF JobsGood
<1>10. CASE Restart
  <2>1. ASSUME NEW next \in jobs' PROVE next \in Jobs /\ JobIsEnough(next) /\ JobOfScreen(next)'
    <3>1. \/ next \in jobs /\ next.by = "terminal"
          \/ \E job \in jobs : next = [job EXCEPT !.by = "terminal", !.here = FALSE]
      BY <1>10 DEF Restart
    <3>2. CASE next \in jobs /\ next.by = "terminal"
      BY <3>2 DEF JobsGood, JobOfScreen
    <3>3. ASSUME NEW job \in jobs, next = [job EXCEPT !.by = "terminal", !.here = FALSE]
          PROVE  next \in Jobs /\ JobIsEnough(next) /\ JobOfScreen(next)'
      <4>1. next \in Jobs /\ JobIsEnough(next) /\ ~next.here
        BY <3>3, LeftJobs DEF JobsGood
      <4>2. next.by = "terminal"
        BY <3>3 DEF JobsGood, Jobs
      <4>. QED
        BY <4>1, <4>2 DEF JobOfScreen
    <3>. QED
      BY <3>1, <3>2, <3>3
  <2>. QED
    BY <2>1 DEF JobsGood
<1>11. ASSUME NEW check \in checks, FinishCheck(check) PROVE JobsGood'
  <2>1. UNCHANGED <<jobs, listed, hurried>>
    BY <1>11 DEF FinishCheck, world
  <2>2. \E shown, after : page' \in {page, Drawn(page, shown, after)}
    BY <1>11 DEF FinishCheck
  <2>3. page'.open = page.open
    BY <2>2 DEF Drawn, TypeOK, Pages
  <2>. QED
    BY <2>1, <2>3, JobsStay
<1>12. ASSUME NEW p \in Products, Tick(p) PROVE JobsGood'
  <2>1. UNCHANGED <<jobs, listed, hurried>> /\ page'.open = page.open
    BY <1>12 DEF Tick, world, TypeOK, Pages
  <2>. QED
    BY <2>1, JobsStay
<1>. QED
  BY <1>1, <1>2, <1>3, <1>4, <1>5, <1>6, <1>7, <1>8, <1>9, <1>10, <1>11, <1>12
  DEF Next, JobSteps


-----------------------------------------------------------------------------
(* The screen                                                              *)

ScreenGood ==
    /\ checks \subseteq Checks
    /\ page \in Pages /\ kept \in [batch : SUBSET Products, payload : Shows]
    /\ page.open => page.batch = listed
    /\ page.shown.read => page.open
    /\ \A check \in checks : CheckOfScreen(check)
    /\ ~hurried /\ kept.payload.read => DOMAIN kept.payload.bucket = kept.batch

(* A screen that shows nothing is one                                      *)
LEMMA NothingShown ==
    /\ NotRead \in Shows /\ ~NotRead.read /\ Closed \in Pages /\ ~Closed.open
    /\ Closed.shown = NotRead
<1>1. NotRead.bucket \in [{} -> Buckets] /\ {} \in SUBSET Products
  BY DEF NotRead
<1>2. NotRead \in Shows
  BY <1>1 DEF NotRead, Shows
<1>. QED
  BY <1>2 DEF Closed, Pages, NotRead

(* What is drawn is of the page it is drawn on                             *)
LEMMA DrawnIs ==
    ASSUME NEW base \in Pages, NEW shown \in Shows, NEW after \in BOOLEAN
    PROVE  /\ Drawn(base, shown, after) \in Pages
           /\ Drawn(base, shown, after).open = base.open
           /\ Drawn(base, shown, after).batch = base.batch
           /\ Drawn(base, shown, after).shown = shown
           /\ Drawn(base, shown, after).onward =>
                 shown.read /\ TextWrittenFor(ProductsIn(shown, "needs text"), results)
<1>. DEFINE next == Drawn(base, shown, after)
            onward == /\ shown.read
                      /\ TextWrittenFor(ProductsIn(shown, "needs text"), results)
<1>1. next = [base EXCEPT !.shown = shown, !.ticks = {}, !.after = after, !.onward = onward]
  BY Zenon DEF Drawn
<1>2. onward \in BOOLEAN
  <2>1. \A P : TextWrittenFor(P, results) \in BOOLEAN
    BY DEF TextWrittenFor
  <2>. QED
    BY <2>1 DEF Shows
<1>. HIDE DEF onward, next
<1>3. next = [open |-> base.open, batch |-> base.batch, shown |-> shown, ticks |-> {},
              onward |-> onward, after |-> after]
  BY <1>1 DEF Pages
<1>4. next \in Pages /\ next.onward = onward
  BY <1>3, <1>2 DEF Pages
<1>5. next.onward => onward
  BY <1>4, Zenon
<1>6. next.open = base.open /\ next.batch = base.batch /\ next.shown = shown
  BY <1>3
<1>. QED
  BY <1>4, <1>5, <1>6 DEF onward, next

(* A screen that has just opened is of the batch in place                  *)
LEMMA BlankIs ==
    ASSUME listed \in SUBSET Products
    PROVE  Blank \in Pages /\ Blank.open /\ Blank.batch = listed
<1>1. Blank = [Closed EXCEPT !.open = TRUE, !.batch = listed] /\ Closed \in Pages
  BY NothingShown DEF Blank
<1>. QED
  BY <1>1 DEF Pages

(* A screen that is left alone stays in order                              *)
LEMMA ScreenStays ==
    ASSUME ScreenGood, UNCHANGED <<screen, listed, hurried>>
    PROVE  ScreenGood'
  BY DEF ScreenGood, CheckOfScreen, screen

(* What follows a run is what the run ended with                           *)
LEMMA AfterJobs ==
    ASSUME TypeOK, NEW job \in jobs, NEW after \in Afters, Ends(job, after), JobOfScreen(job),
           ScreenGood, UNCHANGED <<page, kept, listed, hurried>>
    PROVE  ScreenGood'
<1>1. job \in Jobs
  BY DEF TypeOK
<1>. DEFINE check == [batch |-> job.batch, here |-> job.here, after |-> after]
<1>2. check \in Checks /\ check.here = job.here /\ check.batch = job.batch
  BY <1>1 DEF Checks, Jobs
<1>3. checks' = checks \/ (job.by = "page" /\ checks' = checks \cup {check})
  BY DEF Ends
<1>. HIDE DEF check
<1>. QED
  BY <1>2, <1>3 DEF ScreenGood, JobOfScreen, CheckOfScreen

(* Every step keeps the screen of one batch                                *)
LEMMA ScreenStep ==
    ASSUME TypeOK, ScreenGood, JobsGood, [Next]_vars
    PROVE  ScreenGood'
<1>1. CASE \/ \E f \in DOMAIN Feeds : ParseExport(f)
           \/ \E products \in SignOffs : SignOff(products)
           \/ \E failing \in {{}} \cup {{p} : p \in Products} : Execute(Products \ failing)
           \/ \E u \in Units : EditorBlanks(u)
           \/ Emit \/ HandWrite \/ StartApi \/ UNCHANGED vars
           \/ \E job \in jobs : ApiAnswers(job) \/ ApiRetries(job) \/ JobKilled(job)
           \/ Generate
  <2>1. UNCHANGED <<screen, listed, hurried>>
    BY <1>1 DEF ParseExport, SignOff, Execute, EditorBlanks, Emit, HandWrite, StartApi,
       ApiAnswers, ApiRetries, JobKilled, Generate, world, vars
  <2>. QED
    BY <2>1, ScreenStays
<1>2. ASSUME NEW batch \in Batches, SaveBatch(batch) PROVE ScreenGood'
  <2>1. /\ UNCHANGED screen /\ ~page.open /\ listed' = batch
        /\ hurried' = (hurried \/ checks # {} \/ \E job \in jobs : job.by = "page")
    BY <1>2 DEF SaveBatch
  <2>2. ~hurried' => ~hurried /\ checks = {}
    BY <2>1
  <2>. QED
    BY <2>1, <2>2 DEF ScreenGood, CheckOfScreen, screen
<1>3. ASSUME NEW job \in jobs, ApiFails(job) PROVE ScreenGood'
  <2>1. Ends(job, NoResult) /\ UNCHANGED <<page, kept, listed, hurried>>
    BY <1>3 DEF ApiFails, world
  <2>2. NoResult \in Afters
    BY DEF NoResult, Afters
  <2>. QED
    BY <2>1, <2>2, AfterJobs DEF JobsGood
<1>4. ASSUME NEW job \in jobs, ApiSaves(job) PROVE ScreenGood'
  <2>. DEFINE after == [seen |-> job.seen, items |-> job.items, named |-> job.named]
  <2>1. Ends(job, after) /\ UNCHANGED <<page, kept, listed, hurried>>
    BY <1>4 DEF ApiSaves, world
  <2>2. after \in Afters
    BY DEF TypeOK, Jobs, Afters
  <2>. HIDE DEF after
  <2>. QED
    BY <2>1, <2>2, AfterJobs DEF JobsGood
<1>5. CASE OpenContent
  <2>. DEFINE shown == IF kept.batch = listed THEN kept.payload ELSE NotRead
  <2>1. page' = Drawn(Blank, shown, FALSE) /\ UNCHANGED <<checks, kept, listed, hurried>>
    BY <1>5 DEF OpenContent, world
  <2>2. shown \in Shows
    BY NothingShown DEF ScreenGood
  <2>3. Blank \in Pages /\ Blank.open /\ Blank.batch = listed /\ FALSE \in BOOLEAN
    BY BlankIs DEF TypeOK
  <2>4. page' \in Pages /\ page'.open /\ page'.batch = listed
    <3>. DEFINE after == FALSE
    <3>1. page' = Drawn(Blank, shown, after) /\ after \in BOOLEAN
      BY <2>1
    <3>. HIDE DEF shown, after
    <3>. QED
      BY <2>2, <2>3, <3>1, DrawnIs
  <2>. QED
    BY <2>1, <2>4 DEF ScreenGood, CheckOfScreen
<1>6. CASE Leave
  <2>1. /\ page' = Closed /\ checks' = {[check EXCEPT !.here = FALSE] : check \in checks}
        /\ UNCHANGED <<kept, listed, hurried>>
    BY <1>6 DEF Leave, world
  <2>2. ASSUME NEW next \in checks' PROVE next \in Checks /\ CheckOfScreen(next)'
    <3>1. PICK check \in checks : next = [check EXCEPT !.here = FALSE]
      BY <2>1
    <3>2. check \in Checks /\ CheckOfScreen(check)
      BY DEF ScreenGood
    <3>3. next = [batch |-> check.batch, here |-> FALSE, after |-> check.after]
      BY <3>1, <3>2 DEF Checks
    <3>4. next \in Checks /\ ~next.here /\ next.batch = check.batch
      BY <3>2, <3>3 DEF Checks
    <3>. QED
      BY <2>1, <3>2, <3>4 DEF CheckOfScreen
  <2>. QED
    BY <2>1, <2>2, NothingShown DEF ScreenGood
<1>7. CASE Restart
  <2>1. /\ page' = Closed /\ checks' = {} /\ kept' = [batch |-> {}, payload |-> NotRead]
    BY <1>7 DEF Restart
  <2>. QED
    BY <2>1, NothingShown DEF ScreenGood
<1>8. CASE StartCheck
  <2>. DEFINE check == [batch |-> page.batch, here |-> TRUE, after |-> NoResult]
  <2>1. /\ page.open /\ checks' = checks \cup {check}
        /\ UNCHANGED <<page, kept, listed, hurried>>
    BY <1>8 DEF StartCheck, world
  <2>2. check \in Checks /\ check.here /\ check.batch = page.batch
    BY DEF ScreenGood, Pages, Checks, NoResult, Afters
  <2>. HIDE DEF check
  <2>. QED
    BY <2>1, <2>2 DEF ScreenGood, CheckOfScreen
<1>9. ASSUME NEW check \in checks, FinishCheck(check) PROVE ScreenGood'
  <2>. DEFINE buckets == [p \in listed |-> Bucket(feed, admitted, site, p)]
  <2>1. PICK shown \in {NotRead, [read |-> TRUE, bucket |-> buckets]} :
           /\ kept' = IF shown.read THEN [batch |-> check.batch, payload |-> shown] ELSE kept
           /\ page' = IF check.here
                      THEN Drawn(page, shown, shown.read /\ Followed(check.after, shown))
                      ELSE page
    BY <1>9 DEF FinishCheck
  <2>2. checks' \subseteq checks /\ UNCHANGED <<listed, hurried>>
    BY <1>9 DEF FinishCheck, world
  <2>3. /\ shown \in Shows
        /\ shown.read => DOMAIN shown.bucket = listed
    <3>1. buckets \in [listed -> Buckets] /\ listed \in SUBSET Products
      BY DEF Bucket, Buckets, TypeOK
    <3>2. buckets \in UNION {[B -> Buckets] : B \in SUBSET Products} /\ DOMAIN buckets = listed
      BY <3>1
    <3>. HIDE DEF buckets
    <3>3. [read |-> TRUE, bucket |-> buckets] \in Shows
      BY <3>2 DEF Shows
    <3>4. shown = NotRead \/ shown = [read |-> TRUE, bucket |-> buckets]
      BY <2>1 DEF buckets
    <3>5. CASE shown = NotRead
      BY <3>5, NothingShown
    <3>6. CASE shown = [read |-> TRUE, bucket |-> buckets]
      BY <3>2, <3>3, <3>6
    <3>. QED
      BY <3>4, <3>5, <3>6
  <2>4. page \in Pages /\ check \in Checks /\ CheckOfScreen(check)
    BY DEF ScreenGood
  <2>. DEFINE after == shown.read /\ Followed(check.after, shown)
  <2>5. /\ after \in BOOLEAN
        /\ page' = IF check.here THEN Drawn(page, shown, after) ELSE page
    BY <2>1, <2>3 DEF Followed, Shows
  <2>. HIDE DEF after
  <2>6. /\ page' \in Pages /\ page'.open = page.open /\ page'.batch = page.batch
        /\ page'.shown.read => page.open
    <3>1. CASE check.here
      <4>1. page' = Drawn(page, shown, after) /\ page.open
        BY <2>4, <2>5, <3>1 DEF CheckOfScreen
      <4>2. /\ Drawn(page, shown, after) \in Pages
            /\ Drawn(page, shown, after).open = page.open
            /\ Drawn(page, shown, after).batch = page.batch
        BY <2>3, <2>4, <2>5, DrawnIs
      <4>. QED
        BY <4>1, <4>2
    <3>2. CASE ~check.here
      BY <2>5, <3>2 DEF ScreenGood
    <3>. QED
      BY <3>1, <3>2
  <2>7. /\ kept' \in [batch : SUBSET Products, payload : Shows]
        /\ ~hurried /\ kept'.payload.read => DOMAIN kept'.payload.bucket = kept'.batch
    <3>1. CASE shown.read
      <4>1. check.batch \in SUBSET Products /\ (~hurried => check.batch = listed)
        BY <2>4 DEF Checks, CheckOfScreen
      <4>. QED
        BY <2>1, <2>3, <3>1, <4>1
    <3>2. CASE ~shown.read
      BY <2>1, <3>2 DEF ScreenGood
    <3>. QED
      BY <3>1, <3>2
  <2>. QED
    BY <2>2, <2>6, <2>7 DEF ScreenGood, CheckOfScreen
<1>10. ASSUME NEW p \in Products, Tick(p) PROVE ScreenGood'
  <2>1. /\ page' = [page EXCEPT !.ticks = IF p \in @ THEN @ \ {p} ELSE @ \cup {p}]
        /\ UNCHANGED <<checks, kept, listed, hurried>>
    BY <1>10 DEF Tick, world
  <2>2. page' \in Pages /\ UNCHANGED <<page.open, page.batch, page.shown>>
    BY <2>1 DEF ScreenGood, Pages
  <2>. QED
    BY <2>1, <2>2 DEF ScreenGood, CheckOfScreen
<1>. QED
  BY <1>1, <1>2, <1>3, <1>4, <1>5, <1>6, <1>7, <1>8, <1>9, <1>10 DEF Next, JobSteps


-----------------------------------------------------------------------------
(* The files                                                               *)

(* An answer by hand has every unit it was given                           *)
LEMMA HandWritten ==
    ASSUME NEW f \in DOMAIN Feeds, NEW units, units \subseteq Units,
           NEW echoed \in BOOLEAN, NEW translated \in BOOLEAN,
           NEW before, before \in Seq(Items)
    PROVE  /\ before \o Answers(f, units, echoed, translated) \in Seq(Items)
           /\ \A u \in units :
                 CopyOf(f, u, before \o Answers(f, units, echoed, translated)) # NoCopy
<1>. DEFINE order == SetToSeq(units)
            fill(u) == IF translated THEN SourceText(Record(f, u[1]), u[2]) ELSE "nothing"
            answers == Answers(f, units, echoed, translated)
            after == before \o answers
<1>1. order \in Seq(Units) /\ \A u \in units : \E i \in DOMAIN order : order[i] = u
  BY InSomeOrder
<1>2. answers = [i \in DOMAIN order |-> Item(f, order[i], echoed, fill(order[i]))]
  BY DEF Answers
<1>3. \A u \in Units : Item(f, u, echoed, fill(u)) \in ItemsOf(f)
  BY ItemsAre
<1>. HIDE DEF order, fill, answers
<1>4. /\ DOMAIN answers = 1 .. Len(order) /\ Len(order) \in Nat
      /\ \A i \in DOMAIN answers : answers[i] \in ItemsOf(f) /\ answers[i].unit = order[i]
  <2>1. \A i \in DOMAIN order : order[i] \in Units
    BY <1>1
  <2>2. \A u : Item(f, u, echoed, fill(u)).unit = u
    BY DEF Item
  <2>. QED
    BY <1>1, <1>2, <1>3, <2>1, <2>2
<1>5. answers \in Seq(ItemsOf(f)) /\ Len(answers) = Len(order)
  <2>1. answers \in [1 .. Len(order) -> ItemsOf(f)]
    BY <1>2, <1>4
  <2>. QED
    BY <1>4, <2>1
<1>6. ItemsOf(f) \subseteq Items
  BY DEF Items
<1>7. answers \in Seq(Items)
  BY <1>5, <1>6
<1>8. after \in Seq(Items) /\ Len(after) = Len(before) + Len(answers)
  BY <1>7
<1>9. \A i \in 1 .. Len(answers) : after[Len(before) + i] = answers[i]
  BY <1>7
<1>10. \A j \in DOMAIN after : j > Len(before) => after[j] \in ItemsOf(f)
  <2>1. ASSUME NEW j \in DOMAIN after, j > Len(before) PROVE after[j] \in ItemsOf(f)
    <3>1. j - Len(before) \in 1 .. Len(answers) /\ j = Len(before) + (j - Len(before))
      BY <1>5, <1>8, <2>1
    <3>. HIDE DEF after
    <3>. QED
      BY <1>4, <1>5, <1>9, <3>1
  <2>. QED
    BY <2>1
<1>11. ASSUME NEW u \in units PROVE CopyOf(f, u, after) # NoCopy
  <2>1. PICK i \in DOMAIN order : order[i] = u
    BY <1>1
  <2>2. i \in 1 .. Len(answers) /\ answers[i].unit = u
    BY <1>1, <1>4, <1>5, <2>1
  <2>3. /\ Len(before) + i \in DOMAIN after /\ Len(before) + i > Len(before)
        /\ after[Len(before) + i].unit = u /\ Len(before) \in Nat
    BY <1>5, <1>8, <1>9, <2>2
  <2>. HIDE DEF after
  <2>. QED
    BY <1>8, <1>10, <2>3, AnsweredAnew
<1>. QED
  BY <1>8, <1>11 DEF answers

FilesGood == results \in Seq(Items) /\ RequestsAreEnough /\ AnswersAreEnough

(* Every step keeps the requests and the results complete                  *)
LEMMA FilesStep ==
    ASSUME TypeOK, FilesGood, JobsGood, [Next]_vars
    PROVE  FilesGood'
<1>1. ASSUME UNCHANGED files PROVE FilesGood'
  BY <1>1 DEF files, FilesGood, RequestsAreEnough, AnswersAreEnough
<1>2. CASE Emit
  <2>1. PICK units \in Scopes : requests' = [seen |-> Now, asked |-> Pending(feed, units)]
    BY <1>2 DEF Emit
  <2>2. UNCHANGED <<results, whole>>
    BY <1>2 DEF Emit
  <2>3. /\ Now \in Snapshots /\ Needed(Now) \subseteq Pending(feed, units)
        /\ Pending(feed, units) \subseteq Units
    BY NowIsSeen, ScopesAreEnough
  <2>4. requests'.seen = Now /\ requests'.asked = Pending(feed, units)
    BY <2>1
  <2>5. RequestsAreEnough'
    BY <2>3, <2>4 DEF RequestsAreEnough
  <2>. QED
    BY <2>2, <2>5 DEF FilesGood, AnswersAreEnough
<1>3. CASE HandWrite
  <2>1. PICK forgotten \in {{}} \cup {UnitsOf({p}) : p \in Products},
             echoed \in BOOLEAN, translated \in BOOLEAN, appended \in BOOLEAN :
          /\ results' = (IF appended THEN results ELSE <<>>)
                        \o Answers(requests.seen.feed, requests.asked \ forgotten,
                                   echoed, translated)
          /\ whole' = IF forgotten \cap requests.asked = {}
                   THEN [seen |-> requests.seen, full |-> translated]
                   ELSE NoAnswer
    BY <1>3 DEF HandWrite
  <2>2. /\ requests' = requests /\ requests.seen \in Snapshots
        /\ Needed(requests.seen) \subseteq requests.asked /\ requests.asked \subseteq Units
    BY <1>3 DEF HandWrite, FilesGood, RequestsAreEnough
  <2>. DEFINE before == IF appended THEN results ELSE <<>>
              units == requests.asked \ forgotten
              f == requests.seen.feed
  <2>3. before \in Seq(Items) /\ units \subseteq Units /\ f \in DOMAIN Feeds
    BY <2>2 DEF FilesGood, Snapshots
  <2>4. results' = before \o Answers(f, units, echoed, translated)
    BY <2>1
  <2>5. results' \in Seq(Items) /\ \A u \in units : CopyOf(f, u, results') # NoCopy
    <3>. HIDE DEF before, units, f
    <3>. QED
      BY <2>3, <2>4, HandWritten
  <2>6. AnswersAreEnough'
    <3>1. CASE forgotten \cap requests.asked = {}
      <4>1. whole'.seen = requests.seen /\ units = requests.asked
        BY <2>1, <3>1
      <4>. QED
        BY <2>2, <2>5, <4>1 DEF AnswersAreEnough
    <3>2. CASE forgotten \cap requests.asked # {}
      <4>1. whole' = NoAnswer
        BY <2>1, <3>2
      <4>. QED
        BY <4>1 DEF AnswersAreEnough, NoAnswer
    <3>. QED
      BY <3>1, <3>2
  <2>. QED
    BY <2>2, <2>5, <2>6 DEF FilesGood, RequestsAreEnough
<1>4. ASSUME NEW job \in jobs, ApiSaves(job) PROVE FilesGood'
  <2>1. /\ job.left = <<>> /\ results' = job.items /\ requests' = requests
        /\ whole'.seen = (IF job.named # {} THEN NotSeen ELSE job.seen)
    BY <1>4 DEF ApiSaves, NoAnswer
  <2>2. job \in Jobs /\ JobIsEnough(job)
    BY DEF JobsGood
  <2>3. /\ job.items \in Seq(Items) /\ job.items \in Seq(ItemsOf(job.seen.feed))
        /\ job.seen \in Snapshots
    BY <2>2 DEF Jobs, JobIsEnough
  <2>4. ASSUME job.named = {}, NEW u \in Needed(job.seen)
        PROVE  CopyOf(job.seen.feed, u, job.items) # NoCopy
    <3>1. DOMAIN job.left = {}
      BY <2>1
    <3>2. PICK i \in DOMAIN job.items : job.items[i].unit = u
      BY <2>2, <2>4, <3>1 DEF JobIsEnough
    <3>3. /\ i > 0 /\ 0 \in Nat
          /\ \A j \in DOMAIN job.items : j > 0 => job.items[j] \in ItemsOf(job.seen.feed)
      BY <2>3, <3>2
    <3>. QED
      BY <2>3, <3>2, <3>3, AnsweredAnew
  <2>5. AnswersAreEnough'
    BY <2>1, <2>3, <2>4 DEF AnswersAreEnough
  <2>. QED
    BY <2>1, <2>3, <2>5 DEF FilesGood, RequestsAreEnough
<1>5. CASE \/ \E f \in DOMAIN Feeds : ParseExport(f)
           \/ \E batch \in Batches : SaveBatch(batch)
           \/ \E products \in SignOffs : SignOff(products)
           \/ \E failing \in {{}} \cup {{p} : p \in Products} : Execute(Products \ failing)
           \/ \E u \in Units : EditorBlanks(u)
           \/ \E p \in Products : Tick(p)
           \/ StartApi \/ OpenContent \/ Leave \/ Restart \/ StartCheck \/ Generate
  BY <1>1, <1>5 DEF ParseExport, SaveBatch, SignOff, Execute, EditorBlanks, Tick, StartApi,
     OpenContent, Leave, Restart, StartCheck, Generate
<1>6. CASE \/ \E job \in jobs : ApiAnswers(job) \/ ApiRetries(job) \/ JobKilled(job)
           \/ \E check \in checks : FinishCheck(check)
           \/ UNCHANGED vars
  BY <1>1, <1>6 DEF ApiAnswers, ApiRetries, JobKilled, FinishCheck, vars
<1>7. ASSUME NEW job \in jobs, ApiFails(job) PROVE FilesGood'
  BY <1>1, <1>7 DEF ApiFails
<1>. QED
  BY <1>2, <1>3, <1>4, <1>5, <1>6, <1>7 DEF Next, JobSteps


(* What comes from outside keeps its types                                 *)
LEMMA WorldStep ==
    ASSUME TypeOK, [Next]_vars
    PROVE  /\ feed' \in DOMAIN Feeds /\ admitted' \in SUBSET Products
           /\ listed' \in SUBSET Products /\ entries' \in [Units -> Names]
<1>. USE DEF TypeOK
<1>1. ASSUME UNCHANGED <<feed, admitted, listed, entries>>
      PROVE  /\ feed' \in DOMAIN Feeds /\ admitted' \in SUBSET Products
             /\ listed' \in SUBSET Products /\ entries' \in [Units -> Names]
  BY <1>1
<1>2. CASE \/ \E f \in DOMAIN Feeds : ParseExport(f)
           \/ \E batch \in Batches : SaveBatch(batch)
           \/ \E products \in SignOffs : SignOff(products)
  BY <1>2, GenerationAssumption DEF ParseExport, SaveBatch, SignOff
<1>3. ASSUME NEW failing, Execute(Products \ failing)
      PROVE  /\ feed' \in DOMAIN Feeds /\ admitted' \in SUBSET Products
             /\ listed' \in SUBSET Products /\ entries' \in [Units -> Names]
  BY <1>3 DEF Execute, Names
<1>4. CASE \/ \E u \in Units : EditorBlanks(u)
           \/ \E p \in Products : Tick(p)
           \/ Emit \/ HandWrite \/ StartApi \/ OpenContent \/ Leave \/ Restart
           \/ StartCheck \/ Generate
  BY <1>1, <1>4 DEF EditorBlanks, Tick, Emit, HandWrite, StartApi, OpenContent, Leave, Restart,
     StartCheck, Generate, world
<1>5. CASE \/ \E job \in jobs : JobKilled(job)
           \/ \E check \in checks : FinishCheck(check)
           \/ JobSteps \/ UNCHANGED vars
  BY <1>1, <1>5 DEF JobSteps, ApiAnswers, ApiRetries, ApiFails, ApiSaves, JobKilled, FinishCheck,
     vars, world
<1>. QED
  BY <1>2, <1>3, <1>4, <1>5 DEF Next

-----------------------------------------------------------------------------
(* What always holds of the writing of a batch: the types, that what was   *)
(* asked is enough, and that the screen is of one batch                    *)
GenInv == TypeOK /\ Enough /\ OfOneBatch

(* The invariant by who keeps it: the files, the runs, the screen          *)
LEMMA GenInvIs ==
    GenInv <=> TypeOK /\ FilesGood /\ JobsGood /\ ScreenGood
  BY DEF GenInv, TypeOK, Enough, OfOneBatch, FilesGood, JobsGood, ScreenGood, JobsAreEnough

(* The invariant holds at the start                                        *)
LEMMA InitGenInv == Init => GenInv
<1>. SUFFICES ASSUME Init PROVE GenInv
  OBVIOUS
<1>. USE DEF Init
<1>1. /\ feed \in DOMAIN Feeds /\ admitted \in SUBSET Products /\ listed \in SUBSET Products
      /\ entries \in [Units -> Names]
  BY GenerationAssumption DEF Names
<1>2. FilesGood
  <2>1. results \in Seq(Items)
    <3>1. results = <<>>
      OBVIOUS
    <3>. HIDE DEF Init
    <3>. QED
      BY <3>1
  <2>2. requests.asked = {} /\ whole.seen = NotSeen
    BY DEF NoAnswer
  <2>. QED
    BY <2>1, <2>2 DEF FilesGood, RequestsAreEnough, AnswersAreEnough
<1>3. JobsGood
  BY DEF JobsGood
<1>4. ScreenGood
  BY NothingShown DEF ScreenGood
<1>. QED
  BY <1>1, <1>2, <1>3, <1>4, GenInvIs DEF TypeOK, FilesGood, JobsGood, ScreenGood

(* And every step keeps it                                                 *)
LEMMA GenInvStep == GenInv /\ [Next]_vars => GenInv'
<1>. SUFFICES ASSUME GenInv, [Next]_vars PROVE GenInv'
  OBVIOUS
<1>1. TypeOK /\ FilesGood /\ JobsGood /\ ScreenGood /\ OfOneBatch
  BY GenInvIs DEF GenInv
<1>2. FilesGood'
  BY <1>1, FilesStep
<1>3. JobsGood'
  BY <1>1, JobsStep
<1>4. ScreenGood'
  BY <1>1, ScreenStep
<1>5. TypeOK'
  BY <1>1, <1>2, <1>3, <1>4, WorldStep DEF TypeOK, FilesGood, JobsGood, ScreenGood
<1>. QED
  BY <1>2, <1>3, <1>4, <1>5
  DEF GenInv, Enough, OfOneBatch, FilesGood, JobsGood, ScreenGood, JobsAreEnough

(* The writing of a batch is always typed, and asks for enough             *)
THEOREM WritingHolds == Spec => []GenInv
<1>. QED
  BY InitGenInv, GenInvStep, PTL DEF Spec

(* After a complete answer, and while feed, batch and videos are as they   *)
(* were, the plan leaves nothing out for want of copy (lib/generator.py,   *)
(* scripts/run_generate.py, lib/state.py)                                  *)
THEOREM AnswersSuffice == Spec => []WrittenIsEnough
<1>1. ASSUME GenInv PROVE WrittenIsEnough
  <2>1. TypeOK /\ AnswersAreEnough /\ Answered(results)
    BY <1>1, ResultsAnswer DEF GenInv, TypeOK, Enough
  <2>. SUFFICES ASSUME whole.seen # NotSeen,
                       [whole.seen EXCEPT !.entries = entries] = Now,
                       NEW p \in listed, NEW l \in LanguageSet,
                       Skipped(feed, admitted, entries, results, <<p, l>>) = "E21",
                       entries[<<p, l>>] = whole.seen.entries[<<p, l>>]
                PROVE  FALSE
    BY DEF WrittenIsEnough, UnitsOf
  <2>. DEFINE u == <<p, l>>
              seen == whole.seen
  <2>2. seen \in Snapshots /\ \A v \in Needed(seen) : CopyOf(seen.feed, v, results) # NoCopy
    BY <2>1 DEF AnswersAreEnough
  <2>3. seen.feed = feed /\ seen.admitted = admitted /\ seen.listed = listed
    <3>1. /\ [seen EXCEPT !.entries = entries].feed = seen.feed
          /\ [seen EXCEPT !.entries = entries].admitted = seen.admitted
          /\ [seen EXCEPT !.entries = entries].listed = seen.listed
      BY <2>2 DEF Snapshots
    <3>2. Now.feed = feed /\ Now.admitted = admitted /\ Now.listed = listed
      BY DEF Now
    <3>. QED
      BY <3>1, <3>2
  <2>4. /\ Classified(entries, feed, u) # "unchanged" /\ CopyOf(feed, u, results) = NoCopy
        /\ p \in admitted
        /\ ~(NameRequired /\ \E m \in LanguageSet : MergedName(feed, <<p, m>>, results) = "blank")
    BY DEF Skipped
  <2>5. HoldOf(feed, admitted, p) = "no"
    <3>1. HoldOf(feed, admitted, p) # "E23"
      BY <2>1, <2>4, HeldForData
    <3>. QED
      BY <2>4, <3>1 DEF HoldOf
  <2>6. Classified(seen.entries, feed, u) # "unchanged"
    BY <2>4 DEF Classified
  <2>7. u \in UnitsNeedingCopy(seen.feed, seen.admitted, seen.entries, seen.listed)
    BY <2>3, <2>5, <2>6 DEF UnitsNeedingCopy, UnitsOf, Held
  <2>8. ~Verbatim(feed, u)
    BY <2>1, <2>4, CopyIs DEF NoCopy
  <2>. QED
    BY <2>2, <2>3, <2>4, <2>7, <2>8 DEF Needed
<1>. QED
  BY <1>1, WritingHolds, PTL

(* Where names are mandatory, what the doctor says of a results file is    *)
(* what the plan then does with it (lib/preflight.py, lib/holds.py,        *)
(* lib/state.py)                                                           *)
THEOREM DoctorIsRight ==
    ASSUME NameRequired
    PROVE  Spec => []DoctorAgreesWithPlan
<1>1. ASSUME GenInv PROVE DoctorAgreesWithPlan
  <2>1. Answered(results)
    BY <1>1, ResultsAnswer DEF GenInv, TypeOK
  <2>. SUFFICES ASSUME NEW p \in listed, NEW l \in LanguageSet
                PROVE  LET doctor  == Verdict(feed, admitted, entries, results, listed)
                           unfilled(q) ==
                               \E m \in LanguageSet :
                                   HasGap(Record(feed, q), m) /\ ~Filled(feed, <<q, m>>, results)
                           u == <<p, l>>
                           covered == u \in doctor.wanted \ doctor.missing
                           skip    == Skipped(feed, admitted, entries, results, u)
                       IN  /\ skip = "no" /\ Classified(entries, feed, u) # "unchanged" => covered
                           /\ covered => skip = "no" \/ unfilled(u[1])
                           /\ skip = "E21" => u \in doctor.missing
                           /\ skip = "E24" => u[1] \in doctor.video
                           /\ u[1] \in doctor.data => skip = "E23"
    BY DEF DoctorAgreesWithPlan, UnitsOf
  <2>. QED
    BY <2>1, DoctorAgreesOn
<1>. QED
  BY <1>1, WritingHolds, PTL

(* When its copy says what it was about, the name published for a unit is  *)
(* the feed's own or the translation of what the feed says now             *)
(* (lib/generator.py)                                                      *)
THEOREM NoNameOfAnotherFeed == Spec => []NamesFollowTheFeed
<1>1. ASSUME GenInv PROVE NamesFollowTheFeed
  <2>1. Answered(results)
    BY <1>1, ResultsAnswer DEF GenInv, TypeOK
  <2>. QED
    BY <2>1, NamesAreOfTheFeed DEF NamesFollowTheFeed
<1>. QED
  BY <1>1, WritingHolds, PTL

(* Next opens on a read of the saved batch, and only when the products the *)
(* site lacks text for are in the results file (ui/pages/content.py,       *)
(* ui/content_session.py)                                                  *)
THEOREM NextOpensOnTheBatch == Spec => NextKnowsTheBatch
<1>. DEFINE Known == /\ listed' \subseteq DOMAIN page'.shown.bucket
                     /\ \A p \in listed' :
                           page'.shown.bucket[p] = "needs text" => TextWrittenFor({p}, results')
<1>1. ASSUME TypeOK, ScreenGood, [Next]_vars, ~page.onward, page'.onward, ~hurried PROVE Known
  <2>1. ASSUME NEW shown, shown.read => DOMAIN shown.bucket = listed, page'.shown = shown,
               shown.read, TextWrittenFor(ProductsIn(shown, "needs text"), results),
               UNCHANGED <<listed, results>>
        PROVE  Known
    <3>1. ASSUME NEW p \in listed, shown.bucket[p] = "needs text"
          PROVE  TextWrittenFor({p}, results)
      <4>1. p \in ProductsIn(shown, "needs text")
        BY <2>1, <3>1 DEF ProductsIn
      <4>. QED
        BY <2>1, <4>1 DEF TextWrittenFor, UnitsOf
    <3>2. \A p \in listed : shown.bucket[p] = "needs text" => TextWrittenFor({p}, results')
      BY <2>1, <3>1
    <3>. QED
      BY <2>1, <3>2
  <2>2. CASE OpenContent
    <3>. DEFINE shown == IF kept.batch = listed THEN kept.payload ELSE NotRead
                after == FALSE
    <3>1. page' = Drawn(Blank, shown, after) /\ UNCHANGED <<listed, results>>
      BY <2>2 DEF OpenContent, world, files
    <3>2. shown \in Shows /\ after \in BOOLEAN /\ Blank \in Pages
      BY <1>1, NothingShown, BlankIs DEF ScreenGood, TypeOK
    <3>3. shown.read => DOMAIN shown.bucket = listed
      BY <1>1, NothingShown DEF ScreenGood
    <3>. HIDE DEF shown, after, Known
    <3>4. /\ Drawn(Blank, shown, after).shown = shown
          /\ Drawn(Blank, shown, after).onward =>
                shown.read /\ TextWrittenFor(ProductsIn(shown, "needs text"), results)
      BY <3>2, DrawnIs
    <3>. QED
      BY <1>1, <2>1, <3>1, <3>3, <3>4
  <2>3. ASSUME NEW check \in checks, FinishCheck(check) PROVE Known
    <3>. DEFINE buckets == [p \in listed |-> Bucket(feed, admitted, site, p)]
    <3>1. PICK shown \in {NotRead, [read |-> TRUE, bucket |-> buckets]} :
             page' = IF check.here
                     THEN Drawn(page, shown, shown.read /\ Followed(check.after, shown))
                     ELSE page
      BY <2>3 DEF FinishCheck
    <3>2. UNCHANGED <<listed, results>>
      BY <2>3 DEF FinishCheck, world, files
    <3>3. buckets \in [listed -> Buckets] /\ listed \in SUBSET Products
      BY <1>1 DEF Bucket, Buckets, TypeOK
    <3>4. buckets \in UNION {[B -> Buckets] : B \in SUBSET Products} /\ DOMAIN buckets = listed
      BY <3>3
    <3>5. shown = NotRead \/ shown = [read |-> TRUE, bucket |-> buckets]
      BY <3>1
    <3>. HIDE DEF buckets, Known
    <3>6. [read |-> TRUE, bucket |-> buckets] \in Shows
      BY <3>4 DEF Shows
    <3>7. shown \in Shows
      BY <3>5, <3>6, NothingShown
    <3>8. shown.read => DOMAIN shown.bucket = listed
      <4>1. CASE shown = NotRead
        BY <4>1, NothingShown
      <4>2. CASE shown = [read |-> TRUE, bucket |-> buckets]
        BY <3>4, <4>2
      <4>. QED
        BY <3>5, <4>1, <4>2
    <3>. DEFINE after == shown.read /\ Followed(check.after, shown)
    <3>9. /\ after \in BOOLEAN /\ page \in Pages
          /\ page' = IF check.here THEN Drawn(page, shown, after) ELSE page
      BY <1>1, <3>1, <3>7 DEF Followed, Shows, ScreenGood
    <3>. HIDE DEF after
    <3>10. page' = Drawn(page, shown, after)
      BY <1>1, <3>9
    <3>11. /\ Drawn(page, shown, after).shown = shown
           /\ Drawn(page, shown, after).onward =>
                 shown.read /\ TextWrittenFor(ProductsIn(shown, "needs text"), results)
      BY <3>7, <3>9, DrawnIs
    <3>. QED
      BY <1>1, <2>1, <3>2, <3>8, <3>10, <3>11
  <2>4. ~page'.onward \/ OpenContent \/ \E check \in checks : FinishCheck(check)
    <3>1. CASE \/ \E f \in DOMAIN Feeds : ParseExport(f)
               \/ \E batch \in Batches : SaveBatch(batch)
               \/ \E products \in SignOffs : SignOff(products)
               \/ \E failing \in {{}} \cup {{p} : p \in Products} : Execute(Products \ failing)
               \/ \E u \in Units : EditorBlanks(u)
               \/ Emit \/ HandWrite \/ StartApi \/ StartCheck \/ Generate \/ UNCHANGED vars
      BY <1>1, <3>1 DEF ParseExport, SaveBatch, SignOff, Execute, EditorBlanks, Emit, HandWrite,
         StartApi, StartCheck, Generate, screen, vars
    <3>2. CASE JobSteps \/ \E job \in jobs : JobKilled(job)
      <4>1. page' = page
        <5>1. ASSUME NEW job \in jobs, ApiAnswers(job) \/ ApiRetries(job) \/ JobKilled(job)
              PROVE  page' = page
          BY <5>1 DEF ApiAnswers, ApiRetries, JobKilled, screen
        <5>2. ASSUME NEW job \in jobs, ApiFails(job) PROVE page' = page
          BY <5>2 DEF ApiFails
        <5>3. ASSUME NEW job \in jobs, ApiSaves(job) PROVE page' = page
          BY <5>3 DEF ApiSaves
        <5>. QED
          BY <3>2, <5>1, <5>2, <5>3 DEF JobSteps
      <4>. QED
        BY <1>1, <4>1
    <3>3. CASE Leave \/ Restart
      <4>1. page' = Closed
        BY <3>3 DEF Leave, Restart
      <4>2. ~Closed.onward
        BY DEF Closed
      <4>. QED
        BY <4>1, <4>2
    <3>4. CASE \E p \in Products : Tick(p)
      BY <1>1, <3>4 DEF Tick, ScreenGood, Pages
    <3>. QED
      BY <1>1, <3>1, <3>2, <3>3, <3>4 DEF Next
  <2>. QED
    BY <1>1, <2>2, <2>3, <2>4
<1>2. GenInv /\ [Next]_vars => [~page.onward /\ page'.onward /\ ~hurried => Known]_vars
  BY <1>1, GenInvIs
<1>. QED
  BY <1>2, WritingHolds, PTL DEF Spec, NextKnowsTheBatch, Known

===============================================================================
