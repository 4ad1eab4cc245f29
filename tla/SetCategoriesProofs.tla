-------------------------- MODULE SetCategoriesProofs --------------------------
(***************************************************************************)
(* A run of set_categories that counts no error had every page in its      *)
(* category, and the files of a parse hide nothing: for any exports,       *)
(* clients, markets, languages, brick maps, pages and terms, whatever is   *)
(* edited, published, parsed or killed meanwhile.                          *)
(***************************************************************************)
EXTENDS SetCategories, WellFoundedInduction, FiniteSetTheorems, TLAPS

(* Of some numbers the smallest is one of them                             *)
LEMMA MinIsThere ==
    ASSUME NEW T, T \subseteq Nat, T # {}
    PROVE  Min(T) \in T /\ \A j \in T : Min(T) <= j
<1>1. PICK d \in T : \A e \in T : ~ (<<e, d>> \in OpToRel(<, Nat))
  BY WFMin, NatLessThanWellFounded
<1>2. \A e \in T : ~(e < d)
  BY <1>1 DEF OpToRel
<1>3. \A e \in T : d <= e
  BY <1>2
<1>. QED
  BY <1>3 DEF Min


-----------------------------------------------------------------------------
(* The types of the parse, the site and the script                         *)
Files == {NoFile} \cup DOMAIN Deliveries
CategoryNames == {NoCategory} \cup UNION {m.terms : m \in Mappings}
PageLanguages == {p.language : p \in Pages}
Answers == {<<>>} \cup {<<t>> : t \in SiteTerms}
Remembered == UNION {[K -> Answers] : K \in SUBSET (CategoryNames \X PageLanguages)}
Plans == {<<>>} \cup {AssignCategories(Records(f), m) : f \in Files, m \in Mappings}

Steps == {"idle", "list", "page", "read", "guard", "write", "done", "refused"}
Looping == {"page", "read", "guard", "write"}

Scripts ==
    [step : Steps, apply : BOOLEAN, of : Files, categories : {{}} \cup Mappings,
     wanted : Plans, plugin : {"none", ConfiguredPlugin, SitePlugin},
     covered : SUBSET Pages, todo : SUBSET DOMAIN PageOrder, remembered : Remembered,
     term : Answers, failed : BOOLEAN, filed : SUBSET Pages, dropped : SUBSET SiteTerms]

IntakeTypeOK ==
    /\ delivered \in DOMAIN Deliveries /\ products \in Files /\ issues \in Files
    /\ parse \in [step : {"idle", "products", "report", "issues"}, of : Files]

TypeOK ==
    /\ IntakeTypeOK
    /\ categories \in Mappings /\ terms \subseteq SiteTerms
    /\ ledger \subseteq Pages
    /\ script \in Scripts

(* What a term is of: the category and the language asked for              *)
Answering(answer, category, language) ==
    answer # <<>> =>
        /\ answer[1].category = category /\ answer[1].language = language
        /\ answer[1] \in terms \cup script.dropped

(* A page a run has done with: it was skipped, or seen in its category, or *)
(* its term was deleted                                                    *)
IsSettled(p) ==
    \/ CategoryOf(p) = NoCategory
    \/ p \in script.filed
    \/ \E t \in script.dropped : t.category = CategoryOf(p) /\ t.language = p.language

(* What the script plans by is what it read                                *)
PlanIsRead ==
    script.step \in Looping \cup {"done"} =>
        /\ script.categories \in Mappings
        /\ script.wanted = AssignCategories(Records(script.of), script.categories)

(* What is remembered of a category in a language, and the term in hand,   *)
(* are of that category and language, and were there while the script ran  *)
TermsAreAsked ==
    /\ script.step = "list" => script.remembered = <<>>
    /\ script.step \in Looping =>
          /\ script.plugin \in {ResolvePlugin(d) : d \in Detected}
          /\ \A key \in DOMAIN script.remembered :
                Answering(script.remembered[key], key[1], key[2])
          /\ script.step # "page" =>
                /\ script.todo # {} /\ script.term # <<>>
                /\ Answering(script.term, CategoryOf(Page), Page.language)

(* Of the pages covered, those that are not to come are settled            *)
CoveredIsSettled ==
    /\ script.step \in Looping \cup {"done"} /\ script.apply /\ ~script.failed =>
          \A p \in script.covered :
             IsSettled(p) \/ \E i \in script.todo : PageOrder[i] = p
    /\ script.step = "done" => script.todo = {}

FilingInv == TypeOK /\ PlanIsRead /\ TermsAreAsked /\ CoveredIsSettled

(* Terms are looked up in the language asked for: the plugin is configured *)
(* or every page is in the default language                                *)
Scoped ==
    \/ ConfiguredPlugin \in {"wpml", "polylang"}
    \/ \A p \in Pages : p.language = DefaultLanguage

(* A term that is found is the category's, in the language asked for       *)
LEMMA FoundIsAsked ==
    ASSUME Scoped, terms \subseteq SiteTerms, NEW d \in Detected, NEW c, NEW l \in PageLanguages
    PROVE  LET found == FindTerm(ResolvePlugin(d), c, l)
           IN  /\ found \in Answers
               /\ found # <<>> => /\ found[1].category = c /\ found[1].language = l
                                  /\ found[1] \in terms
<1>1. AskedLanguage(ResolvePlugin(d), l) = l
  BY DEF Scoped, ResolvePlugin, AskedLanguage, PageLanguages
<1>2. \A s : SiteTerm(c, l, s).category = c /\ SiteTerm(c, l, s).language = l
  BY DEF SiteTerm
<1>. QED
  BY <1>1, <1>2 DEF FindTerm, Answers

(* The page at hand is one of the pages, at the first place still to come  *)
LEMMA PageIsThere ==
    ASSUME script \in Scripts, script.todo # {}
    PROVE  /\ Min(script.todo) \in script.todo /\ Page = PageOrder[Min(script.todo)]
           /\ Page \in Pages
<1>1. script.todo \subseteq DOMAIN PageOrder
  BY DEF Scripts
<1>2. DOMAIN PageOrder \subseteq Nat
  BY PagesAssumption
<1>3. Min(script.todo) \in script.todo
  BY <1>1, <1>2, MinIsThere
<1>. QED
  BY <1>1, <1>3 DEF Page, Pages, ToSet

(* The categories of a plan are those of its brick map                     *)
LEMMA CategoriesAreNamed ==
    ASSUME script \in Scripts, NEW p
    PROVE  CategoryOf(p) \in CategoryNames
<1>1. CASE script.wanted = <<>>
  <2>1. DOMAIN script.wanted = {}
    BY <1>1
  <2>. QED
    BY <2>1 DEF CategoryOf, CategoryNames
<1>2. ASSUME NEW f \in Files, NEW m \in Mappings,
             script.wanted = AssignCategories(Records(f), m)
      PROVE  CategoryOf(p) \in CategoryNames
  <2>1. \A r : ResolveCategory(r, m) \in m.terms \cup {NoCategory}
    BY DEF ResolveCategory
  <2>2. \A g \in DOMAIN script.wanted : script.wanted[g] \in m.terms \cup {NoCategory}
    BY <1>2, <2>1 DEF AssignCategories
  <2>. QED
    BY <2>2 DEF CategoryOf, CategoryNames
<1>3. script.wanted \in Plans
  BY DEF Scripts
<1>. QED
  BY <1>1, <1>2, <1>3 DEF Plans

(* Going on to the next page without an error                              *)
LEMMA SettledWell ==
    ASSUME NEW run \in Scripts
    PROVE  /\ Settled(run, FALSE) \in Scripts /\ Settled(run, FALSE).step = "page"
           /\ Settled(run, FALSE).todo = run.todo \ {Min(run.todo)}
           /\ \A x \in {"of", "categories", "wanted", "plugin", "covered", "remembered", "filed",
                        "dropped"} : Settled(run, FALSE)[x] = run[x]
           /\ Settled(run, FALSE).apply => run.apply
           /\ ~Settled(run, FALSE).failed => ~run.failed
<1>1. Settled(run, FALSE) \in Scripts
  BY DEF Settled, Scripts, Steps, Answers
<1>2. /\ Settled(run, FALSE).step = "page"
      /\ Settled(run, FALSE).todo = run.todo \ {Min(run.todo)}
      /\ \A x \in {"of", "categories", "wanted", "plugin", "covered", "remembered", "filed",
                   "dropped"} : Settled(run, FALSE)[x] = run[x]
  BY DEF Settled, Scripts
<1>3. Settled(run, FALSE).apply = run.apply
  BY DEF Settled, Scripts
<1>4. ~Settled(run, FALSE).failed => ~run.failed
  BY DEF Settled, Scripts
<1>. QED
  BY <1>1, <1>2, <1>3, <1>4

(* Going on to the next page with an error                                 *)
LEMMA SettledWithError ==
    ASSUME NEW run \in Scripts
    PROVE  /\ Settled(run, TRUE) \in Scripts /\ Settled(run, TRUE).step = "page"
           /\ Settled(run, TRUE).todo = run.todo \ {Min(run.todo)}
           /\ \A x \in {"of", "categories", "wanted", "plugin", "covered", "remembered", "filed",
                        "dropped"} : Settled(run, TRUE)[x] = run[x]
           /\ Settled(run, TRUE).apply => run.apply
           /\ Settled(run, TRUE).failed
<1>1. Settled(run, TRUE) \in Scripts
  BY DEF Settled, Scripts, Steps, Answers
<1>2. /\ Settled(run, TRUE).step = "page"
      /\ Settled(run, TRUE).todo = run.todo \ {Min(run.todo)}
      /\ \A x \in {"of", "categories", "wanted", "plugin", "covered", "remembered", "filed",
                   "dropped"} : Settled(run, TRUE)[x] = run[x]
  BY DEF Settled, Scripts
<1>3. Settled(run, TRUE).apply = run.apply
  BY DEF Settled, Scripts
<1>4. Settled(run, TRUE).failed
  BY DEF Settled, Scripts
<1>. QED
  BY <1>1, <1>2, <1>3, <1>4

(* What was settled stays so                                               *)
LEMMA SettledStays ==
    ASSUME NEW p, IsSettled(p), script'.wanted = script.wanted,
           script.filed \subseteq script'.filed, script.dropped \subseteq script'.dropped
    PROVE  IsSettled(p)'
  BY DEF IsSettled, CategoryOf

(* A term that is deleted under the script is noted                        *)
LEMMA AnswersStay ==
    ASSUME NEW answer, NEW c, NEW l, Answering(answer, c, l),
           terms \cup script.dropped \subseteq terms' \cup script'.dropped
    PROVE  Answering(answer, c, l)'
  BY DEF Answering

(* A step that leaves the script alone, and deletes no term                *)
LEMMA ScriptStays ==
    ASSUME FilingInv, IntakeTypeOK', categories' \in Mappings, terms' \subseteq SiteTerms,
           terms \subseteq terms', ledger' \subseteq Pages, UNCHANGED script
    PROVE  FilingInv'
<1>1. TypeOK'
  BY DEF FilingInv, TypeOK
<1>2. PlanIsRead'
  BY DEF FilingInv, PlanIsRead
<1>3. TermsAreAsked'
  <2>1. \A key \in DOMAIN script.remembered :
            Answering(script.remembered[key], key[1], key[2])
               => Answering(script.remembered[key], key[1], key[2])'
    BY AnswersStay
  <2>2. Answering(script.term, CategoryOf(Page), Page.language)
           => Answering(script.term, CategoryOf(Page), Page.language)'
    BY AnswersStay DEF CategoryOf, Page
  <2>. QED
    BY <2>1, <2>2 DEF FilingInv, TermsAreAsked, Answering, CategoryOf, Page
<1>4. CoveredIsSettled'
  BY DEF FilingInv, CoveredIsSettled, IsSettled, CategoryOf
<1>. QED
  BY <1>1, <1>2, <1>3, <1>4 DEF FilingInv

(* A step of the script over its pages                                     *)
LEMMA PageStep ==
    ASSUME FilingInv, script.step \in Looping, script'.step \in Looping, script' \in Scripts,
           UNCHANGED <<intakeVars, categories, terms, ledger>>,
           \A x \in {"of", "categories", "wanted", "plugin", "covered", "dropped"} :
              script'[x] = script[x],
           script'.apply => script.apply, ~script'.failed => ~script.failed,
           script.filed \subseteq script'.filed,
           \A key \in DOMAIN script'.remembered :
              Answering(script'.remembered[key], key[1], key[2]),
           script'.step # "page" =>
              /\ script'.todo = script.todo /\ script.todo # {} /\ script'.term # <<>>
              /\ Answering(script'.term, CategoryOf(Page), Page.language),
           \/ script'.todo = script.todo
           \/ /\ script'.todo = script.todo \ {Min(script.todo)} /\ script.todo # {}
              /\ \A p : p = Page /\ script'.apply /\ ~script'.failed => IsSettled(p)'
    PROVE  FilingInv'
<1>1. /\ script'.of = script.of /\ script'.categories = script.categories
      /\ script'.wanted = script.wanted /\ script'.plugin = script.plugin
      /\ script'.covered = script.covered /\ script'.dropped = script.dropped
  OBVIOUS
<1>2. TypeOK'
  BY DEF FilingInv, TypeOK, IntakeTypeOK, intakeVars
<1>3. PlanIsRead'
  <2>1. Records(script.of)' = Records(script.of)
    BY <1>1 DEF Records
  <2>. QED
    BY <1>1, <2>1 DEF FilingInv, PlanIsRead
<1>4. TermsAreAsked'
  <2>1. ASSUME NEW answer, NEW c, NEW l, Answering(answer, c, l) PROVE Answering(answer, c, l)'
    BY <1>1, <2>1, AnswersStay
  <2>2. \A key \in DOMAIN script'.remembered :
            (Answering(script.remembered[key], key[1], key[2]))'
    BY <2>1
  <2>3. ASSUME script'.step # "page"
        PROVE  /\ script'.todo # {} /\ script'.term # <<>>
               /\ Answering(script.term, CategoryOf(Page), Page.language)'
    <3>1. CategoryOf(Page)' = CategoryOf(Page) /\ Page' = Page
      BY <1>1, <2>3 DEF CategoryOf, Page
    <3>2. script'.term # <<>> /\ Answering(script'.term, CategoryOf(Page), Page.language)
      BY <2>3
    <3>. QED
      BY <2>1, <2>3, <3>1, <3>2
  <2>. QED
    BY <1>1, <2>2, <2>3 DEF FilingInv, TermsAreAsked, Looping
<1>5. CoveredIsSettled'
  <2>1. ASSUME NEW p \in script.covered, script'.apply, ~script'.failed
        PROVE  IsSettled(p)' \/ \E i \in script'.todo : PageOrder[i] = p
    <3>1. IsSettled(p) \/ \E i \in script.todo : PageOrder[i] = p
      BY <2>1 DEF FilingInv, CoveredIsSettled
    <3>2. CASE IsSettled(p)
      BY <1>1, <3>2, SettledStays
    <3>3. ASSUME NEW i \in script.todo, PageOrder[i] = p, i \notin script'.todo
          PROVE  IsSettled(p)'
      <4>1. script'.todo = script.todo \/ script'.todo = script.todo \ {Min(script.todo)}
        OBVIOUS
      <4>2. i = Min(script.todo)
        BY <3>3, <4>1
      <4>3. p = Page
        BY <3>3, <4>2 DEF Page
      <4>. QED
        BY <2>1, <3>3, <4>3
    <3>. QED
      BY <3>1, <3>2, <3>3
  <2>. QED
    BY <1>1, <2>1 DEF CoveredIsSettled, Looping
<1>. QED
  BY <1>2, <1>3, <1>4, <1>5 DEF FilingInv


(* A page that is seen in the term in hand is seen in its category         *)
LEMMA SeenIsFiled ==
    ASSUME script \in Scripts, Page \in Pages, script.term # <<>>,
           script.term[1].category = CategoryOf(Page), script.term[1].language = Page.language,
           NEW assigned
    PROVE  /\ Observed(assigned) \subseteq Pages /\ script.filed \subseteq Observed(assigned)
           /\ assigned = {script.term[1]} => Page \in Observed(assigned)
<1>1. script.filed \subseteq Pages
  BY DEF Scripts
<1>2. assigned = {script.term[1]} => InItsCategory(Page, assigned)
  BY DEF InItsCategory
<1>. QED
  BY <1>1, <1>2 DEF Observed

(* A page whose product has no category is settled by that                 *)
LEMMA SkipPageStep == FilingInv /\ SkipPage => FilingInv'
<1>. SUFFICES ASSUME FilingInv, SkipPage PROVE FilingInv'
  OBVIOUS
<1>1. /\ script \in Scripts /\ script.step = "page" /\ script.todo # {}
      /\ CategoryOf(Page) = NoCategory /\ script' = Settled(script, FALSE)
      /\ UNCHANGED <<intakeVars, categories, terms, ledger>>
  BY DEF FilingInv, TypeOK, SkipPage, AtPage, siteVars
<1>2. /\ script' \in Scripts /\ script'.step = "page"
      /\ script'.todo = script.todo \ {Min(script.todo)}
      /\ \A x \in {"of", "categories", "wanted", "plugin", "covered", "remembered", "filed",
                   "dropped"} : script'[x] = script[x]
      /\ script'.apply => script.apply
      /\ ~script'.failed => ~script.failed
  BY <1>1, SettledWell
<1>3. \A p : p = Page => IsSettled(p)'
  BY <1>1, <1>2 DEF IsSettled, CategoryOf
<1>4. \A key \in DOMAIN script'.remembered :
         Answering(script'.remembered[key], key[1], key[2])
  BY <1>1, <1>2 DEF FilingInv, TermsAreAsked, Looping
<1>. QED
  BY <1>1, <1>2, <1>3, <1>4, PageStep DEF Looping

(* A request that fails settles nothing, and the run has failed            *)
LEMMA PageFailsStep == FilingInv /\ PageFails => FilingInv'
<1>. SUFFICES ASSUME FilingInv, PageFails PROVE FilingInv'
  OBVIOUS
<1>1. /\ script \in Scripts /\ script.step \in Looping /\ script.todo # {}
      /\ script' = Settled(script, TRUE)
      /\ UNCHANGED <<intakeVars, categories, terms, ledger>>
  BY DEF FilingInv, TypeOK, PageFails, AtPage, siteVars, TermsAreAsked, Looping
<1>2. /\ script' \in Scripts /\ script'.step = "page"
      /\ script'.todo = script.todo \ {Min(script.todo)}
      /\ \A x \in {"of", "categories", "wanted", "plugin", "covered", "remembered", "filed",
                   "dropped"} : script'[x] = script[x]
      /\ script'.apply => script.apply
      /\ script'.failed
  BY <1>1, SettledWithError
<1>4. \A key \in DOMAIN script'.remembered :
         Answering(script'.remembered[key], key[1], key[2])
  BY <1>1, <1>2 DEF FilingInv, TermsAreAsked
<1>. QED
  BY <1>1, <1>2, <1>4, PageStep DEF Looping

(* A page that is in its category is settled                               *)
LEMMA ReadPageStep == FilingInv /\ ReadPage => FilingInv'
<1>. SUFFICES ASSUME FilingInv, ReadPage PROVE FilingInv'
  OBVIOUS
<1>. DEFINE seen == [script EXCEPT !.filed = Observed(pages[Page].terms)]
<1>1. /\ script \in Scripts /\ script.step = "read" /\ script.todo # {}
      /\ UNCHANGED <<intakeVars, categories, terms, ledger>>
      /\ script.term # <<>> /\ Answering(script.term, CategoryOf(Page), Page.language)
      /\ \A key \in DOMAIN script.remembered :
            Answering(script.remembered[key], key[1], key[2])
  BY DEF FilingInv, TypeOK, ReadPage, siteVars, TermsAreAsked, Looping
<1>2. /\ Observed(pages[Page].terms) \subseteq Pages
      /\ script.filed \subseteq Observed(pages[Page].terms)
      /\ pages[Page].terms = {script.term[1]} => Page \in Observed(pages[Page].terms)
  BY <1>1, PageIsThere, SeenIsFiled DEF Answering
<1>3. /\ seen \in Scripts /\ seen.todo = script.todo /\ seen.term = script.term
      /\ \A x \in {"of", "categories", "wanted", "plugin", "covered", "remembered",
                   "dropped"} : seen[x] = script[x]
      /\ seen.apply = script.apply /\ seen.failed = script.failed
      /\ seen.filed = Observed(pages[Page].terms)
  BY <1>1, <1>2 DEF Scripts
<1>4. CASE pages[Page].terms = {script.term[1]} \/ ~script.apply
  <2>1. script' = Settled(seen, FALSE)
    BY <1>4 DEF ReadPage
  <2>. HIDE DEF seen
  <2>2. /\ script' \in Scripts /\ script'.step = "page"
        /\ script'.todo = seen.todo \ {Min(seen.todo)}
        /\ \A x \in {"of", "categories", "wanted", "plugin", "covered", "remembered", "filed",
                     "dropped"} : script'[x] = seen[x]
        /\ script'.apply => seen.apply
        /\ ~script'.failed => ~seen.failed
    BY <1>3, <2>1, SettledWell
  <2>3. \A p : p = Page /\ script'.apply => IsSettled(p)'
    <3>1. script'.apply => Page \in script'.filed
      BY <1>2, <1>3, <1>4, <2>2
    <3>. QED
      BY <3>1 DEF IsSettled
  <2>. QED
    BY <1>1, <1>2, <1>3, <2>2, <2>3, PageStep DEF Looping
<1>5. CASE ~(pages[Page].terms = {script.term[1]} \/ ~script.apply)
  <2>1. script' = [seen EXCEPT !.step = "guard"]
    BY <1>5 DEF ReadPage
  <2>. HIDE DEF seen
  <2>2. /\ script' \in Scripts /\ script'.step = "guard" /\ script'.todo = seen.todo
        /\ \A x \in {"of", "categories", "wanted", "plugin", "covered", "remembered", "filed",
                     "dropped"} : script'[x] = seen[x]
        /\ script'.term = seen.term
    BY <1>3, <2>1 DEF Scripts, Steps
  <2>3. script'.apply = seen.apply /\ script'.failed = seen.failed
    BY <1>3, <2>1 DEF Scripts
  <2>. QED
    BY <1>1, <1>2, <1>3, <2>2, <2>3, PageStep DEF Looping
<1>. QED
  BY <1>4, <1>5


(* A page of our own may be written                                        *)
LEMMA GuardPageStep == FilingInv /\ GuardPage => FilingInv'
<1>. SUFFICES ASSUME FilingInv, GuardPage PROVE FilingInv'
  OBVIOUS
<1>1. /\ script \in Scripts /\ script.step = "guard" /\ script.todo # {}
      /\ UNCHANGED <<intakeVars, categories, terms, ledger>>
      /\ script.term # <<>> /\ Answering(script.term, CategoryOf(Page), Page.language)
      /\ \A key \in DOMAIN script.remembered :
            Answering(script.remembered[key], key[1], key[2])
  BY DEF FilingInv, TypeOK, GuardPage, siteVars, TermsAreAsked, Looping
<1>2. script' = [script EXCEPT !.step = "write"]
  BY DEF GuardPage
<1>3. /\ script' \in Scripts /\ script'.step = "write" /\ script'.todo = script.todo
      /\ \A x \in {"of", "categories", "wanted", "plugin", "covered", "remembered", "filed",
                   "dropped"} : script'[x] = script[x]
      /\ script'.term = script.term
  BY <1>1, <1>2 DEF Scripts, Steps
<1>4. script'.apply = script.apply /\ script'.failed = script.failed
  BY <1>1, <1>2 DEF Scripts
<1>. QED
  BY <1>1, <1>3, <1>4, PageStep DEF Looping

(* A page that was written is in its category, or its term was deleted     *)
LEMMA WriteTermsStep == FilingInv /\ WriteTerms => FilingInv'
<1>. SUFFICES ASSUME FilingInv, WriteTerms PROVE FilingInv'
  OBVIOUS
<1>. DEFINE assigned == {script.term[1]} \cap terms
            seen == [script EXCEPT !.filed = Observed(assigned)]
<1>1. /\ script \in Scripts /\ script.step = "write" /\ script.todo # {}
      /\ UNCHANGED <<intakeVars, categories, terms, ledger>>
      /\ script.term # <<>> /\ Answering(script.term, CategoryOf(Page), Page.language)
      /\ \A key \in DOMAIN script.remembered :
            Answering(script.remembered[key], key[1], key[2])
  BY DEF FilingInv, TypeOK, WriteTerms, siteVars, TermsAreAsked, Looping
<1>2. /\ Observed(assigned) \subseteq Pages
      /\ script.filed \subseteq Observed(assigned)
      /\ assigned = {script.term[1]} => Page \in Observed(assigned)
  BY <1>1, PageIsThere, SeenIsFiled DEF Answering
<1>3. Page \in Observed(assigned) \/ script.term[1] \in script.dropped
  BY <1>1, <1>2 DEF Answering
<1>4. /\ seen \in Scripts /\ seen.todo = script.todo
      /\ \A x \in {"of", "categories", "wanted", "plugin", "covered", "remembered",
                   "dropped"} : seen[x] = script[x]
      /\ seen.apply = script.apply /\ seen.failed = script.failed
      /\ seen.filed = Observed(assigned)
  <2>. HIDE DEF assigned
  <2>. QED
    BY <1>1, <1>2 DEF Scripts
<1>5. script' = Settled(seen, FALSE)
  BY DEF WriteTerms
<1>. HIDE DEF seen, assigned
<1>6. /\ script' \in Scripts /\ script'.step = "page"
      /\ script'.todo = seen.todo \ {Min(seen.todo)}
      /\ \A x \in {"of", "categories", "wanted", "plugin", "covered", "remembered", "filed",
                   "dropped"} : script'[x] = seen[x]
      /\ script'.apply => seen.apply
      /\ ~script'.failed => ~seen.failed
  BY <1>4, <1>5, SettledWell
<1>7. ASSUME NEW p, p = Page PROVE IsSettled(p)'
  <2>1. CASE Page \in Observed(assigned)
    BY <1>4, <1>6, <1>7, <2>1 DEF IsSettled
  <2>2. CASE script.term[1] \in script.dropped
    <3>1. /\ script'.dropped = script.dropped
          /\ script'.wanted = script.wanted
      BY <1>4, <1>6
    <3>2. /\ script.term[1].category = CategoryOf(p)
          /\ script.term[1].language = p.language
      BY <1>1, <1>7 DEF Answering
    <3>3. CategoryOf(p)' = CategoryOf(p)
      BY <3>1 DEF CategoryOf
    <3>. QED
      BY <2>2, <3>1, <3>2, <3>3 DEF IsSettled
  <2>. QED
    BY <1>3, <2>1, <2>2
<1>. QED
  BY <1>1, <1>2, <1>4, <1>6, <1>7, PageStep DEF Looping

(* A term looked up is of what was asked for                               *)
LEMMA LookupStep == Scoped /\ FilingInv /\ Lookup => FilingInv'
<1>. SUFFICES ASSUME Scoped, FilingInv, Lookup PROVE FilingInv'
  OBVIOUS
<1>. DEFINE found == IF Key \in DOMAIN script.remembered THEN script.remembered[Key]
                     ELSE FindTerm(script.plugin, Key[1], Key[2])
            known == [script EXCEPT !.remembered = Remembering(found)]
<1>1. /\ script \in Scripts /\ script.step = "page" /\ script.todo # {}
      /\ UNCHANGED <<intakeVars, categories, terms, ledger>> /\ terms \subseteq SiteTerms
      /\ \A key \in DOMAIN script.remembered :
            Answering(script.remembered[key], key[1], key[2])
      /\ script.plugin \in {ResolvePlugin(d) : d \in Detected}
  BY DEF FilingInv, TypeOK, Lookup, AtPage, siteVars, TermsAreAsked, Looping
<1>2. Page \in Pages /\ Key \in CategoryNames \X PageLanguages
      /\ Key[1] = CategoryOf(Page) /\ Key[2] = Page.language
  BY <1>1, PageIsThere, CategoriesAreNamed DEF Key, PageLanguages
<1>3. script.remembered \in Remembered
  BY <1>1 DEF Scripts
<1>4. found \in Answers /\ Answering(found, Key[1], Key[2])
  <2>1. CASE Key \in DOMAIN script.remembered
    BY <1>1, <1>3, <2>1 DEF Remembered
  <2>2. CASE Key \notin DOMAIN script.remembered
    <3>1. PICK d \in Detected : script.plugin = ResolvePlugin(d)
      BY <1>1
    <3>. QED
      BY <1>1, <1>2, <2>2, <3>1, FoundIsAsked DEF Answering
  <2>. QED
    BY <2>1, <2>2
<1>. HIDE DEF found
<1>. DEFINE memory == Remembering(found)
<1>5. memory \in Remembered
  <2>1. PICK K \in SUBSET (CategoryNames \X PageLanguages) : script.remembered \in [K -> Answers]
    BY <1>3 DEF Remembered
  <2>2. memory \in [K \cup {Key} -> Answers]
    BY <1>4, <2>1 DEF Remembering
  <2>3. K \cup {Key} \in SUBSET (CategoryNames \X PageLanguages)
    BY <1>2
  <2>. HIDE DEF memory
  <2>. QED
    BY <2>2, <2>3 DEF Remembered
<1>6. \A key \in DOMAIN memory : Answering(memory[key], key[1], key[2])
  <2>1. ASSUME NEW key \in DOMAIN memory PROVE Answering(memory[key], key[1], key[2])
    <3>1. key = Key \/ key \in DOMAIN script.remembered
      BY DEF Remembering
    <3>2. memory[key] = IF key = Key THEN found ELSE script.remembered[key]
      BY <3>1 DEF Remembering
    <3>. QED
      BY <1>1, <1>4, <3>1, <3>2
  <2>. QED
    BY <2>1
<1>. HIDE DEF memory
<1>7. /\ known \in Scripts /\ known.todo = script.todo /\ known.remembered = memory
      /\ \A x \in {"of", "categories", "wanted", "plugin", "covered", "filed",
                   "dropped"} : known[x] = script[x]
      /\ known.apply = script.apply /\ known.failed = script.failed
  <2>1. known = [script EXCEPT !.remembered = memory]
    BY DEF memory
  <2>. HIDE DEF known
  <2>. QED
    BY <1>1, <1>5, <2>1 DEF Scripts
<1>8. script' = IF found = <<>> THEN Settled(known, TRUE)
                ELSE [known EXCEPT !.step = "read", !.term = found]
  BY DEF Lookup, found
<1>. HIDE DEF known
<1>9. CASE found = <<>>
  <2>1. script' = Settled(known, TRUE)
    BY <1>8, <1>9
  <2>2. /\ script' \in Scripts /\ script'.step = "page"
        /\ script'.todo = known.todo \ {Min(known.todo)}
        /\ \A x \in {"of", "categories", "wanted", "plugin", "covered", "remembered", "filed",
                     "dropped"} : script'[x] = known[x]
        /\ script'.apply => known.apply
        /\ script'.failed
    BY <1>7, <2>1, SettledWithError
  <2>. QED
    BY <1>1, <1>6, <1>7, <2>2, PageStep DEF Looping
<1>10. CASE found # <<>>
  <2>1. script' = [known EXCEPT !.step = "read", !.term = found]
    BY <1>8, <1>10
  <2>2. /\ script' \in Scripts /\ script'.step = "read" /\ script'.todo = known.todo
        /\ \A x \in {"of", "categories", "wanted", "plugin", "covered", "remembered", "filed",
                     "dropped"} : script'[x] = known[x]
        /\ script'.term = found
    BY <1>4, <1>7, <2>1 DEF Scripts, Steps
  <2>3. script'.apply = known.apply /\ script'.failed = known.failed
    BY <1>7, <2>1 DEF Scripts
  <2>. QED
    BY <1>1, <1>2, <1>4, <1>6, <1>7, <1>10, <2>2, <2>3, PageStep DEF Looping
<1>. QED
  BY <1>9, <1>10


(* A step after which no page is at hand                                   *)
LEMMA NothingAtHand ==
    ASSUME FilingInv, UNCHANGED <<intakeVars, categories, terms, ledger>>,
           script' \in Scripts, script'.step \notin Looping \cup {"done"},
           script'.step = "list" => script'.remembered = <<>>
    PROVE  FilingInv'
  BY DEF FilingInv, TypeOK, IntakeTypeOK, intakeVars, PlanIsRead, TermsAreAsked,
     CoveredIsSettled, Looping

(* A script starts with nothing covered and ends with nothing left         *)
LEMMA StartAndEndSteps == FilingInv /\ (Refuse \/ Start \/ KillScript) => FilingInv'
<1>. SUFFICES ASSUME FilingInv, Refuse \/ Start \/ KillScript PROVE FilingInv'
  OBVIOUS
<1>1. NotStarted \in Scripts
  <2>1. <<>> \in Remembered
    <3>1. <<>> \in [{} -> Answers]
      OBVIOUS
    <3>. QED
      BY <3>1 DEF Remembered
  <2>2. <<>> \in Plans /\ <<>> \in Answers /\ NoFile \in Files /\ "idle" \in Steps
    BY DEF Plans, Answers, Files, Steps
  <2>. QED
    BY <2>1, <2>2 DEF NotStarted, Scripts
<1>2. UNCHANGED <<intakeVars, categories, terms, ledger>>
  BY DEF Refuse, Start, KillScript, siteVars
<1>3. CASE Refuse
  <2>1. script' = [NotStarted EXCEPT !.step = "refused"]
    BY <1>3 DEF Refuse
  <2>2. script' \in Scripts /\ script'.step = "refused"
    BY <1>1, <2>1 DEF Scripts, Steps
  <2>. QED
    BY <1>2, <2>2, NothingAtHand DEF Looping
<1>4. CASE Start
  <2>1. PICK apply \in BOOLEAN : script' = [NotStarted EXCEPT !.step = "list", !.apply = apply]
    BY <1>4 DEF Start
  <2>2. script' \in Scripts /\ script'.step = "list"
    BY <1>1, <2>1 DEF Scripts, Steps
  <2>3. script'.remembered = <<>>
    BY <2>1 DEF NotStarted
  <2>. QED
    BY <1>2, <2>2, <2>3, NothingAtHand DEF Looping
<1>5. CASE KillScript
  <2>1. script' = NotStarted
    BY <1>5 DEF KillScript
  <2>2. script' \in Scripts /\ script'.step = "idle"
    BY <1>1, <2>1 DEF NotStarted
  <2>. QED
    BY <1>2, <2>2, NothingAtHand DEF Looping
<1>. QED
  BY <1>3, <1>4, <1>5

(* A script that has no page left is done                                  *)
LEMMA FinishStep == FilingInv /\ Finish => FilingInv'
<1>. SUFFICES ASSUME FilingInv, Finish PROVE FilingInv'
  OBVIOUS
<1>1. /\ script \in Scripts /\ script.step = "page" /\ script.todo = {}
      /\ UNCHANGED <<intakeVars, categories, terms, ledger>>
      /\ script' = [script EXCEPT !.step = "done", !.plugin = "none", !.remembered = <<>>]
  BY DEF FilingInv, TypeOK, Finish, siteVars
<1>2. <<>> \in Remembered
  <2>1. <<>> \in [{} -> Answers]
    OBVIOUS
  <2>. QED
    BY <2>1 DEF Remembered
<1>3. /\ script' \in Scripts /\ script'.step = "done"
      /\ \A x \in {"of", "categories", "wanted", "covered", "filed", "dropped", "todo"} :
            script'[x] = script[x]
  BY <1>1, <1>2 DEF Scripts, Steps
<1>4. script'.apply = script.apply /\ script'.failed = script.failed
  BY <1>1 DEF Scripts
<1>5. TypeOK'
  BY <1>1, <1>3 DEF FilingInv, TypeOK, IntakeTypeOK, intakeVars
<1>6. PlanIsRead'
  <2>1. Records(script.of)' = Records(script.of)
    BY <1>3 DEF Records
  <2>. QED
    BY <1>1, <1>3, <2>1 DEF FilingInv, PlanIsRead, Looping
<1>7. TermsAreAsked'
  BY <1>3 DEF TermsAreAsked, Looping
<1>8. CoveredIsSettled'
  <2>1. ASSUME NEW p \in script.covered, script'.apply, ~script'.failed
        PROVE  IsSettled(p)'
    <3>1. IsSettled(p)
      BY <1>1, <1>4, <2>1 DEF FilingInv, CoveredIsSettled, Looping
    <3>. QED
      BY <1>3, <3>1, SettledStays
  <2>. QED
    BY <1>1, <1>3, <2>1 DEF CoveredIsSettled
<1>. QED
  BY <1>5, <1>6, <1>7, <1>8 DEF FilingInv

(* The pages listed are all still to come                                  *)
LEMMA ListPagesStep == FilingInv /\ ListPages => FilingInv'
<1>. SUFFICES ASSUME FilingInv, ListPages PROVE FilingInv'
  OBVIOUS
<1>1. PICK detected \in Detected :
         script' = [script EXCEPT !.step = "page", !.of = products,
                                  !.categories = categories,
                                  !.wanted = PlannedCategories,
                                  !.plugin = ResolvePlugin(detected),
                                  !.covered = Pages \cap ledger, !.todo = LivePages]
  BY DEF ListPages
<1>2. /\ script \in Scripts /\ UNCHANGED <<intakeVars, categories, terms, ledger>>
      /\ products \in Files /\ categories \in Mappings
  BY DEF FilingInv, TypeOK, IntakeTypeOK, ListPages, siteVars
<1>3. PlannedCategories \in Plans
  BY <1>2 DEF PlannedCategories, Plans
<1>4. ResolvePlugin(detected) \in {"none", ConfiguredPlugin, SitePlugin}
  BY DEF ResolvePlugin, Detected
<1>5. LivePages \subseteq DOMAIN PageOrder
  BY DEF LivePages
<1>6. /\ script' \in Scripts /\ script'.step = "page"
      /\ script'.of = products /\ script'.categories = categories
      /\ script'.wanted = PlannedCategories /\ script'.plugin = ResolvePlugin(detected)
      /\ script'.covered = Pages \cap ledger /\ script'.todo = LivePages
      /\ script'.remembered = script.remembered
  BY <1>1, <1>2, <1>3, <1>4, <1>5 DEF Scripts, Steps
<1>7. TypeOK'
  BY <1>2, <1>6 DEF FilingInv, TypeOK, IntakeTypeOK, intakeVars
<1>8. PlanIsRead'
  <2>1. Records(script.of)' = Records(products)
    BY <1>6 DEF Records
  <2>. QED
    BY <1>2, <1>6, <2>1 DEF PlanIsRead, PlannedCategories
<1>9. TermsAreAsked'
  <2>1. script.remembered = <<>>
    BY DEF FilingInv, TermsAreAsked, ListPages
  <2>. QED
    BY <1>6, <2>1 DEF TermsAreAsked
<1>10. CoveredIsSettled'
  <2>1. ASSUME NEW p \in Pages \cap ledger PROVE \E i \in LivePages : PageOrder[i] = p
    BY DEF Pages, LivePages, ToSet
  <2>. QED
    BY <1>6, <2>1 DEF CoveredIsSettled
<1>. QED
  BY <1>7, <1>8, <1>9, <1>10 DEF FilingInv


(* A term deleted under a script is noted                                  *)
LEMMA DeleteTermStep == FilingInv /\ DeleteTerm => FilingInv'
<1>. SUFFICES ASSUME FilingInv, DeleteTerm PROVE FilingInv'
  OBVIOUS
<1>1. PICK t \in terms :
         /\ terms' = terms \ {t}
         /\ script' = IF Stopped THEN script
                      ELSE [script EXCEPT !.dropped = @ \cup {t}]
  BY DEF DeleteTerm
<1>2. /\ script \in Scripts /\ UNCHANGED <<intakeVars, categories, ledger>>
      /\ t \in SiteTerms
  BY <1>1 DEF FilingInv, TypeOK, DeleteTerm
<1>3. CASE Stopped
  <2>1. script' = script /\ script.step \notin Looping
    BY <1>1, <1>3 DEF Stopped, Looping
  <2>2. TypeOK'
    BY <1>1, <1>2, <2>1 DEF FilingInv, TypeOK, IntakeTypeOK, intakeVars
  <2>3. PlanIsRead'
    BY <2>1 DEF FilingInv, PlanIsRead
  <2>4. TermsAreAsked'
    BY <2>1 DEF FilingInv, TermsAreAsked
  <2>5. CoveredIsSettled'
    BY <2>1 DEF FilingInv, CoveredIsSettled, IsSettled, CategoryOf
  <2>. QED
    BY <2>2, <2>3, <2>4, <2>5 DEF FilingInv
<1>4. CASE ~Stopped
  <2>1. script' = [script EXCEPT !.dropped = @ \cup {t}]
    BY <1>1, <1>4
  <2>2. /\ script' \in Scripts /\ script'.dropped = script.dropped \cup {t}
        /\ \A x \in {"step", "of", "categories", "wanted", "plugin", "covered", "todo",
                     "remembered", "term", "filed"} : script'[x] = script[x]
    BY <1>2, <2>1 DEF Scripts
  <2>3. script'.apply = script.apply /\ script'.failed = script.failed
    BY <1>2, <2>1 DEF Scripts
  <2>4. TypeOK'
    BY <1>1, <1>2, <2>2 DEF FilingInv, TypeOK, IntakeTypeOK, intakeVars
  <2>5. PlanIsRead'
    <3>1. Records(script.of)' = Records(script.of)
      BY <2>2 DEF Records
    <3>. QED
      BY <2>2, <3>1 DEF FilingInv, PlanIsRead
  <2>6. TermsAreAsked'
    <3>1. ASSUME NEW answer, NEW c, NEW l, Answering(answer, c, l)
          PROVE  Answering(answer, c, l)'
      BY <1>1, <2>2, <3>1, AnswersStay
    <3>2. CategoryOf(Page)' = CategoryOf(Page) /\ Page' = Page
      BY <2>2 DEF CategoryOf, Page
    <3>3. ASSUME script'.step \in Looping
          PROVE  \A key \in DOMAIN script'.remembered :
                    (Answering(script.remembered[key], key[1], key[2]))'
      <4>1. \A key \in DOMAIN script.remembered :
               Answering(script.remembered[key], key[1], key[2])
        BY <2>2, <3>3 DEF FilingInv, TermsAreAsked
      <4>. QED
        BY <2>2, <3>1, <4>1
    <3>4. ASSUME script'.step \in Looping, script'.step # "page"
          PROVE  /\ script'.todo # {} /\ script'.term # <<>>
                 /\ Answering(script.term, CategoryOf(Page), Page.language)'
      <4>1. /\ script.todo # {} /\ script.term # <<>>
            /\ Answering(script.term, CategoryOf(Page), Page.language)
        BY <2>2, <3>4 DEF FilingInv, TermsAreAsked
      <4>. QED
        BY <2>2, <3>1, <3>2, <4>1
    <3>. QED
      BY <2>2, <3>3, <3>4 DEF FilingInv, TermsAreAsked
  <2>7. CoveredIsSettled'
    <3>1. ASSUME NEW p, IsSettled(p) PROVE IsSettled(p)'
      BY <2>2, <3>1, SettledStays
    <3>. QED
      BY <2>2, <2>3, <3>1 DEF FilingInv, CoveredIsSettled
  <2>. QED
    BY <2>4, <2>5, <2>6, <2>7 DEF FilingInv
<1>. QED
  BY <1>3, <1>4

(* The parse, and the edits that delete no term, leave the script alone    *)
LEMMA AroundStep ==
    ASSUME FilingInv,
           \/ IntakeNext /\ UNCHANGED <<siteVars, script>>
           \/ EditMapping \/ CreateTerm \/ EditPage \/ PublishPage
    PROVE  FilingInv'
<1>1. /\ IntakeTypeOK /\ categories \in Mappings /\ terms \subseteq SiteTerms
      /\ ledger \subseteq Pages
  BY DEF FilingInv, TypeOK
<1>2. CASE IntakeNext /\ UNCHANGED <<siteVars, script>>
  <2>1. IntakeTypeOK'
    BY <1>1, <1>2, DeliveriesAssumption
    DEF IntakeTypeOK, IntakeNext, Deliver, OpenProducts, WriteProducts, OpenIssues, WriteIssues,
        KillParse, NoParse, Files
  <2>. QED
    BY <1>1, <1>2, <2>1, ScriptStays DEF siteVars
<1>3. CASE EditMapping \/ CreateTerm \/ EditPage \/ PublishPage
  <2>1. UNCHANGED <<intakeVars, script>>
    BY <1>3 DEF EditMapping, CreateTerm, EditPage, PublishPage
  <2>2. /\ categories' \in Mappings /\ terms' \subseteq SiteTerms /\ terms \subseteq terms'
        /\ ledger' \subseteq Pages
    BY <1>1, <1>3 DEF EditMapping, CreateTerm, EditPage, PublishPage
  <2>3. IntakeTypeOK'
    BY <1>1, <2>1 DEF IntakeTypeOK, intakeVars
  <2>. QED
    BY <2>1, <2>2, <2>3, ScriptStays
<1>. QED
  BY <1>2, <1>3

(* The invariant holds at the start                                        *)
LEMMA InitFiling == Init => FilingInv
<1>. SUFFICES ASSUME Init PROVE FilingInv
  OBVIOUS
<1>1. IntakeTypeOK
  BY DEF Init, IntakeInit, IntakeTypeOK, NoParse, Files
<1>2. categories \in Mappings /\ terms \subseteq SiteTerms /\ ledger \subseteq Pages
  BY TermsAssumption, PagesAssumption DEF Init
<1>3. script = NotStarted
  BY DEF Init
<1>4. NotStarted \in Scripts /\ NotStarted.step = "idle"
  <2>1. <<>> \in Remembered
    <3>1. <<>> \in [{} -> Answers]
      OBVIOUS
    <3>. QED
      BY <3>1 DEF Remembered
  <2>2. <<>> \in Plans /\ <<>> \in Answers /\ NoFile \in Files /\ "idle" \in Steps
    BY DEF Plans, Answers, Files, Steps
  <2>. QED
    BY <2>1, <2>2 DEF NotStarted, Scripts
<1>. QED
  BY <1>1, <1>2, <1>3, <1>4
  DEF FilingInv, TypeOK, PlanIsRead, TermsAreAsked, CoveredIsSettled, Looping


(* What always holds of the filing of pages, where terms are looked up in  *)
(* the language asked for                                                  *)
LEMMA FilingStep == Scoped /\ FilingInv /\ [Next]_vars => FilingInv'
<1>. SUFFICES ASSUME Scoped, FilingInv, [Next]_vars PROVE FilingInv'
  OBVIOUS
<1>1. CASE UNCHANGED vars
  <2>1. UNCHANGED <<intakeVars, categories, terms, ledger, script>>
    BY <1>1 DEF vars, siteVars
  <2>. QED
    BY <2>1, ScriptStays DEF FilingInv, TypeOK, IntakeTypeOK, intakeVars
<1>2. CASE Next
  BY <1>2, AroundStep, DeleteTermStep, StartAndEndSteps, ListPagesStep, SkipPageStep, LookupStep,
     ReadPageStep, GuardPageStep, WriteTermsStep, PageFailsStep, FinishStep DEF Next
<1>. QED
  BY <1>1, <1>2

(* While the script runs its plan and its terms are what it asked for, and *)
(* of the pages it covers those that are not to come are settled           *)
THEOREM FilingHolds ==
    ASSUME Scoped
    PROVE  Spec => []FilingInv
<1>. QED
  BY InitFiling, FilingStep, PTL DEF Spec

-----------------------------------------------------------------------------
(* Each barcode has one record                                             *)
LEMMA RecordsAreOne ==
    ASSUME NEW file \in Files, NEW r \in Records(file), NEW s \in Records(file), r.gtin = s.gtin
    PROVE  r = s
<1>. DEFINE delivery == Deliveries[file]
<1>1. file \in DOMAIN Deliveries /\ Records(file) = ParseOf(delivery).records
  BY DEF Records, Parsed, Files
<1>2. CASE delivery.client.format = "gdsn"
  <2>1. ASSUME NEW g PROVE Resolved(delivery.client, delivery.file, g).gtin = g
    BY DEF Resolved, Record
  <2>2. Records(file) = BuildRecords(delivery.client, delivery.file).records
    BY <1>1, <1>2 DEF ParseOf
  <2>3. Records(file) \subseteq {Resolved(delivery.client, delivery.file, g) :
                                    g \in CarriedGtins(delivery.file)}
    <3>. DEFINE built == {Resolved(delivery.client, delivery.file, g) :
                             g \in CarriedGtins(delivery.file)}
    <3>1. \A w : Failed(1, w).records = {}
      BY DEF Failed
    <3>2. Built(delivery.client, delivery.file, built).records \in {{}, built}
      BY <3>1 DEF Built
    <3>. QED
      BY <2>2, <3>1, <3>2 DEF BuildRecords
  <2>. QED
    BY <2>1, <2>3
<1>3. CASE delivery.client.format # "gdsn"
  <2>. DEFINE sheet == delivery.file
              rows == {i \in DOMAIN sheet.rows :
                          \E c \in DOMAIN sheet.rows[i] : sheet.rows[i][c] # NoText}
              parsed == [i \in rows |-> ParseExcelRow(delivery.client, sheet.rows[i])]
  <2>1. Records(file) = RunFlat(delivery.client, sheet).records
    BY <1>1, <1>3 DEF ParseOf
  <2>2. \A w : Failed(1, w).records = {} /\ Failed(2, w).records = {}
    BY DEF Failed
  <2>3. RunFlat(delivery.client, sheet).records \in {{}, ReadFlatRows(parsed).records}
    BY <2>2 DEF RunFlat
  <2>4. ReadFlatRows(parsed).records \in {{}, FlatRecords(parsed)}
    BY <2>2 DEF ReadFlatRows
  <2>5. r \in FlatRecords(parsed) /\ s \in FlatRecords(parsed)
    BY <2>1, <2>3, <2>4
  <2>6. DOMAIN parsed \subseteq Nat
    BY <1>1, <1>3, DeliveriesAssumption
  <2>. HIDE DEF parsed
  <2>7. PICK i \in DOMAIN parsed :
           r = parsed[i] /\ \A j \in DOMAIN parsed : j < i => parsed[j].gtin # parsed[i].gtin
    BY <2>5 DEF FlatRecords
  <2>8. PICK k \in DOMAIN parsed :
           s = parsed[k] /\ \A j \in DOMAIN parsed : j < k => parsed[j].gtin # parsed[k].gtin
    BY <2>5 DEF FlatRecords
  <2>9. ~(i < k) /\ ~(k < i)
    BY <2>7, <2>8
  <2>10. i = k
    BY <2>6, <2>9
  <2>. QED
    BY <2>7, <2>8, <2>10
<1>. QED
  BY <1>2, <1>3

(* A product that is left without a category is named by the coverage      *)
(* check, or has no brick                                                  *)
LEMMA SkippedIsNamed ==
    ASSUME script.of \in Files, script.categories \in Mappings,
           script.wanted = AssignCategories(Records(script.of), script.categories),
           NEW p, CategoryOf(p) = NoCategory
    PROVE  IsNamedUnmapped(p)
<1>. DEFINE records == Records(script.of)  categories0 == script.categories
<1>1. ASSUME NEW r \in records, r.gtin = p.gtin, Brick(r) # NoBrick
      PROVE  Brick(r) \in UnmappedBricks(records, categories0)
  <2>1. (CHOOSE s \in records : s.gtin = p.gtin) = r
    BY <1>1, RecordsAreOne
  <2>2. p.gtin \in DOMAIN script.wanted /\ script.wanted[p.gtin] = ResolveCategory(r, categories0)
    <3>. DEFINE assigned ==
                    [g \in {s.gtin : s \in records} |->
                        ResolveCategory(CHOOSE s \in records : s.gtin = g, categories0)]
    <3>1. script.wanted = assigned
      BY DEF AssignCategories
    <3>2. p.gtin \in {s.gtin : s \in records}
      BY <1>1
    <3>3. assigned[p.gtin] =
             ResolveCategory(CHOOSE s \in records : s.gtin = p.gtin, categories0)
      BY <3>2
    <3>. QED
      BY <2>1, <3>1, <3>2, <3>3
  <2>3. ResolveCategory(r, categories0) = NoCategory
    BY <2>2 DEF CategoryOf
  <2>4. Brick(r) \notin DOMAIN categories0.bricks
    <3>1. WellFormedCategories(categories0)
      BY MappingsAssumption
    <3>2. /\ NoCategory \notin categories0.terms
          /\ \A b \in DOMAIN categories0.bricks : categories0.bricks[b] \in categories0.terms
          /\ \A g \in DOMAIN categories0.overrides : categories0.overrides[g] \in categories0.terms
      BY <3>1 DEF WellFormedCategories, Range
    <3>. QED
      BY <2>3, <3>2 DEF ResolveCategory
  <2>5. Brick(r) \in DistinctBricks(records)
    BY <1>1 DEF DistinctBricks
  <2>. QED
    BY <1>1, <2>3, <2>4, <2>5 DEF UnmappedBricks
<1>. QED
  BY <1>1 DEF IsNamedUnmapped, NamedUnmapped

(* A run of set_categories with --apply that counts no error had every     *)
(* page it covered in exactly the term of its language, unless that term   *)
(* was deleted under it; what it skipped the coverage check names          *)
(* (scripts/set_categories.py, lib/wp_client.py)                           *)
THEOREM NoErrorMeansFiled ==
    ASSUME Scoped
    PROVE  Spec => []DoneMeansFiled
<1>1. ASSUME FilingInv PROVE DoneMeansFiled
  <2>1. ASSUME script.step = "done", script.apply, ~script.failed, NEW p \in script.covered
        PROVE  IF CategoryOf(p) = NoCategory THEN IsNamedUnmapped(p)
               ELSE \/ p \in script.filed
                    \/ \E t \in script.dropped : /\ t.category = CategoryOf(p)
                                                 /\ t.language = p.language
    <3>1. IsSettled(p)
      BY <1>1, <2>1 DEF FilingInv, CoveredIsSettled, Looping
    <3>2. CASE CategoryOf(p) = NoCategory
      <4>1. /\ script.categories \in Mappings
            /\ script.wanted = AssignCategories(Records(script.of), script.categories)
            /\ script.of \in Files
        BY <1>1, <2>1 DEF FilingInv, PlanIsRead, TypeOK, Scripts
      <4>. QED
        BY <3>2, <4>1, SkippedIsNamed
    <3>. QED
      BY <3>1, <3>2 DEF IsSettled
  <2>. QED
    BY <2>1 DEF DoneMeansFiled
<1>. QED
  BY <1>1, FilingHolds, PTL


-----------------------------------------------------------------------------
(* What the markets say, and what of it a parse keeps                      *)

(* The first of some markets, in the order they are consulted, is of them  *)
LEMMA FirstIsThere ==
    ASSUME NEW markets, markets \subseteq ToSet(MarketPriority), markets # {}
    PROVE  First(markets) \in markets
<1>. DEFINE places == {i \in DOMAIN MarketPriority : MarketPriority[i] \in markets}
<1>1. places # {}
  BY DEF ToSet
<1>2. places \subseteq Nat
  BY MarketsAssumption
<1>3. Min(places) \in places
  BY <1>1, <1>2, MinIsThere
<1>. QED
  BY <1>3 DEF First

(* What is kept is what one of the markets says, if any says anything      *)
LEMMA RankedIsOfAMarket ==
    ASSUME NEW book, NEW source, NEW g, NEW l
    PROVE  /\ PerMarket(book, source, g, l) = {} => PickRanked(book, source, g, l) = <<>>
           /\ PerMarket(book, source, g, l) # {} =>
                 /\ PickRanked(book, source, g, l) # <<>>
                 /\ \E m \in PerMarket(book, source, g, l) :
                       PickRanked(book, source, g, l) = Pick(book, source, g, m, l)
<1>1. PerMarket(book, source, g, l) \subseteq ToSet(MarketPriority)
  BY DEF PerMarket
<1>2. CASE PerMarket(book, source, g, l) # {}
  <2>1. First(PerMarket(book, source, g, l)) \in PerMarket(book, source, g, l)
    BY <1>1, <1>2, FirstIsThere
  <2>. QED
    BY <1>2, <2>1 DEF PickRanked, PerMarket
<1>. QED
  BY <1>2 DEF PickRanked

(* A value is a function: of the places of its texts                       *)
IsText(value) == value = [i \in DOMAIN value |-> value[i]]

(* What is picked from a row is a sequence of texts                        *)
LEMMA PicksAreTexts ==
    ASSUME NEW book, NEW source, NEW g, NEW m, NEW l
    PROVE  IsText(Pick(book, source, g, m, l))
<1>1. ASSUME NEW slots PROVE IsText(TextsOf(slots))
  BY DEF TextsOf, IsText
<1>. QED
  BY <1>1 DEF Pick

(* A prefix that is taken off leaves something                             *)
LEMMA StrippedIsThere ==
    ASSUME NEW source, NEW value, IsText(value), value # <<>>
    PROVE  StripPrefix(source, value) # <<>>
<1>1. DOMAIN value # {}
  <2>1. SUFFICES ASSUME DOMAIN value = {} PROVE FALSE
    OBVIOUS
  <2>2. value = [i \in {} |-> value[i]]
    BY <2>1, Zenon DEF IsText
  <2>3. <<>> = [i \in {} |-> value[i]]
    BY SMT
  <2>. QED
    BY <2>2, <2>3
<1>2. DOMAIN StripPrefix(source, value) = DOMAIN value
  BY DEF StripPrefix, IsText
<1>3. DOMAIN <<>> = {}
  OBVIOUS
<1>. QED
  BY <1>1, <1>2, <1>3

(* To take the prefix off and then the letter case is to take the prefix   *)
(* off what is left of the case                                            *)
WithoutBrand(source, folded) ==
    IF /\ source.strip /\ ~source.file /\ 1 \in DOMAIN folded
       /\ "brand" \in DOMAIN folded[1] /\ folded[1].brand = "exact"
    THEN [folded EXCEPT ![1] = [folded[1] EXCEPT !.brand = "none"]] ELSE folded

(* Prefix first or letter case first is the same                           *)
LEMMA StrippedThenFolded ==
    ASSUME NEW source, NEW value, IsText(value), value # <<>>
    PROVE  Folded(StripPrefix(source, value)) = WithoutBrand(source, Folded(value))
<1>. DEFINE text == value[1]
            plain == [text EXCEPT !.upper = FALSE]
            bare == [text EXCEPT !.brand = "none"]
<1>1. /\ DOMAIN Folded(value) = DOMAIN value
      /\ \A i \in DOMAIN value : Folded(value)[i] = [value[i] EXCEPT !.upper = FALSE]
  BY DEF Folded
<1>2. DOMAIN plain = DOMAIN text /\ DOMAIN bare = DOMAIN text
  OBVIOUS
<1>3. "brand" \in DOMAIN text => plain.brand = text.brand
  OBVIOUS
<1>4. [bare EXCEPT !.upper = FALSE] = [plain EXCEPT !.brand = "none"]
  OBVIOUS
<1>5. "brand" \notin DOMAIN text => [plain EXCEPT !.brand = "none"] = plain
  OBVIOUS
<1>. DEFINE off == [value EXCEPT ![1] = bare]
<1>6. DOMAIN off = DOMAIN value
  OBVIOUS
<1>7. Folded(off) = [i \in DOMAIN value |->
                        IF i = 1 THEN [bare EXCEPT !.upper = FALSE]
                        ELSE [value[i] EXCEPT !.upper = FALSE]]
  BY <1>6 DEF Folded
<1>8. Folded(off) = [Folded(value) EXCEPT ![1] = [plain EXCEPT !.brand = "none"]]
  BY <1>1, <1>4, <1>7 DEF Folded
<1>9. [value EXCEPT ![1].brand = "none"] = off
  OBVIOUS
<1>10. CASE source.strip /\ ~source.file /\ text.brand = "exact"
  <2>1. StripPrefix(source, value) = off
    BY <1>9, <1>10 DEF StripPrefix
  <2>2. CASE 1 \in DOMAIN value /\ "brand" \in DOMAIN text
    <3>1. Folded(value)[1] = plain
      BY <1>1, <2>2
    <3>. QED
      BY <1>1, <1>2, <1>3, <1>8, <1>10, <2>1, <2>2, <3>1 DEF WithoutBrand
  <2>3. CASE 1 \in DOMAIN value /\ "brand" \notin DOMAIN text
    <3>1. Folded(value)[1] = plain
      BY <1>1, <2>3
    <3>2. Folded(off) = Folded(value)
      BY <1>1, <1>5, <1>8, <2>3, <3>1 DEF Folded
    <3>. QED
      BY <1>2, <2>1, <2>3, <3>1, <3>2 DEF WithoutBrand
  <2>4. CASE 1 \notin DOMAIN value
    <3>1. Folded(off) = Folded(value)
      BY <1>7, <2>4 DEF Folded
    <3>. QED
      BY <1>1, <2>1, <2>4, <3>1 DEF WithoutBrand
  <2>. QED
    BY <2>2, <2>3, <2>4
<1>11. CASE ~(source.strip /\ ~source.file /\ text.brand = "exact")
  <2>1. StripPrefix(source, value) = value
    BY <1>11 DEF StripPrefix
  <2>2. CASE 1 \in DOMAIN value /\ "brand" \in DOMAIN text
    <3>1. Folded(value)[1] = plain
      BY <1>1, <2>2
    <3>. QED
      BY <1>3, <1>11, <2>1, <2>2, <3>1 DEF WithoutBrand
  <2>3. CASE ~(1 \in DOMAIN value /\ "brand" \in DOMAIN text)
    BY <1>1, <1>2, <2>1, <2>3 DEF WithoutBrand
  <2>. QED
    BY <2>2, <2>3
<1>. QED
  BY <1>10, <1>11

(* Texts that agree, letter case aside, agree when the prefix is off       *)
LEMMA StrippedAgree ==
    ASSUME NEW source, NEW a, NEW b, IsText(a), IsText(b), a # <<>>, b # <<>>,
           Folded(a) = Folded(b)
    PROVE  Folded(StripPrefix(source, a)) = Folded(StripPrefix(source, b))
BY StrippedThenFolded

(* Where no conflict is found every market that has a value says the same, *)
(* letter case aside                                                       *)
LEMMA Consistent ==
    ASSUME NEW book, NEW source, NEW g, NEW l, ~Inconsistent(book, source, g, l),
           NEW m \in PerMarket(book, source, g, l), NEW n \in PerMarket(book, source, g, l)
    PROVE  Folded(Pick(book, source, g, m, l)) = Folded(Pick(book, source, g, n, l))
<1>. DEFINE said == {Folded(Pick(book, source, g, k, l)) : k \in PerMarket(book, source, g, l)}
            x == Folded(Pick(book, source, g, m, l))
            y == Folded(Pick(book, source, g, n, l))
<1>1. IsFiniteSet(said)
  <2>. DEFINE from == [k \in DOMAIN MarketPriority |->
                        Folded(Pick(book, source, g, MarketPriority[k], l))]
              all == {from[k] : k \in DOMAIN MarketPriority}
  <2>1. PICK N \in Nat : DOMAIN MarketPriority = 1..N
    BY MarketsAssumption
  <2>2. IsFiniteSet(DOMAIN MarketPriority)
    BY <2>1, FS_Interval
  <2>3. from \in Surjection(DOMAIN MarketPriority, all)
    BY DEF Surjection
  <2>4. IsFiniteSet(all)
    BY <2>2, <2>3, FS_Surjection
  <2>5. said \subseteq all
    BY DEF PerMarket, ToSet
  <2>. QED
    BY <2>4, <2>5, FS_Subset
<1>2. Cardinality(said) \in Nat
  BY <1>1, FS_CardinalityType
<1>3. ~(Cardinality(said) > 1)
  BY DEF Inconsistent
<1>4. SUFFICES ASSUME x # y PROVE FALSE
  OBVIOUS
<1>5. IsFiniteSet({x}) /\ Cardinality({x}) = 1
  BY FS_Singleton
<1>6. IsFiniteSet({x} \cup {y}) /\ Cardinality({x} \cup {y}) = 2
  BY <1>4, <1>5, FS_AddElement
<1>7. {x} \cup {y} \subseteq said
  OBVIOUS
<1>8. Cardinality({x} \cup {y}) <= Cardinality(said)
  BY <1>1, <1>7, FS_Subset
<1>. QED
  BY <1>2, <1>3, <1>6, <1>8


(* A reported field that no market has a value for is a reported blank,    *)
(* and one that markets have different values for a reported conflict      *)
LEMMA KindsAreFound ==
    ASSUME NEW book, NEW source, NEW g, NEW l, NEW value, source.report
    PROVE  /\ value = <<>> => "value_blank" \in KindsFound(book, source, g, l, value)
           /\ ~source.file /\ Inconsistent(book, source, g, l) =>
                 "value_inconsistent_across_markets" \in KindsFound(book, source, g, l, value)
<1>. DEFINE found == [value_blank |-> Blank(source, value),
                      value_inconsistent_across_markets |->
                          /\ source.report /\ ~source.file
                          /\ Inconsistent(book, source, g, l),
                      brand_prefix_mismatch |-> ~source.file /\ PrefixMismatch(source, value),
                      value_too_long |-> ~source.file /\ TooLong(source, value)]
<1>1. KindsFound(book, source, g, l, value) = {kind \in DOMAIN found : found[kind]}
  BY Zenon DEF KindsFound
<1>2. /\ "value_blank" \in DOMAIN found
      /\ "value_inconsistent_across_markets" \in DOMAIN found
  OBVIOUS
<1>3. ASSUME value = <<>> PROVE found["value_blank"]
  <2>1. Blank(source, value)
    BY <1>3, Zenon DEF Blank
  <2>2. found["value_blank"] = Blank(source, value)
    BY Zenon
  <2>. QED
    BY <2>1, <2>2, Zenon
<1>4. ASSUME ~source.file, Inconsistent(book, source, g, l)
      PROVE  found["value_inconsistent_across_markets"]
  <2>1. found["value_inconsistent_across_markets"] =
           (/\ source.report /\ ~source.file /\ Inconsistent(book, source, g, l))
    BY Zenon
  <2>. QED
    BY <1>4, <2>1, Zenon
<1>. HIDE DEF found
<1>. QED
  BY <1>1, <1>2, <1>3, <1>4, Zenon

(* What a parse reports of a record is what it finds of its fields         *)
LEMMA KindsAreReported ==
    ASSUME NEW client, NEW book, NEW record, NEW f \in DOMAIN client.map,
           client.map[f].sheet \in DOMAIN book, NEW l \in SourceLanguages(client.map[f]),
           NEW kind \in KindsFound(book, client.map[f], record.gtin, l,
                                   PickRanked(book, client.map[f], record.gtin, l))
    PROVE  Issue(record.gtin, f, l, kind) \in RecordIssues(client, book, record)
<1>1. Issue(record.gtin, f, l, kind) \in ResolveField(book, f, client.map[f], record.gtin)
  BY DEF ResolveField
<1>. QED
  BY <1>1 DEF RecordIssues

(* The value of a mapped field is what the markets say of it, the prefix   *)
(* off, and is there when they say anything                                *)
ValueIsRanked(client, book, g, f, l) ==
    LET record == Resolved(client, book, g)
        ranked == PickRanked(book, client.map[f], g, l)
    IN  /\ record.gtin = g
        /\ <<f, l>> \in DOMAIN record.values <=> ranked # <<>>
        /\ ranked # <<>> => record.values[<<f, l>>] = StripPrefix(client.map[f], ranked)

(* So is every value of a record                                           *)
LEMMA ValuesAreRanked ==
    ASSUME NEW client, NEW book, NEW g, NEW f \in DOMAIN client.map,
           client.map[f].sheet \in DOMAIN book, NEW l \in SourceLanguages(client.map[f])
    PROVE  ValueIsRanked(client, book, g, f, l)
<1>. DEFINE sources == AllSources(client)
            found == {h \in DOMAIN sources : sources[h].sheet \in DOMAIN book}
            slots == UNION {{<<h, k>> : k \in SourceLanguages(sources[h])} : h \in found}
            picked == [at \in slots |-> PickRanked(book, sources[at[1]], g, at[2])]
            record == Resolved(client, book, g)
<1>1. f \in DOMAIN sources /\ sources[f] = client.map[f]
  BY DEF AllSources
<1>2. <<f, l>> \in slots
  BY <1>1
<1>3. DOMAIN picked = slots
  OBVIOUS
<1>4. picked[<<f, l>>] = PickRanked(book, client.map[f], g, l)
  BY <1>1, <1>2
<1>5. record = Record(client, g, picked)
  BY Zenon DEF Resolved
<1>. HIDE DEF picked
<1>6. record.gtin = g
  BY <1>5 DEF Record
<1>7. record.values = [at \in {a \in DOMAIN picked : picked[a] # <<>>} |->
                          IF at[1] \in DOMAIN client.map
                          THEN StripPrefix(client.map[at[1]], picked[at]) ELSE picked[at]]
  BY <1>5 DEF Record
<1>8. <<f, l>> \in DOMAIN record.values <=> picked[<<f, l>>] # <<>>
  BY <1>2, <1>3, <1>7
<1>9. picked[<<f, l>>] # <<>> =>
         record.values[<<f, l>>] = StripPrefix(client.map[f], picked[<<f, l>>])
  BY <1>2, <1>3, <1>7
<1>. QED
  BY <1>4, <1>6, <1>8, <1>9 DEF ValueIsRanked

(* What the markets say of a field is a text, when it is anything          *)
LEMMA RankedIsText ==
    ASSUME NEW book, NEW source, NEW g, NEW l
    PROVE  IsText(PickRanked(book, source, g, l))
<1>1. CASE PerMarket(book, source, g, l) = {}
  <2>1. PickRanked(book, source, g, l) = <<>>
    BY <1>1, RankedIsOfAMarket
  <2>2. IsText(<<>>)
    BY DEF IsText
  <2>. QED
    BY <2>1, <2>2
<1>2. CASE PerMarket(book, source, g, l) # {}
  BY <1>2, RankedIsOfAMarket, PicksAreTexts
<1>. QED
  BY <1>1, <1>2

(* A reported field of a record hides nothing in any of its languages      *)
LEMMA FieldHidesNothing ==
    ASSUME NEW of \in DOMAIN Deliveries, NEW g, NEW f \in DOMAIN ClientOf[of].map,
           ClientOf[of].map[f].sheet \in DOMAIN FileOf[of],
           ClientOf[of].map[f].report, ~ClientOf[of].map[f].file,
           NEW l \in SourceLanguages(ClientOf[of].map[f]), NEW found,
           RecordIssues(ClientOf[of], FileOf[of], Resolved(ClientOf[of], FileOf[of], g))
              \subseteq found
    PROVE  HidesNothing(of, Resolved(ClientOf[of], FileOf[of], g), found, f, l)
<1>. DEFINE client == ClientOf[of]
            book == FileOf[of]
            source == client.map[f]
            at == <<f, l>>
            record == Resolved(client, book, g)
            ranked == PickRanked(book, source, g, l)
            texts == {Pick(book, source, record.gtin, m, l) : m \in ToSet(MarketPriority)} \ {<<>>}
<1>1. /\ record.gtin = g
      /\ at \in DOMAIN record.values <=> ranked # <<>>
      /\ ranked # <<>> => record.values[at] = StripPrefix(source, ranked)
  <2>1. ValueIsRanked(client, book, g, f, l)
    BY ValuesAreRanked
  <2>. QED
    BY <2>1 DEF ValueIsRanked
<1>2. CASE ranked = <<>>
  <2>1. "value_blank" \in KindsFound(book, source, g, l, ranked)
    BY <1>2, KindsAreFound
  <2>2. Issue(record.gtin, f, l, "value_blank") \in found
    BY <1>1, <2>1, KindsAreReported
  <2>. QED
    BY <1>1, <1>2, <2>2 DEF HidesNothing
<1>3. CASE ranked # <<>> /\ Inconsistent(book, source, g, l)
  <2>1. "value_inconsistent_across_markets" \in KindsFound(book, source, g, l, ranked)
    BY <1>3, KindsAreFound
  <2>2. Issue(record.gtin, f, l, "value_inconsistent_across_markets") \in found
    BY <1>1, <2>1, KindsAreReported
  <2>. QED
    BY <1>1, <1>3, <2>2 DEF HidesNothing
<1>4. CASE ranked # <<>> /\ ~Inconsistent(book, source, g, l)
  <2>1. PerMarket(book, source, g, l) # {}
    BY <1>4, RankedIsOfAMarket
  <2>2. PICK m \in PerMarket(book, source, g, l) : ranked = Pick(book, source, g, m, l)
    BY <2>1, RankedIsOfAMarket
  <2>3. ASSUME NEW text \in texts
        PROVE  SameText(source, text, record.values[at])
    <3>1. PICK n \in PerMarket(book, source, g, l) : text = Pick(book, source, g, n, l)
      BY <1>1 DEF PerMarket
    <3>2. Folded(text) = Folded(ranked)
      BY <1>4, <2>2, <3>1, Consistent
    <3>3. IsText(text) /\ IsText(ranked) /\ text # <<>>
      BY <3>1, PicksAreTexts, RankedIsText
    <3>. QED
      BY <1>1, <1>4, <3>2, <3>3, StrippedAgree DEF SameText
  <2>. QED
    BY <1>1, <1>4, <2>3 DEF HidesNothing
<1>. QED
  BY <1>2, <1>3, <1>4


(* No either-or group of a client is named like one of its fields          *)
GroupsApart ==
    \A i \in DOMAIN Deliveries :
       \A f, h \in DOMAIN AllSources(ClientOf[i]) : AllSources(ClientOf[i])[f].group # h

(* A reported field a record lacks in a language is a reported blank       *)
LEMMA LackIsReported ==
    ASSUME NEW of \in DOMAIN Deliveries, NEW g, NEW f \in DOMAIN ClientOf[of].map,
           ClientOf[of].map[f].sheet \in DOMAIN FileOf[of], ClientOf[of].map[f].report,
           NEW k, ClientOf[of].map[f].localised => k \in Languages,
           NEW found,
           RecordIssues(ClientOf[of], FileOf[of], Resolved(ClientOf[of], FileOf[of], g))
              \subseteq found,
           ValueFor(Resolved(ClientOf[of], FileOf[of], g), ClientOf[of].map[f], f, k) = <<>>
    PROVE  \E l \in {k, AnyLanguage} :
              Issue(Resolved(ClientOf[of], FileOf[of], g).gtin, f, l, "value_blank") \in found
<1>. DEFINE client == ClientOf[of]
            book == FileOf[of]
            source == client.map[f]
            l == IF source.localised THEN k ELSE AnyLanguage
            record == Resolved(client, book, g)
            ranked == PickRanked(book, source, g, l)
            at == <<f, l>>
<1>1. l \in SourceLanguages(source)
  BY DEF SourceLanguages
<1>2. /\ record.gtin = g
      /\ at \in DOMAIN record.values <=> ranked # <<>>
      /\ ranked # <<>> => record.values[at] = StripPrefix(source, ranked)
  <2>1. ValueIsRanked(client, book, g, f, l)
    BY <1>1, ValuesAreRanked
  <2>. QED
    BY <2>1 DEF ValueIsRanked
<1>3. ValueFor(record, source, f, k) = IF at \in DOMAIN record.values THEN record.values[at] ELSE <<>>
  BY DEF ValueFor
<1>4. ranked = <<>>
  <2>1. SUFFICES ASSUME ranked # <<>> PROVE FALSE
    OBVIOUS
  <2>2. StripPrefix(source, ranked) # <<>>
    BY <2>1, RankedIsText, StrippedIsThere
  <2>. QED
    BY <1>2, <1>3, <2>1, <2>2
<1>5. "value_blank" \in KindsFound(book, source, g, l, ranked)
  BY <1>4, KindsAreFound
<1>6. Issue(record.gtin, f, l, "value_blank") \in found
  BY <1>1, <1>2, <1>5, KindsAreReported
<1>. QED
  BY <1>6

(* A gap is of a field that is required, or of an either-or group of which *)
(* no member has a value                                                   *)
LEMMA GapsAreOfFieldsOrGroups ==
    ASSUME NEW record, NEW sources, NEW gap \in MissingMandatory(record, sources)
    PROVE  \/ \E f \in DOMAIN sources : \E k \in SourceLanguages(sources[f]) :
                 gap = Gap(f, k) /\ ValueFor(record, sources[f], f, k) = <<>>
           \/ \E g \in DOMAIN sources : \E k \in LanguagesOfGroup(sources, sources[g].group) :
                 /\ gap = Gap(sources[g].group, k)
                 /\ \A f \in Members(sources, sources[g].group) :
                       ValueFor(record, sources[f], f, k) = <<>>
<1>1. gap \in MissingFields(record, sources) \/ gap \in MissingGroups(record, sources)
  BY DEF MissingMandatory
<1>2. CASE gap \in MissingFields(record, sources)
  BY <1>2 DEF MissingFields
<1>3. CASE gap \in MissingGroups(record, sources)
  <2>1. PICK group \in {sources[f].group : f \in DOMAIN sources} \ {""} :
              gap \in {Gap(group, l) : l \in {k \in LanguagesOfGroup(sources, group) :
                                      \A f \in Members(sources, group) :
                                         ValueFor(record, sources[f], f, k) = <<>>}}
    BY <1>3, Zenon DEF MissingGroups
  <2>2. PICK g \in DOMAIN sources : group = sources[g].group
    OBVIOUS
  <2>. QED
    BY <2>1, <2>2
<1>. QED
  BY <1>1, <1>2, <1>3

(* Every hold on a record has its blanks in the report                     *)
LEMMA HoldsAreReported ==
    ASSUME GroupsApart, NEW of \in DOMAIN Deliveries, NEW g, NEW found, NEW reported,
           reported \subseteq {f \in DOMAIN ClientOf[of].map :
                                  /\ ClientOf[of].map[f].report
                                  /\ ClientOf[of].map[f].sheet \in DOMAIN FileOf[of]},
           RecordIssues(ClientOf[of], FileOf[of], Resolved(ClientOf[of], FileOf[of], g))
              \subseteq found
    PROVE  HoldIsReported(AllSources(ClientOf[of]), Resolved(ClientOf[of], FileOf[of], g),
                          found, reported)
<1>. DEFINE client == ClientOf[of]
            sources == AllSources(client)
            record == Resolved(client, FileOf[of], g)
<1>1. SUFFICES ASSUME NEW gap \in MissingMandatory(record, sources), NEW f \in reported,
                      f = gap.field \/ sources[f].group = gap.field
               PROVE  \E l \in {gap.language, AnyLanguage} :
                         Issue(record.gtin, f, l, "value_blank") \in found
  BY DEF HoldIsReported
<1>2. /\ f \in DOMAIN client.map /\ f \in DOMAIN sources /\ sources[f] = client.map[f]
      /\ client.map[f].report /\ client.map[f].sheet \in DOMAIN FileOf[of]
  BY DEF AllSources
<1>3. \A h, k \in DOMAIN sources : sources[h].group # k
  BY DEF GroupsApart
<1>4. /\ ValueFor(record, sources[f], f, gap.language) = <<>>
      /\ sources[f].localised => gap.language \in Languages
  <2>1. ASSUME NEW h \in DOMAIN sources, NEW k \in SourceLanguages(sources[h]),
               gap = Gap(h, k), ValueFor(record, sources[h], h, k) = <<>>
        PROVE  /\ ValueFor(record, sources[f], f, gap.language) = <<>>
               /\ sources[f].localised => gap.language \in Languages
    <3>1. gap.field = h /\ gap.language = k
      BY <2>1 DEF Gap
    <3>2. f = h
      BY <1>1, <1>2, <1>3, <3>1
    <3>. QED
      BY <2>1, <3>1, <3>2 DEF SourceLanguages
  <2>2. ASSUME NEW h \in DOMAIN sources,
               NEW k \in LanguagesOfGroup(sources, sources[h].group),
               gap = Gap(sources[h].group, k),
               \A n \in Members(sources, sources[h].group) :
                  ValueFor(record, sources[n], n, k) = <<>>
        PROVE  /\ ValueFor(record, sources[f], f, gap.language) = <<>>
               /\ sources[f].localised => gap.language \in Languages
    <3>1. gap.field = sources[h].group /\ gap.language = k
      BY <2>2 DEF Gap
    <3>2. f \in Members(sources, sources[h].group)
      BY <1>1, <1>2, <1>3, <3>1 DEF Members
    <3>. QED
      BY <2>2, <3>1, <3>2 DEF LanguagesOfGroup
  <2>3. \/ \E h \in DOMAIN sources : \E k \in SourceLanguages(sources[h]) :
              gap = Gap(h, k) /\ ValueFor(record, sources[h], h, k) = <<>>
        \/ \E h \in DOMAIN sources : \E k \in LanguagesOfGroup(sources, sources[h].group) :
              /\ gap = Gap(sources[h].group, k)
              /\ \A n \in Members(sources, sources[h].group) :
                    ValueFor(record, sources[n], n, k) = <<>>
    <3>1. gap \in MissingMandatory(record, sources)
      OBVIOUS
    <3>. HIDE DEF record, sources
    <3>. QED
      BY <3>1, GapsAreOfFieldsOrGroups
  <2>. QED
    BY <2>1, <2>2, <2>3
<1>. QED
  BY <1>2, <1>4, LackIsReported


(* The reported fields of an export's client, but for those of which the   *)
(* parse said that the export has no sheet for them                        *)
ReportedFields(of) ==
    {f \in DOMAIN ClientOf[of].map : ClientOf[of].map[f].report} \ PassedOver(of, Parsed[of])

(* A parse that builds a record has the sheet of every field it did not    *)
(* warn of                                                                 *)
LEMMA UnwarnedIsThere ==
    ASSUME NEW of \in DOMAIN Deliveries, ClientOf[of].format = "gdsn", Parsed[of].records # {}
    PROVE  ReportedFields(of) \subseteq
               {f \in DOMAIN ClientOf[of].map : /\ ClientOf[of].map[f].report
                                                /\ ClientOf[of].map[f].sheet \in DOMAIN FileOf[of]}
<1>. DEFINE client == ClientOf[of]
            book == FileOf[of]
<1>1. Parsed[of] = BuildRecords(client, book)
  BY DEF Parsed, ParseOf, ClientOf, FileOf
<1>2. ~Unresolvable(client, book) /\ Parsed[of].warned = Warned(client, book)
  BY <1>1 DEF BuildRecords, Built, Failed
<1>3. ASSUME NEW f \in ReportedFields(of), client.map[f].sheet \notin DOMAIN book PROVE FALSE
  <2>1. ~SourceFound(book, client.map[f])
    BY <1>3 DEF SourceFound
  <2>2. f \in DOMAIN client.map /\ f \notin RequiredFields
    BY <1>2, <2>1 DEF Unresolvable, ReportedFields
  <2>3. f \in Parsed[of].warned
    BY <1>2, <2>1, <2>2 DEF Warned
  <2>. QED
    BY <1>3, <2>3 DEF ReportedFields, PassedOver
<1>. QED
  BY <1>3 DEF ReportedFields

(* A parse of an export leaves nothing of a reported field out             *)
LEMMA ParsesLeaveNothingOut ==
    ASSUME GroupsApart, NEW of \in DOMAIN Deliveries, ClientOf[of].format = "gdsn"
    PROVE  LeavesNothingOut(of, Parsed[of], ReportedFields(of))
<1>. DEFINE client == ClientOf[of]
            book == FileOf[of]
            outcome == Parsed[of]
            built == {Resolved(client, book, g) : g \in CarriedGtins(book)}
<1>1. outcome = BuildRecords(client, book)
  BY DEF Parsed, ParseOf, ClientOf, FileOf
<1>2. CASE outcome.records = {}
  BY <1>2, Zenon DEF LeavesNothingOut
<1>3. CASE outcome.records # {}
  <2>1. /\ outcome.records = built
        /\ outcome.issues = UNION {RecordIssues(client, book, r) : r \in built}
    BY <1>1, <1>3 DEF BuildRecords, Built, Failed
  <2>2. ReportedFields(of) \subseteq
            {f \in DOMAIN client.map : client.map[f].report /\ client.map[f].sheet \in DOMAIN book}
    BY <1>3, UnwarnedIsThere
  <2>3. ASSUME NEW record \in outcome.records
        PROVE  /\ HoldIsReported(AllSources(client), record, outcome.issues, ReportedFields(of))
               /\ \A f \in {h \in ReportedFields(of) : ~client.map[h].file} :
                     \A l \in SourceLanguages(client.map[f]) :
                        HidesNothing(of, record, outcome.issues, f, l)
    <3>1. PICK g \in CarriedGtins(book) : record = Resolved(client, book, g)
      BY <2>1
    <3>2. RecordIssues(client, book, record) \subseteq outcome.issues
      BY <2>1
    <3>3. HoldIsReported(AllSources(client), record, outcome.issues, ReportedFields(of))
      BY <3>1, <3>2, <2>2, HoldsAreReported
    <3>4. ASSUME NEW f \in ReportedFields(of), ~client.map[f].file,
                 NEW l \in SourceLanguages(client.map[f])
          PROVE  HidesNothing(of, record, outcome.issues, f, l)
      BY <3>1, <3>2, <3>4, <2>2, FieldHidesNothing
    <3>. QED
      BY <3>3, <3>4
  <2>. QED
    BY <2>3 DEF LeavesNothingOut
<1>. QED
  BY <1>2, <1>3

(* The files are of exports that were delivered                            *)
LEMMA FilesAreOfExports == Spec => []IntakeTypeOK
<1>1. Init => IntakeTypeOK
  BY DEF Init, IntakeInit, IntakeTypeOK, NoParse, Files
<1>2. IntakeTypeOK /\ [Next]_vars => IntakeTypeOK'
  <2>. SUFFICES ASSUME IntakeTypeOK, [Next]_vars PROVE IntakeTypeOK'
    OBVIOUS
  <2>1. CASE IntakeNext /\ UNCHANGED <<siteVars, script>>
    BY <2>1, DeliveriesAssumption
    DEF IntakeTypeOK, IntakeNext, Deliver, OpenProducts, WriteProducts, OpenIssues, WriteIssues,
        KillParse, NoParse, Files
  <2>2. CASE UNCHANGED intakeVars
    BY <2>2 DEF IntakeTypeOK, intakeVars
  <2>3. CASE EditMapping \/ CreateTerm \/ DeleteTerm \/ EditPage \/ PublishPage
    BY <2>2, <2>3 DEF EditMapping, CreateTerm, DeleteTerm, EditPage, PublishPage
  <2>4. CASE \/ Refuse \/ Start \/ ListPages \/ SkipPage \/ Lookup \/ ReadPage
             \/ GuardPage \/ WriteTerms \/ PageFails \/ Finish \/ KillScript
    BY <2>2, <2>4 DEF Refuse, Start, ListPages, SkipPage, Lookup, ReadPage, GuardPage, WriteTerms,
                      PageFails, Finish, KillScript
  <2>. QED
    BY <2>1, <2>2, <2>3, <2>4 DEF Next, vars
<1>. QED
  BY <1>1, <1>2, PTL DEF Spec

(* Whenever the products and the report are of one export, every field the *)
(* client has reported is accounted for: a text that lost against another  *)
(* market's and a hold are in the report, or the parse warned that the     *)
(* field's sheet is not in the export; for any exports and clients of      *)
(* which no either-or group is named like a field (_pick_ranked, _report_  *)
(* inconsistency, _report_blank, _validate_sources against missing_        *)
(* mandatory).                                                             *)
THEOREM ParseHidesNothing ==
    ASSUME GroupsApart
    PROVE  Spec => []NothingIsHidden
<1>1. IntakeTypeOK => NothingIsHidden
  <2>. SUFFICES ASSUME IntakeTypeOK, products # NoFile, ClientOf[products].format = "gdsn"
                PROVE  LeavesNothingOut(products, Parsed[products], ReportedFields(products))
    BY DEF NothingIsHidden, ReportedFields
  <2>1. products \in DOMAIN Deliveries
    BY DEF IntakeTypeOK, Files
  <2>. QED
    BY <2>1, ParsesLeaveNothingOut
<1>. QED
  BY <1>1, FilesAreOfExports, PTL

===============================================================================
