--------------------------- MODULE SetCategories ---------------------------
(***************************************************************************)
(* Putting the live pages into their categories: scripts/set_categories.py *)
(* with the term lookups of lib/wp_client.py, beside the parse, the editor *)
(* of the brick map, the site's editors and a run that publishes.          *)
(*                                                                         *)
(* The site keeps a term per language.  Its slug is the category's, or the *)
(* category's with the language appended; a term stands for its own id.    *)
(***************************************************************************)
EXTENDS Intake

CONSTANTS PageOrder,         \* the pages there may be, by barcode and language
          Live,              \* those that are live before any run set a category
          Mappings,          \* the contents the categories block may have
          SiteTerms,         \* the terms the site may have
          FirstTerms,        \* the sets of them it may start with
          ConfiguredPlugin,  \* wordpress.multilingual_plugin
          SitePlugin,        \* the plugin the site runs
          RequireTermsExist, \* categories.require_terms_exist
          MaxEdits           \* changes to the brick map and the site

ASSUME TermsAssumption == FirstTerms \subseteq SUBSET SiteTerms

ASSUME MappingsAssumption == \A m \in Mappings : WellFormedCategories(m)

Pages == ToSet(PageOrder)

ASSUME PagesAssumption == PageOrder \in Seq(Pages) /\ Live \subseteq Pages

Own(assigned) == [owner |-> "own", terms |-> assigned]
NoPage == [owner |-> "absent", terms |-> {}]
Foreign == [owner |-> "foreign", terms |-> {}]

VARIABLES
    categories,  \* the categories block of clients.yml
    terms,       \* the terms the site has
    pages,       \* per page: whose it is and the terms it is in
    ledger,      \* the pages that are live in the ledger
    edits,       \* how many changes were made to the brick map and the site
    script       \* the script's run

siteVars == <<categories, terms, pages, ledger, edits>>
vars == <<intakeVars, siteVars, script>>

(* filed and dropped only observe: the pages seen in exactly their         *)
(* category, and the terms that were deleted, while the script ran.        *)
NotStarted == [step |-> "idle", apply |-> FALSE, of |-> NoFile, categories |-> {}, wanted |-> <<>>,
               plugin |-> "none", covered |-> {}, todo |-> {}, remembered |-> <<>>,
               term |-> <<>>, failed |-> FALSE, filed |-> {}, dropped |-> {}]

Filed == ClientOf[delivered].filed   \* the client has categories and a taxonomy

(* What is live is in no category yet.                                     *)
Init ==
    /\ IntakeInit
    /\ categories \in Mappings
    /\ terms \in IF Filed THEN FirstTerms ELSE {{}}
    /\ pages = [p \in Pages |-> IF p \in Live THEN Own({}) ELSE NoPage]
    /\ ledger = Live
    /\ edits = 0
    /\ script = NotStarted

Stopped == script.step \in {"idle", "done", "refused"}

-----------------------------------------------------------------------------
(* A probe finds the site's plugin, or fails.                              *)
Detected == {SitePlugin, "none"}

\* Mutated form: a probe that finds nothing wins over the configuration.
ProbedPlugin(detected) == detected

(* The plugin the lookups are scoped by: what is configured wins.          *)
ResolvePlugin(detected) == IF ConfiguredPlugin = "none" THEN detected ELSE ConfiguredPlugin

(* A site of several languages answers an unscoped lookup in its default   *)
(* language only.                                                          *)
AskedLanguage(plugin, language) ==
    IF plugin \in {"wpml", "polylang"} THEN language ELSE DefaultLanguage

SiteTerm(category, language, suffix) ==
    [category |-> category, language |-> language, suffix |-> suffix]

(* The plain slug, else the slug with the language appended.               *)
FindTerm(plugin, category, language) ==
    LET asked == AskedLanguage(plugin, language)
        plain == SiteTerm(category, asked, "none")
        suffixed == SiteTerm(category, asked, language)
    IN IF plain \in terms THEN <<plain>> ELSE IF suffixed \in terms THEN <<suffixed>> ELSE <<>>

-----------------------------------------------------------------------------
(* The brick map is edited; so are the site's terms and pages.  A deleted  *)
(* term leaves the pages that were in it.                                  *)
Editing == Filed /\ edits < MaxEdits /\ edits' = edits + 1

EditMapping ==
    /\ Editing
    /\ categories' \in Mappings \ {categories}
    /\ UNCHANGED <<intakeVars, terms, pages, ledger, script>>

CreateTerm ==
    /\ Editing
    /\ \E t \in SiteTerms \ terms : terms' = terms \cup {t}
    /\ UNCHANGED <<intakeVars, categories, pages, ledger, script>>

DeleteTerm ==
    /\ Editing
    /\ \E t \in terms :
           /\ terms' = terms \ {t}
           /\ pages' = [p \in Pages |-> [pages[p] EXCEPT !.terms = @ \ {t}]]
           /\ script' = IF Stopped THEN script
                        ELSE [script EXCEPT !.dropped = @ \cup {t}]
    /\ UNCHANGED <<intakeVars, categories, ledger>>

EditPage ==
    /\ Editing
    /\ \E p \in Pages : \E page \in {NoPage, Foreign, Own({})}
                                    \cup {Own({t}) : t \in terms} :
           page # pages[p] /\ pages' = [pages EXCEPT ![p] = page]
    /\ UNCHANGED <<intakeVars, categories, terms, ledger, script>>

(* What a run that publishes puts a page in: the term of its product's     *)
(* category in its own language.  A term the site does not have refuses    *)
(* the row, or leaves the terms out of the update.                         *)
RowTerms(category, language) ==
    {FindTerm(ResolvePlugin(d), category, language) : d \in Detected}

PlannedCategories == AssignCategories(Records(products), categories)

PublishPage ==
    /\ Filed
    /\ \E p \in Pages :
        LET assigned == PlannedCategories
        IN /\ p.gtin \in DOMAIN assigned /\ pages[p].owner # "foreign"
           /\ \E found \in IF assigned[p.gtin] = NoCategory THEN {<<>>}
                           ELSE RowTerms(assigned[p.gtin], p.language) :
                /\ found # <<>> \/ assigned[p.gtin] = NoCategory \/ ~RequireTermsExist
                /\ pages' = [pages EXCEPT ![p] =
                                Own(IF found = <<>> THEN @.terms ELSE {found[1]})]
           /\ ledger' = ledger \cup {p}
    /\ UNCHANGED <<intakeVars, categories, terms, edits, script>>

-----------------------------------------------------------------------------
(* The script.  It is refused without a category taxonomy and without      *)
(* products.                                                               *)
Refuse ==
    /\ Stopped /\ (~Filed \/ Records(products) = {})
    /\ script' = [NotStarted EXCEPT !.step = "refused"]
    /\ UNCHANGED <<intakeVars, siteVars>>

Start ==
    /\ Stopped /\ Filed /\ Records(products) # {}
    /\ \E apply \in BOOLEAN :
           script' = [NotStarted EXCEPT !.step = "list", !.apply = apply]
    /\ UNCHANGED <<intakeVars, siteVars>>

(* Published and not taken down, by their places in the ledger's order.    *)
LivePages == {i \in DOMAIN PageOrder : PageOrder[i] \in ledger}

(* The products are read a second time here, with the ledger; the client   *)
(* probes the site as it is made.                                          *)
ListPages ==
    /\ script.step = "list"
    /\ \E detected \in Detected :
           script' = [script EXCEPT !.step = "page", !.of = products,
                                    !.categories = categories,
                                    !.wanted = PlannedCategories,
                                    !.plugin = ResolvePlugin(detected),
                                    !.covered = Pages \cap ledger, !.todo = LivePages]
    /\ UNCHANGED <<intakeVars, siteVars>>

Page == PageOrder[Min(script.todo)]

CategoryOf(p) ==
    IF p.gtin \in DOMAIN script.wanted THEN script.wanted[p.gtin] ELSE NoCategory

(* On to the next page, with an error counted or not.                      *)
Settled(run, failed) ==
    [run EXCEPT !.step = "page", !.todo = @ \ {Min(@)}, !.term = <<>>, !.failed = @ \/ failed]

InItsCategory(p, assigned) ==
    \E t \in assigned : /\ assigned = {t}
                        /\ t.category = CategoryOf(p) /\ t.language = p.language

Observed(assigned) == script.filed \cup {p \in {Page} : InItsCategory(p, assigned)}

AtPage == script.step = "page" /\ script.todo # {}

(* A product without a category is skipped, which is no error.             *)
SkipPage ==
    /\ AtPage /\ CategoryOf(Page) = NoCategory
    /\ script' = Settled(script, FALSE)
    /\ UNCHANGED <<intakeVars, siteVars>>

Key == <<CategoryOf(Page), Page.language>>

Remembering(found) ==
    [key \in DOMAIN script.remembered \cup {Key} |->
        IF key = Key THEN found ELSE script.remembered[key]]

(* The term is asked for once per category and language, an answer that    *)
(* there is none included.  Without a term the page is an error.           *)
Lookup ==
    /\ AtPage /\ CategoryOf(Page) # NoCategory
    /\ LET found == IF Key \in DOMAIN script.remembered THEN script.remembered[Key]
                    ELSE FindTerm(script.plugin, Key[1], Key[2])
           known == [script EXCEPT !.remembered = Remembering(found)]
       IN script' = IF found = <<>> THEN Settled(known, TRUE)
                    ELSE [known EXCEPT !.step = "read", !.term = found]
    /\ UNCHANGED <<intakeVars, siteVars>>

(* The page is read and must carry its product's barcode.  A dry run and a *)
(* page that is where it belongs end here.                                 *)
ReadPage ==
    /\ script.step = "read" /\ pages[Page].owner = "own"
    /\ LET seen == [script EXCEPT !.filed = Observed(pages[Page].terms)]
       IN script' = IF pages[Page].terms = {script.term[1]} \/ ~script.apply
                    THEN Settled(seen, FALSE)
                    ELSE [seen EXCEPT !.step = "guard"]
    /\ UNCHANGED <<intakeVars, siteVars>>

(* set_page_terms reads the page again before it sends the terms.          *)
GuardPage ==
    /\ script.step = "guard" /\ pages[Page].owner = "own"
    /\ script' = [script EXCEPT !.step = "write"]
    /\ UNCHANGED <<intakeVars, siteVars>>

(* Only the taxonomy is sent; a term that is no longer there is passed     *)
(* over by the site.                                                       *)
WriteTerms ==
    /\ script.step = "write" /\ pages[Page].owner # "absent"
    /\ LET assigned == {script.term[1]} \cap terms
       IN /\ pages' = [pages EXCEPT ![Page].terms = assigned]
          /\ script' = Settled([script EXCEPT !.filed = Observed(assigned)], FALSE)
    /\ UNCHANGED <<intakeVars, categories, terms, ledger, edits>>

(* A call fails, or the page is missing or another product's: this page    *)
(* only.  A failed lookup is not remembered.                               *)
PageFails ==
    /\ \/ AtPage /\ CategoryOf(Page) # NoCategory /\ Key \notin DOMAIN script.remembered
       \/ script.step \in {"read", "guard", "write"}
    /\ script' = Settled(script, TRUE)
    /\ UNCHANGED <<intakeVars, siteVars>>

Finish ==
    /\ script.step = "page" /\ script.todo = {}
    /\ script' = [script EXCEPT !.step = "done", !.plugin = "none", !.remembered = <<>>]
    /\ UNCHANGED <<intakeVars, siteVars>>

KillScript ==
    /\ ~Stopped
    /\ script' = NotStarted
    /\ UNCHANGED <<intakeVars, siteVars>>

-----------------------------------------------------------------------------
Next ==
    \/ IntakeNext /\ UNCHANGED <<siteVars, script>>
    \/ EditMapping \/ CreateTerm \/ DeleteTerm \/ EditPage \/ PublishPage
    \/ Refuse \/ Start \/ ListPages \/ SkipPage \/ Lookup \/ ReadPage
    \/ GuardPage \/ WriteTerms \/ PageFails \/ Finish \/ KillScript

Spec == Init /\ [][Next]_vars

-----------------------------------------------------------------------------
(* What the doctor's coverage check says of the products the script read.  *)
NamedUnmapped == UnmappedBricks(Records(script.of), script.categories)

(* A product the script skipped is not among the products it read, has no  *)
(* brick, or its brick is one the doctor's coverage check names.           *)
IsNamedUnmapped(p) ==
    \A r \in Records(script.of) : r.gtin = p.gtin =>
        Brick(r) \in {NoBrick} \cup NamedUnmapped

(* A run with --apply that counts no error (exit 0: every page has its     *)
(* category) had every page it covered in exactly the term of its own      *)
(* language while it ran, whatever the probe found, whatever was edited    *)
(* or published meanwhile; a term deleted under it is the exception, and a *)
(* page it skipped is one the coverage check names.                        *)
DoneMeansFiled ==
    script.step = "done" /\ script.apply /\ ~script.failed =>
        \A p \in script.covered :
            IF CategoryOf(p) = NoCategory THEN IsNamedUnmapped(p)
            ELSE \/ p \in script.filed
                 \/ \E t \in script.dropped : /\ t.category = CategoryOf(p)
                                              /\ t.language = p.language
=============================================================================
