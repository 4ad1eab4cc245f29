---------------------------- MODULE Eligibility ----------------------------
(***************************************************************************)
(* Which products of a list a run would act on: lib/eligibility.py over    *)
(* lib/holds.py and lib/link_targets.py.                                   *)
(*                                                                         *)
(* A list is a sequence of rows, each with a product and what its address  *)
(* column holds.  An export says which products it carries, which of them  *)
(* lack data nobody can fill in, and which have no image.  A mapping says  *)
(* of each product whether its videos are confirmed, missing in a          *)
(* language, or two for one language.                                      *)
(***************************************************************************)
EXTENDS Naturals, Sequences, SequencesExt

CONSTANTS Products,      \* GTINs
          Enforced,      \* media.restrict_to_mapped_gtins
          WithoutVideo,  \* media.publish_without_video
          NeedsImage     \* media.require_hero_image

ASSUME RuleAssumption == {Enforced, WithoutVideo, NeedsImage} \subseteq BOOLEAN

Modes == {"pages", "links", "both"}
NoMode == "unsaid"                  \* nobody has said what the batch publishes
Addresses == {"blank", "site", "site too", "elsewhere"}
ListRows == [gtin : Products, url : Addresses]
Unchecked == [loads |-> {}, broken |-> {}]   \* no address looked at yet

RowsOf(list) == DOMAIN list
GtinsOf(list) == {list[i].gtin : i \in RowsOf(list)}

(* The first filled address of each product: the screen's reading *)
ListedUrls(list) ==
    [p \in GtinsOf(list) |->
        LET filled == SelectSeq(list, LAMBDA row : row.gtin = p /\ row.url # "blank")
        IN  IF filled = <<>> THEN "blank" ELSE filled[1].url]

(* The run's reading refuses the whole file for one address that is not on *)
(* the site, or for a product with two of them.                            *)
TargetsRefused(list) ==
    \/ \E i \in RowsOf(list) : list[i].url = "elsewhere"
    \/ \E i, j \in RowsOf(list) :
          /\ list[i].gtin = list[j].gtin
          /\ list[i].url # list[j].url
          /\ "blank" \notin {list[i].url, list[j].url}

-----------------------------------------------------------------------------
(* The video rule.  Without it nothing is held, and a mapping that does    *)
(* not load matters to nobody.                                             *)
Admits(mapping, p) ==
    \/ ~Enforced
    \/ mapping.videos[p] = "confirmed"
    \/ mapping.videos[p] = "missing" /\ WithoutVideo

MapProblem(mapping) == Enforced /\ ~mapping.reads

(* E23, E24 and E22: what holds a product before any text is written for it *)
HeldProducts(export, mapping, products) ==
    {p \in products : \/ p \in export.gaps
                      \/ ~Admits(mapping, p)
                      \/ NeedsImage /\ p \in export.imageless}

\* Mutated form: the screen asks about videos only.
EligibleByVideo(export, mapping, products) ==
    IF MapProblem(mapping) THEN {} ELSE {p \in products : Admits(mapping, p)}

EligibleForPages(export, mapping, products) ==
    IF MapProblem(mapping) THEN {}
    ELSE products \ HeldProducts(export, mapping, products)

(* A link needs an address: the listed one, else our own published page.   *)
(* One on the site must have been looked at, and have loaded.              *)
LinkTarget(list, published, p) ==
    IF ListedUrls(list)[p] # "blank" THEN ListedUrls(list)[p]
    ELSE IF p \in published THEN "our page" ELSE "blank"

EligibleForLinks(list, published, checked, products) ==
    {p \in products : <<p, LinkTarget(list, published, p)>> \in checked.loads}

(* The addresses still to be looked at: those on the site *)
PendingLinks(list, published, checked) ==
    {<<p, LinkTarget(list, published, p)>> : p \in GtinsOf(list)}
        \ (checked.loads \cup checked.broken \cup (Products \X {"blank", "elsewhere"}))

(* What can run of a list, as the screen's status column has it *)
CanRun(mode, list, export, mapping, published, checked) ==
    LET named == GtinsOf(list) \cap export.carries
    IN  IF mode = "links" THEN EligibleForLinks(list, published, checked, named)
        ELSE EligibleForPages(export, mapping, named)
=============================================================================
