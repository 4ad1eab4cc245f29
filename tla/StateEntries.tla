----------------------------- MODULE StateEntries -----------------------------
(***************************************************************************)
(* What the tool remembers of one (GTIN, language) between runs, and how a *)
(* planner compares that memory with what should be published.             *)
(*                                                                         *)
(* The content of a page is abstracted to a version number: it stands for  *)
(* the content hash together with the video file of the page, the two      *)
(* things whose change makes a published row CHANGED.  The hash of the     *)
(* resolver link set is abstracted to whether it is empty, the only        *)
(* question the code ever asks of it.                                      *)
(***************************************************************************)
EXTENDS Naturals

CONSTANT MaxVersion     \* bound on how often one page's content is edited

ASSUME MaxVersionAssumption == MaxVersion \in Nat \ {0}

Versions == 1..MaxVersion

PageStatus == {"publish", "draft"}

StateEntry == [content   : 0..MaxVersion,
               linked    : BOOLEAN,
               wp_status : PageStatus,
               retracted : BOOLEAN]

\* The absence of an entry; its fields are the defaults of the source's model.
NoEntry == [content |-> 0, linked |-> FALSE,
            wp_status |-> "publish", retracted |-> FALSE]

Recorded(entry) == entry.content # 0

IsHeld(entry) == entry.wp_status # "publish" \/ entry.retracted

HasNoResolverLink(entry) == ~entry.linked

Classification == {"new", "unchanged", "changed", "held"}

\* Mutated form: only the content is compared, a missing link goes unseen.
ClassifyByContent(entry, version) ==
    IF ~Recorded(entry) THEN "new"
    ELSE IF IsHeld(entry) THEN "held"
    ELSE IF entry.content # version THEN "changed"
    ELSE "unchanged"

\* Mutated form: a product that was taken down is compared like any other.
ClassifyUnheld(entry, version) ==
    IF ~Recorded(entry) THEN "new"
    ELSE IF HasNoResolverLink(entry) \/ entry.content # version THEN "changed"
    ELSE "unchanged"

\* HELD outranks the content comparison, and so does a missing link.
Classify(entry, version) ==
    IF ~Recorded(entry) THEN "new"
    ELSE IF IsHeld(entry) THEN "held"
    ELSE IF HasNoResolverLink(entry) \/ entry.content # version THEN "changed"
    ELSE "unchanged"

===============================================================================
