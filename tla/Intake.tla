------------------------------- MODULE Intake -------------------------------
(***************************************************************************)
(* The two files a parse leaves, and what it leaves when it is refused or  *)
(* killed: scripts/parse_export.py main.  The files are written in place,  *)
(* the products first, so a kill can leave one cut off, which reads as     *)
(* none, or the two of different exports.                                  *)
(***************************************************************************)
EXTENDS Categories

CONSTANTS Deliveries,  \* the exports that may be delivered, in a sequence
          Later        \* the positions of those that may follow another

ASSUME DeliveriesAssumption ==
    /\ Later \subseteq DOMAIN Deliveries
    /\ \A i \in DOMAIN Deliveries :
          /\ WellFormedClient(Deliveries[i].client)
          /\ Deliveries[i].client.format # "gdsn" => DOMAIN Deliveries[i].file.rows \subseteq Nat

NoFile == 0
NoParse == [step |-> "idle", of |-> NoFile]

VARIABLES delivered,   \* the export at the configured path, by its position
          products,    \* the export products.json was written from
          issues,      \* the export source_issues.json was written from
          parse        \* the step a parse is at, and of which export

intakeVars == <<delivered, products, issues, parse>>

IntakeInit ==
    /\ delivered \in DOMAIN Deliveries
    /\ products = NoFile /\ issues = NoFile
    /\ parse = NoParse

ClientOf == [i \in DOMAIN Deliveries |-> Deliveries[i].client]
FileOf == [i \in DOMAIN Deliveries |-> Deliveries[i].file]
Parsed == [i \in DOMAIN Deliveries |-> ParseOf(Deliveries[i])]

Records(file) == IF file = NoFile THEN {} ELSE Parsed[file].records

-----------------------------------------------------------------------------
(* Another export is put at the same path.                                 *)
Deliver ==
    /\ delivered' \in Later \ {delivered}
    /\ ClientOf[delivered'] = ClientOf[delivered]
    /\ UNCHANGED <<products, issues, parse>>

(* products.json is opened, which empties it, only when nothing failed: a  *)
(* dry run, and an export with an error, leave everything as it was.       *)
OpenProducts ==
    /\ parse.step = "idle" /\ Parsed[delivered].exit = 0
    /\ parse' = [step |-> "products", of |-> delivered]
    /\ products' = NoFile
    /\ UNCHANGED <<delivered, issues>>

WriteProducts ==
    /\ parse.step = "products"
    /\ products' = parse.of
    /\ parse' = [parse EXCEPT !.step = "report"]
    /\ UNCHANGED <<delivered, issues>>

(* source_issues.json is written every time, an empty list included.       *)
OpenIssues ==
    /\ parse.step = "report"
    /\ issues' = NoFile
    /\ parse' = [parse EXCEPT !.step = "issues"]
    /\ UNCHANGED <<delivered, products>>

WriteIssues ==
    /\ parse.step = "issues"
    /\ issues' = parse.of
    /\ parse' = NoParse
    /\ UNCHANGED <<delivered, products>>

KillParse ==
    /\ parse.step # "idle"
    /\ parse' = NoParse
    /\ UNCHANGED <<delivered, products, issues>>

IntakeNext == Deliver \/ OpenProducts \/ WriteProducts
              \/ OpenIssues \/ WriteIssues \/ KillParse

-----------------------------------------------------------------------------
(* What one market's text for a field looks like beside the record's.      *)
SameText(source, text, kept) == Folded(StripPrefix(source, text)) = Folded(kept)

(* A field of a record hides nothing in a language: a value that another   *)
(* market has otherwise is a reported conflict, and no value a reported    *)
(* blank.                                                                  *)
HidesNothing(of, record, found, field, language) ==
    LET source == ClientOf[of].map[field]
        texts == IF source.sheet \notin DOMAIN FileOf[of] THEN {}
                 ELSE {Pick(FileOf[of], source, record.gtin, m, language)
                       : m \in ToSet(MarketPriority)} \ {<<>>}
        at == <<field, language>>
        kind == IF at \in DOMAIN record.values
                THEN "value_inconsistent_across_markets" ELSE "value_blank"
    IN \/ Issue(record.gtin, field, language, kind) \in found
       \/ /\ at \in DOMAIN record.values
          /\ \A text \in texts : SameText(source, text, record.values[at])

(* A mandatory value of a reported field that a record lacks, and with it  *)
(* the hold, has its blank in the report; a group has one per member.      *)
HoldIsReported(sources, record, found, reported) ==
    \A gap \in MissingMandatory(record, sources) :
        \A f \in reported : f = gap.field \/ sources[f].group = gap.field =>
            \E l \in {gap.language, AnyLanguage} :
                Issue(record.gtin, f, l, "value_blank") \in found

LeavesNothingOut(of, outcome, reported) ==
    \A record \in outcome.records :
        /\ HoldIsReported(AllSources(ClientOf[of]), record, outcome.issues, reported)
        /\ \A f \in {h \in reported : ~ClientOf[of].map[h].file} :
               \A l \in SourceLanguages(ClientOf[of].map[f]) :
                   HidesNothing(of, record, outcome.issues, f, l)

(* Fields without a line in the report, as the parse said when it ran: the *)
(* warning names the sheet that is not in the export, and the field is     *)
(* passed over for every product.                                          *)
PassedOver(of, outcome) ==
    {f \in outcome.warned : ClientOf[of].map[f].sheet \notin DOMAIN FileOf[of]}

(* Whenever the products and the report are of one export, every field the *)
(* client has reported is accounted for.  Where another of the consulted   *)
(* markets has another text than the one that won, the report has the      *)
(* conflict; where a product is held for want of a value, the report has   *)
(* the blank; and a field for which neither is so was named by the parse's *)
(* warnings, its sheet not being in the export: such a field can hold      *)
(* every product with no line in the report (_pick_ranked, _report_        *)
(* inconsistency, _report_blank and _resolve_field's early return against  *)
(* missing_mandatory; _validate_sources).  A market's text is that of its  *)
(* last row, and of an image's address only the blanks count.              *)
NothingIsHidden ==
    products # NoFile /\ products = issues /\ ClientOf[products].format = "gdsn" =>
        LeavesNothingOut(products, Parsed[products],
                         {f \in DOMAIN ClientOf[products].map : ClientOf[products].map[f].report}
                             \ PassedOver(products, Parsed[products]))
=============================================================================
