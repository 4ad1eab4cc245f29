------------------------------- MODULE Export -------------------------------
(***************************************************************************)
(* How a product export becomes product records and a list of what is      *)
(* wrong with the source: lib/gdsn.py, lib/records.py, lib/mandatory.py    *)
(* and scripts/parse_export.py.                                            *)
(*                                                                         *)
(* A text is what it says, whether it differs in letter case only, how it  *)
(* opens (with the brand to strip, with nearly that, or not), its words    *)
(* and the language whose hallmarks it has.  A value is the texts of the   *)
(* slots it was joined from; no value is <<>>.  A text that is only the    *)
(* brand opens nearly with the prefix, which ends in a space.              *)
(***************************************************************************)
EXTENDS Naturals, SequencesExt, FiniteSetsExt

CONSTANTS Languages,        \* wordpress.languages
          DefaultLanguage,
          MarketPriority,   \* the markets, in the order they are consulted
          Gtins,            \* the barcodes a record accepts
          NoText,           \* an empty cell
          NoKey             \* an empty key cell: no barcode, no unit

ASSUME MarketsAssumption == MarketPriority \in Seq(ToSet(MarketPriority))

AnyLanguage == "any"        \* the language of a value that has none
BaseUnit == "BASE_UNIT_OR_EACH"
RequiredFields == {"brand", "product_name"}
CopyFields == {"description_short", "description_long"}
ThinMinWords == 20
ThinShare == 4              \* fewer than a fourth of the words is thin

-----------------------------------------------------------------------------
(* Where a field comes from: a sheet and an attribute, per language or     *)
(* not, the first slot or every one, with what is expected of the value    *)
(* and whether its gaps and conflicts are reported.                        *)
GdsnSource(sheet, attribute) ==
    [sheet |-> sheet, attribute |-> attribute, localised |-> FALSE, multivalue |-> FALSE,
     file |-> FALSE, strip |-> FALSE, limit |-> 0, report |-> TRUE,
     required |-> FALSE, group |-> ""]

(* What the loader accepts of a client's sources.                          *)
ProductFields == RequiredFields \cup CopyFields
                 \cup {"gpc_brick_code", "net_content", "image_url"}

AllSources(client) ==
    [f \in DOMAIN client.map \cup DOMAIN client.extras |->
        IF f \in DOMAIN client.map THEN client.map[f] ELSE client.extras[f]]

WellFormedClient(client) ==
    LET sources == AllSources(client)
    IN /\ DOMAIN client.map \subseteq ProductFields
       /\ DOMAIN client.map \cap DOMAIN client.extras = {}
       /\ \A f, h \in DOMAIN sources :
              sources[f].sheet = sources[h].sheet
              /\ sources[f].attribute = sources[h].attribute => f = h
       /\ \A f \in DOMAIN sources : ~(sources[f].required /\ sources[f].group # "")

SourceLanguages(source) == IF source.localised THEN Languages ELSE {AnyLanguage}

-----------------------------------------------------------------------------
(* A sheet is the attributes it has columns for and its rows; a row gives  *)
(* every attribute the slots of its repeated group.                        *)
HeldRows(sheet) ==
    {i \in DOMAIN sheet.rows : /\ sheet.rows[i].gtin # NoKey
                               /\ sheet.rows[i].unit \in {NoKey, BaseUnit}}

RowsOf(sheet, gtin, market) ==
    {i \in HeldRows(sheet) : /\ sheet.rows[i].gtin = gtin
                             /\ sheet.rows[i].market = market}

(* The last row of a barcode and market is the one that is kept.           *)
Slots(sheet, gtin, market, attribute) ==
    LET rows == RowsOf(sheet, gtin, market)
    IN IF rows = {} \/ attribute \notin sheet.attributes THEN <<>>
       ELSE sheet.rows[Max(rows)].cells[attribute]

CarriedGtins(workbook) ==
    UNION {{workbook[s].rows[i].gtin : i \in HeldRows(workbook[s])} : s \in DOMAIN workbook}

SourceFound(workbook, source) ==
    /\ source.sheet \in DOMAIN workbook
    /\ source.file \/ source.attribute \in workbook[source.sheet].attributes

-----------------------------------------------------------------------------
(* What one market's row says.                                             *)
Filled(slots) == SelectSeq(slots, LAMBDA s : s.text # NoText)
TextsOf(slots) == [i \in DOMAIN slots |-> slots[i].text]
FirstOf(slots) == IF slots = <<>> THEN <<>> ELSE <<slots[1]>>

PickLocalisedAll(slots, language) ==
    SelectSeq(Filled(slots), LAMBDA s : s.language = language)

(* The first slot only, blank included: slot two is not looked at.          *)
PickScalar(slots) == Filled(FirstOf(slots))

(* The first address marked primary, else the first product image, else    *)
(* the first of all.                                                       *)
PickPrimaryFile(slots) ==
    LET files == Filled(slots)
    IN FirstOf(SelectSeq(files, LAMBDA s : s.primary)
               \o SelectSeq(files, LAMBDA s : s.image) \o files)

PickOne(source, slots, language) ==
    IF source.file THEN PickPrimaryFile(slots)
    ELSE IF source.localised THEN FirstOf(PickLocalisedAll(slots, language))
    ELSE PickScalar(slots)

PickEvery(source, slots, language) ==
    IF source.localised THEN PickLocalisedAll(slots, language) ELSE Filled(slots)

Pick(workbook, source, gtin, market, language) ==
    LET slots == Slots(workbook[source.sheet], gtin, market, source.attribute)
    IN TextsOf(IF source.multivalue /\ ~source.file
               THEN PickEvery(source, slots, language)
               ELSE PickOne(source, slots, language))

First(markets) ==
    MarketPriority[Min({i \in DOMAIN MarketPriority : MarketPriority[i] \in markets})]

\* Mutated form: the walk stops at the first market that has a value.
FirstMarket(workbook, source, gtin, language) ==
    LET markets == {m \in ToSet(MarketPriority) :
                       Pick(workbook, source, gtin, m, language) # <<>>}
    IN IF markets = {} THEN {} ELSE {First(markets)}

(* The markets that supply a value; the one consulted first is chosen.     *)
PerMarket(workbook, source, gtin, language) ==
    {m \in ToSet(MarketPriority) : Pick(workbook, source, gtin, m, language) # <<>>}

PickRanked(workbook, source, gtin, language) ==
    LET markets == PerMarket(workbook, source, gtin, language)
    IN IF markets = {} THEN <<>>
       ELSE Pick(workbook, source, gtin, First(markets), language)

-----------------------------------------------------------------------------
(* The checks on a value.                                                  *)
Folded(value) == [i \in DOMAIN value |-> [value[i] EXCEPT !.upper = FALSE]]

StripPrefix(source, value) ==
    IF value # <<>> /\ source.strip /\ ~source.file /\ value[1].brand = "exact"
    THEN [value EXCEPT ![1].brand = "none"] ELSE value

WordsOf(value) == FoldLeft(LAMBDA n, text : n + text.words, 0, value)

SuspectLanguage(value, language) ==
    \E i \in DOMAIN value : value[i].hallmark \notin {"none", language}

Issue(gtin, field, language, kind) ==
    [gtin |-> gtin, field |-> field, language |-> language, issue |-> kind]

(* Two markets say different things, letter case aside.                    *)
Inconsistent(workbook, source, gtin, language) ==
    Cardinality({Folded(Pick(workbook, source, gtin, m, language))
                 : m \in PerMarket(workbook, source, gtin, language)}) > 1

(* The value opens with nearly the prefix: it is left as it is.            *)
PrefixMismatch(source, value) == source.strip /\ value # <<>> /\ value[1].brand = "near"

(* Longer than its slot on the page, once the prefix is off: it is kept.   *)
TooLong(source, value) ==
    source.limit > 0 /\ WordsOf(StripPrefix(source, value)) > source.limit

(* No market that is consulted has a value.                                *)
Blank(source, value) == source.report /\ value = <<>>

(* What resolving a field in one language to a value reports.  Of an image *)
(* address only a blank is reported.                                       *)
KindsFound(workbook, source, gtin, language, value) ==
    LET found == [value_blank |-> Blank(source, value),
                  value_inconsistent_across_markets |->
                      /\ source.report /\ ~source.file
                      /\ Inconsistent(workbook, source, gtin, language),
                  brand_prefix_mismatch |-> ~source.file /\ PrefixMismatch(source, value),
                  value_too_long |-> ~source.file /\ TooLong(source, value)]
    IN {kind \in DOMAIN found : found[kind]}

ResolveField(workbook, field, source, gtin) ==
    UNION {{Issue(gtin, field, l, kind) :
               kind \in KindsFound(workbook, source, gtin, l,
                                   PickRanked(workbook, source, gtin, l))}
           : l \in SourceLanguages(source)}

(* A name that reads like the other language; a copy text far shorter than *)
(* the same text in another language.                                      *)
CheckFieldLanguage(record, field) ==
    {Issue(record.gtin, field, l, "value_wrong_language") :
        l \in {k \in Languages : /\ <<field, k>> \in DOMAIN record.values
                                 /\ SuspectLanguage(record.values[<<field, k>>], k)}}

CheckLanguageBalance(record, field) ==
    LET having == {l \in Languages : <<field, l>> \in DOMAIN record.values}
        words(l) == WordsOf(record.values[<<field, l>>])
        most == Max({words(l) : l \in having} \cup {0})
    IN {Issue(record.gtin, field, l, "value_thin_in_one_language") :
           l \in {k \in having : /\ Cardinality(having) > 1 /\ most >= ThinMinWords
                                 /\ words(k) * ThinShare < most}}

-----------------------------------------------------------------------------
(* A record: the values by field and language, the pass-through extras     *)
(* with them.  Extras are neither checked nor reported.                    *)
Record(client, gtin, ranked) ==
    [gtin |-> gtin,
     values |-> [at \in {a \in DOMAIN ranked : ranked[a] # <<>>} |->
                    IF at[1] \in DOMAIN client.map
                    THEN StripPrefix(client.map[at[1]], ranked[at]) ELSE ranked[at]]]

Resolved(client, workbook, gtin) ==
    LET sources == AllSources(client)
        found == {f \in DOMAIN sources : sources[f].sheet \in DOMAIN workbook}
        slots == UNION {{<<f, l>> : l \in SourceLanguages(sources[f])} : f \in found}
    IN Record(client, gtin,
              [at \in slots |-> PickRanked(workbook, sources[at[1]], gtin, at[2])])

(* No name in the default language, no brand, or a barcode of the wrong    *)
(* length.                                                                 *)
Invalid(record) ==
    \/ <<"product_name", DefaultLanguage>> \notin DOMAIN record.values
    \/ <<"brand", AnyLanguage>> \notin DOMAIN record.values
    \/ record.gtin \notin Gtins

RecordIssues(client, workbook, record) ==
    LET found == {f \in DOMAIN client.map : client.map[f].sheet \in DOMAIN workbook}
    IN UNION {ResolveField(workbook, f, client.map[f], record.gtin) : f \in found}
       \cup CheckFieldLanguage(record, "product_name")
       \cup UNION {CheckLanguageBalance(record, f) : f \in CopyFields \cap found}

Failed(exit, warned) == [exit |-> exit, records |-> {}, issues |-> {}, warned |-> warned]

(* The optional fields whose source is not in the export: printed as a     *)
(* warning when the parse ends, and kept nowhere.                          *)
Warned(client, workbook) ==
    {f \in DOMAIN client.map \ RequiredFields : ~SourceFound(workbook, client.map[f])}

(* A required source that is not in the export, no market to consult, a    *)
(* default language that is not one of the site's: nothing is built.       *)
Unresolvable(client, workbook) ==
    \/ \E f \in RequiredFields \cap DOMAIN client.map :
           ~SourceFound(workbook, client.map[f])
    \/ MarketPriority = <<>>
    \/ DefaultLanguage \notin Languages

(* One product that cannot be built fails the whole export.                *)
Built(client, workbook, records) ==
    IF \E r \in records : Invalid(r) THEN Failed(1, Warned(client, workbook))
    ELSE [exit |-> 0, records |-> records, warned |-> Warned(client, workbook),
          issues |-> UNION {RecordIssues(client, workbook, r) : r \in records}]

BuildRecords(client, workbook) ==
    IF Unresolvable(client, workbook) THEN Failed(1, Warned(client, workbook))
    ELSE Built(client, workbook,
               {Resolved(client, workbook, g) : g \in CarriedGtins(workbook)})

-----------------------------------------------------------------------------
(* The flat format: one sheet, a header, a column per target.  A column    *)
(* carried verbatim is a target in no language.                            *)
GtinTarget == <<"gtin", AnyLanguage>>
FlatRequired == {GtinTarget, <<"brand", AnyLanguage>>, <<"product_name", DefaultLanguage>>}

ParseExcelRow(client, row) ==
    LET filled == {c \in DOMAIN client.columns \cap DOMAIN row : row[c] # NoText}
        column(at) == CHOOSE c \in filled : client.columns[c] = at
        targets == {client.columns[c] : c \in filled}
    IN [gtin |-> IF GtinTarget \in targets THEN row[column(GtinTarget)] ELSE NoKey,
        values |-> [at \in targets \ {GtinTarget} |-> <<row[column(at)]>>]]

(* The first row of a barcode is kept, a later one is skipped: only a row  *)
(* that cannot be read fails the export.  Nothing is reported.             *)
FlatRecords(parsed) ==
    {parsed[i] : i \in {n \in DOMAIN parsed :
                           \A j \in DOMAIN parsed : j < n => parsed[j].gtin # parsed[n].gtin}}

ReadFlatRows(parsed) ==
    IF \E i \in DOMAIN parsed : Invalid(parsed[i]) THEN Failed(1, {})
    ELSE [exit |-> 0, records |-> FlatRecords(parsed), issues |-> {}, warned |-> {}]

RunFlat(client, sheet) ==
    LET targets(columns) == {client.columns[c] : c \in columns}
        row(i) == sheet.rows[i]
        rows == {i \in DOMAIN sheet.rows : \E c \in DOMAIN row(i) : row(i)[c] # NoText}
    IN IF ~(FlatRequired \subseteq targets(DOMAIN client.columns)) THEN Failed(2, {})
       ELSE IF ~(FlatRequired \subseteq targets(DOMAIN client.columns \cap sheet.header))
       THEN Failed(1, {})
       ELSE ReadFlatRows([i \in rows |-> ParseExcelRow(client, row(i))])

ParseOf(delivery) ==
    IF delivery.client.format = "gdsn"
    THEN BuildRecords(delivery.client, delivery.file)
    ELSE RunFlat(delivery.client, delivery.file)

-----------------------------------------------------------------------------
(* The mandatory values a record lacks: a required field in each of its    *)
(* languages, or an either-or group of which no member has a value.        *)
ValueFor(record, source, field, language) ==
    LET at == <<field, IF source.localised THEN language ELSE AnyLanguage>>
    IN IF at \in DOMAIN record.values THEN record.values[at] ELSE <<>>

Members(sources, group) == {f \in DOMAIN sources : sources[f].group = group}

LanguagesOfGroup(sources, group) ==
    IF \E f \in Members(sources, group) : sources[f].localised
    THEN Languages ELSE {AnyLanguage}

Gap(field, language) == [field |-> field, language |-> language]

MissingFields(record, sources) ==
    UNION {{Gap(f, l) : l \in {k \in SourceLanguages(sources[f]) :
                                  ValueFor(record, sources[f], f, k) = <<>>}}
           : f \in {h \in DOMAIN sources : sources[h].required}}

MissingGroups(record, sources) ==
    UNION {{Gap(group, l) : l \in {k \in LanguagesOfGroup(sources, group) :
                                      \A f \in Members(sources, group) :
                                         ValueFor(record, sources[f], f, k) = <<>>}}
           : group \in {sources[f].group : f \in DOMAIN sources} \ {""}}

MissingMandatory(record, sources) ==
    MissingFields(record, sources) \cup MissingGroups(record, sources)
=============================================================================
