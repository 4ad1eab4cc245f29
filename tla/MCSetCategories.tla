-------------------------- MODULE MCSetCategories --------------------------
(* An instance of SetCategories for TLC.  A client that files no pages is  *)
(* given exports that differ in one field, a client that does exports that *)
(* differ in their bricks, and one has a flat export.                      *)
EXTENDS SetCategories

CONSTANTS g, h, k, none, blank

Text(says, words) == [says |-> says, upper |-> FALSE, brand |-> "none",
                      words |-> words, hallmark |-> "none"]
Upper(text) == [text EXCEPT !.upper = TRUE]
Opening(text, brand) == [text EXCEPT !.brand = brand]
Dutch(text) == [text EXCEPT !.hallmark = "nl"]

Slot(text, language) == [text |-> text, language |-> language,
                         primary |-> FALSE, image |-> FALSE]
File(text, primary, image) == [text |-> text, language |-> "any",
                               primary |-> primary, image |-> image]
Bare(text) == <<Slot(text, "any")>>

Source(sheet, attribute) == GdsnSource(sheet, attribute)
Localised(source) == [source EXCEPT !.localised = TRUE]
Required(source) == [source EXCEPT !.required = TRUE]
Grouped(source) == [Localised(source) EXCEPT !.group = "copy"]

NoColumns == [c \in {} |-> c]
Gdsn(map, extras, filed) ==
    [format |-> "gdsn", filed |-> filed, map |-> map, extras |-> extras, columns |-> NoColumns]

Full == Gdsn(
    [product_name |-> [Required(Localised(Source("trade", "name")))
                       EXCEPT !.strip = TRUE, !.limit = 4],
     brand |-> Required(Source("trade", "brand")),
     net_content |-> Source("measures", "content"),
     description_short |-> [Grouped(Source("copy", "message")) EXCEPT !.report = FALSE],
     description_long |-> [Grouped(Source("copy", "benefit")) EXCEPT !.multivalue = TRUE],
     image_url |-> [Source("files", "file") EXCEPT !.file = TRUE]],
    [material |-> [Source("trade", "material") EXCEPT !.multivalue = TRUE],
     season |-> Localised(Source("trade", "season"))], FALSE)

Bricked == Gdsn(
    [product_name |-> Required(Localised(Source("trade", "name"))),
     brand |-> Required(Source("trade", "brand")),
     gpc_brick_code |-> Source("trade", "brick")], [c \in {} |-> c], TRUE)

Flat == [format |-> "flat", filed |-> FALSE, map |-> NoColumns, extras |-> NoColumns,
         columns |-> [Barcode |-> <<"gtin", "any">>, Merk |-> <<"brand", "any">>,
                      Naam |-> <<"product_name", "nl">>, Nom |-> <<"product_name", "fr">>,
                      Kleur |-> <<"colour", "any">>]]

-----------------------------------------------------------------------------
Row(gtin, market, unit, cells) ==
    [gtin |-> gtin, market |-> market, unit |-> unit, cells |-> cells]

Sheet(rows) == [attributes |-> IF rows = <<>> THEN {} ELSE DOMAIN rows[1].cells, rows |-> rows]

Base == BaseUnit
Tasje == Text("tasje", 3)
Trousse == Text("trousse", 3)

Names(nl, fr) == <<Slot(nl, "nl"), Slot(fr, "fr")>>

(* What the markets' rows say of the name.                                 *)
NamesSeen == {Names(Tasje, Trousse), Names(Upper(Tasje), blank),
              Names(Opening(Tasje, "exact"), Dutch(Tasje)),
              Names(Opening(Tasje, "near"), Text("grande trousse", 5)),
              Names(blank, Trousse)}

Trade(names, brand) == [name |-> names, brand |-> Bare(brand), season |-> Names(blank, Trousse),
                        material |-> Bare(blank) \o Bare(Tasje)]
Copy(short, long) == [message |-> short, benefit |-> long]

TradeOf(first, second) ==
    Sheet(<<Row(g, "528", Base, Trade(first, Text("merk", 1))),
            Row(g, "056", none, Trade(second, Text("merk", 1))),
            Row(h, "528", "CASE", Trade(second, blank)),
            Row(none, none, none, Trade(second, blank))>>)

Measures(first, second) ==
    Sheet(<<Row(g, "528", Base, [content |-> first]), Row(g, "056", Base, [content |-> second])>>)

CopyOf(short, long) == Sheet(<<Row(g, "056", Base, Copy(short, long))>>)

Files(slots) == Sheet(<<Row(g, "528", Base, [file |-> slots])>>)

Five == Bare(Text("5 stuks", 2))
Long == Names(Text("zin", 5), Text("phrases", 24))
Short == Names(Text("zin", 20), Text("phrases", 24))

Workbook(trade, measures, copy, files) ==
    [trade |-> trade, measures |-> measures, copy |-> copy, files |-> files]
Usual == Workbook(TradeOf(Names(Tasje, Trousse), Names(Tasje, Trousse)),
                  Measures(Five, Five), CopyOf(Short, Short),
                  Files(<<File(Tasje, FALSE, FALSE), File(Trousse, FALSE, TRUE)>>))

FullBooks ==
    {[Usual EXCEPT !.trade = TradeOf(first, second)] : first, second \in NamesSeen}
    \cup {[Usual EXCEPT !.measures = Measures(first, second)] :
             first, second \in {Five, Bare(blank), Bare(blank) \o Five, Bare(Text("6 stuks", 2))}}
    \cup {[Usual EXCEPT !.copy = CopyOf(short, long)] :
             short \in {Long, Short, Names(blank, blank)},
             long \in {Long, Short \o Short, Names(blank, blank), Names(Text("zin", 3), blank)}}
    \cup {[Usual EXCEPT !.files = Files(<<one, two>>)] :
             one \in {File(blank, TRUE, TRUE), File(Tasje, FALSE, TRUE)},
             two \in {File(Trousse, TRUE, FALSE), File(blank, FALSE, FALSE)}}
    \cup {[s \in DOMAIN Usual \ {missing} |-> Usual[s]] : missing \in DOMAIN Usual}
    \cup {[Usual EXCEPT !.trade = Sheet(@.rows \o <<Row(gtin, "528", Base, Trade(names, brand))>>)] :
             gtin \in {g, h, k}, names \in {Names(Tasje, Dutch(Tasje))},
             brand \in {blank, Text("merk", 1)}}

(* Two products in the same category, the brick of the second one varying. *)
Bricks(brick) ==
    LET cells(b) == [name |-> Names(Tasje, Trousse), brand |-> Bare(Text("merk", 1)),
                     brick |-> Bare(b)]
    IN [trade |-> Sheet(<<Row(g, "528", Base, cells(Text("b1", 1))),
                          Row(h, "528", Base, cells(brick))>>)]
BrickBooks == {Bricks(Text("b1", 1)), Bricks(Text("b2", 1)), Bricks(blank)}

FlatRow(gtin, brand, name) ==
    [Barcode |-> gtin, Merk |-> brand, Naam |-> name, Nom |-> blank, Kleur |-> Tasje, Los |-> blank]
Empty == [c \in DOMAIN FlatRow(g, blank, blank) |-> blank]
FlatSheet(rows) == [header |-> DOMAIN Empty, rows |-> rows]
Merk == Text("merk", 1)
FlatBooks == {FlatSheet(<<FlatRow(g, Merk, Tasje), Empty, FlatRow(g, Merk, Trousse)>>),
              FlatSheet(<<FlatRow(g, Merk, Tasje), FlatRow(blank, Merk, Tasje)>>),
              FlatSheet(<<FlatRow(g, Merk, Tasje), FlatRow(h, blank, Tasje)>>),
              [header |-> {"Barcode"}, rows |-> <<>>]}

Of(client, books) ==
    FoldSet(LAMBDA book, seq : Append(seq, [client |-> client, file |-> book]), <<>>, books)
Unmapped == [Flat EXCEPT !.columns = [Barcode |-> <<"gtin", "any">>]]

MCDeliveries == Of(Bricked, BrickBooks) \o Of(Full, FullBooks) \o Of(Flat, FlatBooks)
                \o Of(Unmapped, FlatBooks)
MCLater == {1, 4, 6}

MCMappings == {[terms |-> {"keuken", "tuin"}, bricks |-> bricks, overrides |-> overrides] :
                  bricks \in {"b1" :> "keuken"},
                  overrides \in {[c \in {} |-> c], h :> "keuken"}}

MCMarkets == <<"528", "056">>

MCPageOrder == <<[gtin |-> g, language |-> "fr"], [gtin |-> g, language |-> "nl"],
                 [gtin |-> h, language |-> "fr"]>>

MCLive == {MCPageOrder[1], MCPageOrder[2]}

MCSiteTerms == {SiteTerm("keuken", "nl", "none"), SiteTerm("keuken", "fr", "fr")}
MCFirstTerms == {MCSiteTerms, {SiteTerm("keuken", "nl", "none")}}
=============================================================================
