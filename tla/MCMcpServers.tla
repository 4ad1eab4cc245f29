----------------------------- MODULE MCMcpServers -----------------------------
(* Two calls at a time over one product in two languages and another beside it. *)
EXTENDS McpServers

MCGtins == {"g", "h"}
MCLanguages == {"nl", "fr"}

APage(language, gtin, id, fields) ==
    [tool |-> "page", slug |-> "g", gtin |-> gtin, language |-> language, id |-> id,
     fields |-> fields]

MCInputs ==
    {[tool |-> "records", entries |-> <<"g", "h">>],
     [tool |-> "media"],
     APage("nl", "g", 0, TRUE), APage("fr", "g", 0, TRUE), APage("fr", "g", 1, FALSE),
     APage("nl", "none", 0, FALSE), APage("nl", "h", 0, TRUE)}

MCWorkloads ==
    {{i \in MCInputs : i.tool = "records"}, {[tool |-> "media"]},
     {APage("nl", "g", 0, TRUE), APage("fr", "g", 0, TRUE)},
     {APage("nl", "g", 0, TRUE), APage("nl", "none", 0, FALSE)},
     {APage("nl", "h", 0, TRUE), APage("fr", "g", 1, FALSE)}}

MCConfigs ==
    {[environment |-> "test", multilingual |-> TRUE],
     [environment |-> "production", multilingual |-> FALSE]}

\* A site without the page; with it, in the default language; with a page of
\* nobody's in its place.  And a library without the file; with a file of that
\* slug which somebody else put there; with a fragment of an earlier upload.
PagesOf(gtin) ==
    [p \in PageIds |-> IF p = 1
                       THEN [NoPage EXCEPT !.there = TRUE, !.slug = "g", !.gtin = gtin]
                       ELSE NoPage]
MediaOf(ours) ==
    [m \in MediaIds |-> IF m = 1 THEN [NoMedia EXCEPT !.there = TRUE, !.slugged = TRUE,
                                                      !.hashed = ours]
                        ELSE NoMedia]
MCSites ==
    {[pages |-> [p \in PageIds |-> NoPage], media |-> MediaOf(FALSE)],
     [pages |-> PagesOf("g"), media |-> MediaOf(TRUE)],
     [pages |-> PagesOf("none"), media |-> [m \in MediaIds |-> NoMedia]]}
===============================================================================
