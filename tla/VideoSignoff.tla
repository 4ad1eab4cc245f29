---------------------------- MODULE VideoSignoff ----------------------------
(***************************************************************************)
(* What a sign-off sheet of the client means for the mapping: lib/         *)
(* video_signoff.py decides every line, ui/video_map_edit.py applies the   *)
(* fills.  A sheet is a sequence of lines; a line has a language, a file   *)
(* and what was given: blank, skip, a product or no barcode at all.        *)
(***************************************************************************)
EXTENDS VideoMap, Naturals, Sequences

CONSTANTS Blank, Junk  \* a cell with nothing in it, and one that is no barcode

Lines == [language : Languages \cup {"other"}, file : Files \cup {NoFile},
          given : Products \cup {Skip, Blank, Junk}]
Row(s, i) == <<s[i].language, s[i].file>>

(* The lines that name a row of the mapping, and of these the ones with an *)
(* answer the export knows; an empty export is not asked                   *)
Addressed(m, s) == {i \in DOMAIN s : Row(s, i) \in DOMAIN m}
Answered(m, s, exported) ==
    {i \in Addressed(m, s) :
        \/ s[i].given = Skip
        \/ s[i].given \in Products /\ (exported = {} \/ s[i].given \in exported)}

Filling(m, s, exported) == {i \in Answered(m, s, exported) : m[Row(s, i)] = Unset}
Unchanged(m, s, exported) == {i \in Answered(m, s, exported) : m[Row(s, i)] = s[i].given}

(* Mutated form: fills are compared with the mapping only                  *)
AmbiguousInMapping(m, s, exported) ==
    {i \in Filling(m, s, exported) : s[i].given # Skip /\
        \E f \in Claimed(m, s[i].given, s[i].language) : f # s[i].file}

(* A fill whose product another file has in that language, in the mapping  *)
(* or by another fill of this sheet                                        *)
Ambiguous(m, s, exported) ==
    {i \in Filling(m, s, exported) : s[i].given # Skip /\
        \/ \E f \in Claimed(m, s[i].given, s[i].language) : f # s[i].file
        \/ \E j \in Filling(m, s, exported) :
              /\ s[j].given = s[i].given /\ s[j].language = s[i].language
              /\ s[j].file # s[i].file}

Fills(m, s, exported) == Filling(m, s, exported) \ Ambiguous(m, s, exported)

(* The fills by row: of two lines for one row the later is taken           *)
LastOf(s, L, r) == CHOOSE i \in L : Row(s, i) = r /\ \A j \in L : Row(s, j) = r => j <= i
Edits(m, s, exported) ==
    LET L == Fills(m, s, exported)
    IN  [r \in {Row(s, i) : i \in L} |-> s[LastOf(s, L, r)].given]

(* No two lines answer differently for one row                             *)
OneAnswerEach(m, s, exported) ==
    \A i, j \in Answered(m, s, exported) : Row(s, i) = Row(s, j) => s[i].given = s[j].given

Applied(m, edits) == [r \in DOMAIN m |-> IF r \in DOMAIN edits THEN edits[r] ELSE m[r]]
=============================================================================
