------------------------------ MODULE VideoMap ------------------------------
(***************************************************************************)
(* The client's video mapping, videos/mapping.yml, and what lib/           *)
(* media_video.py, lib/video_status.py and lib/holds.py read from it: which *)
(* file a page gets, which products may publish, and what is missing.      *)
(*                                                                         *)
(* A mapping gives every row, a language with a file name, its cell: unset, *)
(* skip, or a product.  One file has one row per language; barcodes are in *)
(* their canonical form.                                                   *)
(***************************************************************************)
CONSTANTS Products, Languages, Files,
          Unset, Skip,  \* a cell with no barcode, and one that names no product
          NoFile        \* no file of the folder

ASSUME VideoMapAssumption ==
    Unset # Skip /\ {Unset, Skip} \cap Products = {} /\ NoFile \notin Files

Rows == Languages \X Files
Cells == Products \cup {Unset, Skip}
Mappings == UNION {[R -> Cells] : R \in SUBSET Rows}

(* The rules of media: unenforced, a video everywhere, or none needed      *)
Rules == {"off", "strict", "bare"}

(* The files confirmed to g in l; exactly one; the file its page gets      *)
Claimed(m, g, l) == {f \in Files : <<l, f>> \in DOMAIN m /\ m[<<l, f>>] = g}
One(S) == \E f \in S : S = {f}
Several(S) == \E f, h \in S : f # h
Resolve(m, g, l) ==
    LET claimed == Claimed(m, g, l)
    IN  IF One(claimed) THEN CHOOSE f \in claimed : TRUE ELSE NoFile

FullyMapped(m) == {g \in Products : \A l \in Languages : One(Claimed(m, g, l))}
Clashing(m) == {g \in Products : \E l \in Languages : Several(Claimed(m, g, l))}

(* Mutated form: where no video is needed, two of them are no matter       *)
AdmitsClashing(m, rule, g) == rule \in {"off", "bare"} \/ g \in FullyMapped(m)

Admits(m, rule, g) ==
    \/ rule = "off"
    \/ g \notin Clashing(m) /\ (rule = "bare" \/ g \in FullyMapped(m))

(* What the report says of a product, and lists it as held for.  Its video *)
(* section looks at publish_without_video only: with the rule off it lists *)
(* products as held that no run holds                                      *)
Status(m, g, l) ==
    IF Resolve(m, g, l) # NoFile THEN "confirmed"
    ELSE IF Several(Claimed(m, g, l)) THEN "clashing" ELSE "missing"
AttachesVideo(m, g) == \A l \in Languages : Status(m, g, l) = "confirmed"
HasClash(m, g) == \E l \in Languages : Status(m, g, l) = "clashing"
ReportedHeld(m, rule) ==
    {g \in Products : IF rule = "bare" THEN HasClash(m, g) ELSE ~AttachesVideo(m, g)}
WithoutVideo(m, rule) ==
    {g \in Products : rule = "bare" /\ ~AttachesVideo(m, g) /\ ~HasClash(m, g)}

(* The doctor's: who is held, and who publishes with no video somewhere    *)
HeldForVideo(m, rule) == {g \in Products : rule # "off" /\ ~Admits(m, rule, g)}
Bare(m, rule) ==
    {g \in Products : rule = "bare" /\ Admits(m, rule, g) /\ g \notin FullyMapped(m)}
=============================================================================
