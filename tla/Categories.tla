----------------------------- MODULE Categories -----------------------------
(***************************************************************************)
(* From a product's GPC brick to the site's category: lib/categories.py.   *)
(* A client's categories are the allowed terms, the brick map and the      *)
(* overrides per barcode.                                                  *)
(***************************************************************************)
EXTENDS Export

NoCategory == "no category"
NoBrick == "no brick"

(* What the loader accepts: terms, and maps that name only them.           *)
WellFormedCategories(categories) ==
    /\ categories.terms # {} /\ NoCategory \notin categories.terms
    /\ Range(categories.bricks) \cup Range(categories.overrides) \subseteq categories.terms

Brick(record) ==
    LET at == <<"gpc_brick_code", AnyLanguage>>
    IN IF at \in DOMAIN record.values THEN record.values[at][1].says ELSE NoBrick

(* An override for the barcode, else the brick's term, else none: never a  *)
(* guess.                                                                  *)
ResolveCategory(record, categories) ==
    LET brick == Brick(record)
        term == IF record.gtin \in DOMAIN categories.overrides
                THEN categories.overrides[record.gtin]
                ELSE IF brick \in DOMAIN categories.bricks
                THEN categories.bricks[brick] ELSE NoCategory
    IN IF term \in categories.terms THEN term ELSE NoCategory

(* The category of each barcode of the products.                           *)
AssignCategories(records, categories) ==
    [g \in {r.gtin : r \in records} |->
        ResolveCategory(CHOOSE r \in records : r.gtin = g, categories)]

DistinctBricks(records) == {Brick(r) : r \in records} \ {NoBrick}

(* The bricks that the coverage check names: not in the map, and carried   *)
(* by a product that resolves to nothing.                                  *)
UnmappedBricks(records, categories) ==
    {b \in DistinctBricks(records) :
        /\ b \notin DOMAIN categories.bricks
        /\ \E r \in records : /\ Brick(r) = b
                              /\ ResolveCategory(r, categories) = NoCategory}
=============================================================================
