---------------------------- MODULE MCGeneration ----------------------------
(* Small instances of Generation: two products, two languages. *)
EXTENDS Generation

Both == <<"nl", "fr">>
Each(nl, fr) == [nl |-> nl, fr |-> fr]

Product(name, lines, message) == [name |-> name, lines |-> lines, message |-> message]
LongThenMixed == Each("long", "mixed")
NoMessage == Each("none", "none")

(* p is named in the second feed otherwise than in the first, and its      *)
(* French slot holds another language in both.  q has no name to begin     *)
(* with; then it has one to translate, and lines the feed publishes.       *)
TwoFeeds ==
    [f1 |-> [prompt |-> "v1", products |->
        [p |-> Product(Each("N1", "foreign"), LongThenMixed, NoMessage),
         q |-> Product(Each("blank", "blank"), Each("mixed", "none"), Each("m", "m"))]],
     f2 |-> [prompt |-> "v1", products |->
        [p |-> Product(Each("N2", "foreign"), LongThenMixed, NoMessage),
         q |-> Product(Each("M", "blank"), Each("short", "mixed"), Each("m", "m"))]]]
=============================================================================
