------------------------------ MODULE MCVideos ------------------------------
(* A small instance of Videos: two languages, two files, two products, of  *)
(* which one is in the batch.                                              *)
EXTENDS Videos

Line(l, f, g) == [language |-> l, file |-> f, given |-> g]

(* Nothing signed off, and one product signed off in both languages        *)
Empty == [r \in {<<"nl", "a">>, <<"nl", "b">>, <<"fr", "a">>} |-> Unset]
Signed == [r \in {<<"nl", "a">>, <<"nl", "b">>, <<"fr", "a">>} |->
              IF r = <<"nl", "b">> THEN Unset ELSE "p"]
ThreeClients == {<<"strict", Empty>>, <<"bare", Signed>>, <<"off", Empty>>}

(* By hand an answer is taken back, and a second file is given to a product *)
Hands == {<<<<"nl", "a">>, Unset>>, <<<<"nl", "b">>, "p">>}

(* A sheet that gives one product two files, and answers twice for one of  *)
(* them; and one that answers for every row, with lines of no use          *)
TwoFiles == <<Line("nl", "b", Skip), Line("nl", "a", "p"), Line("nl", "b", "p"),
              Line("fr", "a", "p"), Line("fr", "b", "p")>>
Whole == <<Line("nl", "a", "p"), Line("nl", "b", Skip), Line("fr", "a", "p"),
           Line("other", "a", "p"), Line("nl", "b", Blank), Line("fr", "a", Junk)>>
TwoSheets == {TwoFiles, Whole}
=============================================================================
