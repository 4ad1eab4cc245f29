---------------------------- MODULE MCPublishScreen ----------------------------
(* Instances of PublishScreen small enough for TLC. *)
EXTENDS PublishScreen, TLC

CONSTANTS g1, nl, fr

\* A live page to rewrite and a new one, or a unit without a name in its place.
TwoContents ==
    {[class |-> (<<g1, nl>> :> "CHANGED" @@ <<g1, fr>> :> "NEW"), dropped |-> FALSE],
     [class |-> (<<g1, nl>> :> "CHANGED" @@ <<g1, fr>> :> "OTHER"), dropped |-> TRUE]}

===============================================================================
