---------------------------- MODULE MCDataScreen ----------------------------
(* Instances of DataScreen for TLC. *)
EXTENDS DataScreen, TLC

CONSTANTS p, q

Row(g, u) == [gtin |-> g, url |-> u]
MCLists == {<<Row(p, "site"), Row(q, "blank")>>}
MCByHand == <<Row(q, "blank")>>
MCExports == [first |-> [parses |-> TRUE, carries |-> {p, q}, gaps |-> {}, imageless |-> {}],
              second |-> [parses |-> TRUE, carries |-> {p, q}, gaps |-> {q}, imageless |-> {}],
              broken |-> [parses |-> FALSE, carries |-> {}, gaps |-> {}, imageless |-> {}]]
MCMappings == {[reads |-> TRUE, videos |-> [g \in {p, q} |-> "missing"]],
               [reads |-> TRUE, videos |-> (p :> "two" @@ q :> "confirmed")]}
=============================================================================
