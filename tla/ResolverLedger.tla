---------------------------- MODULE ResolverLedger ----------------------------
(***************************************************************************)
(* What publishing promises about the resolver, whatever steps it takes:   *)
(* the durable state claims a link for a language only after the record    *)
(* got it, and a record is never re-pointed so that a claimed language is  *)
(* lost.                                                                   *)
(***************************************************************************)
CONSTANTS Products, Langs

VARIABLES
    pointed,    \* pointed[g]: languages g's record links to our pages
    claimed     \* claimed[g]: languages state.json says have their link

Init ==
    /\ pointed = [g \in Products |-> {}]
    /\ claimed = [g \in Products |-> {}]

Point(g, languages) ==
    /\ claimed[g] \subseteq languages
    /\ pointed' = [pointed EXCEPT ![g] = languages]
    /\ UNCHANGED claimed

\* One atomic replacement of the state file; it may also drop claims, which a
\* take-down does.
Claim(claims) ==
    /\ \A g \in Products : claims[g] \subseteq pointed[g]
    /\ claimed' = claims
    /\ UNCHANGED pointed

Next ==
    \/ \E g \in Products, languages \in SUBSET Langs : Point(g, languages)
    \/ \E claims \in [Products -> SUBSET Langs] : Claim(claims)

Spec == Init /\ [][Next]_<<pointed, claimed>>
===============================================================================
