----------------------------- MODULE MCPublishing -----------------------------
(* Instances of Publishing small enough for TLC. *)
EXTENDS Publishing

NoForeign == {}

\* The default language's slug is taken by a page of somebody else.
DefaultForeign == Gtins \X {DefaultLanguage}
===============================================================================
