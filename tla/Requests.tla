------------------------------- MODULE Requests -------------------------------
(***************************************************************************)
(* The retry loop both API clients wrap around each HTTP call.  A network  *)
(* error or a 5xx answer says nothing about whether the request was        *)
(* carried out; 429 and the other 4xx answers say that it was not.         *)
(***************************************************************************)
EXTENDS Naturals

CONSTANTS
    MaxTries429,    \* _RETRY_429_MAX_ATTEMPTS
    MaxTries5xx     \* _RETRY_5XX_MAX_ATTEMPTS

ASSUME RequestsAssumption ==
    MaxTries429 \in Nat \ {0} /\ MaxTries5xx \in Nat \ {0}

VARIABLES
    tries429,   \* attempts_429 of the call being made
    tries5xx    \* attempts_5xx of the call being made

tryVars == <<tries429, tries5xx>>

TriesTypeOK == tries429 \in 0..MaxTries429 - 1 /\ tries5xx \in 0..MaxTries5xx - 1

FreshTries == tries429' = 0 /\ tries5xx' = 0

\* Mutated form: a network error is retried without being counted.
UncountedTrouble(stay, raised) == stay /\ UNCHANGED tryVars

\* The request may have been carried out all the same.
Troubled(stay, raised) ==
    IF tries5xx + 1 >= MaxTries5xx
    THEN raised /\ FreshTries
    ELSE stay /\ tries5xx' = tries5xx + 1 /\ UNCHANGED tries429

RateLimited(stay, raised) ==
    IF tries429 + 1 >= MaxTries429
    THEN raised /\ FreshTries
    ELSE stay /\ tries429' = tries429 + 1 /\ UNCHANGED tries5xx

\* The request was not carried out.
Declined(stay, raised) == RateLimited(stay, raised) \/ (raised /\ FreshTries)

\* An error the loop does not catch, such as a connection lost while sending.
Aborted(raised) == raised /\ FreshTries

Answered(done) == done /\ FreshTries

\* One attempt at a request that only reads.
Reads(stay, done, raised) ==
    Answered(done) \/ Troubled(stay, raised) \/ Declined(stay, raised)

\* One attempt at a request that writes: the effect comes with an answer, with
\* none, or does not come.
Writes(effect, nothing, stay, done, raised) ==
    \/ effect /\ (Answered(done) \/ Troubled(stay, raised) \/ Aborted(raised))
    \/ nothing /\ (Troubled(stay, raised) \/ Declined(stay, raised))
===============================================================================
