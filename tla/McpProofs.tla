------------------------------ MODULE McpProofs ------------------------------
(***************************************************************************)
(* What the tool calls of the MCP servers may write, for any number of     *)
(* calls side by side, any sites, configurations and limits.               *)
(***************************************************************************)
EXTENDS McpServers, TLAPS

(* The requests each tool makes                                            *)
StepsOf(tool) ==
    IF tool = "records" THEN {"none", "send"}
    ELSE IF tool = "page" THEN {"none", "by id", "by slug", "by gtin", "write", "acf"}
    ELSE {"none", "find", "discard", "upload", "drop", "finalise"}

(* A call that came in makes the requests of its tool, once every gate of  *)
(* what it was asked about is passed                                       *)
Proper(call) ==
    /\ call.step \in StepsOf(call.input.tool)
    /\ call.status = "asking" => call.step = "none" /\ call.target = 0
    /\ call.status = "working" => GatesOf(call.input, call.config) \subseteq call.accepted

CallsAreProper == \A c \in Calls : calls[c] # Unused => Proper(calls[c])

(* A call that names no page is to write text of its language, if the      *)
(* client is configured so                                                 *)
InLanguage(call, page) ==
    call.config.multilingual /\ call.input.id = 0 => page.language = call.input.language

(* A call writes to a page that is its own product's, or that it did not   *)
(* ask about, and of its language; it deletes what it measured short and   *)
(* knows to be ours                                                        *)
PageInHand(call) ==
    /\ call.step \in {"by id", "by slug", "by gtin"} => call.target = 0
    /\ call.step \in {"write", "acf"} /\ (call.step = "acf" \/ call.target # 0) =>
          /\ call.target \in PageIds /\ pages[call.target].there
          /\ call.input.gtin \in {"none", pages[call.target].gtin}
          /\ InLanguage(call, pages[call.target])

Fragment(m) == ~media[m].whole /\ (media[m].hashed \/ media[m].by # 0)

MediaInHand(call) ==
    call.step \in {"discard", "drop"} => call.target \in MediaIds /\ Fragment(call.target)

HandsAreClean ==
    \A c \in Calls : calls[c] # Unused => PageInHand(calls[c]) /\ MediaInHand(calls[c])

(* Who wrote something has come in                                         *)
Wrote(c) ==
    \/ \E e \in Environments, g \in Gtins : records[e][g] = c
    \/ \E p \in PageIds : c \in {pages[p].body, pages[p].fields}
    \/ \E m \in MediaIds : media[m].by = c

WritersAreKnown == \A c \in Calls : Wrote(c) => calls[c] # Unused

Inductive ==
    /\ TypeOK /\ CallsAreProper /\ HandsAreClean
    /\ WritersAreKnown /\ WritesAreConfirmed /\ PagesKeepTheirLanguage

-----------------------------------------------------------------------------
(* What an attempt of call c may do to the other side                      *)
RecordsMove(c) ==
    /\ records' \in [Environments -> [Gtins -> {0} \cup Calls]]
    /\ \A e \in Environments, g \in Gtins :
          \/ records'[e][g] = records[e][g]
          \/ /\ records'[e][g] = c
             /\ calls[c].input.tool = "records" /\ calls[c].config.environment = e

PageMoves(c, p) ==
    \/ pages'[p] = pages[p]
    \/ /\ ~pages[p].there /\ pages'[p].there
       /\ calls[c].input.gtin \in {"none", pages'[p].gtin} /\ InLanguage(calls[c], pages'[p])
       /\ pages'[p].body = c /\ pages'[p].fields \in {c, pages[p].fields}
    \/ /\ pages[p].there /\ pages'[p].there /\ pages'[p].gtin = pages[p].gtin
       /\ pages'[p].language = pages[p].language /\ InLanguage(calls[c], pages[p])
       /\ calls[c].input.gtin \in {"none", pages[p].gtin}
       /\ pages'[p].body \in {c, pages[p].body} /\ pages'[p].fields \in {c, pages[p].fields}

PagesMove(c) == pages' \in [PageIds -> Page] /\ \A p \in PageIds : PageMoves(c, p)

MediumMoves(c, m) ==
    \/ media'[m] = media[m]
    \/ media[m] = NoMedia /\ media'[m].by = c
    \/ /\ media'[m].whole = media[m].whole /\ media'[m].by = media[m].by
       /\ media[m].hashed => media'[m].hashed
       /\ media[m].there /\ ~media'[m].there => Fragment(m)

MediaMove(c) == media' \in [MediaIds -> Media] /\ \A m \in MediaIds : MediumMoves(c, m)

(* What becomes of the call itself                                         *)
Continues(call, next) ==
    /\ next \in Call
    /\ next.input = call.input /\ next.config = call.config /\ next.accepted = call.accepted
    /\ next.before = call.before
    /\ next.step \in StepsOf(call.input.tool)
    /\ next.status \in {"working", "ok", "failed", "gone"}
    /\ next.status = "working" => call.status = "working"

(* A call of any tool may have no request to make                          *)
LEMMA ToolsHaveSteps ==
    ASSUME NEW call \in Call
    PROVE  "none" \in StepsOf(call.input.tool)
  BY DEF StepsOf

(* The ways in which a request can go                                      *)
LEMMA RequestsContinue ==
    ASSUME NEW call \in Call, call.status = "working", Proper(call)
    PROVE  /\ \A step \in StepsOf(call.input.tool) \cap Steps :
                 Continues(call, GoTo(call, step))
           /\ \A status \in {"ok", "failed", "gone"} : Continues(call, Over(call, status))
           /\ Continues(call, Failed(call)) /\ Continues(call, Succeeded(call))
           /\ Continues(call, Retried(call)) /\ Continues(call, Throttled(call))
           /\ Continues(call, Renewed(call))
<1>. USE McpCallsAssumption
<1>1. 0 \in 0..(Max429 - 1) /\ 0 \in 0..(Max5xx - 1)
  OBVIOUS
<1>2. ASSUME NEW step \in StepsOf(call.input.tool) \cap Steps
      PROVE  Continues(call, GoTo(call, step))
  BY <1>1 DEF Continues, GoTo, Call
<1>3. ASSUME NEW status \in {"ok", "failed", "gone"} PROVE Continues(call, Over(call, status))
  BY <1>1, ToolsHaveSteps DEF Continues, Over, GoTo, Call, Steps
<1>4. Continues(call, Failed(call)) /\ Continues(call, Succeeded(call))
  BY <1>3 DEF Failed, Succeeded
<1>5. Continues(call, Retried(call))
  <2>1. CASE call.down + 1 >= Max5xx
    BY <1>4, <2>1 DEF Retried
  <2>2. CASE ~ (call.down + 1 >= Max5xx)
    <3>1. call.down + 1 \in 0..(Max5xx - 1)
      BY <2>2 DEF Call
    <3>. QED
      BY <2>2, <3>1 DEF Retried, Continues, Call, Proper
  <2>. QED
    BY <2>1, <2>2
<1>6. Continues(call, Throttled(call))
  <2>1. CASE call.busy + 1 >= Max429
    BY <1>4, <2>1 DEF Throttled
  <2>2. CASE ~ (call.busy + 1 >= Max429)
    <3>1. call.busy + 1 \in 0..(Max429 - 1)
      BY <2>2 DEF Call
    <3>. QED
      BY <2>2, <3>1 DEF Throttled, Continues, Call, Proper
  <2>. QED
    BY <2>1, <2>2
<1>7. Continues(call, Renewed(call))
  <2>1. Continues(call, [call EXCEPT !.renewed = TRUE])
    BY DEF Continues, Call, Proper
  <2>. QED
    BY <1>4, <2>1 DEF Renewed
<1>. QED
  BY <1>2, <1>3, <1>4, <1>5, <1>6, <1>7

-----------------------------------------------------------------------------
(* What a call has in hand stays what it is, whoever moves                 *)
LEMMA HandsStay ==
    ASSUME Inductive, NEW c \in Calls, NEW call \in Call
    PROVE  /\ PagesMove(c) /\ PageInHand(call) => PageInHand(call)'
           /\ MediaMove(c) /\ MediaInHand(call) => MediaInHand(call)'
<1>1. ASSUME PagesMove(c), PageInHand(call) PROVE PageInHand(call)'
  BY <1>1 DEF PageInHand, PagesMove, PageMoves, InLanguage
<1>2. ASSUME MediaMove(c), NEW m \in MediaIds, Fragment(m) PROVE Fragment(m)'
  <2>1. media[m] # NoMedia
    BY <1>2 DEF Fragment, NoMedia
  <2>2. MediumMoves(c, m)
    BY <1>2 DEF MediaMove
  <2>. QED
    BY <1>2, <2>1, <2>2 DEF MediumMoves, Fragment
<1>3. ASSUME MediaMove(c), MediaInHand(call) PROVE MediaInHand(call)'
  BY <1>2, <1>3 DEF MediaInHand
<1>. QED
  BY <1>1, <1>3

(* What is left alone moves as it may                                      *)
LEMMA UntouchedMoves ==
    ASSUME Inductive, NEW c \in Calls
    PROVE  /\ UNCHANGED records => RecordsMove(c)
           /\ UNCHANGED pages => PagesMove(c)
           /\ UNCHANGED media => MediaMove(c)
  BY DEF Inductive, TypeOK, RecordsMove, PagesMove, PageMoves, MediaMove, MediumMoves

(* A call at work is one                                                   *)
LEMMA AtWork ==
    ASSUME Inductive, NEW c \in Calls, Working(c)
    PROVE  /\ calls[c] \in Call /\ calls[c] # Unused /\ calls[c].status = "working"
           /\ Proper(calls[c]) /\ PageInHand(calls[c]) /\ MediaInHand(calls[c])
<1>1. calls[c] # Unused
  BY DEF Working, Unused
<1>. QED
  BY <1>1 DEF Inductive, TypeOK, CallsTypeOK, Working, CallsAreProper, HandsAreClean

(* The outcome of an attempt: the call is next, and the rest has moved     *)
Outcome(c, next) ==
    /\ Becomes(c, next)
    /\ Continues(calls[c], next) /\ PageInHand(next)' /\ MediaInHand(next)'
    /\ RecordsMove(c) /\ PagesMove(c) /\ MediaMove(c)

(* A request that is sent again, given up or the last                      *)
LEMMA GoesOnOrEnds ==
    ASSUME Inductive, NEW c \in Calls, Working(c), NEW next,
           next \in {Retried(calls[c]), Throttled(calls[c]), Renewed(calls[c]),
                     Failed(calls[c]), Succeeded(calls[c])},
           Becomes(c, next), RecordsMove(c), PagesMove(c), MediaMove(c)
    PROVE  Outcome(c, next)
<1>. PICK call \in Call : call = calls[c]
  BY AtWork
<1>1. Continues(call, next)
  BY AtWork, RequestsContinue
<1>2. \/ next.step = "none"
      \/ /\ next.step = call.step /\ next.target = call.target
         /\ next.input = call.input /\ next.config = call.config
  BY AtWork DEF Retried, Throttled, Renewed, Failed, Succeeded, Over, GoTo, Call
<1>3. PageInHand(call)' /\ MediaInHand(call)'
  <2>1. PageInHand(call) /\ MediaInHand(call)
    BY AtWork
  <2>. QED
    BY <2>1, HandsStay
<1>4. PageInHand(next)' /\ MediaInHand(next)'
  <2>1. CASE next.step = "none"
    BY <2>1 DEF PageInHand, MediaInHand
  <2>2. ASSUME NEW other, next.step = other.step, next.target = other.target,
               next.input = other.input, next.config = other.config,
               PageInHand(other)', MediaInHand(other)'
        PROVE  PageInHand(next)' /\ MediaInHand(next)'
    BY <2>2 DEF PageInHand, MediaInHand, InLanguage
  <2>. QED
    BY <1>2, <1>3, <2>1, <2>2
<1>. QED
  BY <1>1, <1>4 DEF Outcome

(* A request that is followed by another which has nothing in hand         *)
LEMMA GoesToNext ==
    ASSUME Inductive, NEW c \in Calls, Working(c), NEW next,
           Becomes(c, next), RecordsMove(c), PagesMove(c), MediaMove(c),
           Continues(calls[c], next), next.step \notin {"acf", "discard", "drop"},
           next.step \in {"by id", "by slug", "by gtin", "write"} => next.target = 0
    PROVE  Outcome(c, next)
  BY DEF Outcome, PageInHand, MediaInHand

-----------------------------------------------------------------------------
(* gs1-nl                                                                  *)
LEMMA RecordsWrittenMoves ==
    ASSUME Inductive, NEW c \in Calls, Working(c), calls[c].step = "send",
           NEW part, RecordsWritten(c, part)
    PROVE  RecordsMove(c) /\ PagesMove(c) /\ MediaMove(c)
<1>1. calls[c].input.tool = "records"
  BY AtWork DEF Proper, StepsOf
<1>2. records \in [Environments -> [Gtins -> {0} \cup Calls]]
  BY DEF Inductive, TypeOK
<1>3. RecordsMove(c)
  BY <1>1, <1>2 DEF RecordsWritten, RecordsMove
<1>. QED
  BY <1>3, UntouchedMoves DEF RecordsWritten

(* Every attempt at a bulk write has an outcome                            *)
LEMMA RecordStepsMove ==
    ASSUME Inductive, NEW c \in Calls, Working(c),
           SendChunk(c) \/ SendChunkFails(c) \/ TokenRefused(c)
    PROVE  \E next : Outcome(c, next)
<1>1. CASE SendChunk(c)
  <2>1. CASE Untouched /\ Becomes(c, Succeeded(calls[c]))
    BY <2>1, UntouchedMoves, GoesOnOrEnds DEF Untouched
  <2>2. CASE /\ RecordsWritten(c, Chunk(calls[c].input.entries, calls[c].sent))
             /\ Becomes(c, [GoTo(calls[c], "send") EXCEPT !.sent = calls[c].sent + BatchSize])
    <3>. DEFINE next == [GoTo(calls[c], "send") EXCEPT !.sent = calls[c].sent + BatchSize]
    <3>1. calls[c].step = "send" /\ calls[c] \in Call /\ Proper(calls[c])
      BY <1>1, AtWork DEF SendChunk
    <3>2. Continues(calls[c], GoTo(calls[c], "send"))
      BY <3>1, AtWork, RequestsContinue DEF Proper, Steps
    <3>3. calls[c].sent + BatchSize \in Nat
      BY <3>1, McpServersAssumption DEF Call
    <3>4. Continues(calls[c], next) /\ next.step = "send"
      BY <3>2, <3>3 DEF Continues, Call, GoTo
    <3>. QED
      BY <2>2, <3>1, <3>4, RecordsWrittenMoves, GoesToNext
  <2>. QED
    BY <1>1, <2>1, <2>2 DEF SendChunk
<1>2. CASE SendChunkFails(c)
  <2>1. PICK part : RecordsWritten(c, part)
    BY <1>2 DEF SendChunkFails
  <2>2. RecordsMove(c) /\ PagesMove(c) /\ MediaMove(c)
    BY <1>2, <2>1, RecordsWrittenMoves DEF SendChunkFails
  <2>. QED
    BY <1>2, <2>2, GoesOnOrEnds DEF SendChunkFails
<1>3. CASE TokenRefused(c)
  BY <1>3, UntouchedMoves, GoesOnOrEnds DEF TokenRefused, Untouched
<1>. QED
  BY <1>1, <1>2, <1>3

-----------------------------------------------------------------------------
(* wordpress: pages                                                        *)
LEMMA LookUpMoves ==
    ASSUME Inductive, NEW c \in Calls, Working(c), LookUp(c)
    PROVE  \E next : Outcome(c, next)
<1>. PICK call \in Call : call = calls[c]
  BY AtWork
<1>1. RecordsMove(c) /\ PagesMove(c) /\ MediaMove(c) /\ UNCHANGED <<pages, media>>
  BY UntouchedMoves DEF LookUp, Untouched
<1>2. call.input.tool = "page" /\ Proper(call) /\ call.status = "working" /\ call.target = 0
  BY AtWork DEF LookUp, Proper, StepsOf, PageInHand
<1>3. ASSUME NEW step \in {"by slug", "by gtin", "write"}
      PROVE  Continues(call, GoTo(call, step)) /\ GoTo(call, step).step = step
             /\ GoTo(call, step).target = 0
  BY <1>2, RequestsContinue DEF StepsOf, Steps, GoTo, Call
<1>4. ASSUME NEW p \in PageIds, pages[p].there, InLanguage(call, pages[p]),
             Becomes(c, Found(call, p))
      PROVE  \E next : Outcome(c, next)
  <2>1. CASE Guarded(pages[p], call.input)
    BY <1>1, <1>4, <2>1, GoesOnOrEnds DEF Found
  <2>2. CASE ~Guarded(pages[p], call.input)
    <3>1. PICK next : next = [GoTo(call, "write") EXCEPT !.target = p]
      OBVIOUS
    <3>2. Continues(call, GoTo(call, "write"))
      BY <1>3
    <3>3. /\ Continues(call, next) /\ next.step = "write" /\ next.target = p
          /\ next.input = call.input /\ next.config = call.config
      <4>1. p \in Nat
        BY McpServersAssumption DEF PageIds
      <4>. QED
        BY <3>1, <3>2, <4>1 DEF Continues, GoTo, Call
    <3>4. PageInHand(next)' /\ MediaInHand(next)'
      BY <1>1, <1>4, <2>2, <3>3 DEF PageInHand, MediaInHand, Guarded, InLanguage
    <3>5. Becomes(c, next)
      BY <1>4, <2>2, <3>1 DEF Found
    <3>. QED
      BY <1>1, <3>3, <3>4, <3>5 DEF Outcome
  <2>. QED
    BY <2>1, <2>2
<1>5. ASSUME NEW step \in {"by slug", "by gtin", "write"}, Becomes(c, GoTo(call, step))
      PROVE  \E next : Outcome(c, next)
  BY <1>1, <1>3, <1>5, GoesToNext
<1>. QED
  <2>1. CASE call.step = "by id"
    <3>1. CASE call.input.id \in PageIds /\ pages[call.input.id].there
      <4>1. call.input.id # 0
        BY <3>1, McpServersAssumption DEF PageIds
      <4>2. Becomes(c, Found(call, call.input.id))
        BY <2>1, <3>1 DEF LookUp
      <4>. QED
        BY <1>4, <3>1, <4>1, <4>2 DEF InLanguage
    <3>2. CASE ~(call.input.id \in PageIds /\ pages[call.input.id].there)
      BY <1>5, <2>1, <3>2 DEF LookUp
    <3>. QED
      BY <3>1, <3>2
  <2>2. CASE call.step = "by slug"
    BY <1>4, <1>5, <2>2 DEF LookUp, InLanguage, Scope
  <2>3. CASE call.step = "by gtin"
    BY <1>4, <1>5, <2>3 DEF LookUp, InLanguage, Scope
  <2>. QED
    BY <2>1, <2>2, <2>3 DEF LookUp

(* A body that is written makes the page the call's own                    *)
LEMMA BodyMoves ==
    ASSUME Inductive, NEW c \in Calls, Working(c), calls[c].step = "write",
           NEW id \in WriteTargets(calls[c]), BodyWritten(c, id)
    PROVE  /\ RecordsMove(c) /\ PagesMove(c) /\ MediaMove(c)
           /\ id \in PageIds /\ pages'[id].there /\ InLanguage(calls[c], pages'[id])
           /\ calls[c].input.gtin \in {"none", pages'[id].gtin}
<1>. PICK call \in Call : call = calls[c]
  BY AtWork
<1>. DEFINE input == call.input
            old == pages[id]
            new == pages'[id]
<1>1. call.input.tool = "page" /\ PageInHand(call)
  BY AtWork DEF Proper, StepsOf
<1>2. /\ input.slug \in Gtins /\ input.gtin \in Gtins \cup {"none"}
      /\ Scope(call) \in Languages
  <2>1. input \in Inputs
    BY DEF Call
  <2>. QED
    BY <1>1, <2>1, McpServersAssumption DEF Scope
<1>3. /\ id \in PageIds
      /\ old.there => input.gtin \in {"none", old.gtin} /\ InLanguage(call, old)
  <2>1. CASE call.target # 0
    BY <1>1, <2>1 DEF PageInHand, WriteTargets
  <2>2. CASE call.target = 0
    <3>1. id \in PageIds /\ (old.there <=> id < id)
      BY <2>2 DEF WriteTargets
    <3>2. id \in Nat
      BY <3>1, McpServersAssumption DEF PageIds
    <3>. QED
      BY <3>1, <3>2
  <2>. QED
    BY <2>1, <2>2
<1>4. pages \in [PageIds -> Page]
  BY DEF Inductive, TypeOK
<1>5. old \in Page
  BY <1>3, <1>4
<1>6. PICK page \in Page :
         /\ page.there /\ page.body = c /\ page.fields = old.fields
         /\ page.language = (IF old.there THEN old.language ELSE Scope(call))
         /\ page.gtin = (IF input.gtin # "none" THEN input.gtin ELSE old.gtin)
         /\ pages' = [pages EXCEPT ![id] = page]
  <2>. DEFINE language == IF old.there THEN old.language ELSE Scope(call)
              slug == IF Taken(input.slug, language, id) THEN "suffixed" ELSE input.slug
  <2>1. PICK page : page =
           [there |-> TRUE, language |-> language, slug |-> slug,
            gtin |-> IF input.gtin # "none" THEN input.gtin ELSE old.gtin,
            body |-> c, fields |-> old.fields]
    OBVIOUS
  <2>2. language \in Languages /\ slug \in Gtins \cup {"suffixed"}
    BY <1>2, <1>5 DEF Page
  <2>3. page \in Page
    BY <1>2, <1>5, <2>1, <2>2 DEF Page
  <2>4. pages' = [pages EXCEPT ![id] = page]
    BY <2>1 DEF BodyWritten
  <2>. QED
    BY <2>1, <2>3, <2>4
<1>7. new = page /\ pages' \in [PageIds -> Page] /\ \A p \in PageIds \ {id} : pages'[p] = pages[p]
  BY <1>3, <1>4, <1>6
<1>8. PageMoves(c, id) /\ InLanguage(call, new)
  <2>1. InLanguage(call, new)
    BY <1>3, <1>6, <1>7 DEF InLanguage, Scope
  <2>. QED
    BY <1>3, <1>6, <1>7, <2>1 DEF PageMoves
<1>9. PagesMove(c)
  BY <1>7, <1>8 DEF PagesMove, PageMoves
<1>. QED
  BY <1>2, <1>3, <1>6, <1>7, <1>8, <1>9, UntouchedMoves DEF BodyWritten

(* Every attempt at a page's body has an outcome                           *)
LEMMA PageWritesMove ==
    ASSUME Inductive, NEW c \in Calls, Working(c), WritePage(c) \/ WritePageFails(c)
    PROVE  \E next : Outcome(c, next)
<1>. PICK call \in Call : call = calls[c]
  BY AtWork
<1>1. call.step = "write" /\ call.input.tool = "page" /\ Proper(call) /\ call.status = "working"
  BY AtWork DEF WritePage, WritePageFails, Proper, StepsOf
<1>2. CASE WritePage(c)
  <2>1. PICK id \in WriteTargets(calls[c]) :
           BodyWritten(c, id) /\ Becomes(c, [AfterBody(calls[c]) EXCEPT !.target = id])
    BY <1>2 DEF WritePage
  <2>2. /\ RecordsMove(c) /\ PagesMove(c) /\ MediaMove(c) /\ id \in PageIds
        /\ InLanguage(call, pages'[id])
        /\ pages'[id].there /\ call.input.gtin \in {"none", pages'[id].gtin}
    BY <1>1, <2>1, BodyMoves
  <2>3. PICK next : next = [AfterBody(call) EXCEPT !.target = id]
    OBVIOUS
  <2>4. PICK after : after = AfterBody(call)
    OBVIOUS
  <2>5. Continues(call, after) /\ after.step \in {"acf", "none"}
    <3>1. Continues(call, GoTo(call, "acf")) /\ Continues(call, Succeeded(call))
      BY <1>1, RequestsContinue DEF StepsOf, Steps
    <3>. QED
      BY <2>4, <3>1 DEF AfterBody, GoTo, Succeeded, Over, Call
  <2>6. /\ Continues(call, next) /\ next.target = id /\ next.step \in {"acf", "none"}
        /\ next.input = call.input /\ next.config = call.config
    <3>1. id \in Nat
      BY <2>2, McpServersAssumption DEF PageIds
    <3>. QED
      BY <2>3, <2>4, <2>5, <3>1 DEF Continues, Call
  <2>7. PageInHand(next)' /\ MediaInHand(next)'
    BY <2>2, <2>6 DEF PageInHand, MediaInHand, InLanguage
  <2>. QED
    BY <2>1, <2>2, <2>3, <2>6, <2>7 DEF Outcome
<1>3. CASE WritePageFails(c)
  <2>1. RecordsMove(c) /\ PagesMove(c) /\ MediaMove(c)
    BY <1>1, <1>3, BodyMoves, UntouchedMoves DEF WritePageFails, Untouched
  <2>. QED
    BY <1>3, <2>1, GoesOnOrEnds DEF WritePageFails
<1>. QED
  BY <1>2, <1>3

(* Every attempt at a page's fields has an outcome                         *)
LEMMA FieldsMove ==
    ASSUME Inductive, NEW c \in Calls, Working(c), WriteAcf(c) \/ WriteAcfFails(c)
    PROVE  \E next : Outcome(c, next)
<1>1. ASSUME FieldsWritten(c) PROVE RecordsMove(c) /\ PagesMove(c) /\ MediaMove(c)
  <2>. PICK id : id = calls[c].target
    OBVIOUS
  <2>1. /\ id \in PageIds /\ pages[id].there
        /\ calls[c].input.gtin \in {"none", pages[id].gtin} /\ InLanguage(calls[c], pages[id])
    BY AtWork DEF WriteAcf, WriteAcfFails, PageInHand
  <2>2. pages \in [PageIds -> Page]
    BY DEF Inductive, TypeOK
  <2>3. pages' = [pages EXCEPT ![id] = [pages[id] EXCEPT !.fields = c]]
    BY <1>1 DEF FieldsWritten
  <2>4. [pages[id] EXCEPT !.fields = c] \in Page
    BY <2>1, <2>2 DEF Page
  <2>5. pages' \in [PageIds -> Page] /\ \A p \in PageIds \ {id} : pages'[p] = pages[p]
    BY <2>1, <2>2, <2>3, <2>4
  <2>6. PageMoves(c, id)
    BY <2>1, <2>2, <2>3 DEF PageMoves, Page
  <2>. QED
    BY <1>1, <2>5, <2>6, UntouchedMoves DEF FieldsWritten, PagesMove, PageMoves
<1>2. RecordsMove(c) /\ PagesMove(c) /\ MediaMove(c)
  BY <1>1, UntouchedMoves DEF WriteAcf, WriteAcfFails, Untouched
<1>. QED
  BY <1>2, GoesOnOrEnds DEF WriteAcf, WriteAcfFails

-----------------------------------------------------------------------------
(* wordpress: files                                                        *)
(* A call goes on with attachment m, or ends with it                       *)
GoesOnWith(call, step, m) == [GoTo(call, step) EXCEPT !.target = m]
EndsWith(call, m) == [Succeeded(call) EXCEPT !.target = m]

(* A call goes on with an attachment, or ends with it                      *)
LEMMA MediaHandled ==
    ASSUME NEW call \in Call, Proper(call), call.status = "working",
           call.step \in {"find", "discard", "upload", "drop", "finalise"}, NEW m \in Nat
    PROVE  /\ \A step \in {"discard", "upload", "drop", "finalise"} :
                 /\ Continues(call, GoesOnWith(call, step, m))
                 /\ GoesOnWith(call, step, m).step = step
                 /\ GoesOnWith(call, step, m).target = m
           /\ Continues(call, EndsWith(call, m)) /\ EndsWith(call, m).step = "none"
<1>1. call.input.tool = "media"
  BY McpCallsAssumption DEF Proper, StepsOf, Call
<1>2. ASSUME NEW step \in {"discard", "upload", "drop", "finalise"}, NEW next,
             next = [GoTo(call, step) EXCEPT !.target = m]
      PROVE  Continues(call, next) /\ next.step = step /\ next.target = m
  <2>1. Continues(call, GoTo(call, step))
    BY <1>1, RequestsContinue DEF StepsOf, Steps
  <2>. QED
    BY <1>2, <2>1 DEF Continues, GoTo, Call
<1>3. ASSUME NEW next, next = [Succeeded(call) EXCEPT !.target = m]
      PROVE  Continues(call, next) /\ next.step = "none"
  <2>1. Continues(call, Succeeded(call))
    BY RequestsContinue
  <2>. QED
    BY <1>3, <2>1 DEF Continues, Succeeded, Over, GoTo, Call
<1>. QED
  BY <1>2, <1>3 DEF GoesOnWith, EndsWith

(* Every look for an attachment has an outcome                             *)
LEMMA FindMediaMoves ==
    ASSUME Inductive, NEW c \in Calls, Working(c), FindMedia(c)
    PROVE  \E next : Outcome(c, next)
<1>. PICK call \in Call : call = calls[c]
  BY AtWork
<1>1. RecordsMove(c) /\ PagesMove(c) /\ MediaMove(c) /\ UNCHANGED media
  BY UntouchedMoves DEF FindMedia, Untouched
<1>2. call.step = "find" /\ Proper(call) /\ call.status = "working"
  BY AtWork DEF FindMedia
<1>3. CASE Becomes(c, GoTo(call, "upload"))
  <2>1. Continues(call, GoTo(call, "upload")) /\ GoTo(call, "upload").step = "upload"
    BY <1>2, RequestsContinue, McpCallsAssumption DEF Proper, StepsOf, Steps, GoTo, Call
  <2>. QED
    BY <1>1, <1>3, <2>1, GoesToNext
<1>4. ASSUME NEW m \in MediaIds, Becomes(c, [Succeeded(call) EXCEPT !.target = m])
      PROVE  \E next : Outcome(c, next)
  <2>1. PICK next : next = EndsWith(call, m)
    OBVIOUS
  <2>2. m \in Nat
    BY McpServersAssumption DEF MediaIds
  <2>3. Continues(call, next) /\ next.step = "none"
    BY <1>2, <2>1, <2>2, MediaHandled
  <2>4. PageInHand(next)' /\ MediaInHand(next)'
    BY <2>3 DEF PageInHand, MediaInHand
  <2>. QED
    BY <1>1, <1>4, <2>1, <2>3, <2>4 DEF Outcome, EndsWith
<1>5. ASSUME NEW m \in MediaIds, Fragment(m),
             Becomes(c, [GoTo(call, "discard") EXCEPT !.target = m])
      PROVE  \E next : Outcome(c, next)
  <2>1. PICK next : next = GoesOnWith(call, "discard", m)
    OBVIOUS
  <2>2. m \in Nat
    BY McpServersAssumption DEF MediaIds
  <2>3. Continues(call, next) /\ next.step = "discard" /\ next.target = m
    BY <1>2, <2>1, <2>2, MediaHandled
  <2>4. PageInHand(next)' /\ MediaInHand(next)'
    BY <1>1, <1>5, <2>3 DEF PageInHand, MediaInHand, Fragment
  <2>. QED
    BY <1>1, <1>5, <2>1, <2>3, <2>4 DEF Outcome, GoesOnWith
<1>6. CASE Becomes(c, Failed(call))
  BY <1>1, <1>6, GoesOnOrEnds
<1>7. ASSUME NEW m \in MediaIds, media[m].there, media[m].slugged,
             NEW size \in Sizes(media[m]), size = "short", media[m].hashed
      PROVE  Fragment(m)
  BY <1>7 DEF Sizes, Fragment
<1>. QED
  BY <1>3, <1>4, <1>5, <1>6, <1>7 DEF FindMedia

(* What is uploaded, deleted and given its slug                            *)
LEMMA DeletedMoves ==
    ASSUME Inductive, NEW c \in Calls, Working(c), calls[c].step \in {"discard", "drop"},
           Deleted(c)
    PROVE  RecordsMove(c) /\ PagesMove(c) /\ MediaMove(c)
<1>. PICK m : m = calls[c].target
  OBVIOUS
<1>1. m \in MediaIds /\ Fragment(m)
  BY AtWork DEF MediaInHand
<1>2. media \in [MediaIds -> Media]
  BY DEF Inductive, TypeOK
<1>3. PICK gone : gone = [media[m] EXCEPT !.there = FALSE, !.slugged = FALSE]
  OBVIOUS
<1>4. gone \in Media /\ gone.whole = media[m].whole /\ gone.by = media[m].by
      /\ gone.hashed = media[m].hashed
  BY <1>1, <1>2, <1>3 DEF Media
<1>5. media' = [media EXCEPT ![m] = gone]
  BY <1>1, <1>2, <1>3 DEF Deleted, Media
<1>6. media' \in [MediaIds -> Media] /\ media'[m] = gone
      /\ \A n \in MediaIds \ {m} : media'[n] = media[n]
  BY <1>1, <1>2, <1>4, <1>5
<1>7. MediaMove(c)
  BY <1>1, <1>4, <1>6 DEF MediaMove, MediumMoves
<1>. QED
  BY <1>7, UntouchedMoves DEF Deleted

(* A stored file takes a free id                                           *)
LEMMA StoredMoves ==
    ASSUME Inductive, NEW c \in Calls, NEW m \in FreeMedia, NEW whole \in BOOLEAN,
           Stored(c, m, whole)
    PROVE  /\ RecordsMove(c) /\ PagesMove(c) /\ MediaMove(c)
           /\ m \in MediaIds /\ (~whole => Fragment(m)')
<1>1. m \in MediaIds /\ media[m] = NoMedia
  BY McpServersAssumption DEF FreeMedia, MediaIds
<1>2. media \in [MediaIds -> Media]
  BY DEF Inductive, TypeOK
<1>3. PICK new : new = [there |-> TRUE, slugged |-> FALSE, whole |-> whole,
                        hashed |-> FALSE, by |-> c]
  OBVIOUS
<1>4. new \in Media /\ new.by = c /\ new.whole = whole
  BY <1>3 DEF Media
<1>5. media' = [media EXCEPT ![m] = new]
  BY <1>3 DEF Stored
<1>6. media' \in [MediaIds -> Media] /\ media'[m] = new
      /\ \A n \in MediaIds \ {m} : media'[n] = media[n]
  BY <1>1, <1>2, <1>4, <1>5
<1>7. MediaMove(c)
  BY <1>1, <1>4, <1>6 DEF MediaMove, MediumMoves
<1>8. ~whole => Fragment(m)'
  <2>1. c # 0
    BY McpCallsAssumption DEF Calls
  <2>. QED
    BY <1>4, <1>6, <2>1 DEF Fragment
<1>. QED
  BY <1>1, <1>7, <1>8, UntouchedMoves DEF Stored

(* A slug goes to the attachment in hand                                   *)
LEMMA FinalisedMoves ==
    ASSUME Inductive, NEW c \in Calls, Finalised(c)
    PROVE  RecordsMove(c) /\ PagesMove(c) /\ MediaMove(c)
<1>. PICK m : m = calls[c].target
  OBVIOUS
<1>1. media \in [MediaIds -> Media]
  BY DEF Inductive, TypeOK
<1>2. PICK taken \in BOOLEAN :
         media' = [media EXCEPT ![m].slugged = ~taken, ![m].hashed = TRUE]
  BY DEF Finalised
<1>3. CASE m \in MediaIds
  <2>1. PICK new : new = [media[m] EXCEPT !.slugged = ~taken, !.hashed = TRUE]
    OBVIOUS
  <2>2. new \in Media /\ new.whole = media[m].whole /\ new.by = media[m].by
        /\ new.hashed /\ new.there = media[m].there
    BY <1>1, <1>3, <2>1 DEF Media
  <2>3. media' = [media EXCEPT ![m] = new]
    BY <1>1, <1>2, <1>3, <2>1 DEF Media
  <2>4. media' \in [MediaIds -> Media] /\ media'[m] = new
        /\ \A n \in MediaIds \ {m} : media'[n] = media[n]
    BY <1>1, <1>3, <2>2, <2>3
  <2>5. MediaMove(c)
    BY <1>3, <2>2, <2>4 DEF MediaMove, MediumMoves
  <2>. QED
    BY <2>5, UntouchedMoves DEF Finalised
<1>4. CASE m \notin MediaIds
  <2>1. media' = media
    <3>1. DOMAIN media = MediaIds
      BY <1>1
    <3>2. media = [n \in DOMAIN media |-> media[n]]
      BY <1>1
    <3>3. media' = [n \in DOMAIN media |-> media[n]]
      BY <1>2, <1>4, <3>1
    <3>. QED
      BY <3>2, <3>3
  <2>. QED
    BY <2>1, UntouchedMoves DEF Finalised
<1>. QED
  BY <1>3, <1>4

(* Every attempt at a discard has an outcome                               *)
LEMMA DiscardMoves ==
    ASSUME Inductive, NEW c \in Calls, Working(c), Discard(c) \/ DiscardFails(c)
    PROVE  \E next : Outcome(c, next)
<1>. PICK call \in Call : call = calls[c]
  BY AtWork
<1>1. call.step = "discard" /\ Proper(call) /\ call.status = "working"
  BY AtWork DEF Discard, DiscardFails
<1>2. CASE Deleted(c) /\ Becomes(c, [GoTo(call, "upload") EXCEPT !.target = 0])
  <2>1. PICK next : next = GoesOnWith(call, "upload", 0)
    OBVIOUS
  <2>2. Continues(call, next) /\ next.step = "upload"
    BY <1>1, <2>1, MediaHandled
  <2>3. Becomes(c, next)
    BY <1>2, <2>1 DEF GoesOnWith
  <2>4. RecordsMove(c) /\ PagesMove(c) /\ MediaMove(c)
    BY <1>1, <1>2, DeletedMoves
  <2>. QED
    BY <2>2, <2>3, <2>4, GoesToNext
<1>3. CASE Untouched /\ Becomes(c, Failed(call))
  BY <1>3, UntouchedMoves, GoesOnOrEnds DEF Untouched
<1>4. CASE DiscardFails(c)
  <2>1. RecordsMove(c) /\ PagesMove(c) /\ MediaMove(c)
    BY <1>1, <1>4, DeletedMoves, UntouchedMoves DEF DiscardFails, Untouched
  <2>. QED
    BY <1>4, <2>1, GoesOnOrEnds DEF DiscardFails
<1>. QED
  BY <1>2, <1>3, <1>4 DEF Discard

(* Every attempt at an upload has an outcome                               *)
LEMMA UploadMoves ==
    ASSUME Inductive, NEW c \in Calls, Working(c), Upload(c) \/ UploadFails(c)
    PROVE  \E next : Outcome(c, next)
<1>. PICK call \in Call : call = calls[c]
  BY AtWork
<1>1. call.step = "upload" /\ Proper(call) /\ call.status = "working"
  BY AtWork DEF Upload, UploadFails
<1>2. CASE Upload(c)
  <2>1. PICK m \in FreeMedia, whole \in BOOLEAN :
           /\ Stored(c, m, whole)
           /\ \E size \in Sizes([whole |-> whole]) :
                 Becomes(c, [GoTo(call, IF size = "short" THEN "drop" ELSE "finalise")
                               EXCEPT !.target = m])
    BY <1>2 DEF Upload
  <2>2. PICK size \in Sizes([whole |-> whole]) :
           Becomes(c, [GoTo(call, IF size = "short" THEN "drop" ELSE "finalise")
                         EXCEPT !.target = m])
    BY <2>1
  <2>3. /\ RecordsMove(c) /\ PagesMove(c) /\ MediaMove(c)
        /\ m \in MediaIds /\ (~whole => Fragment(m)')
    BY <2>1, StoredMoves
  <2>4. PICK step \in {"drop", "finalise"} :
           step = (IF size = "short" THEN "drop" ELSE "finalise")
    OBVIOUS
  <2>5. PICK next : next = GoesOnWith(call, step, m)
    OBVIOUS
  <2>6. Continues(call, next) /\ next.step = step /\ next.target = m
    <3>1. m \in Nat
      BY <2>3, McpServersAssumption DEF MediaIds
    <3>. QED
      BY <1>1, <2>4, <2>5, <3>1, MediaHandled
  <2>7. PageInHand(next)' /\ MediaInHand(next)'
    <3>1. size = "short" => ~whole
      BY <2>2 DEF Sizes
    <3>. QED
      BY <2>3, <2>4, <2>6, <3>1 DEF PageInHand, MediaInHand
  <2>8. Becomes(c, next)
    BY <2>2, <2>4, <2>5 DEF GoesOnWith
  <2>. QED
    BY <2>3, <2>6, <2>7, <2>8 DEF Outcome
<1>3. CASE UploadFails(c)
  <2>1. RecordsMove(c) /\ PagesMove(c) /\ MediaMove(c)
    BY <1>3, StoredMoves, UntouchedMoves DEF UploadFails, Untouched
  <2>. QED
    BY <1>3, <2>1, GoesOnOrEnds DEF UploadFails
<1>. QED
  BY <1>2, <1>3

(* And every attempt at a deletion or a slug                               *)
LEMMA DropAndFinaliseMove ==
    ASSUME Inductive, NEW c \in Calls, Working(c), Drop(c) \/ Finalise(c) \/ FinaliseFails(c)
    PROVE  \E next : Outcome(c, next)
<1>1. Drop(c) => RecordsMove(c) /\ PagesMove(c) /\ MediaMove(c)
  BY DeletedMoves, UntouchedMoves DEF Drop, Untouched
<1>2. Finalise(c) \/ FinaliseFails(c) => RecordsMove(c) /\ PagesMove(c) /\ MediaMove(c)
  BY FinalisedMoves, UntouchedMoves DEF Finalise, FinaliseFails, Untouched
<1>3. \/ Becomes(c, Retried(calls[c])) \/ Becomes(c, Failed(calls[c]))
      \/ Becomes(c, Succeeded(calls[c]))
  BY DEF Drop, Finalise, FinaliseFails
<1>. QED
  BY <1>1, <1>2, <1>3, GoesOnOrEnds

(* Every attempt of a call has such an outcome                             *)
LEMMA AttemptsHaveOutcomes ==
    ASSUME Inductive, NEW c \in Calls, Attempt(c)
    PROVE  Working(c) /\ \E next : Outcome(c, next)
<1>1. Working(c)
  BY DEF Attempt
<1>2. CASE ReadFails(c) \/ TooMany(c)
  <2>1. RecordsMove(c) /\ PagesMove(c) /\ MediaMove(c)
    BY <1>2, UntouchedMoves DEF ReadFails, TooMany, Untouched
  <2>. QED
    BY <1>1, <1>2, <2>1, GoesOnOrEnds DEF ReadFails, TooMany
<1>. QED
  BY <1>1, <1>2, RecordStepsMove, LookUpMoves, PageWritesMove, FieldsMove, FindMediaMoves,
     DiscardMoves, UploadMoves, DropAndFinaliseMove DEF Attempt

-----------------------------------------------------------------------------
(* The invariant                                                           *)
LEMMA InitialServers == Init => Inductive
<1>. SUFFICES ASSUME Init PROVE Inductive
  OBVIOUS
<1>1. calls = [c \in Calls |-> Unused] /\ \A c \in Calls : calls[c] = Unused /\ c # 0
  BY McpCallsAssumption DEF Init, CallsInit, Calls
<1>2. CallsTypeOK
  BY <1>1, McpCallsAssumption DEF Init, CallsInit, CallsTypeOK
<1>3. PICK site \in Sites : pages = site.pages /\ media = site.media
  BY DEF Init
<1>4. TypeOK
  BY <1>2, <1>3, McpServersAssumption DEF Init, TypeOK
<1>5. ASSUME NEW c \in Calls PROVE ~Wrote(c)
  BY <1>1, <1>3, McpServersAssumption DEF Init, Wrote, Environments
<1>6. CallsAreProper /\ HandsAreClean /\ WritersAreKnown
  BY <1>1, <1>5 DEF CallsAreProper, HandsAreClean, WritersAreKnown
<1>7. WritesAreConfirmed
  BY <1>5 DEF WritesAreConfirmed, Wrote, Environments
<1>8. PagesKeepTheirLanguage
  BY <1>3, McpServersAssumption DEF PagesKeepTheirLanguage
<1>. QED
  BY <1>4, <1>6, <1>7, <1>8 DEF Inductive

(* What calls are and have written stays confirmed if new writes are       *)
LEMMA ConfirmedStays ==
    ASSUME Inductive, TypeOK',
           \A d \in Calls : calls[d] # Unused =>
               calls'[d] # Unused /\ calls[d].accepted \subseteq calls'[d].accepted,
           \A d \in Calls : Wrote(d)' => Wrote(d) \/
               (calls[d] # Unused /\ "intent" \in calls[d].accepted),
           \A d \in Calls, g \in Gtins : records'["production"][g] = d =>
               records["production"][g] = d \/
               (calls[d] # Unused /\ Gates \subseteq calls[d].accepted)
    PROVE  WritersAreKnown' /\ WritesAreConfirmed'
<1>1. WritersAreKnown'
  BY DEF Inductive, WritersAreKnown
<1>2. ASSUME NEW d \in Calls, Wrote(d)' PROVE "intent" \in calls'[d].accepted
  BY <1>2 DEF Inductive, WritersAreKnown, WritesAreConfirmed, Wrote
<1>3. ASSUME NEW d \in Calls, NEW g \in Gtins, records'["production"][g] = d
      PROVE  calls'[d].accepted = Gates
  <2>1. calls[d] # Unused /\ Gates \subseteq calls[d].accepted
    <3>1. CASE records["production"][g] = d
      BY <3>1 DEF Inductive, WritersAreKnown, WritesAreConfirmed, Wrote, Environments
    <3>. QED
      BY <1>3, <3>1
  <2>2. calls'[d].accepted \subseteq Gates
    BY <2>1 DEF TypeOK, CallsTypeOK, Call
  <2>. QED
    BY <2>1, <2>2
<1>4. WritesAreConfirmed'
  BY <1>2, <1>3 DEF WritesAreConfirmed, Wrote
<1>. QED
  BY <1>1, <1>4

(* What has an outcome keeps the invariant                                 *)
LEMMA OutcomesKeepTheInvariant ==
    ASSUME Inductive, NEW c \in Calls, Working(c), NEW next, Outcome(c, next)
    PROVE  Inductive'
<1>1. PICK call \in Call : call = calls[c] /\ call # Unused
  BY AtWork
<1>2. /\ Proper(call) /\ call.status = "working"
      /\ Continues(call, next) /\ PageInHand(next)' /\ MediaInHand(next)'
      /\ RecordsMove(c) /\ PagesMove(c) /\ MediaMove(c)
  BY <1>1, AtWork DEF Outcome
<1>3. next \in Call /\ next # Unused
  <2>1. next \in Call /\ next.status # "unused"
    BY <1>2 DEF Continues
  <2>. QED
    BY <2>1 DEF Unused
<1>4. /\ DOMAIN calls' = Calls /\ calls'[c] = next
      /\ \A d \in Calls \ {c} : calls'[d] = calls[d]
      /\ UNCHANGED <<workload, config, edits>>
  BY DEF Outcome, Becomes, Inductive, TypeOK, CallsTypeOK
<1>5. TypeOK'
  <2>1. \A d \in Calls : calls'[d] = Unused \/ calls'[d] \in Call
    BY <1>3, <1>4 DEF Inductive, TypeOK, CallsTypeOK
  <2>2. CallsTypeOK'
    BY <1>4, <2>1 DEF Inductive, TypeOK, CallsTypeOK
  <2>3. /\ records' \in [Environments -> [Gtins -> {0} \cup Calls]]
        /\ pages' \in [PageIds -> Page] /\ media' \in [MediaIds -> Media]
    BY <1>2 DEF RecordsMove, PagesMove, MediaMove
  <2>. QED
    BY <2>2, <2>3 DEF TypeOK
<1>6. Proper(next)
  BY <1>2 DEF Continues, Proper
<1>7. CallsAreProper'
  BY <1>4, <1>6 DEF Inductive, CallsAreProper
<1>8. HandsAreClean'
  <2>1. ASSUME NEW d \in Calls \ {c}, NEW other \in Call, other = calls[d], other # Unused
        PROVE  PageInHand(other)' /\ MediaInHand(other)'
    <3>1. PageInHand(other) /\ MediaInHand(other)
      BY <2>1 DEF Inductive, HandsAreClean
    <3>. QED
      BY <1>2, <3>1, HandsStay
  <2>2. ASSUME NEW d \in Calls, calls'[d] # Unused
        PROVE  PageInHand(calls[d])' /\ MediaInHand(calls[d])'
    <3>1. CASE d = c
      BY <1>2, <1>4, <3>1 DEF PageInHand, MediaInHand, Fragment
    <3>2. CASE d # c
      <4>1. PICK other \in Call : other = calls[d] /\ other = calls'[d] /\ other # Unused
        BY <1>4, <2>2, <3>2 DEF Inductive, TypeOK, CallsTypeOK
      <4>2. PageInHand(other)' /\ MediaInHand(other)'
        BY <2>1, <3>2, <4>1
      <4>. QED
        BY <4>1, <4>2 DEF PageInHand, MediaInHand, Fragment
    <3>. QED
      BY <3>1, <3>2
  <2>. QED
    BY <2>2 DEF HandsAreClean
<1>9. GatesOf(call.input, call.config) \subseteq call.accepted /\ "intent" \in call.accepted
  BY <1>2 DEF Proper, GatesOf, Gates
<1>10. \A d \in Calls : Wrote(d)' => Wrote(d) \/
          (calls[d] # Unused /\ "intent" \in calls[d].accepted)
  <2>1. ASSUME NEW d \in Calls, Wrote(d)' PROVE Wrote(d) \/ d = c
    <3>1. CASE \E e \in Environments, g \in Gtins : records'[e][g] = d
      BY <1>2, <3>1 DEF RecordsMove, Wrote
    <3>2. CASE \E p \in PageIds : d \in {pages'[p].body, pages'[p].fields}
      BY <1>2, <3>2 DEF PagesMove, PageMoves, Wrote
    <3>3. CASE \E m \in MediaIds : media'[m].by = d
      BY <1>2, <3>3 DEF MediaMove, MediumMoves, Wrote
    <3>. QED
      BY <2>1, <3>1, <3>2, <3>3 DEF Wrote
  <2>. QED
    BY <1>1, <1>9, <2>1
<1>11. \A d \in Calls, g \in Gtins : records'["production"][g] = d =>
          records["production"][g] = d \/
          (calls[d] # Unused /\ Gates \subseteq calls[d].accepted)
  <2>1. ASSUME NEW d \in Calls, NEW g \in Gtins, records'["production"][g] = d,
               records["production"][g] # d
        PROVE  d = c /\ call.input.tool = "records" /\ call.config.environment = "production"
    BY <1>1, <1>2, <2>1 DEF RecordsMove, Environments
  <2>. QED
    BY <1>1, <1>9, <2>1 DEF GatesOf
<1>12. \A d \in Calls : calls[d] # Unused =>
          calls'[d] # Unused /\ calls[d].accepted \subseteq calls'[d].accepted
  BY <1>1, <1>2, <1>3, <1>4 DEF Continues
<1>13. PagesKeepTheirLanguage'
  <2>1. ASSUME NEW p \in PageIds, NEW d \in Calls, pages'[p].body = d
        PROVE  InLanguage(calls'[d], pages'[p])
    <3>1. CASE d = c /\ pages'[p] # pages[p]
      <4>1. InLanguage(call, pages'[p])
        BY <1>1, <1>2, <3>1 DEF PagesMove, PageMoves, InLanguage
      <4>. QED
        BY <1>2, <1>4, <3>1, <4>1 DEF Continues, InLanguage
    <3>2. CASE ~(d = c /\ pages'[p] # pages[p])
      <4>1. pages[p].body = d /\ pages'[p].language = pages[p].language
        BY <1>2, <2>1, <3>2 DEF PagesMove, PageMoves
      <4>2. InLanguage(calls[d], pages[p])
        <5>1. d # 0
          BY McpCallsAssumption DEF Calls
        <5>. QED
          BY <4>1, <5>1 DEF Inductive, PagesKeepTheirLanguage, InLanguage
      <4>3. calls'[d].config = calls[d].config /\ calls'[d].input = calls[d].input
        BY <1>1, <1>2, <1>4 DEF Continues
      <4>. QED
        BY <4>1, <4>2, <4>3 DEF InLanguage
    <3>. QED
      BY <3>1, <3>2
  <2>2. \A p \in PageIds : pages'[p].body \in {0} \cup Calls
    BY <1>5 DEF TypeOK, Page
  <2>. QED
    BY <2>1, <2>2 DEF PagesKeepTheirLanguage, InLanguage
<1>. QED
  BY <1>5, <1>7, <1>8, <1>10, <1>11, <1>12, <1>13, ConfirmedStays DEF Inductive

(* A call that came in, was answered or was cut off, with nothing in hand  *)
EmptyHanded(call) ==
    /\ call \in Call /\ Proper(call)
    /\ call.step \in {"none", "send", "by id", "by slug", "find"}
    /\ call.step \in {"by id", "by slug"} => call.target = 0

(* So does a step that leaves calls without anything in hand               *)
LEMMA AnswersKeepTheInvariant ==
    ASSUME Inductive, Untouched, workload' = workload, config' \in Configs,
           edits' \in 0..MaxEdits, DOMAIN calls' = Calls,
           \A d \in Calls :
               \/ calls'[d] = calls[d]
               \/ /\ EmptyHanded(calls'[d])
                  /\ calls[d] # Unused =>
                        /\ calls[d].accepted \subseteq calls'[d].accepted
                        /\ calls'[d].input = calls[d].input /\ calls'[d].config = calls[d].config
    PROVE  Inductive'
<1>1. \A call : EmptyHanded(call) => call # Unused
  BY DEF EmptyHanded, Call, Unused
<1>2. TypeOK'
  BY DEF Inductive, TypeOK, CallsTypeOK, Untouched, EmptyHanded
<1>3. CallsAreProper'
  BY DEF Inductive, CallsAreProper, EmptyHanded
<1>4. HandsAreClean'
  <2>1. ASSUME NEW c \in Calls, calls'[c] # Unused
        PROVE  PageInHand(calls[c])' /\ MediaInHand(calls[c])'
    <3>1. CASE EmptyHanded(calls'[c])
      BY <3>1 DEF EmptyHanded, PageInHand, MediaInHand
    <3>2. CASE calls'[c] = calls[c]
      <4>1. PageInHand(calls[c]) /\ MediaInHand(calls[c])
        BY <2>1, <3>2 DEF Inductive, HandsAreClean
      <4>2. PageInHand(calls[c])'
        BY <3>2, <4>1 DEF PageInHand, InLanguage, Untouched
      <4>3. MediaInHand(calls[c])'
        BY <3>2, <4>1 DEF MediaInHand, Fragment, Untouched
      <4>. QED
        BY <4>2, <4>3
    <3>. QED
      BY <3>1, <3>2
  <2>. QED
    BY <2>1 DEF HandsAreClean
<1>5. \A d \in Calls : Wrote(d)' <=> Wrote(d)
  BY DEF Wrote, Untouched
<1>6. \A d \in Calls : calls[d] # Unused =>
          calls'[d] # Unused /\ calls[d].accepted \subseteq calls'[d].accepted
  BY <1>1
<1>7. PagesKeepTheirLanguage'
  <2>1. ASSUME NEW p \in PageIds, pages[p].body # 0
        PROVE  InLanguage(calls'[pages[p].body], pages[p])
    <3>1. PICK d \in Calls : d = pages[p].body
      BY <2>1 DEF Inductive, TypeOK, Page
    <3>2. Wrote(d) /\ calls[d] # Unused
      BY <3>1 DEF Wrote, Inductive, WritersAreKnown
    <3>. QED
      BY <2>1, <3>1, <3>2 DEF Inductive, PagesKeepTheirLanguage, InLanguage
  <2>. QED
    BY <2>1 DEF PagesKeepTheirLanguage, InLanguage, Untouched
<1>. QED
  BY <1>2, <1>3, <1>4, <1>5, <1>6, <1>7, ConfirmedStays DEF Inductive, Untouched

(* So does a call that begins                                              *)
LEMMA BeginKeepsTheInvariant ==
    ASSUME Inductive, Untouched, NEW c \in Calls, NEW input \in Inputs, Begin(c, input)
    PROVE  Inductive'
<1>1. PICK new : new =
         [status |-> "asking", input |-> input, config |-> config, accepted |-> {},
          step |-> "none", sent |-> 0, target |-> 0, before |-> {d \in Calls : Ended(d)},
          busy |-> 0, down |-> 0, renewed |-> FALSE]
  OBVIOUS
<1>2. new \in Call
  <2>1. 0 \in 0..(Max429 - 1) /\ 0 \in 0..(Max5xx - 1)
    BY McpCallsAssumption
  <2>. QED
    BY <1>1, <2>1 DEF Call, Steps, Inductive, TypeOK, CallsTypeOK
<1>3. EmptyHanded(new)
  BY <1>1, <1>2, ToolsHaveSteps DEF EmptyHanded, Proper
<1>4. calls' = [calls EXCEPT ![c] = new] /\ calls[c] = Unused
  BY <1>1 DEF Begin
<1>5. /\ calls'[c] = new /\ \A d \in Calls \ {c} : calls'[d] = calls[d]
      /\ DOMAIN calls' = Calls
  BY <1>4 DEF Inductive, TypeOK, CallsTypeOK
<1>. QED
  BY <1>3, <1>4, <1>5, AnswersKeepTheInvariant DEF Begin, Inductive, TypeOK, CallsTypeOK

(* So does a question answered with yes                                    *)
LEMMA AcceptsKeepsTheInvariant ==
    ASSUME Inductive, Untouched, NEW c \in Calls, Accepts(c)
    PROVE  Inductive'
<1>1. PICK call \in Call : /\ call = calls[c] /\ call.status = "asking" /\ call # Unused
                          /\ Proper(call)
  <2>1. calls[c] # Unused
    BY DEF Accepts, Unused
  <2>. QED
    BY <2>1 DEF Accepts, Inductive, TypeOK, CallsTypeOK, CallsAreProper
<1>2. PICK accepted \in SUBSET Gates : call.accepted \subseteq accepted /\
         calls' = [calls EXCEPT ![c] =
            IF GatesOf(call.input, call.config) \subseteq accepted
            THEN [call EXCEPT !.accepted = accepted, !.status = "working",
                              !.config = call.config, !.step = FirstStep(call.input)]
            ELSE [call EXCEPT !.accepted = accepted]]
  <2>1. call.accepted \cup {IF "intent" \in call.accepted THEN "production" ELSE "intent"}
          \in SUBSET Gates
    BY DEF Call, Gates
  <2>. QED
    BY <1>1, <2>1 DEF Accepts, ConfigOf
<1>3. PICK first : first = FirstStep(call.input)
  OBVIOUS
<1>4. first \in Steps \cap StepsOf(call.input.tool) \cap {"send", "by id", "by slug", "find"}
  <2>1. call.input.tool \in {"records", "page", "media"}
    BY McpCallsAssumption DEF Call
  <2>2. CASE call.input.tool = "records"
    BY <1>3, <2>2 DEF FirstStep, Steps, StepsOf
  <2>3. CASE call.input.tool = "page"
    BY <1>3, <2>3 DEF FirstStep, Steps, StepsOf
  <2>4. CASE call.input.tool = "media"
    BY <1>3, <2>4 DEF FirstStep, Steps, StepsOf
  <2>. QED
    BY <2>1, <2>2, <2>3, <2>4
<1>5. call.target = 0 /\ call.step = "none"
  BY <1>1 DEF Proper
<1>6. PICK next : /\ calls' = [calls EXCEPT ![c] = next]
                  /\ EmptyHanded(next) /\ call.accepted \subseteq next.accepted
                  /\ next.input = call.input /\ next.config = call.config
  <2>1. CASE GatesOf(call.input, call.config) \subseteq accepted
    <3>1. PICK next : next = [call EXCEPT !.accepted = accepted, !.status = "working",
                                          !.config = call.config, !.step = first]
      OBVIOUS
    <3>2. /\ next \in Call /\ next.step = first /\ next.target = 0 /\ next.status = "working"
          /\ next.input = call.input /\ next.config = call.config /\ next.accepted = accepted
      BY <1>4, <1>5, <3>1 DEF Call
    <3>3. EmptyHanded(next)
      BY <1>4, <2>1, <3>2 DEF EmptyHanded, Proper
    <3>4. calls' = [calls EXCEPT ![c] = next]
      BY <1>2, <1>3, <2>1, <3>1
    <3>. QED
      BY <1>2, <3>2, <3>3, <3>4
  <2>2. CASE ~(GatesOf(call.input, call.config) \subseteq accepted)
    <3>1. PICK next : next = [call EXCEPT !.accepted = accepted]
      OBVIOUS
    <3>2. /\ next \in Call /\ next.step = "none" /\ next.target = 0 /\ next.status = "asking"
          /\ next.input = call.input /\ next.config = call.config /\ next.accepted = accepted
      BY <1>1, <1>5, <3>1 DEF Call
    <3>3. EmptyHanded(next)
      BY <1>1, <1>5, <3>2 DEF EmptyHanded, Proper
    <3>4. calls' = [calls EXCEPT ![c] = next]
      BY <1>2, <2>2, <3>1
    <3>. QED
      BY <1>2, <3>2, <3>3, <3>4
  <2>. QED
    BY <2>1, <2>2
<1>7. /\ calls'[c] = next /\ \A d \in Calls \ {c} : calls'[d] = calls[d]
      /\ DOMAIN calls' = Calls
  BY <1>6 DEF Inductive, TypeOK, CallsTypeOK
<1>. QED
  BY <1>1, <1>6, <1>7, AnswersKeepTheInvariant DEF Accepts, Inductive, TypeOK, CallsTypeOK

(* And one answered with no                                                *)
LEMMA RefusesKeepsTheInvariant ==
    ASSUME Inductive, Untouched, NEW c \in Calls, Refuses(c)
    PROVE  Inductive'
<1>1. PICK call \in Call : /\ call = calls[c] /\ call.status = "asking" /\ Proper(call)
  <2>1. calls[c] # Unused
    BY DEF Refuses, Unused
  <2>. QED
    BY <2>1 DEF Refuses, Inductive, TypeOK, CallsTypeOK, CallsAreProper
<1>2. PICK next : next = [call EXCEPT !.status = "failed"]
  OBVIOUS
<1>3. /\ next \in Call /\ next.step = call.step /\ next.target = call.target
      /\ next.status = "failed" /\ next.input = call.input /\ next.accepted = call.accepted
      /\ next.config = call.config
  BY <1>2 DEF Call
<1>4. EmptyHanded(next)
  BY <1>1, <1>3 DEF EmptyHanded, Proper
<1>5. calls' = [calls EXCEPT ![c] = next]
  BY <1>1, <1>2 DEF Refuses
<1>6. /\ calls'[c] = next /\ \A d \in Calls \ {c} : calls'[d] = calls[d]
      /\ DOMAIN calls' = Calls
  BY <1>5 DEF Inductive, TypeOK, CallsTypeOK
<1>. QED
  BY <1>1, <1>3, <1>4, <1>6, AnswersKeepTheInvariant
  DEF Refuses, Inductive, TypeOK, CallsTypeOK

(* So does a server that stops with its calls                              *)
LEMMA StopsKeepTheInvariant ==
    ASSUME Inductive, Untouched, NEW tools, ServerStops(tools)
    PROVE  Inductive'
<1>1. ASSUME NEW call \in Call, NEW next, next = Over(call, "gone")
      PROVE  /\ EmptyHanded(next) /\ next.accepted = call.accepted
             /\ next.input = call.input /\ next.config = call.config
  <2>1. 0 \in 0..(Max429 - 1) /\ 0 \in 0..(Max5xx - 1)
    BY McpCallsAssumption
  <2>2. /\ next \in Call /\ next.step = "none" /\ next.status = "gone"
        /\ next.input = call.input /\ next.accepted = call.accepted
        /\ next.config = call.config
    BY <1>1, <2>1 DEF Over, GoTo, Call, Steps
  <2>. QED
    BY <2>2, ToolsHaveSteps DEF EmptyHanded, Proper
<1>2. ASSUME NEW d \in Calls
      PROVE  \/ calls'[d] = calls[d]
             \/ /\ EmptyHanded(calls'[d])
                /\ calls[d] # Unused =>
                      /\ calls[d].accepted \subseteq calls'[d].accepted
                      /\ calls'[d].input = calls[d].input /\ calls'[d].config = calls[d].config
  <2>1. CASE calls[d].status \in {"asking", "working"} /\ calls[d].input.tool \in tools
    <3>1. calls'[d] = Over(calls[d], "gone")
      BY <2>1 DEF ServerStops
    <3>2. calls[d] \in Call
      BY <2>1 DEF Inductive, TypeOK, CallsTypeOK, Unused
    <3>. QED
      BY <1>1, <3>1, <3>2
  <2>2. CASE ~(calls[d].status \in {"asking", "working"} /\ calls[d].input.tool \in tools)
    BY <2>2 DEF ServerStops
  <2>. QED
    BY <2>1, <2>2
<1>. QED
  BY <1>2, AnswersKeepTheInvariant DEF ServerStops, Inductive, TypeOK, CallsTypeOK

(* Every step keeps the invariant                                          *)
LEMMA ServersKeepTheInvariant ==
    ASSUME Inductive, [Next]_vars
    PROVE  Inductive'
<1>1. CASE UNCHANGED vars
  BY <1>1, AnswersKeepTheInvariant
  DEF vars, callVars, Untouched, Inductive, TypeOK, CallsTypeOK
<1>2. CASE EditConfig /\ Untouched
  <2>1. config' \in Configs /\ edits' \in 0..MaxEdits /\ workload' = workload /\ calls' = calls
    BY <1>2, McpCallsAssumption DEF EditConfig, Inductive, TypeOK, CallsTypeOK
  <2>. QED
    BY <1>2, <2>1, AnswersKeepTheInvariant DEF Inductive, TypeOK, CallsTypeOK
<1>3. ASSUME NEW c \in Calls, NEW input \in Inputs, Begin(c, input), Untouched PROVE Inductive'
  BY <1>3, BeginKeepsTheInvariant
<1>4. ASSUME NEW c \in Calls, Accepts(c) \/ Refuses(c), Untouched PROVE Inductive'
  BY <1>4, AcceptsKeepsTheInvariant, RefusesKeepsTheInvariant
<1>5. ASSUME NEW c \in Calls, Attempt(c) PROVE Inductive'
  BY <1>5, AttemptsHaveOutcomes, OutcomesKeepTheInvariant
<1>6. CASE (ServerStops({"records"}) \/ ServerStops({"page", "media"})) /\ Untouched
  BY <1>6, StopsKeepTheInvariant
<1>. QED
  BY <1>1, <1>2, <1>3, <1>4, <1>5, <1>6 DEF Next

(* The calls, and what they have in hand between two requests, stay as     *)
(* the handlers of the tools leave them, at every moment.                  *)
THEOREM ServersKeepTheirShape == Spec => []Inductive
  BY InitialServers, ServersKeepTheInvariant, PTL DEF Spec

-----------------------------------------------------------------------------
(* Every value stays of its type (the whole of McpServers and McpCalls).   *)
THEOREM ServerTypesCorrect == Spec => []TypeOK
<1>1. Inductive => TypeOK
  BY DEF Inductive
<1>. QED
  BY <1>1, ServersKeepTheirShape, PTL

(* Whatever a call wrote had passed its gates, both of them for a record   *)
(* of production, whatever became of clients.yml since (gs1-nl gateWrite). *)
THEOREM McpWritesConfirmed == Spec => []WritesAreConfirmed
<1>1. Inductive => WritesAreConfirmed
  BY DEF Inductive
<1>. QED
  BY <1>1, ServersKeepTheirShape, PTL

(* A page holds the text of its language (the wordpress client,            *)
(* langParams), on whatever sites, and with whatever calls side by side.   *)
THEOREM McpPagesKeepTheirLanguage == Spec => []PagesKeepTheirLanguage
<1>1. Inductive => PagesKeepTheirLanguage
  BY DEF Inductive
<1>. QED
  BY <1>1, ServersKeepTheirShape, PTL

(* What a step of the servers does to the pages and attachments            *)
LEMMA ServerStepsMove ==
    ASSUME Inductive, [Next]_vars
    PROVE  UNCHANGED <<pages, media>> \/ \E c \in Calls : PagesMove(c) /\ MediaMove(c)
<1>1. ASSUME NEW c \in Calls, Attempt(c) PROVE PagesMove(c) /\ MediaMove(c)
  BY <1>1, AttemptsHaveOutcomes DEF Outcome
<1>. QED
  BY <1>1 DEF Next, vars, Untouched

(* Only a short attachment goes, and only one the tool put there (the      *)
(* wordpress client, isWhole and assertWhole).                             *)
THEOREM McpFragmentsOnly == Spec => OnlyFragmentsGo
<1>. DEFINE Step ==
         \A m \in MediaIds : media[m].there /\ ~media'[m].there =>
             ~media[m].whole /\ (media[m].hashed \/ media[m].by # 0)
<1>1. ASSUME Inductive, [Next]_vars PROVE [Step]_vars
  <2>1. ASSUME NEW c \in Calls, MediaMove(c) PROVE Step
    BY <2>1 DEF MediaMove, MediumMoves, NoMedia, Fragment
  <2>. QED
    BY <1>1, <2>1, ServerStepsMove
<1>. QED
  BY <1>1, ServersKeepTheirShape, PTL DEF Spec, OnlyFragmentsGo

(* A call that names its product leaves the pages of every other product   *)
(* and of nobody's as they are (the wordpress client, guardGtinMatch).     *)
THEOREM McpForeignPagesStay == Spec => ForeignPagesStay
<1>. DEFINE Step ==
         \A p \in PageIds, c \in Calls :
             /\ pages[p].there
             /\ (pages'[p].body = c /\ pages[p].body # c)
                   \/ (pages'[p].fields = c /\ pages[p].fields # c)
             => calls[c].input.gtin \in {"none", pages[p].gtin}
<1>1. ASSUME Inductive, [Next]_vars PROVE [Step]_vars
  <2>1. ASSUME NEW c \in Calls, PagesMove(c) PROVE Step
    BY <2>1 DEF PagesMove, PageMoves
  <2>. QED
    BY <1>1, <2>1, ServerStepsMove
<1>. QED
  BY <1>1, ServersKeepTheirShape, PTL DEF Spec, ForeignPagesStay

-----------------------------------------------------------------------------
(* What was reported ok is there.  A call sees its own writes, or those of *)
(* a call that had not ended when it began; what had ended writes no more  *)
Shown(call, c, by) == by = c \/ (by # 0 /\ by \notin call.before)

EndedComeFirst == \A c \in Calls : calls[c] # Unused => \A d \in calls[c].before : Ended(d)

(* The entries sent so far are written; a bulk write that is ok sent all   *)
RecordsShow(call, c) ==
    call.input.tool = "records" =>
        \A n \in DOMAIN call.input.entries :
            call.status = "ok" \/ n <= call.sent =>
                Shown(call, c, records[call.config.environment][call.input.entries[n]])

(* A page has its body before the fields are sent                          *)
PageShows(call, c) ==
    call.input.tool = "page" /\ (call.status = "ok" \/ call.step = "acf") =>
        /\ call.target \in PageIds
        /\ Shown(call, c, pages[call.target].body)
        /\ call.status = "ok" /\ call.input.fields =>
              Shown(call, c, pages[call.target].fields)

WrittenShows ==
    \A c \in Calls : calls[c] # Unused => RecordsShow(calls[c], c) /\ PageShows(calls[c], c)

(* What a step makes of a call: one that ended stays as it is, one that    *)
(* came in keeps what it is about, and a new one is told what had ended    *)
Keeps(call, next) ==
    next.input = call.input /\ next.config = call.config /\ next.before = call.before

Quiet(call) == call.status # "ok" /\ call.step # "acf"

Answers(c) ==
    \/ calls'[c] = calls[c]
    \/ /\ calls[c] # Unused /\ ~Ended(c)
       /\ Keeps(calls[c], calls'[c]) /\ calls'[c].sent \in {0, calls[c].sent}
       /\ Quiet(calls'[c])
    \/ /\ calls[c] = Unused
       /\ calls'[c].before = {d \in Calls : Ended(d)} /\ calls'[c].sent = 0
       /\ Quiet(calls'[c])

(* Steps that send nothing touch nothing                                   *)
LEMMA CallsAnswer ==
    ASSUME Inductive, [Next]_vars, \A c \in Calls : ~Attempt(c), NEW c \in Calls
    PROVE  Answers(c) /\ Untouched
<1>. calls[c] # Unused => calls[c] \in Call /\ Proper(calls[c])
  BY DEF Inductive, TypeOK, CallsTypeOK, CallsAreProper
<1>. DOMAIN calls = Calls
  BY DEF Inductive, TypeOK, CallsTypeOK
<1>1. ASSUME EditConfig PROVE calls' = calls
  BY <1>1 DEF EditConfig
<1>2. ASSUME NEW d \in Calls, NEW input \in Inputs, Begin(d, input) PROVE Answers(c)
  <2>1. CASE c = d
    <3>1. /\ calls[c] = Unused /\ calls'[c].before = {e \in Calls : Ended(e)}
          /\ calls'[c].sent = 0 /\ calls'[c].status = "asking" /\ calls'[c].step = "none"
      BY <1>2, <2>1 DEF Begin
    <3>. QED
      BY <3>1 DEF Answers, Quiet
  <2>2. CASE c # d
    BY <1>2, <2>2 DEF Begin, Answers
  <2>. QED
    BY <2>1, <2>2
<1>3. ASSUME NEW d \in Calls, Accepts(d) PROVE Answers(c)
  <2>1. CASE c = d
    <3>1. calls[c].status = "asking" /\ calls[c] # Unused
      BY <1>3, <2>1 DEF Accepts, Unused
    <3>2. FirstStep(calls[c].input) # "acf"
      <4>1. calls[c].input.tool \in {"records", "page", "media"}
        BY <3>1, McpCallsAssumption DEF Call
      <4>. QED
        BY <4>1 DEF FirstStep
    <3>3. calls[c].step = "none"
      BY <3>1 DEF Proper
    <3>4. PICK accepted :
            calls'[c] \in {[calls[c] EXCEPT !.accepted = accepted],
                           [calls[c] EXCEPT !.accepted = accepted, !.status = "working",
                              !.config = calls[c].config, !.step = FirstStep(calls[c].input)]}
      BY <1>3, <2>1 DEF Accepts, ConfigOf
    <3>5. /\ Keeps(calls[c], calls'[c]) /\ calls'[c].sent = calls[c].sent
          /\ Quiet(calls'[c])
      BY <3>1, <3>2, <3>3, <3>4 DEF Keeps, Quiet, Call
    <3>. QED
      BY <3>1, <3>5 DEF Answers, Ended
  <2>2. CASE c # d
    BY <1>3, <2>2 DEF Accepts, Answers
  <2>. QED
    BY <2>1, <2>2
<1>4. ASSUME NEW d \in Calls, Refuses(d) PROVE Answers(c)
  <2>1. CASE c = d
    <3>1. calls[c].status = "asking" /\ calls[c] # Unused
      BY <1>4, <2>1 DEF Refuses, Unused
    <3>2. calls'[c] = [calls[c] EXCEPT !.status = "failed"]
      BY <1>4, <2>1 DEF Refuses
    <3>3. /\ Keeps(calls[c], calls'[c]) /\ calls'[c].sent = calls[c].sent
          /\ Quiet(calls'[c])
      BY <3>1, <3>2 DEF Keeps, Quiet, Call, Proper
    <3>. QED
      BY <3>1, <3>3 DEF Answers, Ended
  <2>2. CASE c # d
    BY <1>4, <2>2 DEF Refuses, Answers
  <2>. QED
    BY <2>1, <2>2
<1>5. ASSUME NEW tools, ServerStops(tools) PROVE Answers(c)
  <2>1. CASE calls[c].status \in {"asking", "working"} /\ calls[c].input.tool \in tools
    <3>1. calls'[c] = Over(calls[c], "gone") /\ calls[c] # Unused
      BY <1>5, <2>1 DEF ServerStops, Unused
    <3>2. Keeps(calls[c], calls'[c]) /\ calls'[c].sent = 0 /\ Quiet(calls'[c])
      BY <3>1 DEF Over, GoTo, Call, Keeps, Quiet
    <3>. QED
      BY <2>1, <3>1, <3>2 DEF Answers, Ended
  <2>2. CASE ~(calls[c].status \in {"asking", "working"} /\ calls[c].input.tool \in tools)
    BY <1>5, <2>2 DEF ServerStops, Answers
  <2>. QED
    BY <2>1, <2>2
<1>6. CASE UNCHANGED vars
  BY <1>6 DEF vars, callVars, Answers, Untouched
<1>. QED
  BY <1>1, <1>2, <1>3, <1>4, <1>5, <1>6 DEF Next, Answers

(* The entries of a call are counted from 1                                *)
LEMMA EntriesAreCounted ==
    ASSUME NEW call \in Call, call.input.tool = "records"
    PROVE  \A n \in DOMAIN call.input.entries : n \in Nat \ {0}
<1>1. call.input.entries \in Seq(Gtins)
  BY McpServersAssumption DEF Call
<1>. QED
  BY <1>1

(* Answers show what was shown                                             *)
LEMMA AnswersShow ==
    ASSUME Inductive, TypeOK', WrittenShows, EndedComeFirst, Untouched,
           \A c \in Calls : Answers(c)
    PROVE  WrittenShows' /\ EndedComeFirst'
<1>1. ASSUME NEW c \in Calls, calls'[c] # Unused
      PROVE  RecordsShow(calls[c], c)' /\ PageShows(calls[c], c)'
  <2>1. CASE calls'[c] = calls[c]
    BY <1>1, <2>1 DEF WrittenShows, RecordsShow, PageShows, Untouched
  <2>2. CASE calls'[c].sent = 0 /\ Quiet(calls'[c])
    <3>1. calls'[c] \in Call
      BY <1>1 DEF TypeOK, CallsTypeOK
    <3>. QED
      BY <2>2, <3>1, EntriesAreCounted DEF RecordsShow, PageShows, Quiet
  <2>3. CASE /\ calls[c] # Unused /\ Keeps(calls[c], calls'[c])
             /\ calls'[c].sent = calls[c].sent /\ Quiet(calls'[c])
    BY <1>1, <2>3 DEF WrittenShows, RecordsShow, PageShows, Untouched, Keeps, Quiet, Shown
  <2>. QED
    BY <2>1, <2>2, <2>3 DEF Answers
<1>2. \A d \in Calls : Ended(d) => Ended(d)'
  BY DEF Answers, Ended, Unused
<1>3. ASSUME NEW c \in Calls, calls'[c] # Unused, NEW d \in calls'[c].before PROVE Ended(d)'
  <2>1. calls'[c] \in Call
    BY <1>3 DEF TypeOK, CallsTypeOK
  <2>2. d \in Calls
    BY <1>3, <2>1 DEF Call
  <2>. QED
    BY <1>2, <1>3, <2>2 DEF EndedComeFirst, Answers, Keeps
<1>. QED
  BY <1>1, <1>3 DEF WrittenShows, EndedComeFirst

-----------------------------------------------------------------------------
(* What others write over what is shown is shown as well                   *)
LEMMA ShowsStay ==
    ASSUME Inductive, NEW c \in Calls, NEW d \in Calls, NEW call \in Call, c \notin call.before
    PROVE  /\ RecordsMove(c) /\ RecordsShow(call, d) => RecordsShow(call, d)'
           /\ PagesMove(c) /\ PageShows(call, d) => PageShows(call, d)'
<1>0. c # 0
  BY McpCallsAssumption DEF Calls
<1>1. ASSUME NEW by, NEW next \in {c, by}, Shown(call, d, by) PROVE Shown(call, d, next)
  BY <1>0, <1>1 DEF Shown
<1>2. ASSUME RecordsMove(c), RecordsShow(call, d) PROVE RecordsShow(call, d)'
  <2>. DEFINE e == call.config.environment
  <2>1. ASSUME NEW n \in DOMAIN call.input.entries, call.input.tool = "records",
               call.status = "ok" \/ n <= call.sent
        PROVE  Shown(call, d, records'[e][call.input.entries[n]])
    <3>1. Shown(call, d, records[e][call.input.entries[n]])
      BY <1>2, <2>1 DEF RecordsShow
    <3>2. e \in Environments
      BY McpCallsAssumption DEF Call, Environments
    <3>3. call.input.entries[n] \in Gtins
      <4>1. call.input.entries \in Seq(Gtins)
        BY <2>1, McpServersAssumption DEF Call
      <4>. QED
        BY <2>1, <4>1
    <3>4. records'[e][call.input.entries[n]] \in {c, records[e][call.input.entries[n]]}
      BY <1>2, <3>2, <3>3 DEF RecordsMove
    <3>. QED
      BY <1>1, <3>1, <3>4
  <2>. QED
    BY <2>1 DEF RecordsShow, Shown
<1>3. ASSUME PagesMove(c), PageShows(call, d) PROVE PageShows(call, d)'
  <2>1. ASSUME NEW p \in PageIds
        PROVE  pages'[p].body \in {c, pages[p].body} /\ pages'[p].fields \in {c, pages[p].fields}
    BY <1>3 DEF PagesMove, PageMoves
  <2>2. ASSUME NEW p \in PageIds
        PROVE  /\ Shown(call, d, pages[p].body) => Shown(call, d, pages'[p].body)
               /\ Shown(call, d, pages[p].fields) => Shown(call, d, pages'[p].fields)
    BY <1>1, <2>1
  <2>. QED
    BY <1>3, <2>2 DEF PageShows, Shown
<1>. QED
  BY <1>2, <1>3

(* A request that is sent again or given up                                *)
KeptOn(call, next) ==
    /\ Keeps(call, next) /\ next.sent \in {0, call.sent}
    /\ next.status # "ok" /\ next.target = call.target /\ next.step \in {"none", call.step}

(* A request that came to nothing keeps what was sent                      *)
LEMMA RequestsKeep ==
    ASSUME NEW call \in Call, call.status = "working", NEW next,
           next \in {Retried(call), Throttled(call), Renewed(call), Failed(call)}
    PROVE  KeptOn(call, next)
  BY DEF Retried, Throttled, Renewed, Failed, Over, GoTo, Call, KeptOn, Keeps

(* A call that keeps what it sent shows what it showed                     *)
LEMMA KeptShows ==
    ASSUME NEW call \in Call, NEW next, NEW c \in Calls, KeptOn(call, next),
           RecordsShow(call, c)', PageShows(call, c)'
    PROVE  RecordsShow(next, c)' /\ PageShows(next, c)'
<1>1. RecordsShow(next, c)'
  <2>1. CASE next.sent = 0
    <3>1. ASSUME call.input.tool = "records"
          PROVE  \A n \in DOMAIN call.input.entries : ~(n <= 0)
      BY <3>1, EntriesAreCounted
    <3>. QED
      BY <2>1, <3>1 DEF KeptOn, Keeps, RecordsShow
  <2>2. CASE next.sent = call.sent
    BY <2>2 DEF KeptOn, Keeps, RecordsShow, Shown
  <2>. QED
    BY <2>1, <2>2 DEF KeptOn
<1>2. PageShows(next, c)'
  BY DEF KeptOn, Keeps, PageShows, Shown
<1>. QED
  BY <1>1, <1>2


(* A bulk write: the chunk sent is written, before the next one is         *)
LEMMA ChunksShow ==
    ASSUME Inductive, NEW c \in Calls, Attempt(c), calls[c].input.tool = "records",
           NEW next, Outcome(c, next), c \notin calls[c].before, RecordsShow(calls[c], c)
    PROVE  RecordsShow(next, c)'
<1>. PICK call \in Call : call = calls[c] /\ call.status = "working" /\ Proper(call)
  BY AtWork DEF Attempt
<1>1. Continues(call, next) /\ RecordsMove(c) /\ DOMAIN calls = Calls
  BY DEF Outcome, Inductive, TypeOK, CallsTypeOK
<1>2. \A other : Becomes(c, other) => other = next
  BY <1>1 DEF Outcome, Becomes
<1>3. RecordsShow(call, c)'
  BY <1>1, ShowsStay
<1>4. ASSUME KeptOn(call, next) PROVE RecordsShow(next, c)'
  <2>1. PageShows(call, c)'
    BY DEF PageShows
  <2>. QED
    BY <1>3, <1>4, <2>1, KeptShows
<1>5. /\ call.input.entries \in Seq(Gtins) /\ call.config.environment \in Environments
      /\ call.sent \in Nat /\ next.input = call.input /\ next.config = call.config
      /\ next.before = call.before
  BY <1>1, McpServersAssumption, McpCallsAssumption DEF Call, Environments, Continues
<1>6. CASE SendChunk(c)
  <2>1. CASE call.sent >= Len(call.input.entries) /\ Untouched /\ next = Succeeded(call)
    <3>1. \A n \in DOMAIN call.input.entries : n <= call.sent
      BY <1>5, <2>1
    <3>. QED
      BY <1>3, <1>5, <3>1 DEF RecordsShow, Shown
  <2>2. CASE /\ RecordsWritten(c, Chunk(call.input.entries, call.sent))
             /\ next = [GoTo(call, "send") EXCEPT !.sent = call.sent + BatchSize]
    <3>1. next.sent = call.sent + BatchSize /\ next.status = "working"
      BY <2>2 DEF GoTo, Call
    <3>2. ASSUME NEW n \in DOMAIN call.input.entries, n <= call.sent + BatchSize
          PROVE  Shown(call, c, records'[call.config.environment][call.input.entries[n]])
      <4>1. CASE n <= call.sent
        BY <1>3, <4>1 DEF RecordsShow, Shown
      <4>2. CASE ~(n <= call.sent)
        <5>1. n \in Nat
          BY <1>5
        <5>2. call.input.entries[n] \in Chunk(call.input.entries, call.sent)
          BY <1>5, <3>2, <4>2, <5>1 DEF Chunk
        <5>3. records \in [Environments -> [Gtins -> {0} \cup Calls]]
          BY DEF Inductive, TypeOK
        <5>4. call.input.entries[n] \in Gtins
          BY <1>5
        <5>5. records'[call.config.environment][call.input.entries[n]] = c
          BY <1>5, <2>2, <5>2, <5>3, <5>4 DEF RecordsWritten
        <5>. QED
          BY <5>5 DEF Shown
      <4>. QED
        BY <4>1, <4>2
    <3>. QED
      BY <1>5, <3>1, <3>2 DEF RecordsShow, Shown
  <2>. QED
    BY <1>2, <1>6, <2>1, <2>2 DEF SendChunk
<1>7. CASE SendChunkFails(c) \/ TokenRefused(c) \/ TooMany(c)
  <2>1. next \in {Retried(call), Throttled(call), Renewed(call), Failed(call)}
    BY <1>2, <1>7 DEF SendChunkFails, TokenRefused, TooMany
  <2>. QED
    BY <1>4, <2>1, RequestsKeep
<1>8. call.step \in {"none", "send"}
  BY DEF Proper, StepsOf
<1>. QED
  BY <1>6, <1>7, <1>8 DEF Attempt, LookUp, WritePage, WritePageFails, WriteAcf, WriteAcfFails,
     FindMedia, Discard, DiscardFails, Upload, UploadFails, Drop, Finalise, FinaliseFails,
     ReadFails

(* A page: the body is there before the fields are sent, and both before   *)
(* the call is ok                                                          *)
LEMMA PageWritesShow ==
    ASSUME Inductive, NEW c \in Calls, Attempt(c), calls[c].input.tool = "page",
           NEW next, Outcome(c, next), c \notin calls[c].before, PageShows(calls[c], c)
    PROVE  PageShows(next, c)'
<1>. PICK call \in Call :
        call = calls[c] /\ call.status = "working" /\ Proper(call) /\ PageInHand(call)
  BY AtWork DEF Attempt
<1>1. Continues(call, next) /\ PagesMove(c) /\ DOMAIN calls = Calls
  BY DEF Outcome, Inductive, TypeOK, CallsTypeOK
<1>2. \A other : Becomes(c, other) => other = next
  BY <1>1 DEF Outcome, Becomes
<1>3. PageShows(call, c)'
  BY <1>1, ShowsStay
<1>4. next.input = call.input /\ next.before = call.before
  BY <1>1 DEF Continues
<1>5. pages \in [PageIds -> Page]
  BY DEF Inductive, TypeOK
<1>6. CASE LookUp(c)
  <2>1. \/ next = Failed(call)
        \/ \E p : next = Found(call, p)
        \/ \E step \in {"by slug", "by gtin", "write"} : next = GoTo(call, step)
    BY <1>2, <1>6 DEF LookUp
  <2>2. Quiet(next)
    BY <2>1 DEF Found, Failed, Over, GoTo, Call, Quiet
  <2>. QED
    BY <2>2 DEF Quiet, PageShows
<1>7. CASE WritePage(c)
  <2>1. PICK id \in WriteTargets(call) :
           BodyWritten(c, id) /\ next = [AfterBody(call) EXCEPT !.target = id]
    BY <1>2, <1>7 DEF WritePage
  <2>2. id \in PageIds
    BY <1>7, <2>1 DEF WriteTargets, WritePage, PageInHand
  <2>3. pages'[id].body = c
    BY <1>5, <2>1, <2>2 DEF BodyWritten
  <2>4. next.target = id /\ (next.status = "ok" => ~call.input.fields)
    BY <2>1 DEF AfterBody, Succeeded, Over, GoTo, Call
  <2>. QED
    BY <1>4, <2>2, <2>3, <2>4 DEF PageShows, Shown
<1>8. CASE WriteAcf(c)
  <2>1. call.step = "acf" /\ FieldsWritten(c) /\ next = Succeeded(call)
    BY <1>2, <1>8 DEF WriteAcf
  <2>2. call.target \in PageIds /\ Shown(call, c, pages'[call.target].body)
    BY <1>3, <2>1 DEF PageShows, Shown
  <2>3. pages'[call.target].fields = c
    <3>1. PICK id \in PageIds : id = call.target
      BY <2>2
    <3>2. pages[id] \in Page
      BY <1>5
    <3>3. pages' = [pages EXCEPT ![id] = [pages[id] EXCEPT !.fields = c]]
      BY <2>1, <3>1 DEF FieldsWritten
    <3>4. pages'[id] = [pages[id] EXCEPT !.fields = c]
      BY <1>5, <3>1, <3>3
    <3>. QED
      BY <3>1, <3>2, <3>4 DEF Page
  <2>4. next.target = call.target
    BY <2>1 DEF Succeeded, Over, GoTo, Call
  <2>. QED
    BY <1>4, <2>2, <2>3, <2>4 DEF PageShows, Shown
<1>9. CASE WritePageFails(c) \/ WriteAcfFails(c) \/ ReadFails(c) \/ TooMany(c)
  <2>1. next \in {Retried(call), Throttled(call), Renewed(call), Failed(call)}
    BY <1>2, <1>9 DEF WritePageFails, WriteAcfFails, ReadFails, TooMany
  <2>2. RecordsShow(call, c)'
    BY DEF RecordsShow
  <2>. QED
    BY <1>3, <2>1, <2>2, RequestsKeep, KeptShows
<1>10. call.step \in {"none", "by id", "by slug", "by gtin", "write", "acf"}
  BY DEF Proper, StepsOf
<1>. QED
  BY <1>6, <1>7, <1>8, <1>9, <1>10 DEF Attempt, SendChunk, SendChunkFails, TokenRefused,
     FindMedia, Discard, DiscardFails, Upload, UploadFails, Drop, Finalise, FinaliseFails

(* An attempt, on its own call and on the others                           *)
LEMMA AttemptsShow ==
    ASSUME Inductive, WrittenShows, EndedComeFirst, NEW c \in Calls, Attempt(c)
    PROVE  WrittenShows' /\ EndedComeFirst'
<1>1. PICK next : Outcome(c, next)
  BY AttemptsHaveOutcomes
<1>2. calls[c] \in Call /\ calls[c].status = "working" /\ calls[c] # Unused
  BY AtWork DEF Attempt
<1>3. /\ calls'[c] = next /\ \A d \in Calls \ {c} : calls'[d] = calls[d]
      /\ Continues(calls[c], next) /\ RecordsMove(c) /\ PagesMove(c)
  BY <1>1 DEF Outcome, Becomes, Inductive, TypeOK, CallsTypeOK
<1>4. ASSUME NEW d \in Calls, calls[d] # Unused PROVE calls[d] \in Call /\ c \notin calls[d].before
  BY <1>2, <1>4 DEF EndedComeFirst, Ended, Inductive, TypeOK, CallsTypeOK
<1>5. ASSUME NEW d \in Calls, calls'[d] # Unused
      PROVE  RecordsShow(calls[d], d)' /\ PageShows(calls[d], d)'
  <2>1. CASE d # c
    <3>1. PICK call \in Call : /\ call = calls[d] /\ call = calls'[d] /\ c \notin call.before
                               /\ RecordsShow(call, d) /\ PageShows(call, d)
      BY <1>3, <1>4, <1>5, <2>1 DEF WrittenShows
    <3>2. RecordsShow(call, d)' /\ PageShows(call, d)'
      BY <1>3, <3>1, ShowsStay
    <3>. QED
      BY <3>1, <3>2 DEF RecordsShow, PageShows, Shown
  <2>2. CASE d = c
    <3>1. calls[c].input.tool \in {"records", "page", "media"} /\ next.input = calls[c].input
      BY <1>2, <1>3, McpCallsAssumption DEF Call, Continues
    <3>2. RecordsShow(calls[c], c) /\ PageShows(calls[c], c) /\ c \notin calls[c].before
      BY <1>2, <1>4 DEF WrittenShows
    <3>3. RecordsShow(next, c)'
      <4>1. CASE calls[c].input.tool = "records"
        BY <1>1, <3>2, <4>1, ChunksShow
      <4>. QED
        BY <3>1, <4>1 DEF RecordsShow
    <3>4. PageShows(next, c)'
      <4>1. CASE calls[c].input.tool = "page"
        BY <1>1, <3>2, <4>1, PageWritesShow
      <4>. QED
        BY <3>1, <4>1 DEF PageShows
    <3>. QED
      BY <1>3, <2>2, <3>3, <3>4 DEF RecordsShow, PageShows, Shown
  <2>. QED
    BY <2>1, <2>2
<1>6. EndedComeFirst'
  <2>1. ASSUME NEW d \in Calls, calls'[d] # Unused
        PROVE  calls[d] # Unused /\ calls'[d].before = calls[d].before
    BY <1>2, <1>3, <2>1 DEF Continues
  <2>2. ASSUME NEW d \in Calls, Ended(d) PROVE Ended(d)'
    BY <1>2, <1>3, <2>2 DEF Ended
  <2>3. ASSUME NEW d \in Calls, calls[d] # Unused PROVE calls[d].before \subseteq Calls
    BY <1>4, <2>3 DEF Call
  <2>. QED
    BY <2>1, <2>2, <2>3 DEF EndedComeFirst
<1>. QED
  BY <1>5, <1>6 DEF WrittenShows

(* What a tool call reported ok is there: every entry of a bulk write, a   *)
(* page's body and its fields, unless a call that had not ended when this  *)
(* one began wrote over it (gs1-nl tools.ts; the wordpress client,         *)
(* upsertPage); whatever was retried, throttled or cut off in between.     *)
THEOREM McpOkIsWritten == Spec => []OkMeansWritten
<1>. DEFINE Shows == WrittenShows /\ EndedComeFirst
<1>1. Init => Shows
  BY DEF Init, CallsInit, WrittenShows, EndedComeFirst
<1>2. Inductive /\ Inductive' /\ Shows /\ [Next]_vars => Shows'
  <2>. SUFFICES ASSUME Inductive, Inductive', Shows, [Next]_vars PROVE Shows'
    OBVIOUS
  <2>1. CASE \E c \in Calls : Attempt(c)
    BY <2>1, AttemptsShow
  <2>2. CASE \A c \in Calls : ~Attempt(c)
    <3>1. \A c \in Calls : Untouched /\ Answers(c)
      BY <2>2, CallsAnswer
    <3>2. TypeOK'
      BY DEF Inductive
    <3>3. CASE Calls = {}
      BY <3>3 DEF WrittenShows, EndedComeFirst
    <3>. QED
      BY <3>1, <3>2, <3>3, AnswersShow
  <2>. QED
    BY <2>1, <2>2
<1>3. Inductive /\ Shows => OkMeansWritten
  <2>. SUFFICES ASSUME Inductive, Shows PROVE OkMeansWritten
    OBVIOUS
  <2>1. \A c \in Calls : calls[c].status = "ok" => calls[c] # Unused
    BY DEF Unused
  <2>2. OkRecordsAreWritten
    BY <2>1 DEF OkRecordsAreWritten, WrittenShows, RecordsShow, Shown, Overtaken
  <2>3. OkPagesAreWhole
    BY <2>1 DEF OkPagesAreWhole, WrittenShows, PageShows, Shown, Overtaken
  <2>. QED
    BY <2>2, <2>3 DEF OkMeansWritten
<1>. QED
  BY <1>1, <1>2, <1>3, ServersKeepTheirShape, PTL DEF Spec


=============================================================================
