------------------------------- MODULE McpCalls -------------------------------
(***************************************************************************)
(* Tool calls of the two MCP servers that write.  Each call reads the      *)
(* configuration once, asks a human at every gate that applies, and only   *)
(* then makes its client, whose requests are retried within limits.  The   *)
(* servers handle calls side by side: between any two requests, and while  *)
(* a human thinks, the other calls and the file go on.                     *)
(***************************************************************************)
EXTENDS Naturals, Sequences, FiniteSets

CONSTANTS
    MaxCalls,       \* bound on the calls there are
    Inputs,         \* what a call may ask for
    Workloads,      \* bound on what comes in together: sets of inputs
    Configs,        \* what clients.yml may say
    MaxEdits,       \* bound on how often clients.yml is edited
    Max429, Max5xx  \* RETRY_429_MAX_ATTEMPTS, RETRY_5XX_MAX_ATTEMPTS

ASSUME McpCallsAssumption ==
    /\ MaxCalls \in Nat /\ MaxEdits \in Nat
    /\ Max429 \in Nat \ {0} /\ Max5xx \in Nat \ {0}
    /\ Workloads \subseteq SUBSET Inputs
    /\ \A i \in Inputs : i.tool \in {"records", "page", "media"}
    /\ \A k \in Configs : k.environment \in {"test", "production"}

VARIABLES
    workload,   \* what comes in
    config,     \* clients.yml
    edits,      \* how often it was edited
    calls       \* the tool calls, in the order they came in

Calls == 1..MaxCalls

Gates == {"intent", "production"}

\* Where a call is in its requests: the bulk write; the three lookups of a page
\* and its two writes; the lookup of a file and what follows.
Steps == {"none", "send", "by id", "by slug", "by gtin", "write", "acf",
          "find", "discard", "upload", "drop", "finalise"}

Unused == [status |-> "unused"]

\* A call that has come in.  sent counts the entries written, target is the page
\* or attachment in hand (0 when there is none), before holds the calls that had
\* ended when it began.
Call ==
    [status : {"asking", "working", "ok", "failed", "gone"},
     input : Inputs, config : Configs, accepted : SUBSET Gates, step : Steps,
     sent : Nat, target : Nat, before : SUBSET Calls,
     busy : 0..(Max429 - 1), down : 0..(Max5xx - 1), renewed : BOOLEAN]

CallsTypeOK ==
    /\ workload \in Workloads
    /\ config \in Configs /\ edits \in 0..MaxEdits
    /\ \A c \in Calls : calls[c] = Unused \/ calls[c] \in Call
    /\ DOMAIN calls = Calls

Ended(c) == calls[c].status \in {"ok", "failed", "gone"}
Working(c) == calls[c].status = "working"

CallsInit ==
    /\ workload \in Workloads
    /\ config \in Configs /\ edits = 0 /\ calls = [c \in Calls |-> Unused]

\* The operator, or the shell, edits the file under the servers, as long as a
\* call may still read it.
EditConfig ==
    /\ \E c \in Calls : calls[c].status \in {"unused", "asking"}
    /\ edits < MaxEdits
    /\ config' \in Configs \ {config}
    /\ edits' = edits + 1
    /\ UNCHANGED <<workload, calls>>

-------------------------------------------------------------------------------
(* The gates in front of a write. *)

\* A page can be taken back and is asked about once; a record of the production
\* environment cannot, and is asked about twice.
GatesOf(input, settings) ==
    IF input.tool = "records" /\ settings.environment = "production"
    THEN Gates ELSE {"intent"}

\* A call comes in: loadConfig, and the first question.
Begin(c, input) ==
    /\ calls[c] = Unused
    /\ input \in workload
    /\ \A d \in 1..(c - 1) : calls[d] # Unused
    /\ calls' = [calls EXCEPT ![c] =
          [status |-> "asking", input |-> input, config |-> config, accepted |-> {},
           step |-> "none", sent |-> 0, target |-> 0,
           before |-> {d \in Calls : Ended(d)},
           busy |-> 0, down |-> 0, renewed |-> FALSE]]
    /\ UNCHANGED <<workload, config, edits>>

\* Where the requests of a call begin.
FirstStep(input) ==
    CASE input.tool = "records" -> "send"
      [] input.tool = "page" -> IF input.id # 0 THEN "by id" ELSE "by slug"
      [] input.tool = "media" -> "find"

\* Mutated form: the client is made from the file as it is after the gates.
ConfigReloaded(c) == config

\* The client is made from the configuration the gates were asked about.
ConfigOf(c) == calls[c].config

\* The human accepts and says yes; after the last gate the client is made.
Accepts(c) ==
    LET call == calls[c]
        gate == IF "intent" \in call.accepted THEN "production" ELSE "intent"
        accepted == call.accepted \cup {gate}
    IN  /\ call.status = "asking"
        /\ calls' = [calls EXCEPT ![c] =
              IF GatesOf(call.input, call.config) \subseteq accepted
              THEN [call EXCEPT !.accepted = accepted, !.status = "working",
                                !.config = ConfigOf(c), !.step = FirstStep(call.input)]
              ELSE [call EXCEPT !.accepted = accepted]]
        /\ UNCHANGED <<workload, config, edits>>

\* Declined, dismissed, accepted with a no, malformed, withdrawn by the caller,
\* or nobody there to ask.
Refuses(c) ==
    /\ calls[c].status = "asking"
    /\ calls' = [calls EXCEPT ![c].status = "failed"]
    /\ UNCHANGED <<workload, config, edits>>

-------------------------------------------------------------------------------
(* The requests of a client. *)

\* On to the next request, whose counters start over.
GoTo(call, step) ==
    [call EXCEPT !.step = step, !.busy = 0, !.down = 0, !.renewed = FALSE]

Over(call, status) == [GoTo(call, "none") EXCEPT !.status = status, !.sent = 0]
Failed(call) == Over(call, "failed")
Succeeded(call) == Over(call, "ok")

\* No answer, or a 5xx.
Retried(call) ==
    IF call.down + 1 >= Max5xx THEN Failed(call) ELSE [call EXCEPT !.down = @ + 1]

\* 429.
Throttled(call) ==
    IF call.busy + 1 >= Max429 THEN Failed(call) ELSE [call EXCEPT !.busy = @ + 1]

\* 401 from GS1: the token is minted anew, once in a request.
Renewed(call) ==
    IF call.renewed THEN Failed(call) ELSE [call EXCEPT !.renewed = TRUE]

===============================================================================
