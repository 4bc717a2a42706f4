----------------------------- MODULE ModelTasks -----------------------------
(***************************************************************************)
(* The structured calls of the language model: contracts/                  *)
(* structured_tasks.py.  Analyses share one runner: their calls interleave *)
(* and their attempts go into one bounded record, from which the telemetry *)
(* is counted.                                                             *)
(*                                                                         *)
(* A response is what the code distinguishes of it: how many tool calls,   *)
(* whether the one has the schema's name, what its arguments are, whether  *)
(* the provider has parsed them.                                           *)
(***************************************************************************)
EXTENDS Integers, Sequences, FiniteSets, SequencesExt, RuleValues

CONSTANTS
    Callers,         \* analyses with a call in hand
    TelemetryLimit   \* attempts the record keeps

ASSUME TasksAssumption == TelemetryLimit \in Nat \ {0} /\ IsFiniteSet(Callers)

\* Arguments of a call the provider could not parse, and what follows the first value.
Arguments == {"parsed", "not_text", "blank", "truncated", "syntax", "not_object", "no_suffix",
              "braces", "second_value", "text"}

Response == [mapping : BOOLEAN,                        \* raw response included, as asked for
             tool    : {"none", "valid", "invalid", "several"},
             named   : BOOLEAN,                        \* the call names the schema
             parsed  : BOOLEAN,                        \* the provider has parsed it
             args    : Arguments,
             fits    : BOOLEAN,                        \* the payload validates
             pydantic : BOOLEAN,                       \* parsing failed on validation
             content : BOOLEAN]                        \* there is text besides

\* Responses as the provider makes them: the parts that do not apply have one value.
Sensible(r) ==
    /\ ~r.mapping => r.tool = "none" /\ ~r.parsed /\ r.content /\ ~r.pydantic
    /\ r.args # "parsed" <=> r.tool = "invalid"
    /\ r.tool \in {"none", "several"} => r.named
    /\ r.parsed \/ r.tool \in {"none", "several"} => r.content
    /\ r.pydantic => r.tool \in {"none", "several"} /\ ~r.parsed

Responses == {r \in Response : Sensible(r)}

VARIABLES
    call,      \* what each caller's call is doing
    accepted,  \* the response each caller was given
    telemetry, \* the last attempts, oldest first
    whole      \* history: no attempt of a call in the record has been lost

tasksVars == <<call, accepted, telemetry, whole>>

Outcomes == {"NORMAL_SUCCESS", "RECOVERED", "FAILURE"}
Attempt  == [number : {1, 2}, result : Outcomes, retry : BOOLEAN, terminal : BOOLEAN]

TasksTypeOK ==
    /\ call \in [Callers -> {"idle", "first", "second", "returned", "raised"}]
    /\ accepted \in [Callers -> Responses \cup {None}]
    /\ telemetry \in Seq(Attempt) /\ Len(telemetry) <= TelemetryLimit
    /\ whole \in BOOLEAN

TasksInit ==
    /\ call = [c \in Callers |-> "idle"]
    /\ accepted = [c \in Callers |-> None]
    /\ telemetry = <<>>
    /\ whole = TRUE

-----------------------------------------------------------------------------
(* _normalize_response: a result, or the category of its failure.          *)

Validated(r) == IF r.fits THEN "NORMAL_SUCCESS" ELSE "PYDANTIC_VALIDATION_FAILED"

\* The one repair: closing braces too many behind an object that validates.
NormalizeInvalidCall(r) ==
    CASE r.args = "not_text" -> "TOOL_CALL_ARGUMENT_PARSE_FAILED"
      [] r.args = "blank" -> "PROVIDER_EMPTY_OUTPUT"
      [] r.args = "truncated" -> "TRUNCATED_JSON"
      [] r.args = "syntax" -> "INTERNAL_JSON_SYNTAX_ERROR"
      [] r.args = "not_object" -> "PYDANTIC_VALIDATION_FAILED"
      [] r.args \in {"no_suffix", "text"} -> "TOOL_CALL_ARGUMENT_PARSE_FAILED"
      [] r.args = "second_value" -> "MULTIPLE_JSON_VALUES"
      [] r.args = "braces" -> IF r.fits THEN "RECOVERED" ELSE "PYDANTIC_VALIDATION_FAILED"

NormalizeParsedFirst(r) ==
    IF ~r.mapping \/ r.parsed THEN Validated(r)
    ELSE IF r.tool = "several" THEN "MULTIPLE_AMBIGUOUS_TOOL_CALLS"
    ELSE IF ~r.named THEN "WRONG_TOOL_SCHEMA"
    ELSE IF r.tool = "invalid" THEN NormalizeInvalidCall(r)
    ELSE IF r.tool = "valid" THEN Validated(r)
    ELSE IF r.pydantic THEN "PYDANTIC_VALIDATION_FAILED"
    ELSE IF ~r.content THEN "PROVIDER_EMPTY_OUTPUT"
    ELSE "UNKNOWN_STRUCTURED_OUTPUT_FAILURE"

NormalizeResponse(r) ==
    IF ~r.mapping THEN Validated(r)
    ELSE IF r.tool = "several" THEN "MULTIPLE_AMBIGUOUS_TOOL_CALLS"
    ELSE IF ~r.named THEN "WRONG_TOOL_SCHEMA"
    ELSE IF r.parsed THEN Validated(r)
    ELSE IF r.tool = "invalid" THEN NormalizeInvalidCall(r)
    ELSE IF r.tool = "valid" THEN Validated(r)
    ELSE IF r.pydantic THEN "PYDANTIC_VALIDATION_FAILED"
    ELSE IF ~r.content THEN "PROVIDER_EMPTY_OUTPUT"
    ELSE "UNKNOWN_STRUCTURED_OUTPUT_FAILURE"

Success   == {"NORMAL_SUCCESS", "RECOVERED"}
Retryable == {"PROVIDER_EMPTY_OUTPUT", "TOOL_CALL_ARGUMENT_PARSE_FAILED", "TRUNCATED_JSON",
              "INTERNAL_JSON_SYNTAX_ERROR"}

-----------------------------------------------------------------------------

Calling == {c \in Callers : call[c] \in {"first", "second"}}
Number(c) == IF call[c] = "first" THEN 1 ELSE 2

RecordEverything(attempt) ==
    telemetry' = Append(telemetry, attempt) /\ whole' = whole

\* _record: the oldest attempt leaves a full record.
Record(attempt) ==
    /\ telemetry' = LET all == Append(telemetry, attempt)
                    IN  IF Len(all) > TelemetryLimit THEN Tail(all) ELSE all
    /\ whole' = (whole /\ Len(telemetry) < TelemetryLimit)

Invoke(c) ==
    /\ call[c] \in {"idle", "returned", "raised"}
    /\ call' = [call EXCEPT ![c] = "first"]
    /\ accepted' = [accepted EXCEPT ![c] = None]
    /\ UNCHANGED <<telemetry, whole>>

\* The provider answers; a failure of form is retried once with the same messages.
Respond(c, r) ==
    LET outcome == NormalizeResponse(r)
        retry   == call[c] = "first" /\ outcome \in Retryable
    IN  /\ c \in Calling
        /\ call' = [call EXCEPT ![c] = IF outcome \in Success THEN "returned"
                                       ELSE IF retry THEN "second" ELSE "raised"]
        /\ accepted' = [accepted EXCEPT ![c] = IF outcome \in Success THEN r ELSE None]
        /\ Record([number |-> Number(c), retry |-> retry,
                   result |-> IF outcome \in Success THEN outcome ELSE "FAILURE",
                   terminal |-> outcome \notin Success /\ ~retry])

ProviderFailsSilently(c) ==
    /\ c \in Calling
    /\ call' = [call EXCEPT ![c] = "raised"]
    /\ UNCHANGED <<accepted, telemetry, whole>>

\* The invocation itself raises: never retried.
ProviderFails(c) ==
    /\ c \in Calling
    /\ call' = [call EXCEPT ![c] = "raised"]
    /\ Record([number |-> Number(c), retry |-> FALSE, result |-> "FAILURE", terminal |-> TRUE])
    /\ UNCHANGED accepted

ClearTelemetry ==
    /\ telemetry # <<>>
    /\ telemetry' = <<>>
    /\ whole' = (\A c \in Callers : call[c] # "second")
    /\ UNCHANGED <<call, accepted>>

TasksNext ==
    \/ \E c \in Callers : Invoke(c) \/ ProviderFails(c) \/ \E r \in Responses : Respond(c, r)
    \/ ClearTelemetry

TasksSpec == TasksInit /\ [][TasksNext]_tasksVars

-----------------------------------------------------------------------------
(* telemetry_snapshot and the properties.                                  *)

Count(P(_)) == Cardinality({i \in DOMAIN telemetry : P(telemetry[i])})

Snapshot ==
    [calls          |-> Count(LAMBDA a : a.number = 1),
     attempts       |-> Len(telemetry),
     firstSuccesses |-> Count(LAMBDA a : a.number = 1 /\ a.result \in Success),
     retries        |-> Count(LAMBDA a : a.retry),
     retrySuccesses |-> Count(LAMBDA a : a.number = 2 /\ a.result \in Success),
     failures       |-> Count(LAMBDA a : a.result = "FAILURE" /\ a.terminal)]

\* As long as the record has lost nothing, every call in the telemetry is accounted for
\* once, whatever the order of attempts of different analyses: it succeeded at once, by its
\* retry, failed for good, or waits for the answer to its retry.
CallsAddUp ==
    whole => LET s == Snapshot
                 waiting == Cardinality({c \in Callers : call[c] = "second"})
             IN  /\ s.calls = s.firstSuccesses + s.retrySuccesses + s.failures + waiting
                 /\ s.attempts = s.calls + s.retries - waiting

\* Facts come only from an unambiguous call of the right schema whose payload validates, on
\* every path that ends in success: the provider's own parsing, its tool call, the repair.
AcceptedIsUnambiguous ==
    \A c \in Callers : accepted[c] # None =>
        /\ accepted[c].fits
        /\ accepted[c].tool # "several" /\ accepted[c].named
        /\ ~accepted[c].parsed /\ accepted[c].tool = "invalid" => accepted[c].args = "braces"

\* The structured calls of several analyses are accounted for, attempt by attempt, and only an
\* unambiguous one is accepted.
CallsAreAccounted == TasksTypeOK /\ CallsAddUp /\ AcceptedIsUnambiguous
=============================================================================
