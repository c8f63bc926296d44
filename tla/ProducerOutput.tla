--------------------------- MODULE ProducerOutput ---------------------------
(***************************************************************************)
(* From the answer of the provider to the outcome of an attempt: the       *)
(* prompt of producer_executor.py, the extraction of the structured output *)
(* from the answer, and the Structural Validation of                       *)
(* producer_output_schema.py.  Functions of their arguments, no state.     *)
(*                                                                         *)
(* An answer is the exception the SDK raises, or the texts of its blocks   *)
(* of content.  A text is a sequence of pieces: the two halves of a JSON   *)
(* document, or prose.  A JSON value has a kind and, as far as a check     *)
(* looks at it, a value: of a string of title or body its length (0 when   *)
(* there is nothing but blanks), of a list its items.                      *)
(***************************************************************************)
EXTENDS Integers, Sequences, SequencesExt

SchemaVersion == "producer-output-v1"       \* PRODUCER_OUTPUT_SCHEMA_VERSION
MaxTitleLength == 300

RequiredFields == {"schema_version", "object_type", "title", "body",
                   "learning_outcome_refs", "metadata"}

String(v) == [kind |-> "string", value |-> v]
List(items) == [kind |-> "list", value |-> items]
JsonObject(fields) == [kind |-> "object", value |-> fields]
ANumber == [kind |-> "number"]

Raised == [raised |-> TRUE, content |-> << >>]
Answer(content) == [raised |-> FALSE, content |-> content]
Halves(document) == <<[half |-> 1, of |-> document], [half |-> 2, of |-> document]>>
Prose == [half |-> 0, of |-> ANumber]

\* Mutant: every approved object may be referred to.
AllApproved(approved) == {e.object : e \in Range(approved)}

\* The objects learning_outcome_refs may name, from approved_objects of a package.
AllowedOutcomes(approved) ==
    {e.object : e \in {f \in Range(approved) : f.type = "LEARNING_OUTCOME"}}

\* _extract_response_text: the texts that are not empty, joined; << >> if there is none.
ResponseText(answer) ==
    LET joined[i \in 0..Len(answer.content)] ==
            IF i = 0 THEN << >>
            ELSE IF answer.content[i] = << >> THEN joined[i - 1]
            ELSE joined[i - 1] \o answer.content[i] IN
    joined[Len(answer.content)]

\* json.loads: the whole of the text is one document.
IsJson(text) == Len(text) = 2 /\ text = Halves(text[1].of)

\* _extract_structured_output
HasStructuredOutput(answer) ==
    LET text == ResponseText(answer) IN IsJson(text) /\ text[1].of.kind = "object"
StructuredOutput(answer) == ResponseText(answer)[1].of.value

\* validate_structural of an object: the conjuncts are its checks, in their order, which
\* matters, as each one looks at what the ones before have found to be there.
IsValid(output, expectedType, allowed) ==
    /\ DOMAIN output \subseteq RequiredFields
    /\ RequiredFields \subseteq DOMAIN output
    /\ output["schema_version"] = String(SchemaVersion)
    /\ output["object_type"] = String(expectedType)
    /\ output["title"].kind = "string" /\ output["title"].value # 0
    /\ output["title"].value <= MaxTitleLength
    /\ output["body"].kind = "string" /\ output["body"].value # 0
    /\ output["learning_outcome_refs"].kind = "list"
    /\ \A r \in Range(output["learning_outcome_refs"].value) :
          r.kind = "string" /\ r.value \in allowed
    /\ output["metadata"].kind = "object"

\* execute and the loop of Phase B: what an answer makes of the attempt.  "SUCCESS" is what
\* Phase C makes of it, if the lease is still held.
AttemptOutcome(answer, expectedType, allowed) ==
    IF answer.raised \/ ~HasStructuredOutput(answer) THEN "TECHNICAL_FAILURE"
    ELSE IF ~IsValid(StructuredOutput(answer), expectedType, allowed) THEN "INVALID_OUTPUT"
    ELSE "SUCCESS"

-------------------------------------------------------------------------------
\* The contract of output as _build_prompt states it to the provider, rule by rule; "non-empty"
\* is read as having more than blanks.
ObeysRules(output, version, expectedType, references) ==
    /\ DOMAIN output = RequiredFields
    /\ output["schema_version"] = String(version)
    /\ output["object_type"] = String(expectedType)
    /\ \A field \in {"title", "body"} : output[field].kind = "string" /\ output[field].value > 0
    /\ output["learning_outcome_refs"].kind = "list"
    /\ Range(output["learning_outcome_refs"].value) \subseteq {String(o) : o \in references}
    /\ output["metadata"].kind = "object"

\* "Output ONLY the JSON object itself ... nothing before or after".
ObeysPrompt(answer, version, expectedType, references) ==
    /\ ~answer.raised
    /\ \E i \in DOMAIN answer.content : answer.content[i] # << >>
    /\ LET text == FlattenSeq(answer.content)
           document == text[1].of IN
       /\ text = Halves(document)
       /\ document.kind = "object"
       /\ ObeysRules(document.value, version, expectedType, references)

-------------------------------------------------------------------------------
\* Answers to compare the two on: a good output, each way to spoil the value of a field,
\* either with a field missing or one too many, and for the good one each way to deliver it.

Good(expectedType) ==
    [f \in RequiredFields |->
        CASE f = "schema_version" -> String(SchemaVersion)
          [] f = "object_type" -> String(expectedType)
          [] f \in {"title", "body"} -> String(MaxTitleLength)
          [] f = "learning_outcome_refs" -> List(<< >>)
          [] f = "metadata" -> JsonObject(<< >>)]

\* What may stand in a field, besides what Good has there.
Spoilt(field, objects) ==
    CASE field = "schema_version" -> {String("producer-output-v2")}
      [] field = "object_type" -> {String("CONTENT"), ANumber}
      [] field \in {"title", "body"} -> {String(0), String(MaxTitleLength + 1), ANumber}
      [] field = "learning_outcome_refs" ->
            {List(<<String(o)>>) : o \in objects} \union {List(<<ANumber>>), ANumber}
            \union {List(<<String(o), String(w)>>) : o, w \in objects}
      [] field = "metadata" -> {List(<< >>)}

SpoiltValues(output, objects) ==
    UNION {{[output EXCEPT ![f] = v] : v \in Spoilt(f, objects)} : f \in DOMAIN output}

SpoiltFields(output) ==
    {[f \in DOMAIN output \ {g} |-> output[f]] : g \in DOMAIN output}
    \union {[f \in DOMAIN output \union {"reasoning"} |->
                IF f = "reasoning" THEN String(1) ELSE output[f]]}

Outputs(expectedType, objects) ==
    LET good == Good(expectedType)
        named == {good} \union SpoiltValues(good, objects) IN
    named \union UNION {SpoiltFields(o) : o \in named}

Answers(expectedType, objects) ==
    LET good == Halves(JsonObject(Good(expectedType)))
        no == << >> IN
    {Answer(<<Halves(JsonObject(o))>>) : o \in Outputs(expectedType, objects)}
    \union {Raised, Answer(no), Answer(<<no>>), Answer(<<<<Prose>>>>), Answer(<<Halves(List(no))>>),
            Answer(<<<<good[1]>>, no, <<good[2]>>>>), Answer(<<<<good[1]>>>>),
            Answer(<<<<Prose>>, good>>), Answer(<<good, <<Prose>>>>), Answer(<<good, good>>)}
===============================================================================
