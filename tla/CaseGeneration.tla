--------------------------- MODULE CaseGeneration ---------------------------
(***************************************************************************)
(* One generation attempt: the model provider's reply                      *)
(* (generation/deepseek_provider.py), the batch made of it as a whole      *)
(* (orchestrator.py), and the admission of its cases one by one            *)
(* (case_admission.py, pipeline.py, domain/generation.py).                 *)
(*                                                                         *)
(* A text is known by its shape and, if it is a batch, by its cases:       *)
(*   id          the case's identifier, as the sequence of its parts       *)
(*   wellFormed  the TestCase contract accepts it                          *)
(*   valid       a batch of this case alone has no semantic issue          *)
(*   steps       its steps, setup and cleanup included                     *)
(***************************************************************************)
EXTENDS Integers, Sequences, FiniteSets

CONSTANTS MaxCases, MaxSteps   \* GenerationConfig.max_cases, max_steps_per_case

ASSUME LimitsAssumption == MaxCases \in Nat \ {0} /\ MaxSteps \in Nat \ {0}

\* A decoded array of cases.
AreCases(cases) ==
  /\ cases \in Seq({cases[i] : i \in DOMAIN cases})
  /\ \A i \in DOMAIN cases : DOMAIN cases[i] = {"id", "wellFormed", "valid", "steps"}

----------------------------------------------------------------------------
(* DeepSeekProvider.generate: a text or the code of an error. A reply is a *)
(* timeout, a transport error, or a status with a payload.                 *)

NoText == [shape |-> "none", cases |-> <<>>]
Answer(text) == [error |-> "none", text |-> text]
ProviderError(code) == [error |-> code, text |-> NoText]

\* _HTTP_ERRORS, and one code for every other status from 400 on.
HttpError(status) ==
  CASE status = 400 -> "invalid-request"
    [] status = 401 -> "authentication-failed"
    [] status = 402 -> "insufficient-balance"
    [] status = 422 -> "invalid-parameters"
    [] status = 429 -> "rate-limited"
    [] status = 500 -> "server-error"
    [] status = 503 -> "server-overloaded"
    [] OTHER        -> "http-other"

\* _parse_response. "envelope": an object with id, model and status; "output":
\* a readable list of parts; "details": an incomplete response has its reason.
ParseResponse(payload) ==
  IF ~payload.envelope THEN ProviderError("invalid-provider-response")
  ELSE IF payload.status = "failed" THEN ProviderError("provider-response-failed")
  ELSE IF payload.status \notin {"completed", "incomplete"} \/ ~payload.output THEN
         ProviderError("invalid-provider-response")
  ELSE IF payload.text.shape = "blank" THEN ProviderError("empty-output")
  ELSE IF payload.status = "incomplete" /\ ~payload.details THEN ProviderError("invalid-provider-response")
  ELSE IF ~payload.usage THEN ProviderError("invalid-provider-response")
  ELSE Answer(payload.text)

ProviderGenerate(reply) ==
  IF reply.kind \in {"timeout", "network-error"} THEN ProviderError(reply.kind)
  ELSE IF reply.status >= 400 THEN ProviderError(HttpError(reply.status))
  ELSE ParseResponse(reply.payload)

----------------------------------------------------------------------------
(* generate_test_case_batch: the batch is the whole text or nothing. *)

DistinctIds(cases) == \A i, j \in DOMAIN cases : cases[i].id = cases[j].id => i = j

\* TestCaseBatch.model_validate
LoadsAsBatch(cases) ==
  /\ cases # <<>>
  /\ \A i \in DOMAIN cases : cases[i].wellFormed
  /\ DistinctIds(cases)

NoAdmission == [received |-> 0, admitted |-> 0, rejected |-> 0]

Attempt(status, answer, admission, batch) ==
  [status |-> status, answered |-> answer.error = "none", admission |-> admission, batch |-> batch]

GenerateTestCaseBatch(answer) ==
  IF answer.error # "none" THEN Attempt("provider_error", answer, NoAdmission, <<>>)
  ELSE IF answer.text.shape = "batch" /\ LoadsAsBatch(answer.text.cases) THEN
         Attempt("succeeded", answer, NoAdmission, answer.text.cases)
  ELSE Attempt("invalid_output", answer, NoAdmission, <<>>)

----------------------------------------------------------------------------
(* admit_generated_cases *)

\* Why the i-th case is not admitted. An identifier is taken as soon as a
\* well-formed case within the limit has it, admitted or not.
RejectionCode(cases, i) ==
  IF i > MaxCases THEN "case_count_limit_exceeded"
  ELSE IF ~cases[i].wellFormed THEN "case_structure_invalid"
  ELSE IF \E j \in 1..(i - 1) : cases[j].wellFormed /\ cases[j].id = cases[i].id THEN "duplicate_case_id"
  ELSE IF cases[i].steps > MaxSteps THEN "case_step_limit_exceeded"
  ELSE IF ~cases[i].valid THEN "case_semantics_invalid"
  ELSE "none"

Admitted(cases) == {i \in DOMAIN cases : RejectionCode(cases, i) = "none"}
Rejected(cases) == DOMAIN cases \ Admitted(cases)

\* CaseAdmissionSummary
Summary(cases) == [received |-> Len(cases), admitted |-> Cardinality(Admitted(cases)),
                   rejected |-> Cardinality(Rejected(cases))]

\* The admitted cases in their order.
AdmittedBatch(cases) ==
  LET upTo[n \in 0..Len(cases)] ==
        IF n = 0 THEN <<>>
        ELSE IF n \in Admitted(cases) THEN Append(upTo[n - 1], cases[n]) ELSE upTo[n - 1]
  IN upTo[Len(cases)]

(***************************************************************************)
(* generate_cases_from_openapi: once the text decodes, the admission of    *)
(* its cases replaces the verdict on the whole.                            *)
(***************************************************************************)
GenerateCases(reply) ==
  LET answer == ProviderGenerate(reply)
      cases == answer.text.cases
  IN IF answer.text.shape # "batch" THEN GenerateTestCaseBatch(answer)
     ELSE Attempt(IF Admitted(cases) = {} THEN "invalid_output" ELSE "succeeded",
                  answer, Summary(cases), AdmittedBatch(cases))

\* GenerationRecord: what is kept of an attempt beside its batch.
GenerationRecord(attempt) ==
  [kind |-> "GenerationRecord", status |-> attempt.status, answered |-> attempt.answered,
   admission |-> attempt.admission]
=============================================================================
