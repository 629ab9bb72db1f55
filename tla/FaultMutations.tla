--------------------------- MODULE FaultMutations ---------------------------
(***************************************************************************)
(* The proxy's pure part (services/fault_proxy/mutations.py): one fault    *)
(* definition applied to one forwarded response. A path expression is the  *)
(* set of paths it matches; a definition's empty set of statuses and its   *)
(* media type "any" match every response.                                  *)
(***************************************************************************)
EXTENDS JsonValues

\* json.loads fails on the body.
Undecodable(body) == body \in {Missing, [garbled |-> TRUE]}

Reasons == {"applied", "method_mismatch", "path_mismatch", "status_mismatch",
            "media_type_mismatch", "response_not_json", "invalid_json",
            "pointer_not_found", "target_not_array", "index_out_of_range", "no_change"}

MatchFailure(definition, request, response) ==
  IF request.method # definition.method THEN "method_mismatch"
  ELSE IF request.path \notin definition.paths THEN "path_mismatch"
  ELSE IF definition.statuses # {} /\ response.status \notin definition.statuses THEN "status_mismatch"
  ELSE IF definition.media \notin {"any", response.media} THEN "media_type_mismatch"
  ELSE "none"

----------------------------------------------------------------------------
(* _mutate_json_body: why the mutation cannot be made, and what it makes. *)

DuplicateFailure(body, mutation) ==
  LET target == Select(body, mutation.pointer)
  IN IF target = Missing THEN "pointer_not_found"
     ELSE IF ~IsKind(target, "arr") THEN "target_not_array"
     ELSE IF mutation.index >= Len(target.arr) THEN "index_out_of_range"
     ELSE "none"

MutationFailure(body, mutation) ==
  CASE mutation.type = "duplicate_json_array_item" -> DuplicateFailure(body, mutation)
    [] mutation.type = "replace_json_value" /\ mutation.pointer = <<>> -> "none"
    [] OTHER -> IF mutation.pointer = <<>> \/ Select(body, mutation.pointer) = Missing
                THEN "pointer_not_found" ELSE "none"

\* The item at index comes twice.
Duplicated(values, index) == SubSeq(values, 1, index + 1) \o SubSeq(values, index + 1, Len(values))

Mutated(body, mutation) ==
  CASE mutation.type = "remove_json_value" -> WithSelected(body, mutation.pointer, Missing)
    [] mutation.type = "replace_json_value" ->
         WithSelected(body, mutation.pointer, mutation.value)
    [] mutation.type = "duplicate_json_array_item" ->
         WithSelected(body, mutation.pointer,
                      Arr(Duplicated(Select(body, mutation.pointer).arr, mutation.index)))

----------------------------------------------------------------------------
(* apply_response_fault *)

WithBody(response, body) == [response EXCEPT !.body = body]
WithStatus(response, status) == [response EXCEPT !.status = status]

Applied(response) == [response |-> response, triggered |-> TRUE, reason |-> "applied"]
NotTriggered(response, reason) == [response |-> response, triggered |-> FALSE, reason |-> reason]

\* Mutant: a mutation that changes nothing counts as applied.
MutateBody_AlwaysApplied(response, mutation) ==
  IF response.media # "json" THEN NotTriggered(response, "response_not_json")
  ELSE IF Undecodable(response.body) THEN NotTriggered(response, "invalid_json")
  ELSE
         LET failure == MutationFailure(response.body, mutation)
         IN IF failure # "none" THEN NotTriggered(response, failure)
            ELSE Applied(WithBody(response, Mutated(response.body, mutation)))

MutateBody(response, mutation) ==
  IF response.media # "json" THEN NotTriggered(response, "response_not_json")
  ELSE IF Undecodable(response.body) THEN NotTriggered(response, "invalid_json")
  ELSE
         LET failure == MutationFailure(response.body, mutation)
             body == Mutated(response.body, mutation)
         IN IF failure # "none" THEN NotTriggered(response, failure)
            ELSE IF body = response.body THEN NotTriggered(response, "no_change")
            ELSE Applied(WithBody(response, body))

ReplaceStatus(response, status) ==
  IF response.status = status THEN NotTriggered(response, "no_change")
  ELSE Applied(WithStatus(response, status))

ApplyResponseFault(definition, request, response) ==
  LET mismatch == MatchFailure(definition, request, response)
  IN IF mismatch # "none" THEN NotTriggered(response, mismatch)
     ELSE IF definition.mutation.type = "replace_status"
     THEN ReplaceStatus(response, definition.mutation.status)
     ELSE MutateBody(response, definition.mutation)
=============================================================================
