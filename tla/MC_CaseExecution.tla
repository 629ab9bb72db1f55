------------------------- MODULE MC_CaseExecution -------------------------
(***************************************************************************)
(* A lifecycle case: create, replace, read, then three cleanup steps, one  *)
(* for each condition, the first of them best-effort. The identifier is    *)
(* extracted by setup and again by the update; the tag is optional,        *)
(* checked later and used by cleanup.                                      *)
(***************************************************************************)
EXTENDS CaseExecution

Step(uses, checks, extracts, required) ==
  [uses |-> uses, lacksPath |-> FALSE, checks |-> checks, extracts |-> extracts, required |-> required]
CleanupStep(uses, when, ignoreErrors) ==
  [uses |-> uses, lacksPath |-> FALSE, checks |-> {}, extracts |-> {}, required |-> {},
   when |-> when, ignoreErrors |-> ignoreErrors]

Create == Step({"token"}, {}, {"id"}, {"id"})
Replace == Step({"id"}, {}, {"id", "tag"}, {"id"})
Read == Step({"id"}, {"tag"}, {}, {})

TheSetup == <<Create>>
TheMain == <<Replace, Read>>
TheCleanup == <<CleanupStep({"id"}, "always", TRUE),
                CleanupStep({"tag"}, "on_success", FALSE),
                CleanupStep({"id"}, "on_failure", FALSE)>>
TheRelations == {[source |-> 1, followUp |-> 3, baseline |-> 0, requestOnly |-> TRUE],
                 [source |-> 2, followUp |-> 3, baseline |-> 1, requestOnly |-> FALSE]}
TheInitial == {"token"}
============================================================================
