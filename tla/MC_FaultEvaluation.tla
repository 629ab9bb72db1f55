------------------------ MODULE MC_FaultEvaluation ------------------------
(***************************************************************************)
(* Two cases of two related reads and one best-effort cleanup step each.   *)
(***************************************************************************)
EXTENDS FaultEvaluation

Read == [uses |-> {}, lacksPath |-> FALSE, checks |-> {}, extracts |-> {}, required |-> {}]
CleanUp == [uses |-> {}, lacksPath |-> FALSE, checks |-> {}, extracts |-> {}, required |-> {},
            when |-> "always", ignoreErrors |-> TRUE]

NoSetup == <<>>
TwoReads == <<Read, Read>>
OneCleanup == <<CleanUp>>
OneRelation == {[source |-> 1, followUp |-> 2, baseline |-> 0, requestOnly |-> FALSE]}
============================================================================
