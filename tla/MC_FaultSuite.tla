--------------------------- MODULE MC_FaultSuite ---------------------------
(***************************************************************************)
(* Two configured faults, so that late requests of the clean run and of    *)
(* the first fault run can reach a later fault.                            *)
(***************************************************************************)
EXTENDS FaultSuite

CONSTANTS f1, f2

TwoFaults == <<f1, f2>>

\* Bound of the run with two requests in each run: one of them is given up.
OneGivenUp == Cardinality(GivenUp) <= 1
============================================================================
