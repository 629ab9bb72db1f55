----------------------- MODULE MC_BenchmarkPipeline -----------------------
(***************************************************************************)
(* Two suites over up to two repetitions and two faults. Of the            *)
(* configurations, three are sound and differ in the runs and files they   *)
(* write, one changes the generator between repetitions, and the others    *)
(* must be refused before any traffic.                                     *)
(***************************************************************************)
EXTENDS BenchmarkPipeline, TLC

Native == [loads |-> TRUE, cases |-> 1, admitted |-> 1, composition |-> NoComposition,
           generator |-> "tool", priced |-> "no"]
Enhanced == [Native EXCEPT !.cases = 2,
             !.composition = [base |-> 1, extra |-> 1, pack |-> "shared", matches |-> TRUE]]
Arms(first, second) == ("s1" :> first) @@ ("s2" :> second)

Sound(n) == [suites |-> <<"s1", "s2">>, repetitions |-> <<n>>, faults |-> <<"f">>,
             arm |-> Arms("native", "enhanced"), disjoint |-> TRUE,
             inputs |-> Arms(n :> Native, n :> Enhanced)]
Wide == [Sound(1) EXCEPT !.repetitions = <<1, 2>>, !.faults = <<"f", "g">>,
         !.inputs = Arms([n \in 1..2 |-> Native], [n \in 1..2 |-> Enhanced])]

ChangedGenerator ==
  [Wide EXCEPT !.faults = <<"f">>, !.inputs["s1"][2].generator = "model"]
Unpaired == [Sound(1) EXCEPT !.inputs["s2"] = [n \in 1..2 |-> Enhanced]]
Miscounted == [Sound(1) EXCEPT !.inputs["s2"][1].cases = 3]
Overlapping == [Sound(1) EXCEPT !.disjoint = FALSE]

Configurations ==
  {Sound(1), Sound(2), Wide, ChangedGenerator, Unpaired, Miscounted, Overlapping}
============================================================================
