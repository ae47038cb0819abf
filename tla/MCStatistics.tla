---------------------------- MODULE MCStatistics ----------------------------
(* The programs of MCPipeline that only run forward, so that what a run    *)
(* counts is bounded by the length of the program.                         *)
EXTENDS MCPipeline, StatisticsISA

\* As in default.cfg, some operations take longer than others.
OpTicks == [op \in Legal |-> IF op = "alu" THEN 4 ELSE IF op = "branch" THEN 2 ELSE 1]
=============================================================================
