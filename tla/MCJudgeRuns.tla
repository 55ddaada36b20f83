---------------------------- MODULE MCJudgeRuns ----------------------------
(* Two metrics over a bank of two questions, in one chunk.               *)
EXTENDS JudgeRuns

CONSTANTS r1, collector, professor, accuracy, clarity

MCPoller == {collector, professor}
MCQuestion == 1..2
MCMetric == {accuracy, clarity}
Job(m, qs) == [metric |-> m, questions |-> qs]
MCPlan == <<Job(accuracy, {1, 2}), Job(clarity, {1, 2})>>
============================================================================
