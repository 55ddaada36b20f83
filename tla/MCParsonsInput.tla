--------------------------- MODULE MCParsonsInput ---------------------------
(* Two questions of two blocks each; one block is named alike in both.       *)
EXTENDS ParsonsInput

MCServed == [q \in {"q1", "q2"} |->
               IF q = "q1" THEN <<[id |-> "a", indent |-> 0], [id |-> "b", indent |-> 0]>>
               ELSE <<[id |-> "c", indent |-> 1], [id |-> "a", indent |-> 0]>>]
=============================================================================
