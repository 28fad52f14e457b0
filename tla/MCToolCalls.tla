---------------------------- MODULE MCToolCalls ----------------------------
(* Loads for ToolCalls: calls that overlap, a table that is used by tasks,  *)
(* and both at once with a table that two jobs fill.                       *)
EXTENDS ToolCalls

MCCalls == {"c1", "c2", "c3"}

MCLoads == {[calls |-> MCCalls, jobs |-> 0, time |-> 0],
            [calls |-> {}, jobs |-> 5, time |-> 4],
            [calls |-> {"c1", "c2"}, jobs |-> 2, time |-> 1],
            [calls |-> MCCalls, jobs |-> 2, time |-> 0]}
=============================================================================
