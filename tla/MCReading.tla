------------------------------ MODULE MCReading ------------------------------
(* How the server reads what it is given: statements (SqlText), and names    *)
(* and schemas (Discovery). The two share no state: a behaviour writes a     *)
(* text, under one of the policies, or asks about the schemas.               *)
EXTENDS MCDiscovery, MCSqlText

ReadingInit == Init /\ TextInit
ReadingNext ==
    \/ text = <<>> /\ Next /\ UNCHANGED textVars
    \/ answer.kind = "none" /\ policy = Normalized(Policy("full", {}, {})) /\ TextNext /\ UNCHANGED vars
ReadingSpec == ReadingInit /\ [][ReadingNext]_<<vars, textVars>>
=============================================================================
