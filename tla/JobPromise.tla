----------------------------- MODULE JobPromise -----------------------------
(***************************************************************************)
(* What an asynchronous job promises its client (QueryJobSnapshot of       *)
(* src/server.rs): it is pending, perhaps runs, and ends once; its response *)
(* appears with its end, says how it ended and never changes afterwards.   *)
(***************************************************************************)
VARIABLES state, response

NoResponse == "none"
Endings == {"succeeded", "failed", "canceled"}

\* The payload a job ends with.
ResponseOf(ending) ==
    CASE ending = "succeeded" -> "data"
      [] ending = "failed" -> "error"
      [] ending = "canceled" -> "QUERY_CANCELED"

Init == state = "pending" /\ response = NoResponse

Start ==
    /\ state = "pending"
    /\ state' = "running"
    /\ UNCHANGED response

End(ending) ==
    /\ state \in {"pending", "running"}
    /\ state' = ending
    /\ response' = ResponseOf(ending)

Next == Start \/ \E ending \in Endings : End(ending)

Spec == Init /\ [][Next]_<<state, response>>
=============================================================================
