--------------------------- MODULE MCStartupLease ---------------------------
(* Instances of StartupLease for TLC: attempts as symmetric model values.   *)
EXTENDS StartupLease, TLC

Symmetry == Permutations(Procs)

\* Where nobody passes skip_if_completed no step reads the journal: the liveness run, whose
\* properties do not mention it either, looks at the rest of the state.
WithoutJournal == <<lease, {s \in wire : s.op # "insert"}, pc, phase, event, token,
                    fenceLost, beat, timer, patience>>
=============================================================================
