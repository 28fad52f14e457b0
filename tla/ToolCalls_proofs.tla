-------------------------- MODULE ToolCalls_proofs --------------------------
(* Theorems of the circuit breaker, for any threshold, cooldown and number    *)
(* of calls; of the job table, for any limit, time to live and clock; and of  *)
(* the calls that use both: what each part promises by itself holds for both  *)
(* together, under any load.                                                  *)
EXTENDS ToolCalls, FiniteSetTheorems, TLAPS

-----------------------------------------------------------------------------
(* The circuit breaker. *)

\* The counter never runs ahead of the failures the group really had in a row.
CountInv == \A g \in Groups : failures[g] <= streak[g]

\* Every tool has its group.
LEMMA GroupsOfTools == \A t \in Tools : GroupKey(t) \in Groups
    BY DEF Tools, GroupKey, Groups

\* What both critical sections read is well typed.
LEMMA NowTypes ==
    ASSUME BreakerTypeOK, NEW g \in Groups
    PROVE  /\ LeftNow(g) \in Closed..Cooldown /\ LeftNow(g) <= openLeft[g]
           /\ FailuresNow(g) \in 0..(Threshold - 1) /\ FailuresNow(g) <= failures[g]
           /\ openLeft[g] \in Closed..Cooldown
           /\ failures[g] \in 0..(Threshold - 1)
           /\ streak[g] \in 0..Threshold
<1>1. /\ openLeft[g] \in Closed..Cooldown
      /\ failures[g] \in 0..(Threshold - 1)
      /\ streak[g] \in 0..Threshold
    BY DEF BreakerTypeOK
<1> QED BY <1>1, ConfigAccepted DEF LeftNow, FailuresNow, IsOpen, Closed

\* The outcome of a call: the circuit it belongs to, and the others unchanged.
LEMMA RecordStep ==
    ASSUME BreakerTypeOK, CountInv, NEW c \in Calls, NEW outcome \in Outcomes, Finish(c, outcome)
    PROVE  \E g \in Groups, f \in 0..(Threshold - 1), l \in Closed..Cooldown, n \in 0..Threshold :
              /\ failures' = [failures EXCEPT ![g] = f]
              /\ openLeft' = [openLeft EXCEPT ![g] = l]
              /\ streak' = [streak EXCEPT ![g] = n]
              /\ f <= n
              /\ l <= openLeft[g] \/ n = Threshold
              /\ tool' = [tool EXCEPT ![c] = Idle]
<1> DEFINE g == GroupKey(tool[c])
<1>1. g \in Groups
    BY GroupsOfTools DEF BreakerTypeOK, Finish
<1>2. /\ Record(g, outcome)
      /\ streak' = [streak EXCEPT ![g] = IF outcome # "RetryableFailure" THEN 0
                                         ELSE IF @ < Threshold THEN @ + 1 ELSE @]
    BY DEF Finish
<1>3. tool' = [tool EXCEPT ![c] = Idle]
    BY DEF Finish
<1>4. streak \in [Groups -> 0..Threshold]
    BY DEF BreakerTypeOK
<1> HIDE DEF g
<1>5. /\ LeftNow(g) \in Closed..Cooldown /\ LeftNow(g) <= openLeft[g]
      /\ FailuresNow(g) \in 0..(Threshold - 1) /\ FailuresNow(g) <= failures[g]
      /\ streak[g] \in 0..Threshold /\ failures[g] \in 0..(Threshold - 1)
      /\ failures[g] <= streak[g] /\ openLeft[g] \in Closed..Cooldown
    BY <1>1, NowTypes DEF CountInv
<1> DEFINE m == IF streak[g] < Threshold THEN streak[g] + 1 ELSE streak[g]
<1>6. CASE outcome # "RetryableFailure"
  <2>1. /\ failures' = [failures EXCEPT ![g] = 0]
        /\ openLeft' = [openLeft EXCEPT ![g] = LeftNow(g)]
        /\ streak' = [streak EXCEPT ![g] = 0]
      BY <1>2, <1>6 DEF Record
  <2>2. 0 \in 0..(Threshold - 1) /\ 0 \in 0..Threshold /\ 0 <= 0
      BY ConfigAccepted
  <2>3. LeftNow(g) \in Closed..Cooldown /\ LeftNow(g) <= openLeft[g]
      BY <1>5
  <2> QED BY <1>1, <1>3, <2>1, <2>2, <2>3, Zenon
<1>7. CASE outcome = "RetryableFailure" /\ FailuresNow(g) + 1 >= Threshold
  <2>1. /\ failures' = [failures EXCEPT ![g] = 0]
        /\ openLeft' = [openLeft EXCEPT ![g] = Cooldown]
        /\ streak' = [streak EXCEPT ![g] = m]
      BY <1>2, <1>4, <1>7 DEF Record
  <2>2. m = Threshold
      BY <1>5, <1>7, ConfigAccepted
  <2>3. 0 \in 0..(Threshold - 1) /\ Cooldown \in Closed..Cooldown /\ m \in 0..Threshold /\ 0 <= m
      BY <2>2, ConfigAccepted DEF Closed
  <2> QED BY <1>1, <1>3, <2>1, <2>2, <2>3
<1>8. CASE outcome = "RetryableFailure" /\ ~(FailuresNow(g) + 1 >= Threshold)
  <2>1. /\ failures' = [failures EXCEPT ![g] = FailuresNow(g) + 1]
        /\ openLeft' = [openLeft EXCEPT ![g] = LeftNow(g)]
        /\ streak' = [streak EXCEPT ![g] = m]
      BY <1>2, <1>4, <1>8 DEF Record
  <2>2. FailuresNow(g) + 1 \in 0..(Threshold - 1) /\ m \in 0..Threshold /\ FailuresNow(g) + 1 <= m
      BY <1>5, <1>8, ConfigAccepted
  <2> QED BY <1>1, <1>3, <1>5, <2>1, <2>2
<1> QED BY <1>6, <1>7, <1>8

\* Admission resets a circuit whose cooldown is over, and opens none.
LEMMA AdmitStep ==
    ASSUME BreakerTypeOK, CountInv, NEW c \in Calls, NEW t \in Tools, Admit(c, t)
    PROVE  BreakerTypeOK' /\ CountInv' /\ streak' = streak
           /\ \A h \in Groups : openLeft'[h] <= openLeft[h]
<1> DEFINE g == GroupKey(t)
<1>1. g \in Groups
    BY GroupsOfTools
<1>2. /\ failures' = [failures EXCEPT ![g] = FailuresNow(g)]
      /\ openLeft' = [openLeft EXCEPT ![g] = LeftNow(g)]
      /\ tool' = [tool EXCEPT ![c] = t] /\ streak' = streak
    BY DEF Admit
<1> HIDE DEF g
<1>3. /\ LeftNow(g) \in Closed..Cooldown /\ LeftNow(g) <= openLeft[g]
      /\ FailuresNow(g) \in 0..(Threshold - 1) /\ FailuresNow(g) <= failures[g]
    BY <1>1, NowTypes
<1>4. BreakerTypeOK'
    BY <1>1, <1>2, <1>3 DEF BreakerTypeOK
<1>5. \A h \in Groups : openLeft'[h] <= openLeft[h] /\ failures'[h] <= failures[h]
                        /\ failures[h] <= streak[h]
                        /\ failures[h] \in Int /\ failures'[h] \in Int /\ streak[h] \in Int
  <2> TAKE h \in Groups
  <2>1. openLeft[h] \in Int /\ failures[h] \in Int /\ streak[h] \in Int /\ failures[h] <= streak[h]
      BY NowTypes, ConfigAccepted DEF CountInv, Closed
  <2> QED BY <1>1, <1>2, <1>3, <2>1, ConfigAccepted DEF BreakerTypeOK, Closed
<1> QED BY <1>2, <1>4, <1>5 DEF CountInv

\* Every step keeps types and count, and opens a circuit after a full run only.
LEMMA BreakerStep ==
    ASSUME BreakerTypeOK, CountInv, [BreakerNext]_breakerVars
    PROVE  /\ BreakerTypeOK' /\ CountInv'
           /\ \A h \in Groups : openLeft'[h] <= openLeft[h] \/ streak'[h] = Threshold
<1>1. \A h \in Groups : openLeft[h] \in Int /\ failures[h] \in Int /\ streak[h] \in Int
    BY NowTypes, ConfigAccepted DEF Closed
<1>2. ASSUME NEW c \in Calls, NEW t \in Tools, Admit(c, t)
      PROVE  /\ BreakerTypeOK' /\ CountInv'
             /\ \A h \in Groups : openLeft'[h] <= openLeft[h] \/ streak'[h] = Threshold
    BY <1>2, AdmitStep
<1>3. ASSUME NEW c \in Calls, NEW outcome \in Outcomes, Finish(c, outcome)
      PROVE  /\ BreakerTypeOK' /\ CountInv'
             /\ \A h \in Groups : openLeft'[h] <= openLeft[h] \/ streak'[h] = Threshold
  <2>1. PICK g \in Groups, f \in 0..(Threshold - 1), l \in Closed..Cooldown, n \in 0..Threshold :
              /\ failures' = [failures EXCEPT ![g] = f]
              /\ openLeft' = [openLeft EXCEPT ![g] = l]
              /\ streak' = [streak EXCEPT ![g] = n]
              /\ f <= n
              /\ l <= openLeft[g] \/ n = Threshold
              /\ tool' = [tool EXCEPT ![c] = Idle]
      BY <1>3, RecordStep
  <2>2. BreakerTypeOK'
      BY <2>1 DEF BreakerTypeOK
  <2>3. CountInv'
      BY <2>1 DEF BreakerTypeOK, CountInv
  <2>4. \A h \in Groups : openLeft'[h] <= openLeft[h] \/ streak'[h] = Threshold
      BY <1>1, <2>1 DEF BreakerTypeOK
  <2> QED BY <2>2, <2>3, <2>4
<1>4. CASE Tick
  <2>1. \A h \in Groups : openLeft'[h] \in Closed..Cooldown /\ openLeft'[h] <= openLeft[h]
      BY <1>4, NowTypes, ConfigAccepted DEF Tick, IsOpen, Closed
  <2>2. /\ openLeft' = [g \in Groups |-> IF IsOpen(g) THEN openLeft[g] - 1 ELSE openLeft[g]]
        /\ UNCHANGED <<failures, tool, streak>>
      BY <1>4 DEF Tick
  <2>3. openLeft' \in [Groups -> Closed..Cooldown]
      BY <2>1, <2>2
  <2> QED BY <2>1, <2>2, <2>3 DEF BreakerTypeOK, CountInv
<1>5. CASE UNCHANGED breakerVars
    BY <1>1, <1>5 DEF breakerVars, BreakerTypeOK, CountInv
<1> QED BY <1>2, <1>3, <1>4, <1>5 DEF BreakerNext

\* Initially every circuit is closed and nothing was counted.
LEMMA InitCount == BreakerInit => BreakerTypeOK /\ CountInv
    BY ConfigAccepted DEF BreakerInit, BreakerTypeOK, CountInv, Closed, Tools

\* Every variable keeps its type: the counter stays below the threshold.
THEOREM BreakerTypeCorrect == BreakerSpec => []BreakerTypeOK
    BY InitCount, BreakerStep, PTL DEF BreakerSpec

\* A circuit opens, or stays open longer, only after Threshold retryable failures
\* of its own group in a row.
THEOREM StreakOpens == BreakerSpec => OpensOnStreak
<1>1. BreakerTypeOK /\ CountInv /\ [BreakerNext]_breakerVars
        => [\A g \in Groups : openLeft'[g] > openLeft[g] /\ openLeft'[g] > 0
                => streak'[g] = Threshold]_breakerVars
  <2> SUFFICES ASSUME BreakerTypeOK, CountInv, [BreakerNext]_breakerVars, NEW g \in Groups, openLeft'[g] > openLeft[g]
               PROVE  streak'[g] = Threshold
      OBVIOUS
  <2>1. openLeft[g] \in Int /\ openLeft'[g] \in Int
      BY BreakerStep, NowTypes, ConfigAccepted DEF BreakerTypeOK, Closed
  <2> QED BY <2>1, BreakerStep
<1> QED BY <1>1, InitCount, BreakerStep, PTL DEF BreakerSpec, OpensOnStreak

-----------------------------------------------------------------------------
(* The job table. *)

\* A live job has been created, and nothing is in the table before it is.
CreatedInv ==
    /\ IsFiniteSet(jobs)
    /\ \A j \in jobs : j < nextId
    /\ \A j \in Ids : j >= nextId => state[j] = "unborn"

\* What is proved by induction.
RegistryInv == RegistryTypeOK /\ CreatedInv /\ CapacityHolds /\ LiveJobsStay

\* Pruning keeps a part of the table, with every live job in it.
LEMMA PrunedTable ==
    ASSUME RegistryInv
    PROVE  /\ Pruned(jobs) \subseteq jobs
           /\ \A j \in Ids : state[j] = "live" => j \in Pruned(jobs)
           /\ IsFiniteSet(Pruned(jobs))
           /\ Cardinality(Pruned(jobs)) \in Nat
           /\ Cardinality(Pruned(jobs)) <= MaxEntries
<1>1. Pruned(jobs) \subseteq jobs
    BY DEF Pruned
<1>2. IsFiniteSet(Pruned(jobs)) /\ Cardinality(Pruned(jobs)) <= Cardinality(jobs)
    BY <1>1, FS_Subset DEF RegistryInv, CreatedInv
<1>3. Cardinality(Pruned(jobs)) \in Nat /\ Cardinality(jobs) \in Nat
    BY <1>2, FS_CardinalityType DEF RegistryInv, CreatedInv
<1>4. Cardinality(jobs) <= MaxEntries
    BY DEF RegistryInv, CapacityHolds
<1>5. \A j \in Ids : state[j] = "live" => j \in Pruned(jobs)
    BY DEF RegistryInv, LiveJobsStay, Pruned
<1> QED BY <1>1, <1>2, <1>3, <1>4, <1>5, LimitsAccepted

\* A table that was only pruned is as good as before.
LEMMA PruneStep ==
    ASSUME RegistryInv, jobs' = Pruned(jobs), UNCHANGED <<nextId, state>>, RegistryTypeOK'
    PROVE  RegistryInv'
<1>1. CreatedInv'
    BY PrunedTable DEF RegistryInv, CreatedInv
<1>2. CapacityHolds'
    BY PrunedTable DEF CapacityHolds
<1>3. LiveJobsStay'
    BY PrunedTable DEF LiveJobsStay
<1> QED BY <1>1, <1>2, <1>3 DEF RegistryInv

\* create_internal makes room before it inserts, and never at a live job's cost.
LEMMA CreateStep ==
    ASSUME RegistryInv, Create PROVE RegistryInv'
<1> DEFINE P == Pruned(jobs)
<1>0. RegistryTypeOK /\ nextId \in Ids
    BY LimitsAccepted DEF RegistryInv, Create, RegistryTypeOK, Ids
<1>1. PICK Kept \in SUBSET P :
          /\ jobs' = Kept \cup {nextId}
          /\ Cardinality(Kept) < MaxEntries
          /\ \A j \in P : state[j] = "live" => j \in Kept
  <2>1. CASE HasRoom(P) /\ jobs' = P \cup {nextId}
      BY <2>1 DEF HasRoom
  <2>2. ASSUME NEW old \in OldestEnded(P), jobs' = (P \ {old}) \cup {nextId}
        PROVE  /\ jobs' = (P \ {old}) \cup {nextId}
               /\ Cardinality(P \ {old}) < MaxEntries
               /\ \A j \in P : state[j] = "live" => j \in P \ {old}
    <3>1. old \in P /\ state[old] = "ended"
        BY DEF OldestEnded, Ended
    <3>2. Cardinality(P \ {old}) = Cardinality(P) - 1
        BY <3>1, PrunedTable, FS_RemoveElement
    <3> QED BY <2>2, <3>1, <3>2, PrunedTable, LimitsAccepted
  <2> QED BY <2>1, <2>2 DEF Create
<1>2. IsFiniteSet(Kept) /\ Cardinality(Kept) \in Nat
    BY PrunedTable, FS_Subset, FS_CardinalityType
<1>3. IsFiniteSet(jobs') /\ Cardinality(jobs') <= Cardinality(Kept) + 1
                         /\ Cardinality(jobs') \in Nat
  <2>1. jobs' = Kept \cup {nextId}
      BY <1>1
  <2>2. IsFiniteSet(jobs')
      BY <1>2, <2>1, FS_AddElement
  <2>3. Cardinality(jobs') = Cardinality(Kept) \/ Cardinality(jobs') = Cardinality(Kept) + 1
      BY <1>2, <2>1, FS_AddElement
  <2>4. Cardinality(jobs') \in Nat
      BY <2>2, FS_CardinalityType
  <2> QED BY <1>2, <2>2, <2>3, <2>4
<1>4. CapacityHolds'
  <2>1. Cardinality(Kept) < MaxEntries
      BY <1>1
  <2> QED BY <1>2, <1>3, <2>1, LimitsAccepted DEF CapacityHolds
<1>5. state' = [state EXCEPT ![nextId] = "live"] /\ nextId' = nextId + 1
    BY DEF Create
<1>6. RegistryTypeOK'
  <2>1. jobs' \subseteq Ids
      BY <1>0, <1>1, PrunedTable DEF RegistryTypeOK
  <2>2. nextId' \in 1..(MaxJobs + 1)
      BY <1>0, <1>5, LimitsAccepted DEF Ids
  <2>3. UNCHANGED <<endedAt, now>>
      BY DEF Create
  <2> QED BY <1>0, <1>5, <2>1, <2>2, <2>3 DEF RegistryTypeOK
<1>7. CreatedInv'
  <2>1. ASSUME NEW j \in Ids, j >= nextId + 1 PROVE state'[j] = "unborn"
    <3>1. j >= nextId /\ j # nextId
        BY <1>0, <2>1, LimitsAccepted DEF Ids
    <3> QED BY <1>0, <1>5, <3>1 DEF RegistryInv, CreatedInv, RegistryTypeOK
  <2>2. ASSUME NEW j \in jobs' PROVE j < nextId'
    <3>1. j \in jobs \/ j = nextId
        BY <1>1, PrunedTable
    <3>2. j \in Ids /\ (j \in jobs => j < nextId)
        BY <1>0, <3>1 DEF RegistryInv, CreatedInv, RegistryTypeOK
    <3> QED BY <1>0, <1>5, <3>1, <3>2, LimitsAccepted DEF Ids
  <2> QED BY <1>3, <1>5, <2>1, <2>2 DEF CreatedInv
<1>8. LiveJobsStay'
  <2>1. ASSUME NEW j \in Ids, state'[j] = "live", j # nextId PROVE j \in jobs'
    <3>1. state[j] = "live"
        BY <1>0, <1>5, <2>1 DEF RegistryTypeOK
    <3> QED BY <1>1, <3>1, PrunedTable
  <2> QED BY <1>1, <2>1 DEF LiveJobsStay
<1> QED BY <1>4, <1>6, <1>7, <1>8 DEF RegistryInv

\* Every step keeps the invariant.
LEMMA RegistryStep == RegistryInv /\ [RegistryNext]_registryVars => RegistryInv'
<1> SUFFICES ASSUME RegistryInv, [RegistryNext]_registryVars PROVE RegistryInv'
    OBVIOUS
<1>0. RegistryTypeOK
    BY DEF RegistryInv
<1>1. CASE Refuse \/ Look
  <2>1. RegistryTypeOK'
      BY <1>0, <1>1, PrunedTable DEF Refuse, Look, RegistryTypeOK
  <2> QED BY <1>1, <2>1, PruneStep DEF Refuse, Look
<1>2. ASSUME NEW j \in Ids, End(j) PROVE RegistryInv'
  <2>1. RegistryTypeOK'
      BY <1>0, <1>2 DEF End, RegistryTypeOK
  <2>2. \A k \in Ids : /\ state'[k] = "live" => state[k] = "live"
                       /\ state[k] = "unborn" => state'[k] = "unborn"
      BY <1>0, <1>2 DEF End, RegistryTypeOK
  <2>3. jobs' = jobs /\ nextId' = nextId
      BY <1>2 DEF End
  <2> QED BY <2>1, <2>2, <2>3 DEF RegistryInv, CreatedInv, CapacityHolds, LiveJobsStay
<1>3. CASE ClockMoves
  <2>1. RegistryTypeOK'
      BY <1>0, <1>3, LimitsAccepted DEF ClockMoves, RegistryTypeOK
  <2> QED BY <1>3, <2>1 DEF ClockMoves, RegistryInv, CreatedInv, CapacityHolds, LiveJobsStay
<1>4. CASE UNCHANGED registryVars
    BY <1>4 DEF registryVars, RegistryInv, RegistryTypeOK, CreatedInv, CapacityHolds, LiveJobsStay
<1> QED BY <1>1, <1>2, <1>3, <1>4, CreateStep DEF RegistryNext

\* The table is empty at first.
LEMMA InitHolds == RegistryInit => RegistryInv
<1> SUFFICES ASSUME RegistryInit PROVE RegistryInv
    OBVIOUS
<1>1. RegistryTypeOK
    BY LimitsAccepted DEF RegistryInit, RegistryTypeOK, Ids
<1>2. jobs = {} /\ IsFiniteSet(jobs) /\ Cardinality(jobs) = 0
    BY FS_EmptySet DEF RegistryInit
<1>3. \A j \in Ids : state[j] = "unborn"
    BY DEF RegistryInit
<1> QED BY <1>1, <1>2, <1>3, LimitsAccepted
        DEF RegistryInv, CreatedInv, CapacityHolds, LiveJobsStay

\* A full table that makes room gives up one of its oldest ended jobs, besides those that
\* have expired, and is full again.
LEMMA EvictionStep ==
    ASSUME RegistryInv, Create, NEW old \in OldestEnded(Pruned(jobs)),
           ~HasRoom(Pruned(jobs)), jobs' = (Pruned(jobs) \ {old}) \cup {nextId}
    PROVE  /\ \A j \in jobs \ jobs' : ~Expired(j) => j = old
           /\ Cardinality(jobs') = MaxEntries
           /\ \A k \in Ended(jobs \cap jobs') : endedAt[old] <= endedAt[k]
<1> DEFINE P == Pruned(jobs)
<1>1. nextId \in Nat /\ nextId \notin jobs
  <2>1. nextId \in Nat
      BY LimitsAccepted DEF RegistryInv, RegistryTypeOK
  <2> QED BY <2>1 DEF RegistryInv, CreatedInv
<1>2. old \in P
    BY DEF OldestEnded, Ended
<1>3. ASSUME NEW j \in jobs \ jobs', ~Expired(j) PROVE j = old
    BY <1>3 DEF Pruned
<1>4. Cardinality(jobs') = MaxEntries
  <2>1. Cardinality(P) = MaxEntries
      BY PrunedTable, LimitsAccepted DEF HasRoom
  <2>2. IsFiniteSet(P \ {old}) /\ Cardinality(P \ {old}) = MaxEntries - 1
      BY <1>2, <2>1, PrunedTable, FS_RemoveElement
  <2>3. nextId \notin P \ {old}
      BY <1>1, PrunedTable
  <2>4. Cardinality((P \ {old}) \cup {nextId}) = Cardinality(P \ {old}) + 1
      BY <2>2, <2>3, FS_AddElement
  <2> QED BY <2>2, <2>4, LimitsAccepted
<1>5. ASSUME NEW k \in Ended(jobs \cap jobs') PROVE endedAt[old] <= endedAt[k]
  <2>1. k \in P /\ state[k] = "ended"
      BY <1>1 DEF Ended
  <2> QED BY <2>1 DEF OldestEnded, Ended
<1> QED BY <1>3, <1>4, <1>5

\* Every step gives up what it may.
LEMMA FairStep ==
    ASSUME RegistryInv, [RegistryNext]_registryVars
    PROVE  LET dropped == {j \in jobs \ jobs' : ~Expired(j)} IN
             /\ Cardinality(dropped) <= 1
             /\ \A j \in dropped :
                   /\ Cardinality(jobs') = MaxEntries
                   /\ \A k \in Ended(jobs \cap jobs') : endedAt[j] <= endedAt[k]
<1> DEFINE dropped == {j \in jobs \ jobs' : ~Expired(j)}
<1>1. CASE dropped = {}
  <2>1. Cardinality(dropped) = 0
      BY <1>1, FS_EmptySet
  <2> QED BY <1>1, <2>1
<1>2. CASE Pruned(jobs) \subseteq jobs'
  <2>1. dropped = {}
      BY <1>2 DEF Pruned
  <2> QED BY <1>1, <2>1
<1>3. ASSUME NEW old \in OldestEnded(Pruned(jobs)), Create, ~HasRoom(Pruned(jobs)),
             jobs' = (Pruned(jobs) \ {old}) \cup {nextId}
      PROVE  /\ Cardinality(dropped) <= 1
             /\ \A j \in dropped :
                   /\ Cardinality(jobs') = MaxEntries
                   /\ \A k \in Ended(jobs \cap jobs') : endedAt[j] <= endedAt[k]
  <2>1. dropped \subseteq {old}
      BY <1>3, EvictionStep
  <2>2. Cardinality({old}) = 1 /\ IsFiniteSet({old})
      BY FS_Singleton
  <2>3. Cardinality(dropped) <= 1
      BY <2>1, <2>2, FS_Subset
  <2> QED BY <1>3, <2>1, <2>3, EvictionStep
<1>4. CASE Create
  <2>1. CASE jobs' = Pruned(jobs) \cup {nextId}
      BY <1>2, <2>1
  <2> QED BY <1>3, <1>4, <2>1 DEF Create
<1>5. CASE Refuse \/ Look
    BY <1>2, <1>5 DEF Refuse, Look
<1>6. CASE UNCHANGED jobs
    BY <1>1, <1>6
<1> QED BY <1>4, <1>5, <1>6 DEF RegistryNext, End, ClockMoves, registryVars

\* The table never holds more than max_entries jobs, whatever the clock does.
THEOREM Bounded == RegistrySpec => []CapacityHolds
    BY InitHolds, RegistryStep, PTL DEF RegistrySpec, RegistryInv

\* No operation, prune or eviction ever removes a job that has not ended.
THEOREM LiveStay == RegistrySpec => []LiveJobsStay
    BY InitHolds, RegistryStep, PTL DEF RegistrySpec, RegistryInv

\* Both at once: a table full of live jobs refuses.
THEOREM FullTable == RegistrySpec => []FullTableIsSafe
    BY Bounded, LiveStay, PTL DEF FullTableIsSafe

\* Room is made for a new job only in a full table, at the cost of one job that ended no later
\* than any other that is kept, and of those that expired (create_internal).
THEOREM FairEviction == RegistrySpec => EvictionIsFair
<1>1. RegistryInv /\ [RegistryNext]_registryVars =>
        [ LET dropped == {j \in jobs \ jobs' : ~Expired(j)} IN
            /\ Cardinality(dropped) <= 1
            /\ \A j \in dropped :
                  /\ Cardinality(jobs') = MaxEntries
                  /\ \A k \in Ended(jobs \cap jobs') : endedAt[j] <= endedAt[k] ]_registryVars
    BY FairStep
<1> QED BY <1>1, InitHolds, RegistryStep, PTL DEF RegistrySpec, EvictionIsFair

-----------------------------------------------------------------------------
(* The calls. *)

\* Each step is one of the breaker, or it leaves the breaker alone.
LEMMA BreakerSteps == [Next]_vars => [BreakerNext]_breakerVars
<1> SUFFICES ASSUME [Next]_vars PROVE [BreakerNext]_breakerVars
    OBVIOUS
<1>1. ASSUME NEW c \in Calls, NEW t \in Tools, Begin(c, t)
      PROVE  BreakerNext
    BY <1>1 DEF Begin, BreakerNext
<1>2. ASSUME NEW c \in Calls, Return(c)
      PROVE  BreakerNext
  <2>1. OutcomesOf(c) \subseteq Outcomes
      BY DEF OutcomesOf, Outcomes
  <2> QED BY <1>2, <2>1 DEF Return, BreakerNext
<1>3. CASE TimePasses
    BY <1>3 DEF TimePasses, BreakerNext
<1>4. CASE UNCHANGED breakerVars
    BY <1>4
<1> QED BY <1>1, <1>2, <1>3, <1>4 DEF Next, AskForJob, EnqueueTask, ManageJobs, vars

\* Each step is one of the table, or it leaves the table alone.
LEMMA RegistrySteps == [Next]_vars => [RegistryNext]_registryVars
<1> SUFFICES ASSUME [Next]_vars PROVE [RegistryNext]_registryVars
    OBVIOUS
<1>1. ASSUME NEW c \in Calls, AskForJob(c)
      PROVE  RegistryNext
    BY <1>1 DEF AskForJob, MakeJob, RegistryNext
<1>2. CASE EnqueueTask
    BY <1>2 DEF EnqueueTask, MakeJob, RegistryNext
<1>3. CASE ManageJobs
    BY <1>3 DEF ManageJobs, RegistryNext
<1>4. CASE TimePasses
    BY <1>4 DEF TimePasses, RegistryNext
<1>5. CASE UNCHANGED registryVars
    BY <1>5
<1> QED BY <1>1, <1>2, <1>3, <1>4, <1>5 DEF Next, Begin, Return, vars

\* The composition implements both of its parts (call_tool, enqueue_task and query_job_start
\* change the breaker and the table by their own operations only).
THEOREM ImplementsParts == Spec => BreakerSpec /\ RegistrySpec
<1>1. Init => BreakerInit /\ RegistryInit
    BY DEF Init
<1> QED BY <1>1, BreakerSteps, RegistrySteps, PTL DEF Spec, BreakerSpec, RegistrySpec

\* Whatever calls, tasks and jobs do together, a table full of live jobs refuses, and neither
\* the limit nor a live job is given up (create_internal).
THEOREM TableIsSafe == Spec => []FullTableIsSafe
    BY ImplementsParts, FullTable, PTL

\* ... a circuit opens only for retryable failures in a row, refusals of the table included
\* (record_tool_outcome).
THEOREM CallsOpenOnStreak == Spec => OpensOnStreak
    BY ImplementsParts, StreakOpens, PTL

\* ... and room is made at the cost of the job that ended first (evict_oldest_terminal_job_locked).
THEOREM TableIsFair == Spec => EvictionIsFair
    BY ImplementsParts, FairEviction, PTL
=============================================================================
