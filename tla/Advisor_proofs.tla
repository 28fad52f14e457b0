---------------------------- MODULE Advisor_proofs ----------------------------
(* Proofs about the extension guard and the index advisor (Advisor.tla).     *)
EXTENDS Advisor, FiniteSetTheorems, SequenceTheorems, WellFoundedInduction, TLAPS

-----------------------------------------------------------------------------
(* The age of the news that the extension is missing. Time passes in two     *)
(* places only: while a query runs, for QueryTimeout at most, and while an   *)
(* entry of the cache grows old.                                             *)

\* A function of the callers, to whatever values.
OfCallers(f) == f = [c \in Callers |-> f[c]]

GuardTypes ==
    /\ installed \in BOOLEAN /\ missedAgo \in 0..Long
    /\ unavailable \in 0..UnavailableTtl + 1
    /\ left \in [Callers -> 0..QueryTimeout]
    /\ OfCallers(pc) /\ OfCallers(seen) /\ OfCallers(result)

\* It is missing now, or was not for missedAgo.
MissingIsNow == ~installed => missedAgo = 0

\* A caller that found it missing did so within what its first query took, and then its second.
FoundIsNews ==
    \A c \in Callers :
        /\ pc[c] \in {"probe_read", "again_read"} /\ seen[c] = "missing" => missedAgo + left[c] <= QueryTimeout
        /\ pc[c] \in {"probe_available", "again_available"} => missedAgo + left[c] <= 2 * QueryTimeout
        /\ pc[c] \in {"complete", "note", "recheck"} /\ seen[c] = "missing" => missedAgo <= 2 * QueryTimeout

\* The cache's entry was news when it was made.
CacheIsNews == unavailable > 0 => missedAgo + unavailable <= UnavailableTtl + 1 + 2 * QueryTimeout

NewsInv == GuardTypes /\ MissingIsNow /\ FoundIsNews /\ CacheIsNews

-----------------------------------------------------------------------------
(* The recommendations of the external program.                              *)

\* No recommendation is kept twice.
Distinct(list) == \A i, j \in DOMAIN list : list[i].key = list[j].key => i = j
KeysOf(list) == {list[i].key : i \in DOMAIN list}

\* A list of recommendations, each of a key and its reasons and none twice.
IsKept(list) ==
    /\ list \in Seq(Range(list)) /\ Distinct(list)
    /\ \A i \in DOMAIN list : list[i] = [key |-> list[i].key, reasons |-> list[i].reasons]

\* What is kept is what was offered; an external answer has all that is kept, and ends the call.
KeptInv ==
    /\ OfCallers(kept) /\ OfCallers(offered) /\ OfCallers(advice)
    /\ \A c \in Callers :
        /\ IsKept(kept[c]) /\ KeysOf(kept[c]) = offered[c]
        /\ advice[c].source = "external" => pc[c] = "answered" /\ advice[c].advised = offered[c]

AdvisorInv == NewsInv /\ KeptInv /\ NothingAskedIsDropped
-----------------------------------------------------------------------------
(* Induction, without an operator for what is proved: a set is given instead. *)

\* Induction: what holds of 0, and of n when it holds of n - 1, holds up to N. A least number
\* for which it fails would exist, and none does.
LEMMA UpTo ==
    ASSUME NEW N \in Nat, NEW Good, 0 \in Good,
           \A n \in 1..N : n - 1 \in Good => n \in Good
    PROVE  0..N \subseteq Good
<1> DEFINE Failing == (0..N) \ Good
           Below == {p \in Nat \X Nat : p[1] < p[2]}
<1>1. SUFFICES ASSUME Failing # {} PROVE FALSE
  OBVIOUS
<1>2. IsWellFoundedOn(Below, Nat)
  BY NatLessThanWellFounded DEF OpToRel
<1>3. PICK m \in Failing : \A n \in Failing : <<n, m>> \notin Below
  <2>1. Failing \in SUBSET Nat
    OBVIOUS
  <2> HIDE DEF Failing, Below
  <2>2. QED
    BY <1>1, <1>2, <2>1, WFMin
<1>4. m - 1 \in Failing /\ <<m - 1, m>> \in Below
  BY <1>3
<1>5. QED
  BY <1>3, <1>4

-----------------------------------------------------------------------------
(* A reply of the external program is absorbed one recommendation at a time. *)

\* The states of AllAbsorbed, up to the n-th recommendation.
States(c, list, n, after) ==
    after = [m \in 0..n |->
               IF m = 0 THEN [kept |-> kept[c], new |-> FALSE, failed |-> FALSE]
               ELSE Absorb(c, after[m - 1], list[m])]

\* They exist: AllAbsorbed is the last of them.
LEMMA AllAbsorbedStates ==
    ASSUME NEW c, NEW list, Len(list) \in Nat
    PROVE  \E after : States(c, list, Len(list), after) /\ AllAbsorbed(c, list) = after[Len(list)]
<1> DEFINE N == Len(list)
           Good == {n \in 0..N : \E after : States(c, list, n, after)}
<1>1. 0 \in Good
  <2>1. States(c, list, 0, [m \in 0..0 |-> [kept |-> kept[c], new |-> FALSE, failed |-> FALSE]])
    BY DEF States
  <2>2. QED
    BY <2>1
<1>2. ASSUME NEW n \in 1..N, n - 1 \in Good PROVE n \in Good
  <2>1. PICK f : States(c, list, n - 1, f)
    BY <1>2
  <2> DEFINE g == [m \in 0..n |-> IF m = n THEN Absorb(c, f[n - 1], list[n]) ELSE f[m]]
  <2>2. ASSUME NEW m \in 0..n
        PROVE  g[m] = IF m = 0 THEN [kept |-> kept[c], new |-> FALSE, failed |-> FALSE]
                      ELSE Absorb(c, g[m - 1], list[m])
    <3> HIDE DEF N
    <3>1. CASE m = n
      BY <3>1
    <3>2. CASE m # n
      <4>1. m \in 0..n - 1
        BY <3>2
      <4>2. g[m] = f[m] /\ (m # 0 => g[m - 1] = f[m - 1])
        BY <4>1
      <4>3. QED
        BY <2>1, <4>1, <4>2 DEF States
    <3>3. QED
      BY <3>1, <3>2
  <2>3. States(c, list, n, g)
    <3> DEFINE h == [m \in 0..n |-> IF m = 0 THEN [kept |-> kept[c], new |-> FALSE, failed |-> FALSE]
                                    ELSE Absorb(c, g[m - 1], list[m])]
    <3>1. \A m \in 0..n : g[m] = h[m]
      BY <2>2
    <3>2. g = h
      BY <3>1
    <3>3. QED
      BY <3>2 DEF States
  <2>4. QED
    BY <2>3
<1>3. N \in Good
  <2>1. N \in Nat
    OBVIOUS
  <2> HIDE DEF Good, N
  <2>2. \A n \in 1..N : n - 1 \in Good => n \in Good
    BY <1>2
  <2>3. 0..N \subseteq Good
    BY <1>1, <2>1, <2>2, UpTo
  <2>4. QED
    BY <2>1, <2>3
<1> DEFINE last == CHOOSE after : States(c, list, N, after)
<1>4. States(c, list, N, last)
  BY <1>3
<1>5. AllAbsorbed(c, list) = last[N]
  BY DEF AllAbsorbed, States
<1>6. QED
  BY <1>4, <1>5

\* The state after n recommendations: unless it failed, it has the keys of old and theirs.
IsState(state, old, list, n) ==
    /\ state = [kept |-> state.kept, new |-> state.new, failed |-> state.failed]
    /\ IsKept(state.kept)
    /\ ~state.failed => KeysOf(state.kept) = old \cup {list[i].key : i \in 1..n}

\* The reasons of a recommendation are no part of its key.
LEMMA MergedKeeps ==
    ASSUME NEW list, IsKept(list), NEW i \in DOMAIN list, NEW reasons
    PROVE  /\ IsKept([list EXCEPT ![i].reasons = reasons])
           /\ KeysOf([list EXCEPT ![i].reasons = reasons]) = KeysOf(list)
<1> DEFINE merged == [list EXCEPT ![i].reasons = reasons]
<1>1. list \in Seq(Range(list)) /\ Len(list) \in Nat /\ DOMAIN list = 1..Len(list)
  BY DEF IsKept
<1>2. DOMAIN merged = DOMAIN list
  OBVIOUS
<1>3. merged[i] = [key |-> list[i].key, reasons |-> reasons]
  <2>1. list[i] = [key |-> list[i].key, reasons |-> list[i].reasons]
    BY DEF IsKept
  <2>2. merged[i] = [list[i] EXCEPT !.reasons = reasons]
    OBVIOUS
  <2>3. QED
    BY <2>1, <2>2
<1>4. \A j \in DOMAIN list : j # i => merged[j] = list[j]
  OBVIOUS
<1>5. \A j \in DOMAIN list : merged[j].key = list[j].key
  <2> HIDE DEF merged
  <2>1. QED
    BY <1>3, <1>4
<1>6. merged \in [1..Len(list) -> Range(merged)]
  <2>1. merged = [j \in 1..Len(list) |-> merged[j]]
    BY <1>1
  <2> HIDE DEF merged
  <2>2. \A j \in 1..Len(list) : merged[j] \in Range(merged)
    BY <1>1, <1>2 DEF Range
  <2>3. QED
    BY <2>1, <2>2
<1> HIDE DEF merged
<1>7. merged \in Seq(Range(merged))
  BY <1>1, <1>6, SeqDef
<1>8. Distinct(merged)
  BY <1>2, <1>5 DEF Distinct, IsKept
<1>9. \A j \in DOMAIN merged : merged[j] = [key |-> merged[j].key, reasons |-> merged[j].reasons]
  BY <1>2, <1>3, <1>4 DEF IsKept
<1>10. KeysOf(merged) = KeysOf(list)
  BY <1>2, <1>5 DEF KeysOf
<1>11. QED
  BY <1>7, <1>8, <1>9, <1>10 DEF IsKept, merged

\* A recommendation that was not there is put at the end.
LEMMA AppendedKeeps ==
    ASSUME NEW list, IsKept(list), NEW a, a.key \notin KeysOf(list), NEW reasons
    PROVE  LET longer == Append(list, [key |-> a.key, reasons |-> reasons])
           IN  IsKept(longer) /\ KeysOf(longer) = KeysOf(list) \cup {a.key}
<1> DEFINE one == [key |-> a.key, reasons |-> reasons]
           longer == Append(list, one)
<1>1. list \in Seq(Range(list)) /\ Len(list) \in Nat /\ DOMAIN list = 1..Len(list)
  BY DEF IsKept
<1>2. list \in Seq(Range(list) \cup {one})
  BY <1>1
<1> HIDE DEF one
<1>3. /\ DOMAIN longer = 1..Len(list) + 1 /\ Len(longer) = Len(list) + 1
      /\ longer[Len(list) + 1] = one
      /\ \A j \in 1..Len(list) : longer[j] = list[j]
  BY <1>1, <1>2
<1>4. longer \in [1..Len(list) + 1 -> Range(longer)]
  <2>1. longer \in Seq(Range(list) \cup {one})
    BY <1>2
  <2> HIDE DEF longer
  <2>2. longer = [j \in 1..Len(list) + 1 |-> longer[j]]
    BY <1>3, <2>1, LenProperties
  <2>3. \A j \in 1..Len(list) + 1 : longer[j] \in Range(longer)
    BY <1>3 DEF Range
  <2>4. QED
    BY <2>2, <2>3
<1> HIDE DEF longer
<1>5. longer \in Seq(Range(longer))
  BY <1>1, <1>4, SeqDef
<1>6. one.key = a.key /\ one = [key |-> one.key, reasons |-> one.reasons]
  BY DEF one
<1>7. \A j \in DOMAIN list : list[j].key # a.key
  BY DEF KeysOf
<1>8. Distinct(longer)
  BY <1>1, <1>3, <1>6, <1>7 DEF Distinct, IsKept
<1>9. \A j \in DOMAIN longer : longer[j] = [key |-> longer[j].key, reasons |-> longer[j].reasons]
  BY <1>1, <1>3, <1>6 DEF IsKept
<1>10. KeysOf(longer) = KeysOf(list) \cup {a.key}
  BY <1>1, <1>3, <1>6 DEF KeysOf
<1>11. QED
  BY <1>5, <1>8, <1>9, <1>10 DEF IsKept, longer, one

\* One more recommendation.
LEMMA AbsorbKeeps ==
    ASSUME NEW c, NEW old, NEW list, NEW n \in Nat \ {0}, NEW state,
           IsState(state, old, list, n - 1)
    PROVE  IsState(Absorb(c, state, list[n]), old, list, n)
<1> DEFINE a == list[n]
           known == KnownAlready(c, state, a)
           next == Absorb(c, state, a)
           i == CHOOSE j \in known : TRUE
<1>1. {list[j].key : j \in 1..n} = {list[j].key : j \in 1..n - 1} \cup {a.key}
  <2>1. 1..n = (1..n - 1) \cup {n}
    OBVIOUS
  <2>2. QED
    BY <2>1
<1>2. CASE state.failed
  BY <1>2 DEF Absorb, IsState
<1>3. CASE ~state.failed /\ Unfit(a)
  <2>1. next = [state EXCEPT !.failed = TRUE]
    BY <1>3 DEF Absorb
  <2>2. next = [kept |-> state.kept, new |-> state.new, failed |-> TRUE]
    BY <2>1 DEF IsState
  <2>3. QED
    BY <2>2 DEF IsState
<1>4. CASE ~state.failed /\ ~Unfit(a) /\ known # {}
  <2>1. i \in known
    BY <1>4
  <2>2. i \in DOMAIN state.kept /\ state.kept[i].key = a.key
    BY <2>1 DEF KnownAlready
  <2> DEFINE merged == [state.kept EXCEPT ![i].reasons = Merged(@, a.reason)]
  <2>3. next = [state EXCEPT !.kept = merged]
    BY <1>4 DEF Absorb
  <2>4. next = [kept |-> merged, new |-> state.new, failed |-> state.failed]
    BY <2>3 DEF IsState
  <2>5. IsKept(merged) /\ KeysOf(merged) = KeysOf(state.kept)
    <3> DEFINE reasons == Merged(state.kept[i].reasons, a.reason)
    <3>1. merged = [state.kept EXCEPT ![i].reasons = reasons]
      OBVIOUS
    <3>2. IsKept(state.kept) /\ i \in DOMAIN state.kept
      BY <2>2 DEF IsState
    <3> HIDE DEF reasons, i, merged
    <3>3. QED
      BY <3>1, <3>2, MergedKeeps
  <2>6. a.key \in KeysOf(state.kept)
    BY <2>2 DEF KeysOf
  <2> HIDE DEF merged, next, a
  <2>7. QED
    BY <1>1, <1>4, <2>4, <2>5, <2>6 DEF IsState, a, next
<1>5. CASE ~state.failed /\ ~Unfit(a) /\ known = {} /\ Len(state.kept) >= MaxTotal
  <2>1. next = [state EXCEPT !.failed = TRUE]
    BY <1>5 DEF Absorb
  <2>2. next = [kept |-> state.kept, new |-> state.new, failed |-> TRUE]
    BY <2>1 DEF IsState
  <2>3. QED
    BY <2>2 DEF IsState
<1>6. CASE ~state.failed /\ ~Unfit(a) /\ known = {} /\ ~(Len(state.kept) >= MaxTotal)
  <2> DEFINE longer == Append(state.kept, [key |-> a.key, reasons |-> <<a.reason>>])
  <2>1. next = [state EXCEPT !.kept = longer, !.new = TRUE]
    BY <1>6 DEF Absorb
  <2>2. next = [kept |-> longer, new |-> TRUE, failed |-> state.failed]
    BY <2>1 DEF IsState
  <2>3. a.key \notin KeysOf(state.kept)
    BY <1>6 DEF KnownAlready, KeysOf
  <2>4. IsKept(longer) /\ KeysOf(longer) = KeysOf(state.kept) \cup {a.key}
    BY <2>3, AppendedKeeps DEF IsState
  <2> HIDE DEF longer, next, a
  <2>5. QED
    BY <1>1, <1>6, <2>2, <2>4 DEF IsState, a, next
<1>7. QED
  BY <1>2, <1>3, <1>4, <1>5, <1>6

\* All of a reply: unless it fails, what is kept has the keys it had and those of the reply.
LEMMA AllAbsorbedKeeps ==
    ASSUME NEW c, NEW list, list \in Seq(Range(list)), IsKept(kept[c])
    PROVE  LET state == AllAbsorbed(c, list)
           IN  /\ IsKept(state.kept)
               /\ ~state.failed =>
                     KeysOf(state.kept) = KeysOf(kept[c]) \cup {a.key : a \in Range(list)}
<1> DEFINE N == Len(list)
           old == KeysOf(kept[c])
<1>1. N \in Nat /\ DOMAIN list = 1..N
  OBVIOUS
<1>2. PICK after : States(c, list, N, after) /\ AllAbsorbed(c, list) = after[N]
  BY <1>1, AllAbsorbedStates
<1> DEFINE Good == {n \in 0..N : IsState(after[n], old, list, n)}
<1>3. 0 \in Good
  <2>1. after[0] = [kept |-> kept[c], new |-> FALSE, failed |-> FALSE]
    BY <1>1, <1>2 DEF States
  <2>2. {list[i].key : i \in 1..0} = {}
    OBVIOUS
  <2>3. QED
    BY <1>1, <2>1, <2>2 DEF IsState
<1>4. ASSUME NEW n \in 1..N, n - 1 \in Good PROVE n \in Good
  <2>1. n \in Nat \ {0} /\ n \in 0..N
    BY <1>1, <1>4
  <2>2. after[n] = Absorb(c, after[n - 1], list[n])
    BY <1>2, <2>1, Zenon DEF States
  <2>3. IsState(after[n], old, list, n)
    BY <1>4, <2>1, <2>2, AbsorbKeeps
  <2>4. QED
    BY <2>1, <2>3
<1>5. N \in Good
  <2> HIDE DEF Good, N
  <2>1. 0..N \subseteq Good
    BY <1>1, <1>3, <1>4, UpTo
  <2>2. QED
    BY <1>1, <2>1
<1>6. {a.key : a \in Range(list)} = {list[i].key : i \in 1..N}
  BY <1>1 DEF Range
<1>7. QED
  BY <1>2, <1>5, <1>6 DEF IsState

\* None twice: as many as there are keys.
LEMMA KeptIsCounted ==
    ASSUME NEW list, IsKept(list)
    PROVE  Cardinality(KeysOf(list)) = Len(list)
<1> DEFINE N == Len(list)
           key == [i \in 1..N |-> list[i].key]
<1>1. N \in Nat /\ DOMAIN list = 1..N
  BY DEF IsKept
<1>2. key \in Bijection(1..N, KeysOf(list))
  <2>1. key \in [1..N -> KeysOf(list)]
    BY <1>1 DEF KeysOf
  <2>2. \A i, j \in 1..N : key[i] = key[j] => i = j
    BY <1>1 DEF IsKept, Distinct
  <2>3. \A k \in KeysOf(list) : \E i \in 1..N : key[i] = k
    BY <1>1 DEF KeysOf
  <2> HIDE DEF key
  <2>4. QED
    BY <2>1, <2>2, <2>3 DEF Bijection, Injection, Surjection, IsInjective
<1>3. IsFiniteSet(1..N) /\ Cardinality(1..N) = N
  <2> HIDE DEF N
  <2>1. QED
    BY <1>1, FS_Interval
<1>4. ExistsBijection(1..N, KeysOf(list))
  BY <1>2 DEF ExistsBijection
<1>5. Cardinality(KeysOf(list)) = Cardinality(1..N)
  BY <1>3, <1>4, FS_Bijection
<1>6. QED
  BY <1>3, <1>5

-----------------------------------------------------------------------------
(* What the steps of the tools and of the external program do to the state   *)
(* that the invariants are about: the caller goes on, and is neither asked   *)
(* for the extension nor answered that it is missing.                        *)

NewsPlaces == {"probe_read", "again_read", "probe_available", "again_available", "complete", "note", "recheck"}
Moves(c) ==
    /\ pc[c] # "answered" /\ UNCHANGED <<guardVars, seen, left, kept, offered>>
    /\ pc' = [pc EXCEPT ![c] = pc'[c]] /\ pc'[c] \notin NewsPlaces
    /\ result' = [result EXCEPT ![c] = result'[c]]
    /\ result'[c] = result[c] \/ result'[c] # "unavailable"
    /\ advice' = [advice EXCEPT ![c] = advice'[c]]
    /\ \/ advice'[c] = advice[c] \/ advice'[c].source \in {"nothing", "health"}
       \/ advice'[c] = DtaAdvice(c)

\* Who is where, and what the answers are.
AdvisorTypes == OfCallers(pc) /\ OfCallers(result) /\ OfCallers(advice)

\* The types that the steps of single calls rest on.
LEMMA AdvisorTyped == AdvisorInv => AdvisorTypes
BY DEF AdvisorInv, NewsInv, GuardTypes, KeptInv, AdvisorTypes

\* A loop that fails.
LEMMA FailsMoves ==
    ASSUME NEW c \in Callers, AdvisorInv, pc[c] # "answered", NEW reason, reason # "unavailable", Fails(c, reason)
    PROVE  Moves(c)
<1>1. AdvisorTypes
  BY AdvisorTyped
<1>2. CASE server.fallback
  BY <1>1, <1>2 DEF Fails, Moves, Answers, Goto, NewsPlaces, AdvisorTypes, OfCallers
<1>3. CASE ~server.fallback
  BY <1>1, <1>3 DEF Fails, Moves, Answers, Goto, NewsPlaces, AdvisorTypes, OfCallers
<1>4. QED
  BY <1>2, <1>3

\* A call that begins is at a place that knows no news, or answered.
LEMMA CallMoves == ASSUME NEW c \in Callers, AdvisorInv, Call(c) PROVE Moves(c)
<1>1. PICK t \in server.tools[c] :
          IF Refused(t) THEN Answers(c, "refused")
          ELSE Goto(c, IF NeedsExtension(t) THEN "ensure"
                       ELSE IF t.name = "analyze_db_health" THEN "health" ELSE "advise") /\ UNCHANGED result
  BY DEF Call
<1>2. pc[c] = "idle" /\ UNCHANGED <<guardVars, seen, left, kept, offered, advice>>
  BY DEF Call
<1>3. CASE Refused(t)
  BY <1>1, <1>2, <1>3, AdvisorTyped DEF Moves, Answers, Goto, NewsPlaces, AdvisorTypes, OfCallers
<1>4. CASE ~Refused(t)
  BY <1>1, <1>2, <1>4, AdvisorTyped DEF Moves, Goto, NewsPlaces, AdvisorTypes, OfCallers
<1>5. QED
  BY <1>3, <1>4

\* The health tools answer.
LEMMA HealthMoves == ASSUME NEW c \in Callers, AdvisorInv, Health(c) PROVE Moves(c)
<1>1. PICK sections \in Sections(Checks(tool[c])) : advice' = [advice EXCEPT ![c] = sections]
  BY DEF Health
<1>2. sections.source = "health"
  BY DEF Sections, NoAdvice
<1>3. pc[c] # "answered" /\ Answers(c, "health") /\ UNCHANGED <<guardVars, seen, left, kept, offered>>
  BY DEF Health, Quietly
<1>4. QED
  BY <1>1, <1>2, <1>3, AdvisorTyped DEF Moves, Answers, Goto, NewsPlaces, AdvisorTypes, OfCallers

\* Advice of the planner is an answer; the external program begins with nothing kept.
LEMMA AdviseMoves == ASSUME NEW c \in Callers, AdvisorInv, Advise(c) PROVE Moves(c)
<1>1. pc[c] # "answered" /\ UNCHANGED <<guardVars, seen, left, kept, offered>>
  BY DEF Advise
<1>2. CASE Answers(c, "no_queries") /\ advice' = [advice EXCEPT ![c] = [NoAdvice EXCEPT !.source = "nothing"]]
  <2>1. [NoAdvice EXCEPT !.source = "nothing"].source = "nothing"
    BY DEF NoAdvice
  <2>2. QED
    BY <1>1, <1>2, <2>1, AdvisorTyped DEF Moves, Answers, Goto, NewsPlaces, AdvisorTypes, OfCallers
<1>3. CASE Answers(c, "advice") /\ advice' = [advice EXCEPT ![c] = DtaAdvice(c)]
  BY <1>1, <1>3, AdvisorTyped DEF Moves, Answers, Goto, NewsPlaces, AdvisorTypes, OfCallers
<1>4. CASE Goto(c, "attempt") /\ UNCHANGED <<result, advice>>
  BY <1>1, <1>4, AdvisorTyped DEF Moves, Goto, NewsPlaces, AdvisorTypes, OfCallers
<1>5. QED
  BY <1>2, <1>3, <1>4 DEF Advise

\* Its program starts, or the call fails.
LEMMA SpawnMoves == ASSUME NEW c \in Callers, AdvisorInv, Spawn(c) PROVE Moves(c)
<1>1. pc[c] # "answered"
  BY DEF Spawn
<1>2. CASE \E reason \in {"external_disabled", "external_not_configured", "external_spawn_failed"} : Fails(c, reason)
  BY <1>1, <1>2, FailsMoves
<1>3. CASE Goto(c, "write") /\ UNCHANGED <<guardVars, seen, left, result, kept, offered, advice>>
  BY <1>1, <1>3, AdvisorTyped DEF Moves, Goto, NewsPlaces, AdvisorTypes, OfCallers
<1>4. QED
  BY <1>2, <1>3 DEF Spawn

\* Its program is sent its input.
LEMMA WriteMoves == ASSUME NEW c \in Callers, AdvisorInv, Write(c) PROVE Moves(c)
<1>1. pc[c] # "answered"
  BY DEF Write
<1>2. CASE Fails(c, "external_io_failed")
  BY <1>1, <1>2, FailsMoves
<1>3. CASE Goto(c, "read") /\ UNCHANGED <<guardVars, seen, left, result, loopVars>>
  BY <1>1, <1>3, AdvisorTyped DEF Moves, Goto, NewsPlaces, AdvisorTypes, OfCallers, loopVars
<1>4. QED
  BY <1>2, <1>3 DEF Write

\* The tools that only need the extension answer.
LEMMA ServeMoves == ASSUME NEW c \in Callers, AdvisorInv, Serve(c) PROVE Moves(c)
BY AdvisorTyped DEF Serve, Quietly, GuardOnly, loopVars, Moves, Answers, Goto, NewsPlaces, AdvisorTypes, OfCallers

\* A program that fails, floods or runs out of time answers the call or falls back.
LEMMA ReadMoves ==
    ASSUME NEW c \in Callers, AdvisorInv, BadReply(c) \/ TimesOut(c) \/ ChildFloods(c)
    PROVE  Moves(c)
<1>1. pc[c] # "answered"
  BY DEF BadReply, TimesOut, ChildFloods
<1>2. \E reason \in {"external_non_zero_exit", "external_invalid_response", "external_timeout",
                     "external_output_too_large"} : Fails(c, reason)
  BY DEF BadReply, TimesOut, ChildFloods
<1>3. QED
  BY <1>1, <1>2, FailsMoves

-----------------------------------------------------------------------------
(* Every step keeps the invariant.                                           *)

\* The planner tells of every query: an analysis, or an error.
LEMMA DtaTellsOfAll == ASSUME NEW c PROVE TellsOfAll(DtaAdvice(c))
<1> DEFINE queries == tool[c].queries
           asked == {i \in DOMAIN queries : ~Kinds[queries[i]].blank}
           failed == {i \in asked : ~Kinds[queries[i]].safe \/ Kinds[queries[i]].plan = {}}
<1>1. /\ DtaAdvice(c).queries = queries /\ DtaAdvice(c).errors = failed
      /\ DtaAdvice(c).advised = UNION {AdviceOf(Kinds[queries[i]].plan) : i \in asked \ failed}
  BY DEF DtaAdvice, Analyzed
<1>2. QED
  BY <1>1 DEF TellsOfAll

\* A step of the tools and of the external program.
LEMMA MovesKeep ==
    ASSUME AdvisorInv, NEW c \in Callers, Moves(c)
    PROVE  AdvisorInv'
<1>1. NewsInv'
  BY DEF AdvisorInv, NewsInv, GuardTypes, OfCallers, MissingIsNow, FoundIsNews, CacheIsNews,
         Moves, NewsPlaces, guardVars
<1>2. KeptInv'
  <2>1. \A d \in Callers : d # c => pc'[d] = pc[d] /\ advice'[d] = advice[d]
    BY AdvisorTyped DEF Moves, AdvisorTypes, OfCallers
  <2>2. advice'[c].source # "external"
    <3>1. DtaAdvice(c).source = "dta"
      BY DEF DtaAdvice
    <3>2. QED
      BY <3>1 DEF AdvisorInv, KeptInv, Moves
  <2>3. OfCallers(advice)'
    BY AdvisorTyped DEF Moves, AdvisorTypes, OfCallers
  <2>4. QED
    BY <2>1, <2>2, <2>3 DEF AdvisorInv, KeptInv, OfCallers, Moves
<1>3. NothingAskedIsDropped'
  <2>1. \A d \in Callers : d # c => advice'[d] = advice[d]
    BY AdvisorTyped DEF Moves, AdvisorTypes, OfCallers
  <2>2. CASE advice'[c] = advice[c]
    BY <2>1, <2>2 DEF AdvisorInv, NothingAskedIsDropped
  <2>3. CASE advice'[c].source \in {"nothing", "health"}
    BY <2>1, <2>3 DEF AdvisorInv, NothingAskedIsDropped
  <2>4. CASE advice'[c] = DtaAdvice(c)
    BY <2>1, <2>4, DtaTellsOfAll DEF AdvisorInv, NothingAskedIsDropped
  <2>5. QED
    BY <2>2, <2>3, <2>4 DEF Moves
<1>4. QED
  BY <1>1, <1>2, <1>3 DEF AdvisorInv

\* Steps that are not about advice.
Stays(c) ==
    /\ UNCHANGED <<kept, offered, advice>>
    /\ pc' = pc \/ (pc[c] # "answered" /\ pc' = [pc EXCEPT ![c] = pc'[c]])

\* They keep what is kept and what was answered.
LEMMA StaysKeeps ==
    ASSUME AdvisorInv, NEW c \in Callers, Stays(c)
    PROVE  KeptInv' /\ NothingAskedIsDropped'
<1>1. \A d \in Callers : advice[d].source = "external" => pc'[d] = pc[d]
  BY AdvisorTyped DEF Stays, AdvisorInv, KeptInv, AdvisorTypes, OfCallers
<1>2. KeptInv'
  BY <1>1 DEF Stays, AdvisorInv, KeptInv, OfCallers
<1>3. NothingAskedIsDropped'
  BY DEF Stays, AdvisorInv, NothingAskedIsDropped
<1>4. QED
  BY <1>2, <1>3

\* The steps of the guard.
LEMMA GuardStepKeeps ==
    ASSUME AdvisorInv, NEW c \in Callers, GuardStep(c), GuardOnly
    PROVE  AdvisorInv'
<1>1. Stays(c)
  BY AdvisorTyped DEF GuardStep, GuardOnly, loopVars, Stays, AdvisorTypes, OfCallers, Ensure, Begin, Complete,
     Note, Wait, LastLook, Recheck, Look, Probe, ProbeAvailable, ProbeFails, Probing, ProbingAgain, Cached, Readied,
     Answers, Goto
<1> USE TimesAssumption DEF AdvisorInv, NewsInv, GuardTypes, OfCallers, MissingIsNow, FoundIsNews,
        CacheIsNews, guardVars, Goto, Answers, Long
<1>2. ASSUME Ensure(c) PROVE NewsInv'
  BY <1>2 DEF Ensure, Cached
<1>3. ASSUME Begin(c) PROVE NewsInv'
  BY <1>3 DEF Begin, Readied
<1>4. ASSUME Complete(c) PROVE NewsInv'
  BY <1>4 DEF Complete, Completes
<1>5. ASSUME Note(c) PROVE NewsInv'
  BY <1>5 DEF Note, Readied
<1>6. ASSUME Wait(c) PROVE NewsInv'
  BY <1>6 DEF Wait, Cached
<1>7. ASSUME LastLook(c) PROVE NewsInv'
  BY <1>7 DEF LastLook, Readied, Cached
<1>8. ASSUME Recheck(c) PROVE NewsInv'
  BY <1>8 DEF Recheck
<1>9. ASSUME Look(c, "probe", "probe_read") \/ Look(c, "again", "again_read") PROVE NewsInv'
  BY <1>9 DEF Look
<1>10. ASSUME Probe(c, "probe_read", "probe_available", "complete") PROVE NewsInv'
  BY <1>10 DEF Probe
<1>11. ASSUME Probe(c, "again_read", "again_available", "recheck") PROVE NewsInv'
  BY <1>11 DEF Probe
<1>12. ASSUME ProbeAvailable(c, "probe_available", "complete") PROVE NewsInv'
  BY <1>12 DEF ProbeAvailable
<1>13. ASSUME ProbeAvailable(c, "again_available", "recheck") PROVE NewsInv'
  BY <1>13 DEF ProbeAvailable
<1>14. ASSUME ProbeFails(c, Probing, "complete") \/ ProbeFails(c, ProbingAgain, "recheck") PROVE NewsInv'
  BY <1>14 DEF ProbeFails
<1>15. NewsInv'
  BY <1>2, <1>3, <1>4, <1>5, <1>6, <1>7, <1>8, <1>9, <1>10, <1>11, <1>12, <1>13, <1>14 DEF GuardStep
<1>16. QED
  BY <1>1, <1>15, StaysKeeps

\* A reply: a failure, or what it brought is kept and offered, and perhaps answered.
LEMMA ReplyKeeps ==
    ASSUME AdvisorInv, NEW c \in Callers, Reply(c)
    PROVE  AdvisorInv'
<1>1. PICK r \in Replies : LET
           state == AllAbsorbed(c, r.advice)
           total == errors[c] + r.errors
           over == r.stop # "" \/ ~state.new \/ attempt[c] = server.attempts
       IN  IF \/ Len(r.advice) > MaxAdvice \/ r.errors > MaxErrors \/ state.failed
              \/ total > MaxTotalErrors \/ r.stop = "too_long"
           THEN Fails(c, "external_invalid_response")
           ELSE /\ kept' = [kept EXCEPT ![c] = state.kept]
                /\ errors' = [errors EXCEPT ![c] = total]
                /\ offered' = [offered EXCEPT ![c] = @ \cup {a.key : a \in Range(r.advice)}]
                /\ child' = [child EXCEPT ![c] = "none"]
                /\ IF over
                   THEN /\ Answers(c, "advice")
                        /\ advice' = [advice EXCEPT ![c] =
                               [NoAdvice EXCEPT !.source = "external", !.queries = tool[c].queries,
                                                !.advised = {state.kept[i].key : i \in DOMAIN state.kept}]]
                        /\ UNCHANGED attempt
                   ELSE /\ Goto(c, "attempt") /\ attempt' = [attempt EXCEPT ![c] = @ + 1]
                        /\ UNCHANGED <<result, advice>>
                /\ UNCHANGED <<guardVars, seen, rounds, left, server, tool>>
  BY DEF Reply
<1> DEFINE state == AllAbsorbed(c, r.advice)
           answer == [NoAdvice EXCEPT !.source = "external", !.queries = tool[c].queries,
                                      !.advised = {state.kept[i].key : i \in DOMAIN state.kept}]
<1>2. pc[c] = "read"
  BY DEF Reply
<1>3. CASE Fails(c, "external_invalid_response")
  BY <1>2, <1>3, FailsMoves, MovesKeep
<1>4. CASE ~Fails(c, "external_invalid_response")
  <2>1. /\ ~state.failed /\ kept' = [kept EXCEPT ![c] = state.kept]
        /\ offered' = [offered EXCEPT ![c] = @ \cup {a.key : a \in Range(r.advice)}]
        /\ UNCHANGED <<guardVars, seen, left>>
    BY <1>1, <1>4
  <2>2. \/ Answers(c, "advice") /\ advice' = [advice EXCEPT ![c] = answer]
        \/ Goto(c, "attempt") /\ UNCHANGED <<result, advice>>
    BY <1>1, <1>4
  <2>3. IsKept(state.kept) /\ KeysOf(state.kept) = KeysOf(kept[c]) \cup {a.key : a \in Range(r.advice)}
    BY <2>1, AllAbsorbedKeeps, RepliesAssumption DEF AdvisorInv, KeptInv
  <2>4. answer.source = "external" /\ answer.advised = KeysOf(state.kept)
    BY DEF NoAdvice, KeysOf
  <2> HIDE DEF state, answer
  <2>5. NewsInv'
    BY <1>2, <2>1, <2>2 DEF AdvisorInv, NewsInv, GuardTypes, OfCallers, MissingIsNow, FoundIsNews,
       CacheIsNews, guardVars, Answers, Goto
  <2>6. /\ OfCallers(pc)' /\ OfCallers(kept)' /\ OfCallers(offered)' /\ OfCallers(advice)'
        /\ \A d \in Callers \ {c} : /\ kept'[d] = kept[d] /\ offered'[d] = offered[d]
                                    /\ pc'[d] = pc[d] /\ advice'[d] = advice[d]
    BY <2>1, <2>2, AdvisorTyped DEF AdvisorInv, KeptInv, AdvisorTypes, OfCallers, Answers, Goto
  <2>7. kept'[c] = state.kept /\ offered'[c] = offered[c] \cup {a.key : a \in Range(r.advice)}
    BY <2>1 DEF AdvisorInv, KeptInv, OfCallers
  <2>8. \/ pc'[c] = "answered" /\ advice'[c] = answer
        \/ advice'[c] = advice[c]
    BY <2>2, AdvisorTyped DEF AdvisorTypes, OfCallers, Answers, Goto
  <2>9. KeptInv'
    BY <1>2, <2>3, <2>4, <2>6, <2>7, <2>8 DEF AdvisorInv, KeptInv
  <2>10. NothingAskedIsDropped'
    BY <2>4, <2>6, <2>8 DEF AdvisorInv, NothingAskedIsDropped
  <2>11. QED
    BY <2>5, <2>9, <2>10 DEF AdvisorInv
<1>5. QED
  BY <1>3, <1>4

\* The other steps: what the extension is asked for, the end of a call, a task that is canceled,
\* the program's own steps, the DBA's, and time.
LEMMA UseKeeps ==
    ASSUME AdvisorInv, NEW c \in Callers, UseExtension(c)
    PROVE  AdvisorInv'
<1>1. PICK then \in {"served", "advise"} : Use(c, then)
  BY DEF UseExtension
<1>2. UNCHANGED <<kept, offered, advice>>
  BY DEF UseExtension, GuardOnly, loopVars
<1>3. Stays(c)
  BY <1>1, <1>2, AdvisorTyped DEF Use, Stays, Answers, Goto, AdvisorTypes, OfCallers
<1>4. NewsInv'
  BY <1>1, TimesAssumption DEF AdvisorInv, NewsInv, GuardTypes, OfCallers, MissingIsNow, FoundIsNews, CacheIsNews,
     Use, Answers, Goto
<1>5. QED
  BY <1>3, <1>4, StaysKeeps DEF AdvisorInv

\* A canceled task is answered as such, without advice.
LEMMA AbortKeeps ==
    ASSUME AdvisorInv, NEW c \in Callers, Abort(c), GuardOnly
    PROVE  AdvisorInv'
<1>1. Stays(c)
  BY AdvisorTyped DEF Abort, GuardOnly, loopVars, Stays, Answers, Goto, AdvisorTypes, OfCallers
<1>2. NewsInv'
  BY DEF AdvisorInv, NewsInv, GuardTypes, OfCallers, MissingIsNow, FoundIsNews, CacheIsNews,
     Abort, Answers, Goto
<1>3. QED
  BY <1>1, <1>2, StaysKeeps DEF AdvisorInv

\* The answer is forgotten when its caller goes on.
LEMMA ReturnKeeps ==
    ASSUME AdvisorInv, NEW c \in Callers, Return(c)
    PROVE  AdvisorInv'
<1>1. NewsInv'
  <2>1. /\ pc' = [pc EXCEPT ![c] = "idle"] /\ result' = [result EXCEPT ![c] = "none"]
        /\ seen' = [seen EXCEPT ![c] = "nothing"] /\ left' = [left EXCEPT ![c] = 0]
        /\ UNCHANGED guardVars
    BY DEF Return, Goto
  <2>2. GuardTypes'
    <3>1. 0 \in 0..QueryTimeout
      BY TimesAssumption
    <3>2. left' \in [Callers -> 0..QueryTimeout]
      BY <2>1, <3>1 DEF AdvisorInv, NewsInv, GuardTypes
    <3>3. OfCallers(pc)' /\ OfCallers(seen)' /\ OfCallers(result)'
      BY <2>1 DEF AdvisorInv, NewsInv, GuardTypes, OfCallers
    <3>4. QED
      BY <2>1, <3>2, <3>3 DEF AdvisorInv, NewsInv, GuardTypes, guardVars
  <2>3. FoundIsNews'
    BY <2>1 DEF AdvisorInv, NewsInv, GuardTypes, OfCallers, FoundIsNews, guardVars
  <2>4. QED
    BY <2>1, <2>2, <2>3 DEF AdvisorInv, NewsInv, MissingIsNow, CacheIsNews, guardVars
<1>2. \A d \in Callers \ {c} : /\ kept'[d] = kept[d] /\ offered'[d] = offered[d]
                               /\ pc'[d] = pc[d] /\ advice'[d] = advice[d]
  BY AdvisorTyped DEF Return, Goto, AdvisorInv, KeptInv, AdvisorTypes, OfCallers
<1>3. kept'[c] = <<>> /\ offered'[c] = {} /\ advice'[c] = NoAdvice
  BY DEF Return, AdvisorInv, KeptInv, OfCallers
<1>4. OfCallers(kept)' /\ OfCallers(offered)' /\ OfCallers(advice)'
  BY DEF Return, AdvisorInv, KeptInv, OfCallers
<1>5. IsKept(<<>>) /\ KeysOf(<<>>) = {} /\ NoAdvice.source = "none"
  BY DEF IsKept, KeysOf, Distinct, NoAdvice
<1>6. KeptInv'
  BY <1>2, <1>3, <1>4, <1>5 DEF AdvisorInv, KeptInv
<1>7. NothingAskedIsDropped'
  BY <1>2, <1>3, <1>5 DEF AdvisorInv, NothingAskedIsDropped
<1>8. QED
  BY <1>1, <1>6, <1>7 DEF AdvisorInv

\* What the program does by itself changes nothing of it.
LEMMA ChildKeeps ==
    ASSUME AdvisorInv, NEW c \in Callers, ChildReads(c) \/ ChildEnds(c)
    PROVE  AdvisorInv'
<1>1. UNCHANGED <<allVars, kept, offered, advice>>
  BY DEF ChildReads, ChildEnds
<1>2. QED
  BY <1>1 DEF allVars, guardVars, callVars, AdvisorInv, NewsInv, GuardTypes, OfCallers, MissingIsNow,
     FoundIsNews, CacheIsNews, KeptInv, NothingAskedIsDropped

LEMMA ChangeKeeps == ASSUME AdvisorInv, DbaChanges PROVE AdvisorInv'
<1>1. UNCHANGED <<callVars, unavailable, kept, offered, advice>> /\ installed' = ~installed /\ missedAgo' = 0
  BY DEF DbaChanges, Change, GuardOnly, loopVars
<1>2. NewsInv'
  BY <1>1, TimesAssumption DEF AdvisorInv, NewsInv, GuardTypes, OfCallers, MissingIsNow, FoundIsNews, CacheIsNews,
     callVars, Long
<1>3. KeptInv' /\ NothingAskedIsDropped'
  BY <1>1 DEF AdvisorInv, KeptInv, OfCallers, NothingAskedIsDropped, callVars
<1>4. QED
  BY <1>2, <1>3 DEF AdvisorInv

\* Time passes while queries run, and the cache's entry grows old by as much.
LEMMA TickKeeps == ASSUME AdvisorInv, Tick PROVE AdvisorInv'
<1> DEFINE places == Awaits \cup {"write", "read", "served", "advise", "attempt", "health"}
<1>1. TimePasses(places) /\ UNCHANGED <<kept, offered, advice>>
  BY DEF Tick, GuardOnly, loopVars
<1>2. UNCHANGED <<installed, pc, seen, result>>
  BY <1>1 DEF TimePasses
<1>3. missedAgo \in Nat /\ missedAgo' \in 0..Long /\ missedAgo' <= missedAgo + 1
  BY <1>1, TimesAssumption DEF TimePasses, AdvisorInv, NewsInv, GuardTypes, Long
<1>4. \A c \in Callers : left'[c] \in 0..QueryTimeout /\ (pc[c] \in Querying => left'[c] = left[c] - 1)
  BY <1>1, TimesAssumption DEF TimePasses, Less, AdvisorInv, NewsInv, GuardTypes
<1>5. \A c \in Callers : pc[c] \notin {"complete", "note", "recheck"}
  BY <1>1 DEF TimePasses, Awaits, Querying, Probing, ProbingAgain
<1>6. GuardTypes'
  <2>1. left' \in [Callers -> 0..QueryTimeout]
    BY <1>1, <1>4 DEF TimePasses
  <2>2. unavailable' \in 0..UnavailableTtl + 1
    BY <1>1, TimesAssumption DEF TimePasses, Less, AdvisorInv, NewsInv, GuardTypes
  <2>3. QED
    BY <1>2, <1>3, <2>1, <2>2 DEF AdvisorInv, NewsInv, GuardTypes, OfCallers
<1>7. MissingIsNow'
  BY <1>1, <1>2 DEF TimePasses, MissingIsNow
<1>8. FoundIsNews'
  BY <1>2, <1>3, <1>4, <1>5, TimesAssumption DEF AdvisorInv, NewsInv, GuardTypes, FoundIsNews, Querying, Probing,
     ProbingAgain
<1>9. CacheIsNews'
  BY <1>1, <1>3, TimesAssumption DEF TimePasses, Less, AdvisorInv, NewsInv, GuardTypes, CacheIsNews
<1>10. KeptInv' /\ NothingAskedIsDropped'
  BY <1>1, <1>2 DEF AdvisorInv, KeptInv, OfCallers, NothingAskedIsDropped
<1>11. QED
  BY <1>6, <1>7, <1>8, <1>9, <1>10 DEF AdvisorInv, NewsInv

-----------------------------------------------------------------------------
\* At first nothing is kept and nothing was missed.
LEMMA InitHolds == Init => AdvisorInv
<1> SUFFICES ASSUME Init PROVE AdvisorInv
  OBVIOUS
<1>1. NewsInv
  BY TimesAssumption DEF Init, GuardInit, NewsInv, GuardTypes, OfCallers, MissingIsNow, FoundIsNews, CacheIsNews, Long
<1>2. IsKept(<<>>) /\ KeysOf(<<>>) = {} /\ NoAdvice.source = "none"
  BY DEF IsKept, KeysOf, Distinct, NoAdvice
<1>3. KeptInv /\ NothingAskedIsDropped
  BY <1>2 DEF Init, KeptInv, OfCallers, NothingAskedIsDropped
<1>4. QED
  BY <1>1, <1>3 DEF AdvisorInv

\* Every step keeps all of it.
LEMMA NextKeeps == AdvisorInv /\ [Next]_vars => AdvisorInv'
<1> SUFFICES ASSUME AdvisorInv, [Next]_vars PROVE AdvisorInv'
  OBVIOUS
<1>1. ASSUME NEW c \in Callers, Step(c) PROVE AdvisorInv'
  <2>1. CASE GuardStep(c) /\ GuardOnly
    BY <2>1, GuardStepKeeps
  <2>2. CASE UseExtension(c)
    BY <2>2, UseKeeps
  <2>3. CASE Serve(c) \/ Health(c) \/ Advise(c) \/ Spawn(c) \/ Write(c) \/ BadReply(c)
    BY <2>3, ServeMoves, HealthMoves, AdviseMoves, SpawnMoves, WriteMoves, ReadMoves, MovesKeep
  <2>4. CASE Reply(c)
    BY <2>4, ReplyKeeps
  <2>5. CASE Return(c)
    BY <2>5, ReturnKeeps
  <2>6. QED
    BY <1>1, <2>1, <2>2, <2>3, <2>4, <2>5 DEF Step
<1>2. ASSUME NEW c \in Callers, Call(c) \/ TimesOut(c) \/ ChildFloods(c) PROVE AdvisorInv'
  BY <1>2, CallMoves, ReadMoves, MovesKeep
<1>3. ASSUME NEW c \in Callers, ChildReads(c) \/ ChildEnds(c) PROVE AdvisorInv'
  BY <1>3, ChildKeeps
<1>4. ASSUME NEW c \in Callers, Abort(c) /\ GuardOnly PROVE AdvisorInv'
  BY <1>4, AbortKeeps
<1>5. CASE DbaChanges \/ Tick
  BY <1>5, ChangeKeeps, TickKeeps
<1>6. CASE UNCHANGED vars
  BY <1>6 DEF vars, allVars, guardVars, callVars, loopVars, AdvisorInv, NewsInv, GuardTypes, OfCallers, MissingIsNow,
     FoundIsNews, CacheIsNews, KeptInv, NothingAskedIsDropped
<1>7. QED
  BY <1>1, <1>2, <1>3, <1>4, <1>5, <1>6 DEF Next

\* The age of the news, the recommendations kept and the answers, for any callers, any times
\* to live, any replies of the program and any changes by the DBA.
THEOREM AdvisorInvariant == Spec => []AdvisorInv
BY InitHolds, NextKeeps, PTL DEF Spec

\* Every query that analyze_queries_for_indexes was given is analysed or told of as an error,
\* for all queries and plans, and however the loop of the external program failed before.
THEOREM NothingAskedIsDroppedHolds == Spec => []NothingAskedIsDropped
<1>1. AdvisorInv => NothingAskedIsDropped
  BY DEF AdvisorInv
<1>2. QED
  BY <1>1, AdvisorInvariant, PTL

\* An answer of the external program has each recommendation of each attempt once, for any number of
\* attempts, replies and limits (run_external_advisor_loop).
THEOREM NothingForgottenHolds == Spec => []NothingForgotten
<1>1. AdvisorInv => NothingForgotten
  BY KeptIsCounted DEF AdvisorInv, KeptInv, NothingForgotten
<1>2. QED
  BY <1>1, AdvisorInvariant, PTL

\* Whoever is told that the extension is missing hears news not older than UnavailableTtl and
\* two times QueryTimeout, however many callers, probes and changes of the DBA there are.
THEOREM UnavailableIsRecentHolds == Spec => UnavailableIsRecent
<1> DEFINE Recent == \A c \in Callers : result[c] # "unavailable" /\ result'[c] = "unavailable"
                        => missedAgo <= UnavailableTtl + 2 * QueryTimeout
<1>1. AdvisorInv /\ [Next]_vars => [Recent]_vars
  <2> SUFFICES ASSUME AdvisorInv, Next, NEW d \in Callers,
                      result[d] # "unavailable", result'[d] = "unavailable"
               PROVE  missedAgo <= UnavailableTtl + 2 * QueryTimeout
    BY DEF vars
  <2>1. ASSUME NEW c \in Callers, Moves(c) PROVE FALSE
    BY <2>1, AdvisorTyped DEF Moves, AdvisorTypes, OfCallers
  <2>2. ASSUME NEW c \in Callers, GuardStep(c) PROVE missedAgo <= UnavailableTtl + 2 * QueryTimeout
    <3>1. unavailable > 0 => missedAgo <= UnavailableTtl + 2 * QueryTimeout
      BY TimesAssumption DEF AdvisorInv, NewsInv, GuardTypes, CacheIsNews, Long
    <3>2. CASE Ensure(c) \/ Wait(c) \/ LastLook(c)
      BY <3>1, <3>2, AdvisorTyped DEF Ensure, Wait, LastLook, Cached, Readied, Answers, Goto, AdvisorTypes, OfCallers
    <3>3. CASE Note(c) \/ Recheck(c)
      <4>1. seen[c] = "missing"
        BY <3>3, AdvisorTyped DEF Note, Recheck, Readied, Answers, Goto, AdvisorTypes, OfCallers
      <4>2. missedAgo <= 2 * QueryTimeout
        BY <3>3, <4>1 DEF Note, Recheck, AdvisorInv, NewsInv, FoundIsNews
      <4>3. QED
        BY <4>2, TimesAssumption DEF AdvisorInv, NewsInv, GuardTypes, Long
    <3>4. CASE UNCHANGED result
      BY <3>4
    <3>5. QED
      BY <2>2, <3>2, <3>3, <3>4 DEF GuardStep, Begin, Complete, Readied, Look, Probe, ProbeAvailable, ProbeFails
  <2>3. ASSUME NEW c \in Callers, Step(c) PROVE missedAgo <= UnavailableTtl + 2 * QueryTimeout
    <3>1. CASE Reply(c)
      <4>1. Fails(c, "external_invalid_response") \/ result' = result \/ Answers(c, "advice")
        BY <3>1 DEF Reply
      <4>2. pc[c] # "answered"
        BY <3>1 DEF Reply
      <4>3. QED
        BY <2>1, <4>1, <4>2, FailsMoves, AdvisorTyped DEF Answers, AdvisorTypes, OfCallers
    <3>2. CASE UseExtension(c)
      <4>1. UNCHANGED result \/ Answers(c, "error")
        BY <3>2 DEF UseExtension, Use
      <4>2. QED
        BY <4>1, AdvisorTyped DEF Answers, AdvisorTypes, OfCallers
    <3>3. CASE Return(c)
      BY <3>3, AdvisorTyped DEF Return, AdvisorTypes, OfCallers
    <3>4. CASE Serve(c) \/ Health(c) \/ Advise(c) \/ Spawn(c) \/ Write(c) \/ BadReply(c)
      BY <2>1, <3>4, ServeMoves, HealthMoves, AdviseMoves, SpawnMoves, WriteMoves, ReadMoves
    <3>5. QED
      BY <2>2, <2>3, <3>1, <3>2, <3>3, <3>4 DEF Step
  <2>4. ASSUME NEW c \in Callers, Call(c) \/ TimesOut(c) \/ ChildFloods(c) PROVE FALSE
    BY <2>1, <2>4, CallMoves, ReadMoves
  <2>5. ASSUME NEW c \in Callers, Abort(c) PROVE FALSE
    BY <2>5, AdvisorTyped DEF Abort, Answers, AdvisorTypes, OfCallers
  <2>6. ASSUME NEW c \in Callers, ChildReads(c) \/ ChildEnds(c) PROVE FALSE
    BY <2>6 DEF ChildReads, ChildEnds, allVars, callVars
  <2>7. CASE DbaChanges \/ Tick
    BY <2>7 DEF DbaChanges, Change, Tick, TimePasses, callVars
  <2>8. QED
    BY <2>3, <2>4, <2>5, <2>6, <2>7 DEF Next
<1>2. QED
  BY <1>1, AdvisorInvariant, PTL DEF Spec, UnavailableIsRecent
=============================================================================
