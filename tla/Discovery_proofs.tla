---------------------------- MODULE Discovery_proofs ----------------------------
(* Theorems of Discovery, for any catalogue, policy, arguments and limits, and *)
(* of the scanners and expansions of SqlText, for any text and tables.         *)
EXTENDS Discovery, SqlText, FiniteSetTheorems, SequenceTheorems, WellFoundedInduction, TLAPS

\* A strict total order on a set.
Orders(before, set) ==
    /\ \A x \in set : <<x, x>> \notin before
    /\ \A x, y, z \in set : <<x, y>> \in before /\ <<y, z>> \in before => <<x, z>> \in before
    /\ \A x, y \in set : x = y \/ <<x, y>> \in before \/ <<y, x>> \in before

\* A list of the elements of a set, each once.
Lists(list, set) ==
    /\ list \in Seq(set) /\ Len(list) = Cardinality(set) /\ DOMAIN list = 1..Cardinality(set)
    /\ {list[i] : i \in 1..Cardinality(set)} = set
    /\ \A i, j \in 1..Cardinality(set) : list[i] = list[j] => i = j

\* Sorted lists a set, whatever order it is given.
LEMMA SortedLists ==
    ASSUME NEW set, IsFiniteSet(set), NEW before, Orders(before, set)
    PROVE  Lists(Sorted(set, before), set) /\ Cardinality(set) \in Nat
<1> DEFINE Below(x) == {y \in set : <<y, x>> \in before}
           size == Cardinality(set)
           rank == [x \in set |-> Cardinality(Below(x)) + 1]
<1>1. size \in Nat
    BY FS_CardinalityType
<1>2. ASSUME NEW x \in set
      PROVE  IsFiniteSet(Below(x)) /\ Cardinality(Below(x)) \in Nat /\ Cardinality(Below(x)) + 1 <= size
  <2>1. Below(x) \in SUBSET set /\ x \notin Below(x)
      BY DEF Orders
  <2> DEFINE B == Below(x)
  <2>2. B \in SUBSET set /\ B # set
      BY <2>1
  <2> HIDE DEF B, size
  <2>3. IsFiniteSet(B) /\ Cardinality(B) <= Cardinality(set) /\ Cardinality(B) # Cardinality(set)
      BY <2>2, FS_Subset
  <2>4. Cardinality(B) \in Nat
      BY <2>3, FS_CardinalityType
  <2>5. Cardinality(B) + 1 <= size
      BY <1>1, <2>3, <2>4 DEF size
  <2> QED BY <2>3, <2>4, <2>5 DEF B
<1>3. ASSUME NEW x \in set, NEW z \in set, <<x, z>> \in before
      PROVE  Cardinality(Below(x)) # Cardinality(Below(z))
  <2> DEFINE A == Below(x)
             B == Below(z)
  <2>1. A \in SUBSET B /\ A # B
    <3>1. x \in B /\ x \notin A
        BY <1>3 DEF Orders
    <3>2. \A y \in A : y \in B
        BY <1>3 DEF Orders
    <3> QED BY <3>1, <3>2
  <2>2. IsFiniteSet(B)
      BY <1>2
  <2> HIDE DEF A, B
  <2>3. Cardinality(A) # Cardinality(B)
      BY <2>1, <2>2, FS_Subset
  <2> QED BY <2>3 DEF A, B
<1> HIDE DEF Below, size
<1>4. rank \in Injection(set, 1..size)
  <2>1. rank \in [set -> 1..size]
      BY <1>1, <1>2
  <2>2. \A x, z \in set : rank[x] = rank[z] => x = z
    <3> SUFFICES ASSUME NEW x \in set, NEW z \in set, rank[x] = rank[z], x # z PROVE FALSE
        OBVIOUS
    <3>1. <<x, z>> \in before \/ <<z, x>> \in before
        BY DEF Orders
    <3>2. Cardinality(Below(x)) = Cardinality(Below(z))
        BY <1>2
    <3> QED BY <1>3, <3>1, <3>2
  <2> QED BY <2>1, <2>2 DEF Injection, IsInjective
<1>5. \A i \in 1..size : \E x \in set : rank[x] = i
  <2>1. IsFiniteSet(1..size) /\ Cardinality(1..size) = size
      BY <1>1, FS_Interval
  <2>2. rank \in Surjection(set, 1..size)
    <3> HIDE DEF rank
    <3> QED BY <1>4, <2>1, FS_Injection DEF size
  <2> QED BY <2>2 DEF Surjection
<1> DEFINE list == [i \in 1..size |-> CHOOSE x \in set : Cardinality(Below(x)) = i - 1]
<1>6. Sorted(set, before) = list
    BY DEF Sorted, size, Below
<1>7. \A i \in 1..size : list[i] \in set /\ rank[list[i]] = i
  <2> TAKE i \in 1..size
  <2>1. PICK x \in set : rank[x] = i
      BY <1>5
  <2>2. Cardinality(Below(x)) = i - 1
      BY <1>2, <2>1
  <2>3. list[i] \in set /\ Cardinality(Below(list[i])) = i - 1
      BY <2>2
  <2>4. i - 1 + 1 = i
      BY <1>1
  <2> QED BY <2>3, <2>4
<1>8. \A x \in set : rank[x] \in 1..size /\ x = list[rank[x]]
  <2> TAKE x \in set
  <2>1. rank[x] \in 1..size
      BY <1>4 DEF Injection
  <2>2. list[rank[x]] \in set /\ rank[list[rank[x]]] = rank[x]
      BY <1>7, <2>1
  <2> HIDE DEF list, rank
  <2> QED BY <1>4, <2>1, <2>2 DEF Injection, IsInjective
<1>9. list \in Seq(set) /\ Len(list) = size /\ DOMAIN list = 1..size
  <2>1. list \in [1..size -> set]
      BY <1>7
  <2>2. DOMAIN list = 1..size
      OBVIOUS
  <2> HIDE DEF list
  <2> QED BY <1>1, <2>1, <2>2
<1>10. {list[i] : i \in 1..size} = set /\ \A i, j \in 1..size : list[i] = list[j] => i = j
  <2> HIDE DEF list, rank
  <2> QED BY <1>7, <1>8
<1> HIDE DEF list
<1> QED BY <1>1, <1>6, <1>9, <1>10 DEF Lists, size

\* So does Ascending.
LEMMA AscendingLists ==
    ASSUME NEW set, IsFiniteSet(set), set \subseteq Nat
    PROVE  Lists(Ascending(set), set) /\ Cardinality(set) \in Nat
<1> DEFINE before == {p \in set \X set : p[1] < p[2]}
<1>1. \A x, y \in set : <<x, y>> \in before <=> x < y
    OBVIOUS
<1> HIDE DEF before
<1>2. Orders(before, set)
    BY <1>1 DEF Orders
<1>3. Lists(Sorted(set, before), set) /\ Cardinality(set) \in Nat
    BY <1>2, SortedLists
<1> QED BY <1>3 DEF Ascending, before

-----------------------------------------------------------------------------
(* Parts of lists                                                            *)

\* The first of a list.
LEMMA PrefixIs ==
    ASSUME NEW S, NEW list \in Seq(S), NEW n \in Nat
    PROVE  /\ Prefix(list, n) \in Seq(S) /\ Len(Prefix(list, n)) = Least(n, Len(list))
           /\ \A i \in 1..Least(n, Len(list)) : Prefix(list, n)[i] = list[i]
           /\ Range(Prefix(list, n)) \subseteq Range(list)
<1>1. Len(list) \in Nat /\ DOMAIN list = 1..Len(list)
    OBVIOUS
<1> DEFINE m == Least(n, Len(list))
<1>2. m \in Nat /\ m <= Len(list)
    BY <1>1 DEF Least
<1> HIDE DEF m
<1>3. SubSeq(list, 1, m) \in Seq(S) /\ Len(SubSeq(list, 1, m)) = m
      /\ \A i \in 1..m : i \in DOMAIN list /\ SubSeq(list, 1, m)[i] = list[i]
  <2>1. \A i \in 1..m : i \in 1..Len(list)
      BY <1>1, <1>2
  <2>2. SubSeq(list, 1, m) = [i \in 1..m |-> list[i]]
      BY <1>1, <1>2
  <2>3. \A i \in 1..m : list[i] \in S
      BY <1>1, <2>1
  <2> DEFINE got == [i \in 1..m |-> list[i]]
  <2>4. got \in [1..m -> S] /\ DOMAIN got = 1..m /\ \A i \in 1..m : got[i] = list[i]
      BY <2>3
  <2>5. SubSeq(list, 1, m) = got
      BY <2>2
  <2> HIDE DEF got
  <2>6. got \in Seq(S) /\ Len(got) = m
      BY <1>2, <2>4
  <2> QED BY <1>1, <2>1, <2>4, <2>5, <2>6
<1>4. DOMAIN SubSeq(list, 1, m) = 1..m
    BY <1>2, <1>3
<1> QED BY <1>3, <1>4 DEF Prefix, Range, m

\* What is at some places of a list.
LEMMA AtIs ==
    ASSUME NEW S, NEW list \in Seq(S), NEW places \in SUBSET DOMAIN list
    PROVE  /\ At(list, places) \in Seq({list[i] : i \in places})
           /\ Len(At(list, places)) = Cardinality(places) /\ Cardinality(places) \in Nat
           /\ Range(At(list, places)) = {list[i] : i \in places}
<1>1. IsFiniteSet(places) /\ places \subseteq Nat
  <2>1. DOMAIN list = 1..Len(list) /\ Len(list) \in Nat
      OBVIOUS
  <2>2. IsFiniteSet(1..Len(list))
      BY <2>1, FS_Interval
  <2> QED BY <2>1, <2>2, FS_Subset
<1>2. Lists(Ascending(places), places) /\ Cardinality(places) \in Nat
    BY <1>1, AscendingLists
<1> DEFINE kept == Ascending(places)
           n == Cardinality(places)
           some == {list[i] : i \in places}
           got == [i \in 1..n |-> list[kept[i]]]
<1>3. At(list, places) = got
    BY <1>2 DEF At, Lists
<1> HIDE DEF kept
<1>4. got \in [1..n -> some] /\ Range(got) = some /\ DOMAIN got = 1..n
  <2>1. {kept[i] : i \in 1..n} = places
      BY <1>2 DEF Lists, kept
  <2>2. \A i \in 1..n : kept[i] \in places
      BY <2>1
  <2>3. \A k \in places : \E i \in 1..n : kept[i] = k
      BY <2>1
  <2>4. got \in [1..n -> some] /\ DOMAIN got = 1..n
      BY <2>2
  <2>5. \A e \in some : \E i \in 1..n : got[i] = e
    <3> TAKE e \in some
    <3>1. PICK k \in places : e = list[k]
        OBVIOUS
    <3>2. PICK i \in 1..n : kept[i] = k
        BY <2>3
    <3> QED BY <3>1, <3>2
  <2> HIDE DEF got, n, some
  <2> QED BY <2>4, <2>5 DEF Range
<1> HIDE DEF got, n, some
<1>5. got \in Seq(some) /\ Len(got) = n
    BY <1>2, <1>4 DEF n
<1> QED BY <1>2, <1>3, <1>4, <1>5 DEF n, some

\* The rows of a hint that are seen.
LEMMA SeenIsVisible ==
    ASSUME NEW S, NEW rows \in Seq(S)
    PROVE  /\ SeenOf(rows) \in Seq(S)
           /\ \A i \in Range(SeenOf(rows)) : i \in Range(rows) /\ Visible(Catalog[i[1]].schema)
           /\ (\E i \in Range(rows) : Visible(Catalog[i[1]].schema)) => Len(SeenOf(rows)) > 0
<1> DEFINE places == {i \in DOMAIN rows : Visible(Catalog[rows[i][1]].schema)}
           some == {rows[i] : i \in places}
           kept == At(rows, places)
<1>1. /\ kept \in Seq(some) /\ Len(kept) = Cardinality(places) /\ Cardinality(places) \in Nat
      /\ Range(kept) = some
    BY AtIs
<1>2. HintResults \in Nat \ {0}
    BY LimitsAssumption
<1>3. some \subseteq S /\ some \subseteq Range(rows) /\ \A i \in some : Visible(Catalog[i[1]].schema)
    BY DEF Range
<1>4. (\E i \in Range(rows) : Visible(Catalog[i[1]].schema)) => some # {}
    BY DEF Range
<1>5. SeenOf(rows) = Prefix(kept, HintResults)
    BY DEF SeenOf
<1> HIDE DEF kept, some, places
<1>6. /\ SeenOf(rows) \in Seq(some) /\ Len(SeenOf(rows)) = Least(HintResults, Len(kept))
      /\ Range(SeenOf(rows)) \subseteq some
  <2>1. Range(Prefix(kept, HintResults)) \subseteq Range(kept)
        /\ Prefix(kept, HintResults) \in Seq(some)
        /\ Len(Prefix(kept, HintResults)) = Least(HintResults, Len(kept))
    <3>1. HintResults \in Nat
        BY <1>2
    <3> QED BY <1>1, <3>1, PrefixIs
  <2> QED BY <1>1, <1>5, <2>1
<1>7. SeenOf(rows) \in Seq(S)
    BY <1>3, <1>6, SeqMonotonic
<1>8. some # {} => Len(SeenOf(rows)) > 0
  <2>1. some # {} => Len(kept) # 0
    <3>1. DOMAIN kept = 1..Len(kept)
        BY <1>1
    <3> QED BY <1>1, <3>1 DEF Range
  <2> QED BY <1>1, <1>2, <1>6, <2>1 DEF Least
<1> QED BY <1>3, <1>4, <1>6, <1>7, <1>8

\* Orders by one number, or two, and then by the places.
LEMMA RankOrders ==
    ASSUME NEW S \in SUBSET Nat, NEW rank \in [S -> Nat], NEW before \in SUBSET (S \X S),
           \A a, b \in S : <<a, b>> \in before <=> rank[a] < rank[b] \/ (rank[a] = rank[b] /\ a < b)
    PROVE  Orders(before, S)
<1>1. \A a \in S : a \in Nat /\ rank[a] \in Nat
    OBVIOUS
<1> QED BY <1>1 DEF Orders

OrdersPlaces(before, S, late, far) ==
    \A a, b \in S : <<a, b>> \in before <=>
        \/ late[a] < late[b]
        \/ late[a] = late[b] /\ far[a] < far[b]
        \/ late[a] = late[b] /\ far[a] = far[b] /\ (a[1] < b[1] \/ (a[1] = b[1] /\ a[2] < b[2]))

\* Such an order of places is one.
LEMMA PlacesOrder ==
    ASSUME NEW S \in SUBSET (Nat \X Nat), NEW late \in [S -> Nat], NEW far \in [S -> Nat], NEW before \in SUBSET (S \X S),
           OrdersPlaces(before, S, late, far)
    PROVE  Orders(before, S)
<1>0. \A a, b \in S : <<a, b>> \in before <=>
               \/ late[a] < late[b]
               \/ late[a] = late[b] /\ far[a] < far[b]
               \/ late[a] = late[b] /\ far[a] = far[b] /\ (a[1] < b[1] \/ (a[1] = b[1] /\ a[2] < b[2]))
    BY DEF OrdersPlaces
<1>1. \A a \in S : a[1] \in Nat /\ a[2] \in Nat /\ late[a] \in Nat /\ far[a] \in Nat
    OBVIOUS
<1>2. \A a, b \in S : a[1] = b[1] /\ a[2] = b[2] => a = b
    OBVIOUS
<1>3. \A x \in S : <<x, x>> \notin before
    BY <1>0, <1>1
<1>4. \A x, y \in S : x = y \/ <<x, y>> \in before \/ <<y, x>> \in before
  <2> SUFFICES ASSUME NEW x \in S, NEW y \in S, x # y, <<x, y>> \notin before, <<y, x>> \notin before PROVE FALSE
      OBVIOUS
  <2> DEFINE lx == late[x]
             ly == late[y]
             fx == far[x]
             fy == far[y]
             x1 == x[1]
             y1 == y[1]
             x2 == x[2]
             y2 == y[2]
  <2>1. /\ lx \in Nat /\ ly \in Nat /\ fx \in Nat /\ fy \in Nat
        /\ x1 \in Nat /\ y1 \in Nat /\ x2 \in Nat /\ y2 \in Nat
      BY <1>1
  <2>2. ~(\/ lx < ly
          \/ lx = ly /\ fx < fy
          \/ lx = ly /\ fx = fy /\ (x1 < y1 \/ (x1 = y1 /\ x2 < y2)))
      BY <1>0
  <2>3. ~(\/ ly < lx
          \/ ly = lx /\ fy < fx
          \/ ly = lx /\ fy = fx /\ (y1 < x1 \/ (y1 = x1 /\ y2 < x2)))
      BY <1>0
  <2> HIDE DEF lx, ly, fx, fy, x1, y1, x2, y2
  <2>4. x1 = y1 /\ x2 = y2
      BY <2>1, <2>2, <2>3
  <2> QED BY <1>2, <2>4 DEF x1, x2, y1, y2
<1>5. \A x, y, z \in S : <<x, y>> \in before /\ <<y, z>> \in before => <<x, z>> \in before
    BY <1>0, <1>1
<1> QED BY <1>3, <1>4, <1>5 DEF Orders

\* The names that are closest to another.
LEMMA ClosestLists ==
    ASSUME NEW N \in SUBSET (Nat \X Nat), IsFiniteSet(N), NEW names, DOMAIN names = N,
           \A i \in N : Len(names[i]) \in Nat, NEW base, Len(base) \in Nat,
           NEW near, near = {i \in N : ILikeLiteral(names[i], ContainsPattern(base))}
    PROVE  /\ Closest(names, base) \in Seq(near)
           /\ near # {} => Len(Closest(names, base)) > 0
<1> DEFINE far(i) == LET d == Len(names[i]) - Len(base) IN IF d < 0 THEN -d ELSE d
           late(i) == IF ILikeLiteral(names[i], PrefixPattern(base)) THEN 0 ELSE 1
           before(a, b) == \/ late(a) < late(b)
                           \/ late(a) = late(b) /\ far(a) < far(b)
                           \/ late(a) = late(b) /\ far(a) = far(b) /\ (a[1] < b[1] \/ (a[1] = b[1] /\ a[2] < b[2]))
           pairs == {p \in near \X near : before(p[1], p[2])}
           all == Sorted(near, pairs)
<1>1. Closest(names, base) = Prefix(all, HintRows)
    BY DEF Closest
<1>2. near \in SUBSET (Nat \X Nat) /\ IsFiniteSet(near) /\ \A i \in near : Len(names[i]) \in Nat
    BY FS_Subset
<1>3. \A i \in near : late(i) \in Nat
    OBVIOUS
<1> HIDE DEF late
<1>4. \A i \in near : far(i) \in Nat
    BY <1>2
<1> HIDE DEF far
<1> DEFINE lates == [i \in near |-> late(i)]
           fars == [i \in near |-> far(i)]
<1>5. lates \in [near -> Nat] /\ fars \in [near -> Nat] /\ \A i \in near : lates[i] = late(i) /\ fars[i] = far(i)
    BY <1>3, <1>4
<1> HIDE DEF lates, fars
<1>6. pairs \in SUBSET (near \X near)
    OBVIOUS
<1>7. OrdersPlaces(pairs, near, lates, fars)
  <2> SUFFICES ASSUME NEW a \in near, NEW b \in near
               PROVE  <<a, b>> \in pairs <=>
                          \/ lates[a] < lates[b]
                          \/ lates[a] = lates[b] /\ fars[a] < fars[b]
                          \/ lates[a] = lates[b] /\ fars[a] = fars[b] /\ (a[1] < b[1] \/ (a[1] = b[1] /\ a[2] < b[2]))
    <3> HIDE DEF pairs
    <3> QED BY DEF OrdersPlaces
  <2>1. <<a, b>> \in pairs <=> before(a, b)
    <3>1. <<a, b>> \in near \X near /\ <<a, b>>[1] = a /\ <<a, b>>[2] = b
        OBVIOUS
    <3> HIDE DEF before
    <3> QED BY <3>1
  <2> HIDE DEF pairs
  <2>2. before(a, b) <=> \/ lates[a] < lates[b]
                         \/ lates[a] = lates[b] /\ fars[a] < fars[b]
                         \/ lates[a] = lates[b] /\ fars[a] = fars[b] /\ (a[1] < b[1] \/ (a[1] = b[1] /\ a[2] < b[2]))
    <3>1. lates[a] = late(a) /\ lates[b] = late(b) /\ fars[a] = far(a) /\ fars[b] = far(b)
        BY <1>5
    <3> QED BY <3>1
  <2> HIDE DEF before
  <2> QED BY <2>1, <2>2
<1> HIDE DEF pairs
<1>8. Orders(pairs, near)
    BY <1>2, <1>5, <1>6, <1>7, PlacesOrder
<1>9. Lists(all, near) /\ Cardinality(near) \in Nat
    BY <1>2, <1>8, SortedLists
<1> HIDE DEF all
<1>10. all \in Seq(near) /\ Len(all) = Cardinality(near)
    BY <1>9 DEF Lists
<1>11. HintRows \in Nat \ {0}
    BY LimitsAssumption
<1>12. Prefix(all, HintRows) \in Seq(near) /\ Len(Prefix(all, HintRows)) = Least(HintRows, Len(all))
  <2>1. HintRows \in Nat
      BY <1>11
  <2> QED BY <1>10, <2>1, PrefixIs
<1>13. near # {} => Cardinality(near) # 0
    BY <1>2, FS_EmptySet
<1> QED BY <1>1, <1>9, <1>10, <1>11, <1>12, <1>13 DEF Least

\* What is found of a name's namesakes.
LEMMA ResolvesVisible ==
    ASSUME NEW ref, NEW r \in Resolve(ref)
    PROVE  \E s : Visible(s) /\ r = <<s, ref.name>>
<1>1. CASE ref.schema # <<>>
    BY <1>1 DEF Resolve
<1>2. CASE ref.schema = <<>>
  <2> DEFINE rank(o) == IF Catalog[o].schema = "public" THEN 0 ELSE 1
             same == {o \in Relations : Catalog[o].name = ref.name}
             before(a, b) == rank(a) < rank(b) \/ (rank(a) = rank(b) /\ a < b)
             pairs == {p \in same \X same : before(p[1], p[2])}
             all == Sorted(same, pairs)
             found == Prefix(all, HintRows)
             places == {i \in DOMAIN found : Visible(Catalog[found[i]].schema)}
             seen == At(found, places)
  <2>1. seen # <<>> /\ r = <<Catalog[seen[1]].schema, ref.name>>
      BY <1>2 DEF Resolve
  <2>2. same \in SUBSET Nat /\ IsFiniteSet(same)
    <3>1. Objects = 1..Len(Catalog) /\ Len(Catalog) \in Nat
        BY CatalogAssumption DEF Objects, IsList
    <3>2. IsFiniteSet(1..Len(Catalog)) /\ 1..Len(Catalog) \subseteq Nat
        BY <3>1, FS_Interval
    <3>3. same \subseteq Objects
        BY DEF Relations
    <3> QED BY <3>1, <3>2, <3>3, FS_Subset
  <2> HIDE DEF same
  <2>3. Orders(pairs, same)
    <3> DEFINE ranks == [o \in same |-> rank(o)]
    <3>1. ranks \in [same -> Nat] /\ \A o \in same : ranks[o] = rank(o)
        OBVIOUS
    <3> HIDE DEF ranks, rank
    <3>2. \A a, b \in same : <<a, b>> \in pairs <=> ranks[a] < ranks[b] \/ (ranks[a] = ranks[b] /\ a < b)
        BY <3>1
    <3>3. pairs \in SUBSET (same \X same)
        OBVIOUS
    <3> HIDE DEF pairs
    <3> QED BY <2>2, <3>1, <3>2, <3>3, RankOrders
  <2> HIDE DEF pairs
  <2>4. all \in Seq(same)
    <3>1. Lists(all, same)
        BY <2>2, <2>3, SortedLists
    <3> HIDE DEF all
    <3> QED BY <3>1 DEF Lists
  <2> HIDE DEF all
  <2>5. found \in Seq(same)
    <3>1. HintRows \in Nat
        BY LimitsAssumption
    <3> QED BY <2>4, <3>1, PrefixIs
  <2> HIDE DEF found
  <2>6. seen \in Seq({found[i] : i \in places})
    <3>1. places \in SUBSET DOMAIN found
        OBVIOUS
    <3> HIDE DEF places
    <3> QED BY <2>5, <3>1, AtIs
  <2> HIDE DEF seen
  <2>7. seen[1] \in {found[i] : i \in places}
      BY <2>1, <2>6
  <2> QED BY <2>1, <2>7
<1> QED BY <1>1, <1>2

-----------------------------------------------------------------------------
(* Flattened lists                                                           *)

\* A set that has 0, and each number with the one before it, has every number up to a bound.
LEMMA UpTo ==
    ASSUME NEW N \in Nat, NEW Good, 0 \in Good,
           \A n \in 1..N : n - 1 \in Good => n \in Good
    PROVE  0..N \subseteq Good
<1> DEFINE Failing == (0..N) \ Good
           Below == {p \in Nat \X Nat : p[1] < p[2]}
<1>1. SUFFICES ASSUME Failing # {} PROVE FALSE
    OBVIOUS
<1>2. IsWellFoundedOn(Below, Nat)
    BY NatLessThanWellFounded DEF OpToRel
<1>3. PICK m \in Failing : \A n \in Failing : <<n, m>> \notin Below
  <2>1. Failing \in SUBSET Nat
      OBVIOUS
  <2> HIDE DEF Failing, Below
  <2> QED BY <1>1, <1>2, <2>1, WFMin
<1>4. m - 1 \in Failing /\ <<m - 1, m>> \in Below
    BY <1>3
<1> QED BY <1>3, <1>4

\* What FlattenSeq has made of the first of its lists, after each.
Flattens(seqs, n, upTo) ==
    upTo = [i \in 1..n |-> IF i = 1 THEN seqs[i] ELSE upTo[i - 1] \o seqs[i]]

\* It exists: FlattenSeq is the last of it.
LEMMA FlattenSeqIs ==
    ASSUME NEW seqs, Len(seqs) \in Nat \ {0}
    PROVE  \E upTo : Flattens(seqs, Len(seqs), upTo) /\ FlattenSeq(seqs) = upTo[Len(seqs)]
<1> DEFINE N == Len(seqs)
           Good == {n \in 0..N : \E upTo : Flattens(seqs, n, upTo)}
<1>1. 0 \in Good
  <2>1. Flattens(seqs, 0, <<>>)
      BY DEF Flattens
  <2> QED BY <2>1
<1>2. ASSUME NEW n \in 1..N, n - 1 \in Good PROVE n \in Good
  <2>1. PICK f : Flattens(seqs, n - 1, f)
      BY <1>2
  <2> DEFINE g == [i \in 1..n |-> IF i < n THEN f[i] ELSE IF i = 1 THEN seqs[i] ELSE f[i - 1] \o seqs[i]]
             h == [i \in 1..n |-> IF i = 1 THEN seqs[i] ELSE g[i - 1] \o seqs[i]]
  <2>2. ASSUME NEW i \in 1..n PROVE g[i] = h[i]
    <3> HIDE DEF N
    <3>1. CASE i = n
        BY <3>1
    <3>2. CASE i # n
      <4>1. i \in 1..n - 1 /\ g[i] = f[i] /\ (i # 1 => g[i - 1] = f[i - 1])
          BY <3>2
      <4> QED BY <2>1, <4>1 DEF Flattens
    <3> QED BY <3>1, <3>2
  <2>3. g = h
      BY <2>2
  <2>4. Flattens(seqs, n, g)
      BY <2>3 DEF Flattens
  <2> QED BY <2>4
<1>3. N \in Good
  <2>1. N \in Nat
      OBVIOUS
  <2> HIDE DEF Good, N
  <2>2. \A n \in 1..N : n - 1 \in Good => n \in Good
      BY <1>2
  <2>3. 0..N \subseteq Good
      BY <1>1, <2>1, <2>2, UpTo
  <2> QED BY <2>1, <2>3
<1> DEFINE last == CHOOSE upTo : Flattens(seqs, N, upTo)
<1>4. Flattens(seqs, N, last)
    BY <1>3
<1>5. FlattenSeq(seqs) = last[N]
    BY DEF FlattenSeq, Flattens
<1> QED BY <1>4, <1>5

\* What is made of lists of the elements of a set after each, from the empty list on.
Steps(S, seqs, full) ==
    /\ full[0] = <<>> /\ FlattenSeq(seqs) = full[Len(seqs)]
    /\ \A n \in 0..Len(seqs) : full[n] \in Seq(S)
    /\ \A n \in 1..Len(seqs) : full[n] = full[n - 1] \o seqs[n]

\* Flattening lists of such elements goes by these steps.
LEMMA FlattenSteps ==
    ASSUME NEW S, NEW seqs \in Seq(Seq(S))
    PROVE  \E full : Steps(S, seqs, full)
<1> DEFINE N == Len(seqs)
<1>1. N \in Nat /\ \A i \in 1..N : seqs[i] \in Seq(S)
    OBVIOUS
<1>2. CASE N = 0
  <2> DEFINE full == [n \in 0..0 |-> <<>>]
  <2>1. full[0] = <<>> /\ full[0] \in Seq(S) /\ FlattenSeq(seqs) = full[0]
      BY <1>2 DEF FlattenSeq
  <2>2. (\A n \in 0..0 : n = 0) /\ 1..0 = {}
      OBVIOUS
  <2> HIDE DEF full
  <2> QED BY <1>2, <2>1, <2>2 DEF Steps
<1>3. CASE N # 0
  <2>1. PICK upTo : Flattens(seqs, N, upTo) /\ FlattenSeq(seqs) = upTo[N]
      BY <1>1, <1>3, FlattenSeqIs
  <2>2. \A i \in 1..N : upTo[i] = IF i = 1 THEN seqs[i] ELSE upTo[i - 1] \o seqs[i]
      BY <2>1 DEF Flattens
  <2> DEFINE full == [n \in 0..N |-> IF n = 0 THEN <<>> ELSE upTo[n]]
             Good == {n \in 0..N : full[n] \in Seq(S)}
  <2> HIDE DEF N
  <2>3. full[0] = <<>> /\ full[N] = upTo[N]
      BY <1>1, <1>3
  <2>4. ASSUME NEW n \in 1..N PROVE full[n] = IF n = 1 THEN seqs[n] ELSE full[n - 1] \o seqs[n]
    <3>1. n \in 0..N /\ n - 1 \in 0..N /\ n # 0
        BY <1>1
    <3>2. full[n] = upTo[n] /\ (n # 1 => full[n - 1] = upTo[n - 1])
        BY <3>1
    <3> QED BY <2>2, <3>2
  <2> HIDE DEF full
  <2>5. 0 \in Good
    <3>1. 0 \in 0..N /\ <<>> \in Seq(S)
        BY <1>1
    <3> QED BY <2>3, <3>1
  <2>6. ASSUME NEW n \in 1..N, n - 1 \in Good PROVE n \in Good
    <3> DEFINE k == n - 1
    <3>1. seqs[n] \in Seq(S) /\ n \in 0..N /\ full[n] = IF n = 1 THEN seqs[n] ELSE full[k] \o seqs[n]
        BY <1>1, <2>4
    <3>2. full[k] \in Seq(S)
        BY <2>6
    <3> HIDE DEF k
    <3>3. full[n] \in Seq(S)
        BY <3>1, <3>2
    <3> QED BY <3>1, <3>3
  <2> HIDE DEF Good
  <2>7. 0..N \subseteq Good
    <3>1. \A n \in 1..N : n - 1 \in Good => n \in Good
        BY <2>6
    <3> QED BY <1>1, <2>5, <3>1, UpTo
  <2>8. \A n \in 0..N : full[n] \in Seq(S)
      BY <2>7 DEF Good
  <2>9. ASSUME NEW n \in 1..N PROVE full[n] = full[n - 1] \o seqs[n]
    <3>1. CASE n = 1
      <4>1. seqs[n] \in Seq(S) /\ full[n] = seqs[n] /\ full[n - 1] = <<>>
          BY <1>1, <2>3, <2>4, <3>1
      <4> QED BY <4>1
    <3>2. CASE n # 1
        BY <2>4, <3>2
    <3> QED BY <3>1, <3>2
  <2>10. FlattenSeq(seqs) = full[N]
      BY <2>1, <2>3
  <2> QED BY <2>3, <2>8, <2>9, <2>10 DEF N, Steps
<1> QED BY <1>2, <1>3

\* They make one of them.
LEMMA FlattenLists ==
    ASSUME NEW S, NEW seqs \in Seq(Seq(S))
    PROVE  FlattenSeq(seqs) \in Seq(S)
<1>1. PICK full : Steps(S, seqs, full)
    BY FlattenSteps
<1>2. Len(seqs) \in 0..Len(seqs)
    OBVIOUS
<1> QED BY <1>1, <1>2 DEF Steps

-----------------------------------------------------------------------------
(* What is told                                                              *)

\* The catalogue is finite, and its texts are lists.
LEMMA CatalogIs ==
    /\ Objects \in SUBSET Nat /\ IsFiniteSet(Objects)
    /\ \A o \in Objects : Len(Catalog[o].name) \in Nat
    /\ \A o \in Objects : /\ DOMAIN Catalog[o].columns \in SUBSET Nat /\ IsFiniteSet(DOMAIN Catalog[o].columns)
                          /\ \A k \in DOMAIN Catalog[o].columns : Len(Catalog[o].columns[k]) \in Nat
<1>1. ASSUME NEW s, IsList(s)
      PROVE  DOMAIN s \in SUBSET Nat /\ IsFiniteSet(DOMAIN s) /\ Len(s) \in Nat
  <2>1. s \in Seq(Range(s))
      BY <1>1 DEF IsList
  <2>2. Len(s) \in Nat /\ DOMAIN s = 1..Len(s)
      BY <2>1
  <2>3. IsFiniteSet(1..Len(s)) /\ 1..Len(s) \in SUBSET Nat
      BY <2>2, FS_Interval
  <2> QED BY <2>2, <2>3
<1> QED BY <1>1, CatalogAssumption DEF Objects

\* The lower-case form of a name is as long.
LEMMA FoldedLength ==
    ASSUME NEW s, IsList(s)
    PROVE  Len(Folded(s)) = Len(s) /\ Len(s) \in Nat /\ DOMAIN Folded(s) = 1..Len(s)
<1>1. s \in Seq(Range(s))
    BY DEF IsList
<1>2. Len(s) \in Nat /\ DOMAIN s = 1..Len(s)
    BY <1>1
<1> DEFINE folded == [i \in 1..Len(s) |-> FoldChar(s[i])]
           all == {FoldChar(s[i]) : i \in 1..Len(s)}
<1>3. folded \in [1..Len(s) -> all] /\ DOMAIN folded = 1..Len(s)
    OBVIOUS
<1>4. Folded(s) = folded
    BY <1>2 DEF Folded
<1> HIDE DEF folded, all
<1>5. Len(folded) = Len(s)
    BY <1>2, <1>3
<1> QED BY <1>2, <1>3, <1>4, <1>5

\* The similar relations are of schemas that are visible; with one to be found, there are some.
LEMMA SimilarRelationsVisible ==
    ASSUME NEW name, IsList(name)
    PROVE  /\ \A i \in Range(SimilarRelations(name)) : Visible(Catalog[i[1]].schema)
           /\ (\E o \in Relations : /\ Catalog[o].schema \notin System /\ Visible(Catalog[o].schema)
                                   /\ ILikeLiteral(Catalog[o].name, ContainsPattern(Folded(name))))
              /\ (\A s : VisibleInSql(s) <=> Visible(s))
              => SimilarRelations(name) # <<>>
<1> DEFINE near == {o \in Relations : Catalog[o].schema \notin System /\ VisibleInSql(Catalog[o].schema)}
           names == [i \in near \X {0} |-> Catalog[i[1]].name]
           base == Folded(name)
           all == {i \in near \X {0} : ILikeLiteral(names[i], ContainsPattern(base))}
<1>1. CASE Denied
    BY <1>1 DEF SimilarRelations, Range, Visible
<1>2. CASE ~Denied
  <2>1. SimilarRelations(name) = SeenOf(Closest(names, base))
      BY <1>2 DEF SimilarRelations
  <2>2. Closest(names, base) \in Seq(all) /\ (all # {} => Len(Closest(names, base)) > 0)
    <3>1. near \in SUBSET Objects /\ near \in SUBSET Nat /\ IsFiniteSet(near)
      <4>1. near \subseteq Objects
          BY DEF Relations
      <4> QED BY <4>1, CatalogIs, FS_Subset
    <3>2. near \X {0} \in SUBSET (Nat \X Nat) /\ IsFiniteSet(near \X {0})
      <4>1. near \X {0} \in SUBSET (Nat \X Nat)
          BY <3>1
      <4>2. IsFiniteSet({0})
          BY FS_Singleton
      <4> HIDE DEF near
      <4> QED BY <3>1, <4>1, <4>2, FS_Product
    <3>3. \A i \in near \X {0} : Len(names[i]) \in Nat
        BY <3>1, CatalogIs
    <3>4. Len(base) \in Nat
        BY FoldedLength
    <3>5. DOMAIN names = near \X {0}
        OBVIOUS
    <3> HIDE DEF near, names, base
    <3> QED BY <3>2, <3>3, <3>4, <3>5, ClosestLists
  <2> DEFINE rows == Closest(names, base)
  <2>3. (\E o \in near : ILikeLiteral(Catalog[o].name, ContainsPattern(base))) => all # {}
    <3>1. ASSUME NEW o \in near, ILikeLiteral(Catalog[o].name, ContainsPattern(base)) PROVE <<o, 0>> \in all
      <4>1. <<o, 0>> \in near \X {0} /\ <<o, 0>>[1] = o
          OBVIOUS
      <4>2. names[<<o, 0>>] = Catalog[o].name
          BY <4>1
      <4> HIDE DEF near, names, base
      <4> QED BY <3>1, <4>1, <4>2
    <3> QED BY <3>1
  <2>4. \A i \in all : i[1] \in near
      OBVIOUS
  <2> HIDE DEF names, all, rows
  <2>5. SeenOf(rows) \in Seq(all) /\ (\A i \in Range(SeenOf(rows)) : Visible(Catalog[i[1]].schema))
        /\ ((\E i \in Range(rows) : Visible(Catalog[i[1]].schema)) => Len(SeenOf(rows)) > 0)
    <3>1. rows \in Seq(all)
        BY <2>2 DEF rows
    <3> QED BY <3>1, SeenIsVisible
  <2>6. all # {} /\ (\A s : VisibleInSql(s) <=> Visible(s)) => \E i \in Range(rows) : Visible(Catalog[i[1]].schema)
    <3> SUFFICES ASSUME all # {}, \A s : VisibleInSql(s) <=> Visible(s)
                 PROVE  \E i \in Range(rows) : Visible(Catalog[i[1]].schema)
        OBVIOUS
    <3>1. rows \in Seq(all) /\ Len(rows) > 0
        BY <2>2 DEF rows
    <3>2. 1 \in DOMAIN rows /\ rows[1] \in all
        BY <3>1
    <3>3. Visible(Catalog[rows[1][1]].schema)
        BY <2>4, <3>2
    <3> QED BY <3>2, <3>3 DEF Range
  <2>7. Len(SeenOf(rows)) > 0 => SimilarRelations(name) # <<>>
      BY <2>1 DEF rows
  <2> QED BY <2>1, <2>3, <2>5, <2>6, <2>7 DEF rows
<1> QED BY <1>1, <1>2

\* Finitely many relations have finitely many columns.
LEMMA ColumnsFinite ==
    ASSUME NEW relations \in SUBSET Objects, IsFiniteSet(relations)
    PROVE  IsFiniteSet(Columns(relations))
<1> DEFINE of == [o \in relations |-> {<<o, k>> : k \in DOMAIN Catalog[o].columns}]
           each == {of[o] : o \in relations}
<1>1. of \in Surjection(relations, each)
    BY DEF Surjection
<1>2. IsFiniteSet(each)
  <2> HIDE DEF of, each
  <2> QED BY <1>1, FS_Surjection
<1>3. ASSUME NEW o \in relations PROVE IsFiniteSet(of[o])
  <2>1. IsFiniteSet(DOMAIN Catalog[o].columns) /\ IsFiniteSet({o})
      BY CatalogIs, FS_Singleton
  <2>2. IsFiniteSet({o} \X DOMAIN Catalog[o].columns)
      BY <2>1, FS_Product
  <2>3. of[o] \subseteq {o} \X DOMAIN Catalog[o].columns
      OBVIOUS
  <2> HIDE DEF of
  <2> QED BY <2>2, <2>3, FS_Subset
<1>4. \A T \in each : IsFiniteSet(T)
  <2> HIDE DEF of
  <2> QED BY <1>3
<1>5. Columns(relations) = UNION each
    BY DEF Columns
<1> HIDE DEF each
<1> QED BY <1>2, <1>4, <1>5, FS_UNION

\* So are the similar columns, and so there are.
LEMMA SimilarColumnsVisible ==
    ASSUME NEW name, IsList(name), NEW relations \in SUBSET Relations
    PROVE  /\ \A i \in Range(SimilarColumns(name, relations)) : Visible(Catalog[i[1]].schema)
           /\ (\E o \in relations : \E k \in DOMAIN Catalog[o].columns :
                   ILikeLiteral(Catalog[o].columns[k], ContainsPattern(Folded(name))))
              /\ (\A o \in relations : Visible(Catalog[o].schema))
              => SimilarColumns(name, relations) # <<>>
<1> DEFINE places == Columns(relations)
           names == [i \in places |-> Catalog[i[1]].columns[i[2]]]
           base == Folded(name)
           all == {i \in places : ILikeLiteral(names[i], ContainsPattern(base))}
<1>1. SimilarColumns(name, relations) = SeenOf(Closest(names, base))
    BY DEF SimilarColumns
<1>2. Closest(names, base) \in Seq(all) /\ (all # {} => Len(Closest(names, base)) > 0)
  <2>1. relations \in SUBSET Objects /\ IsFiniteSet(relations)
    <3>1. relations \subseteq Objects
        BY DEF Relations
    <3> QED BY <3>1, CatalogIs, FS_Subset
  <2>2. places \in SUBSET (Nat \X Nat)
      BY <2>1, CatalogIs DEF Columns
  <2>3. IsFiniteSet(places)
      BY <2>1, ColumnsFinite
  <2>4. \A i \in places : Len(names[i]) \in Nat
      BY <2>1, CatalogIs DEF Columns
  <2>5. Len(base) \in Nat
      BY FoldedLength
  <2>6. DOMAIN names = places
      OBVIOUS
  <2> HIDE DEF places, names, base
  <2> QED BY <2>2, <2>3, <2>4, <2>5, <2>6, ClosestLists
<1> DEFINE rows == Closest(names, base)
<1>3. (\E o \in relations : \E k \in DOMAIN Catalog[o].columns : ILikeLiteral(Catalog[o].columns[k], ContainsPattern(base)))
      => all # {}
  <2>1. ASSUME NEW o \in relations, NEW k \in DOMAIN Catalog[o].columns,
               ILikeLiteral(Catalog[o].columns[k], ContainsPattern(base))
        PROVE  <<o, k>> \in all
    <3>1. <<o, k>> \in places /\ <<o, k>>[1] = o /\ <<o, k>>[2] = k
        BY DEF Columns
    <3> HIDE DEF places
    <3>2. names[<<o, k>>] = Catalog[o].columns[k]
        BY <3>1
    <3> HIDE DEF names, base
    <3> QED BY <2>1, <3>1, <3>2
  <2> HIDE DEF all
  <2> QED BY <2>1
<1>4. \A i \in all : i[1] \in relations
    BY DEF Columns
<1> HIDE DEF names, all, rows
<1>5. SeenOf(rows) \in Seq(all) /\ (\A i \in Range(SeenOf(rows)) : Visible(Catalog[i[1]].schema))
      /\ ((\E i \in Range(rows) : Visible(Catalog[i[1]].schema)) => Len(SeenOf(rows)) > 0)
  <2>1. rows \in Seq(all)
      BY <1>2 DEF rows
  <2> QED BY <2>1, SeenIsVisible
<1>6. all # {} /\ (\A o \in relations : Visible(Catalog[o].schema)) => \E i \in Range(rows) : Visible(Catalog[i[1]].schema)
  <2> SUFFICES ASSUME all # {}, \A o \in relations : Visible(Catalog[o].schema)
               PROVE  \E i \in Range(rows) : Visible(Catalog[i[1]].schema)
      OBVIOUS
  <2>1. rows \in Seq(all) /\ Len(rows) > 0
      BY <1>2 DEF rows
  <2>2. 1 \in DOMAIN rows /\ rows[1] \in all
      BY <2>1
  <2>3. Visible(Catalog[rows[1][1]].schema)
      BY <1>4, <2>2
  <2> QED BY <2>2, <2>3 DEF Range
<1>7. Len(SeenOf(rows)) > 0 => SimilarColumns(name, relations) # <<>>
    BY <1>1 DEF rows
<1> QED BY <1>1, <1>3, <1>5, <1>6, <1>7 DEF rows

\* What an answer tells of.
ToldBy(a) ==
    {Catalog[o].schema : o \in {p \in Range(a.rows) : Catalog[p].type # "extension"}}
        \cup {Catalog[i[1]].schema : i \in Range(a.similar) \cup Range(a.columns)}
        \cup {Catalog[o].schema : o \in Range(a.previews)} \cup Range(a.guide)

\* An answer all of whose parts are of what is visible.
LEMMA TellsVisible ==
    ASSUME NEW a,
           \A o \in Range(a.rows) : Catalog[o].type # "extension" => Visible(Catalog[o].schema),
           \A i \in Range(a.similar) \cup Range(a.columns) : Visible(Catalog[i[1]].schema),
           \A o \in Range(a.previews) : Visible(Catalog[o].schema),
           \A s \in Range(a.guide) : Visible(s)
    PROVE  \A s \in ToldBy(a) : Visible(s)
BY DEF ToldBy

\* The relations with a preview are visible.
LEMMA PreviewsVisible ==
    ASSUME NEW f \in Failures
    PROVE  \A o \in Range(FlattenSeq([i \in DOMAIN f.refs |-> Ascending(Previewed(f.refs[i]))])) :
               Visible(Catalog[o].schema)
<1> DEFINE seen == {o \in Relations : Visible(Catalog[o].schema)}
           seqs == [i \in DOMAIN f.refs |-> Ascending(Previewed(f.refs[i]))]
<1>1. ASSUME NEW ref PROVE Ascending(Previewed(ref)) \in Seq(seen)
  <2>1. Previewed(ref) \subseteq seen
    <3>1. ASSUME NEW o \in Previewed(ref) PROVE Visible(Catalog[o].schema)
      <4>1. <<Catalog[o].schema, Catalog[o].name>> \in Resolve(ref)
          BY DEF Previewed
      <4>2. PICK s : Visible(s) /\ <<Catalog[o].schema, Catalog[o].name>> = <<s, ref.name>>
          BY <4>1, ResolvesVisible
      <4>3. Catalog[o].schema = s
          BY <4>2
      <4> QED BY <4>2, <4>3
    <3> QED BY <3>1 DEF Previewed
  <2>2. Previewed(ref) \subseteq Nat /\ IsFiniteSet(Previewed(ref))
    <3>1. Previewed(ref) \subseteq Objects
        BY DEF Previewed, Relations
    <3> QED BY <3>1, CatalogIs, FS_Subset
  <2>3. Ascending(Previewed(ref)) \in Seq(Previewed(ref))
      BY <2>2, AscendingLists DEF Lists
  <2> HIDE DEF seen
  <2> QED BY <2>1, <2>3, SeqMonotonic
<1>2. seqs \in Seq(Seq(seen))
  <2>1. f.refs \in Seq(Range(f.refs))
      BY ArgumentsAssumption DEF IsList
  <2>2. Len(f.refs) \in Nat /\ DOMAIN f.refs = 1..Len(f.refs)
      BY <2>1
  <2>3. seqs \in [1..Len(f.refs) -> Seq(seen)]
    <3> HIDE DEF seen
    <3> QED BY <1>1, <2>2
  <2> HIDE DEF seqs, seen
  <2> QED BY <2>2, <2>3
<1>3. FlattenSeq(seqs) \in Seq(seen)
  <2> HIDE DEF seqs, seen
  <2> QED BY <1>2, FlattenLists
<1> HIDE DEF seqs
<1>4. \A o \in Range(FlattenSeq(seqs)) : o \in seen
  <2> HIDE DEF seen
  <2> QED BY <1>3 DEF Range
<1> QED BY <1>4 DEF seqs

\* The hints of a failed statement tell of what is visible.
LEMMA HintsVisible ==
    ASSUME NEW f \in Failures
    PROVE  \A s \in ToldBy(Hints(f)) : Visible(s)
<1> DEFINE a == Hints(f)
           similar == SimilarRelations(f.name)
           columns == IF ColumnsOfStatement(f) # <<>> THEN ColumnsOfStatement(f) ELSE ColumnsAnywhere(f)
           previews == IF Denied THEN <<>>
                       ELSE FlattenSeq([i \in DOMAIN f.refs |-> Ascending(Previewed(f.refs[i]))])
           guide == IF Visible(GuideSchema(f)) THEN <<GuideSchema(f)>> ELSE <<>>
           told == IF Visible(GuideSchema(f)) /\ ~f.hinted THEN <<GuideSchema(f)>> ELSE <<>>
<1>0. Range(<<>>) = {} /\ \A x : Range(<<x>>) = {x}
  <2>1. Range(<<>>) = {}
      BY DEF Range
  <2>2. ASSUME NEW x PROVE Range(<<x>>) = {x}
    <3>1. DOMAIN <<x>> = 1..1
        OBVIOUS
    <3>2. \A i \in 1..1 : <<x>>[i] = x
        OBVIOUS
    <3> QED BY <3>1, <3>2 DEF Range
  <2> QED BY <2>1, <2>2
<1>1. IsList(f.name) /\ f.kind \in {"relation", "column", "alias", "timeout"}
    BY ArgumentsAssumption
<1>2. \A i \in Range(similar) : Visible(Catalog[i[1]].schema)
    BY <1>1, SimilarRelationsVisible
<1>3. \A i \in Range(columns) : Visible(Catalog[i[1]].schema)
  <2>1. \A i \in Range(ColumnsOfStatement(f)) : Visible(Catalog[i[1]].schema)
    <3>1. CASE Denied
        BY <1>0, <3>1 DEF ColumnsOfStatement
    <3>2. CASE ~Denied
      <4> DEFINE named == {o \in Relations : \E i \in DOMAIN f.refs :
                               <<Catalog[o].schema, Catalog[o].name>> \in Resolve(f.refs[i])}
      <4>1. ColumnsOfStatement(f) = SimilarColumns(f.name, named)
          BY <3>2 DEF ColumnsOfStatement
      <4>2. named \in SUBSET Relations
          OBVIOUS
      <4> HIDE DEF named
      <4> QED BY <1>1, <4>1, <4>2, SimilarColumnsVisible
    <3> QED BY <3>1, <3>2
  <2>2. \A i \in Range(ColumnsAnywhere(f)) : Visible(Catalog[i[1]].schema)
    <3>1. CASE Denied
        BY <1>0, <3>1 DEF ColumnsAnywhere
    <3>2. CASE ~Denied
      <4> DEFINE shown == {o \in Relations : /\ Catalog[o].schema \notin System
                                             /\ VisibleInSql(Catalog[o].schema)}
      <4>1. ColumnsAnywhere(f) = SimilarColumns(f.name, shown)
          BY <3>2 DEF ColumnsAnywhere
      <4>2. shown \in SUBSET Relations
          OBVIOUS
      <4> HIDE DEF shown
      <4> QED BY <1>1, <4>1, <4>2, SimilarColumnsVisible
    <3> QED BY <3>1, <3>2
  <2> QED BY <2>1, <2>2
<1>4. \A o \in Range(previews) : Visible(Catalog[o].schema)
    BY <1>0, PreviewsVisible
<1>5. (\A s \in Range(guide) : Visible(s)) /\ (\A s \in Range(told) : Visible(s))
    BY <1>0
<1>6. /\ Range(a.rows) = {}
      /\ a.similar \in {<<>>, similar} /\ a.columns \in {<<>>, columns} /\ a.previews \in {<<>>, previews}
      /\ a.guide \in {<<>>, guide, told}
  <2> HIDE DEF similar, columns, previews, guide, told
  <2>1. CASE f.kind = "relation"
    <3>1. a = [Answer("error") EXCEPT !.failure = <<f>>, !.similar = similar, !.guide = guide]
        BY <2>1 DEF Hints, similar, guide
    <3> HIDE DEF a
    <3> QED BY <1>0, <3>1 DEF Answer
  <2>2. CASE f.kind = "alias"
    <3>1. a = [Answer("error") EXCEPT !.failure = <<f>>, !.guide = told]
        BY <2>2 DEF Hints, told
    <3> HIDE DEF a
    <3> QED BY <1>0, <3>1 DEF Answer
  <2>3. CASE f.kind = "column" /\ f.schema = <<>>
    <3>1. a = [Answer("error") EXCEPT !.failure = <<f>>, !.previews = previews, !.columns = columns]
        BY <2>3 DEF Hints, previews, columns
    <3> HIDE DEF a
    <3> QED BY <1>0, <3>1 DEF Answer
  <2>4. CASE f.kind = "timeout" \/ (f.kind = "column" /\ f.schema # <<>>)
    <3>1. a = [Answer("error") EXCEPT !.failure = <<f>>]
        BY <2>4 DEF Hints
    <3> HIDE DEF a
    <3> QED BY <1>0, <3>1 DEF Answer
  <2> QED BY <1>1, <2>1, <2>2, <2>3, <2>4
<1> HIDE DEF a, similar, columns, previews, guide, told
<1>7. /\ \A o \in Range(a.rows) : Catalog[o].type # "extension" => Visible(Catalog[o].schema)
      /\ \A i \in Range(a.similar) \cup Range(a.columns) : Visible(Catalog[i[1]].schema)
      /\ \A o \in Range(a.previews) : Visible(Catalog[o].schema)
      /\ \A s \in Range(a.guide) : Visible(s)
    BY <1>0, <1>2, <1>3, <1>4, <1>5, <1>6
<1>8. \A s \in ToldBy(a) : Visible(s)
    BY <1>7, TellsVisible
<1> QED BY <1>8 DEF a

-----------------------------------------------------------------------------
(* The steps                                                                 *)

\* What Visible says is what the policy does.
LEMMA VisibleIs ==
    ASSUME NEW schema
    PROVE  Visible(schema) <=> /\ policy.mode # "denied" /\ Lower[schema] \notin policy.deny
                               /\ policy.mode = "limited" => Lower[schema] \in policy.allow
BY DEF Visible, Denied

\* A cursor has a place in a listing, or is that of execute_sql.
CursorHasOffset == cursor # <<>> => cursor[1].offset \in Nat

\* The limit of a page is positive; its cursor, if there is one, has a place.
PageLimit(asked) == IF asked = <<>> THEN DefaultPageSize ELSE Least(Most(asked[1], 1), MaxPageSize)
PageOffset(c) == IF c = <<>> THEN 0 ELSE c[1].offset
Matching(args) == {o \in Objects : InListing(o, args)}
FetchedPage(args, asked, c) ==
    LET all == Ascending(Matching(args))
    IN  SubSeq(all, PageOffset(c) + 1, Least(PageOffset(c) + PageLimit(asked) + 1, Len(all)))

\* A page has room for something, whatever size is asked for.
LEMMA PageLimitIs ==
    ASSUME NEW asked \in Limits
    PROVE  PageLimit(asked) \in Nat \ {0}
BY ArgumentsAssumption, LimitsAssumption DEF PageLimit, Least, Most

\* What matches is finite; Ascending lists it.
LEMMA MatchingLists ==
    ASSUME NEW args
    PROVE  /\ Lists(Ascending(Matching(args)), Matching(args)) /\ Cardinality(Matching(args)) \in Nat
           /\ Ascending(Matching(args)) \in Seq(Matching(args))
<1>1. Matching(args) \subseteq Objects
    BY DEF Matching
<1>2. Matching(args) \subseteq Nat /\ IsFiniteSet(Matching(args))
    BY <1>1, CatalogIs, FS_Subset
<1>3. Lists(Ascending(Matching(args)), Matching(args)) /\ Cardinality(Matching(args)) \in Nat
    BY <1>2, AscendingLists
<1> QED BY <1>3 DEF Lists

\* A part of a list, and what it has.
Part(list, offset, size) == SubSeq(list, offset + 1, Least(offset + size, Len(list)))

\* Where a part begins and ends, and that its elements keep their order.
LEMMA PartIs ==
    ASSUME NEW S, NEW list \in Seq(S), NEW offset \in Nat, NEW size \in Nat,
           NEW part, part = Part(list, offset, size)
    PROVE  /\ part \in Seq(S)
           /\ Len(part) = IF Len(list) <= offset THEN 0 ELSE Least(size, Len(list) - offset)
           /\ \A i \in 1..Len(part) : i + offset \in 1..Len(list) /\ part[i] = list[i + offset]
<1>1. Len(list) \in Nat /\ \A i \in 1..Len(list) : list[i] \in S
    OBVIOUS
<1> DEFINE end == Least(offset + size, Len(list))
           n == IF Len(list) <= offset THEN 0 ELSE Least(size, Len(list) - offset)
           got == [i \in 1..n |-> list[i + offset]]
<1>2. n \in Nat /\ end \in Nat /\ (n = 0 \/ n = end - offset) /\ (n = 0 => end <= offset)
    BY <1>1 DEF Least
<1>3. \A i \in 1..n : i + offset \in 1..Len(list)
    BY <1>1 DEF Least
<1> HIDE DEF n, end
<1>4. Part(list, offset, size) = [i \in 1..n |-> list[i + (offset + 1) - 1]]
    BY <1>1, <1>2 DEF end, Part
<1>5. part = got
  <2>1. \A i \in 1..n : i + (offset + 1) - 1 = i + offset
      BY <1>2
  <2> QED BY <1>4, <2>1
<1>6. got \in [1..n -> S] /\ \A i \in 1..n : got[i] = list[i + offset]
    BY <1>1, <1>3
<1> HIDE DEF got
<1>7. got \in Seq(S) /\ Len(got) = n
    BY <1>2, <1>6
<1> QED BY <1>3, <1>5, <1>6, <1>7 DEF n

\* A page of a listing, and what there is after it.
LEMMA PageIs ==
    ASSUME NEW args, NEW asked \in Limits, NEW c, PageOffset(c) \in Nat,
           NEW all, all = Ascending(Matching(args)),
           NEW offset, offset = PageOffset(c), NEW limit, limit = PageLimit(asked),
           NEW fetched, fetched = FetchedPage(args, asked, c),
           NEW rows, rows = Prefix(fetched, limit)
    PROVE  /\ fetched \in Seq(Matching(args)) /\ rows \in Seq(Matching(args))
           /\ Len(rows) = IF Len(all) <= offset THEN 0 ELSE Least(limit, Len(all) - offset)
           /\ \A i \in 1..Len(rows) : i + offset \in 1..Len(all) /\ rows[i] = all[i + offset]
           /\ Len(fetched) > limit <=> offset + limit < Len(all)
<1>1. all \in Seq(Matching(args)) /\ Len(all) \in Nat
    BY MatchingLists
<1>2. offset \in Nat /\ limit \in Nat \ {0} /\ limit \in Nat /\ limit + 1 \in Nat
    BY PageLimitIs
<1>3. fetched = SubSeq(all, offset + 1, Least(offset + (limit + 1), Len(all)))
  <2>1. offset + limit + 1 = offset + (limit + 1)
      BY <1>2
  <2> QED BY <2>1 DEF FetchedPage
<1> DEFINE size == limit + 1
<1>4. size \in Nat /\ fetched = Part(all, offset, size)
    BY <1>2, <1>3 DEF Part
<1> HIDE DEF size
<1>5. /\ fetched \in Seq(Matching(args))
      /\ Len(fetched) = IF Len(all) <= offset THEN 0 ELSE Least(size, Len(all) - offset)
      /\ \A i \in 1..Len(fetched) : i + offset \in 1..Len(all) /\ fetched[i] = all[i + offset]
    BY <1>1, <1>2, <1>4, PartIs
<1>6. /\ rows \in Seq(Matching(args)) /\ Len(rows) = Least(limit, Len(fetched))
      /\ \A i \in 1..Least(limit, Len(fetched)) : rows[i] = fetched[i]
  <2>1. limit \in Nat /\ fetched \in Seq(Matching(args))
      BY <1>2, <1>5
  <2> QED BY <2>1, PrefixIs
<1> DEFINE total == Len(all)
           had == Len(fetched)
           got == Len(rows)
<1> HIDE DEF total, had, got
<1>10. /\ total \in Nat /\ offset \in Nat /\ limit \in Nat \ {0} /\ size = limit + 1
       /\ had = IF total <= offset THEN 0 ELSE Least(size, total - offset)
       /\ got = Least(limit, had)
    BY <1>1, <1>2, <1>5, <1>6 DEF size, total, had, got
<1>11. /\ got = IF total <= offset THEN 0 ELSE Least(limit, total - offset)
       /\ had \in Nat
       /\ had > limit <=> offset + limit < total
    BY <1>10 DEF Least
<1>7. Len(rows) = (IF Len(all) <= offset THEN 0 ELSE Least(limit, Len(all) - offset)) /\ Len(fetched) \in Nat
    BY <1>11 DEF total, had, got
<1>8. Len(fetched) > limit <=> offset + limit < Len(all)
    BY <1>11 DEF total, had
<1>9. \A i \in 1..Len(rows) : i \in 1..Len(fetched) /\ rows[i] = fetched[i]
    BY <1>2, <1>6, <1>7 DEF Least
<1> QED BY <1>5, <1>6, <1>7, <1>8, <1>9

\* The listing under way has the first of what matches, up to where its cursor is; one that is
\* at its end has all of it.
ListingFollows ==
    listing # NoListing =>
        LET l == listing[1]
            all == Ascending(Matching(l.args))
        IN  /\ l.args \in Listings /\ ~FilterRefused(l.args.filters)
            /\ l.rows \in Seq(Matching(l.args))
            /\ Len(l.rows) <= Len(all) /\ \A i \in 1..Len(l.rows) : l.rows[i] = all[i]
            /\ l.more => cursor # <<>> /\ cursor[1].offset = Len(l.rows)
            /\ ~l.more => Len(l.rows) = Len(all)

\* The inductive invariant.
DiscoveryInv == CursorHasOffset /\ ListingFollows /\ DiscoveryStaysVisible

\* An answer of visible schemas keeps what the policy promises.
LEMMA TellingKeeps ==
    ASSUME UNCHANGED policy, \A s \in ToldBy(answer') : Visible(s)
    PROVE  DiscoveryStaysVisible'
<1>1. Told' = ToldBy(answer')
    BY DEF Told, ToldBy
<1>2. \A s \in Told' : /\ policy'.mode # "denied" /\ Lower[s] \notin policy'.deny
                       /\ policy'.mode = "limited" => Lower[s] \in policy'.allow
    BY <1>1, VisibleIs
<1> QED BY <1>2 DEF DiscoveryStaysVisible

\* A refusal tells nothing.
LEMMA RefusalTells ==
    ASSUME NEW code
    PROVE  \A s \in ToldBy(Refused(code)) : Visible(s)
<1>1. Range(<<>>) = {}
    BY DEF Range
<1> DEFINE a == Refused(code)
<1>2. a.rows = <<>> /\ a.similar = <<>> /\ a.columns = <<>> /\ a.previews = <<>> /\ a.guide = <<>>
    BY DEF Refused, Answer
<1> HIDE DEF a
<1>3. ToldBy(a) = {}
    BY <1>1, <1>2 DEF ToldBy
<1> QED BY <1>3 DEF a

\* Nor does an answer of rows tell more than of their schemas.
LEMMA RowsTell ==
    ASSUME NEW a, NEW S, a.rows \in Seq(S),
           a.similar = <<>> /\ a.columns = <<>> /\ a.previews = <<>> /\ a.guide = <<>>,
           \A o \in S : Catalog[o].type # "extension" => Visible(Catalog[o].schema)
    PROVE  \A s \in ToldBy(a) : Visible(s)
<1>1. Range(<<>>) = {}
    BY DEF Range
<1>2. \A o \in Range(a.rows) : o \in S
    BY DEF Range
<1> QED BY <1>1, <1>2, TellsVisible

\* A list after another.
LEMMA ConcatIs ==
    ASSUME NEW S, NEW s \in Seq(S), NEW t \in Seq(S)
    PROVE  /\ s \o t \in Seq(S) /\ Len(s \o t) = Len(s) + Len(t)
           /\ \A i \in 1..Len(s \o t) : (s \o t)[i] = IF i <= Len(s) THEN s[i] ELSE t[i - Len(s)]
<1>1. s \o t \in Seq(S) /\ Len(s \o t) = Len(s) + Len(t) /\ Len(s) \in Nat /\ Len(t) \in Nat
    OBVIOUS
<1>2. ASSUME NEW i \in 1..Len(s \o t) PROVE (s \o t)[i] = IF i <= Len(s) THEN s[i] ELSE t[i - Len(s)]
    BY <1>1, <1>2
<1> QED BY <1>1, <1>2

\* A list that another begins with; what a page has, where it ends,
\* and whether there is more after it.
Begins(list, all) == Len(list) <= Len(all) /\ \A i \in 1..Len(list) : list[i] = all[i]
PageRows(args, asked, c) == Prefix(FetchedPage(args, asked, c), PageLimit(asked))
PageEnd(asked, c) == PageOffset(c) + PageLimit(asked)
HasMore(args, asked, c) == Len(FetchedPage(args, asked, c)) > PageLimit(asked)

\* What a listing has to do next, after a page of it.
LEMMA PageFollows ==
    ASSUME NEW args, NEW asked \in Limits, NEW c, PageOffset(c) \in Nat,
           NEW before \in Seq(Matching(args)), Len(before) = PageOffset(c),
           Begins(before, Ascending(Matching(args)))
    PROVE  /\ before \o PageRows(args, asked, c) \in Seq(Matching(args))
           /\ Begins(before \o PageRows(args, asked, c), Ascending(Matching(args)))
           /\ HasMore(args, asked, c) => PageEnd(asked, c) = Len(before \o PageRows(args, asked, c))
           /\ ~HasMore(args, asked, c) => Len(before \o PageRows(args, asked, c)) = Len(Ascending(Matching(args)))
<1> DEFINE offset == PageOffset(c)
           limit == PageLimit(asked)
           fetched == FetchedPage(args, asked, c)
           more == HasMore(args, asked, c)
           all == Ascending(Matching(args))
           rows == PageRows(args, asked, c)
           both == before \o rows
<1>1. /\ rows \in Seq(Matching(args))
      /\ Len(rows) = IF Len(all) <= offset THEN 0 ELSE Least(limit, Len(all) - offset)
      /\ \A i \in 1..Len(rows) : i + offset \in 1..Len(all) /\ rows[i] = all[i + offset]
      /\ Len(fetched) > limit <=> offset + limit < Len(all)
  <2> HIDE DEF offset, limit, fetched, all, rows
  <2>1. /\ offset = PageOffset(c) /\ limit = PageLimit(asked) /\ fetched = FetchedPage(args, asked, c)
        /\ rows = Prefix(fetched, limit) /\ all = Ascending(Matching(args))
      BY DEF offset, limit, fetched, all, rows, PageRows
  <2> QED BY <2>1, PageIs
<1>2. limit \in Nat \ {0} /\ offset \in Nat /\ Len(all) \in Nat
    BY PageLimitIs, MatchingLists
<1>3. /\ Len(before) = offset /\ offset <= Len(all) /\ (more <=> offset + limit < Len(all))
      /\ \A i \in 1..Len(before) : before[i] = all[i]
    BY <1>1 DEF Begins, HasMore
<1> HIDE DEF offset, limit, fetched, more, all, rows
<1>4. both \in Seq(Matching(args)) /\ Len(both) = offset + Len(rows) /\ Len(rows) \in Nat
      /\ \A i \in 1..Len(both) : both[i] = IF i <= offset THEN before[i] ELSE rows[i - offset]
  <2>1. rows \in Seq(Matching(args)) /\ Len(rows) \in Nat
      BY <1>1
  <2> QED BY <1>3, <2>1, ConcatIs
<1> HIDE DEF both
<1> DEFINE total == Len(all)
           got == Len(rows)
           end == Len(both)
<1> HIDE DEF total, got, end
<1>5. /\ total \in Nat /\ got \in Nat /\ end = offset + got /\ offset <= total
      /\ got = IF total <= offset THEN 0 ELSE Least(limit, total - offset)
      /\ more <=> offset + limit < total
    BY <1>1, <1>2, <1>3, <1>4 DEF total, got, end
<1>6. end <= total /\ (more => offset + limit = end) /\ (~more => end = total)
    BY <1>2, <1>5 DEF Least
<1>7. ASSUME NEW i \in 1..end PROVE both[i] = all[i]
  <2>1. CASE i <= offset
    <3>1. i \in 1..Len(before) /\ both[i] = before[i]
        BY <1>2, <1>3, <1>4, <2>1 DEF end
    <3> QED BY <1>3, <3>1
  <2>2. CASE ~(i <= offset)
    <3> DEFINE k == i - offset
    <3>1. k \in 1..got /\ k + offset = i
        BY <1>2, <1>5, <2>2
    <3>2. both[i] = rows[k]
        BY <1>4, <2>2 DEF end
    <3> HIDE DEF k
    <3>3. rows[k] = all[k + offset]
        BY <1>1, <3>1 DEF got
    <3> QED BY <3>1, <3>2, <3>3
  <2> QED BY <2>1, <2>2
<1> QED BY <1>4, <1>6, <1>7 DEF total, end, offset, limit, more, all, rows, both, Begins, PageEnd

\* list_objects keeps the invariant.
LEMMA ListObjectsKeeps ==
    ASSUME DiscoveryInv, NEW args \in Listings, NEW asked \in Limits, NEW c \in {<<>>, cursor},
           NEW late, ListObjects(args, asked, c, late)
    PROVE  DiscoveryInv'
<1> DEFINE code == ListingRefused(args, c, late)
           limit == PageLimit(asked)
           offset == PageOffset(c)
           all == Ascending(Matching(args))
           fetched == FetchedPage(args, asked, c)
           more == Len(fetched) > limit
           next == [scope |-> "list_objects", hash |-> ListingHash(args), offset |-> NextListed(offset, limit)]
           rows == Prefix(fetched, limit)
<1>1. /\ UNCHANGED policy
      /\ IF code # ""
         THEN answer' = Refused(code) /\ UNCHANGED <<cursor, listing>>
         ELSE /\ answer' = [Answer("objects") EXCEPT !.rows = rows,
                                                     !.next = IF more THEN <<next>> ELSE <<>>]
              /\ cursor' = IF more THEN <<next>> ELSE <<>>
              /\ listing' = IF c = <<>> THEN <<[args |-> args, rows |-> rows, more |-> more]>>
                            ELSE IF listing # NoListing /\ listing[1].args = args /\ listing[1].more
                            THEN <<[args |-> args, rows |-> listing[1].rows \o rows, more |-> more]>>
                            ELSE NoListing
    BY DEF ListObjects, PageLimit, PageOffset, Matching, FetchedPage
<1>2. offset \in Nat
    BY DEF PageOffset, DiscoveryInv, CursorHasOffset
<1>3. limit \in Nat \ {0}
    BY PageLimitIs
<1>4. rows \in Seq(Matching(args))
  <2> HIDE DEF limit, offset, fetched, rows
  <2>1. limit = PageLimit(asked) /\ offset = PageOffset(c) /\ fetched = FetchedPage(args, asked, c) /\ rows = Prefix(fetched, limit)
      BY DEF limit, offset, fetched, rows
  <2> QED BY <1>2, <2>1, PageIs
<1> HIDE DEF code, limit, offset, all, fetched, more, next, rows
<1>5. CASE code # ""
  <2>1. answer' = Refused(code) /\ UNCHANGED <<policy, cursor, listing>>
      BY <1>1, <1>5
  <2>2. DiscoveryStaysVisible'
      BY <2>1, RefusalTells, TellingKeeps
  <2>3. CursorHasOffset' /\ ListingFollows'
      BY <2>1 DEF DiscoveryInv, CursorHasOffset, ListingFollows
  <2> QED BY <2>2, <2>3 DEF DiscoveryInv
<1>6. CASE code = ""
  <2>1. Visible(args.schema) /\ ~FilterRefused(args.filters)
      BY <1>6 DEF code, ListingRefused
  <2>2. DiscoveryStaysVisible'
    <3> DEFINE a == [Answer("objects") EXCEPT !.rows = rows, !.next = IF more THEN <<next>> ELSE <<>>]
    <3>1. answer' = a
        BY <1>1, <1>6
    <3>2. a.rows = rows /\ a.similar = <<>> /\ a.columns = <<>> /\ a.previews = <<>> /\ a.guide = <<>>
        BY DEF Answer
    <3> HIDE DEF a
    <3>3. \A o \in Matching(args) : Catalog[o].type # "extension" => Visible(Catalog[o].schema)
        BY <2>1 DEF Matching, InListing
    <3>4. a.rows \in Seq(Matching(args))
        BY <1>4, <3>2
    <3>5. \A s \in ToldBy(a) : Visible(s)
        BY <3>2, <3>3, <3>4, RowsTell
    <3> QED BY <1>1, <3>1, <3>5, TellingKeeps
  <2>3. CursorHasOffset'
    <3>1. NextListed(offset, limit) \in Nat
        BY <1>2, <1>3 DEF NextListed
    <3>2. cursor' # <<>> => cursor' = <<next>>
        BY <1>1, <1>6
    <3> QED BY <3>1, <3>2 DEF CursorHasOffset, next
  <2>4. ListingFollows'
    <3> SUFFICES ASSUME listing' # NoListing
                 PROVE  /\ listing[1].args' \in Listings /\ ~FilterRefused(listing[1].args'.filters)
                        /\ listing[1].rows' \in Seq(Matching(listing[1].args'))
                        /\ Len(listing[1].rows') <= Len(Ascending(Matching(listing[1].args')))
                        /\ \A i \in 1..Len(listing[1].rows') : listing[1].rows'[i] = Ascending(Matching(listing[1].args'))[i]
                        /\ listing[1].more' => cursor' # <<>> /\ cursor'[1].offset = Len(listing[1].rows')
                        /\ ~listing[1].more' => Len(listing[1].rows') = Len(Ascending(Matching(listing[1].args')))
        BY DEF ListingFollows
    <3> DEFINE before == IF c = <<>> THEN <<>> ELSE listing[1].rows
               both == before \o rows
    <3>1. listing' = <<[args |-> args, rows |-> both, more |-> more]>>
      <4>1. CASE c = <<>>
        <5>1. both = rows
            BY <1>4, <4>1
        <5> QED BY <1>1, <1>6, <4>1, <5>1
      <4>2. CASE c # <<>>
          BY <1>1, <1>6, <4>2
      <4> QED BY <4>1, <4>2
    <3>2. before \in Seq(Matching(args)) /\ Len(before) = offset /\ Begins(before, all)
      <4>1. CASE c = <<>>
        <5>1. before = <<>> /\ offset = 0
            BY <4>1 DEF offset, PageOffset
        <5>2. all \in Seq(Matching(args))
            BY MatchingLists DEF all
        <5> HIDE DEF before
        <5> QED BY <5>1, <5>2 DEF Begins
      <4>2. CASE c # <<>>
        <5>1. listing # NoListing /\ listing[1].args = args /\ listing[1].more /\ c = cursor
            BY <1>1, <1>6, <4>2
        <5>2. before = listing[1].rows /\ offset = cursor[1].offset
            BY <4>2, <5>1 DEF offset, PageOffset
        <5> HIDE DEF before
        <5> QED BY <5>1, <5>2 DEF DiscoveryInv, ListingFollows, all, Begins
      <4> QED BY <4>1, <4>2
    <3> HIDE DEF before, both
    <3>3. /\ both \in Seq(Matching(args)) /\ Begins(both, all)
          /\ HasMore(args, asked, c) => PageEnd(asked, c) = Len(both)
          /\ ~HasMore(args, asked, c) => Len(both) = Len(all)
      <4>1. /\ PageOffset(c) \in Nat /\ Len(before) = PageOffset(c) /\ before \in Seq(Matching(args))
            /\ Begins(before, Ascending(Matching(args)))
          BY <1>2, <3>2 DEF all, offset
      <4>2. all = Ascending(Matching(args)) /\ both = before \o PageRows(args, asked, c)
          BY DEF all, both, rows, fetched, limit, PageRows
      <4> QED BY <4>1, <4>2, PageFollows
    <3>6. more <=> HasMore(args, asked, c)
        BY DEF more, HasMore, fetched, limit
    <3>4. more => cursor' # <<>> /\ cursor'[1].offset = Len(both)
      <4>1. more => cursor' = <<next>>
          BY <1>1, <1>6
      <4>2. more => NextListed(offset, limit) = Len(both)
          BY <3>3, <3>6 DEF NextListed, PageEnd, offset, limit
      <4> QED BY <4>1, <4>2 DEF next
    <3>5. /\ listing[1].args' = args /\ listing[1].rows' = both /\ listing[1].more' = more
        BY <3>1
    <3> QED BY <2>1, <3>3, <3>4, <3>5, <3>6 DEF all, Begins
  <2> QED BY <2>2, <2>3, <2>4 DEF DiscoveryInv
<1> QED BY <1>5, <1>6

\* The invariant holds, whatever is asked and however a statement fails.
THEOREM DiscoveryInvariant == Spec => []DiscoveryInv
<1>0. Range(<<>>) = {}
    BY DEF Range
<1>1. Init => DiscoveryInv
  <2> SUFFICES ASSUME Init PROVE DiscoveryInv
      OBVIOUS
  <2>1. answer = Answer("none") /\ listing = NoListing
        /\ cursor = <<[scope |-> "execute_sql", hash |-> <<>>, offset |-> 1]>>
      BY DEF Init
  <2>2. CursorHasOffset /\ ListingFollows
      BY <2>1 DEF CursorHasOffset, ListingFollows
  <2>3. answer.rows = <<>> /\ answer.similar = <<>> /\ answer.columns = <<>> /\ answer.previews = <<>> /\ answer.guide = <<>>
      BY <2>1 DEF Answer
  <2>4. Told = {}
      BY <1>0, <2>3 DEF Told
  <2> QED BY <2>2, <2>4 DEF DiscoveryInv, DiscoveryStaysVisible
<1>2. DiscoveryInv /\ [Next]_vars => DiscoveryInv'
  <2> SUFFICES ASSUME DiscoveryInv, [Next]_vars PROVE DiscoveryInv'
      OBVIOUS
  <2>0. ASSUME UNCHANGED <<policy, cursor, listing>>, \A s \in ToldBy(answer') : Visible(s)
        PROVE  DiscoveryInv'
    <3>1. DiscoveryStaysVisible'
        BY <2>0, TellingKeeps
    <3>2. CursorHasOffset' /\ ListingFollows'
        BY <2>0 DEF DiscoveryInv, CursorHasOffset, ListingFollows
    <3> QED BY <3>1, <3>2 DEF DiscoveryInv
  <2>1. CASE ListSchemas
    <3> DEFINE first == {o \in Objects : /\ \A p \in 1..o - 1 : Catalog[p].schema # Catalog[o].schema
                                         /\ Visible(Catalog[o].schema)}
               a == [Answer("schemas") EXCEPT !.rows = Ascending(first)]
    <3>1. UNCHANGED <<policy, cursor, listing>> /\ answer' \in {Refused("METADATA_ACCESS_DENIED"), a}
        BY <2>1 DEF ListSchemas
    <3>2. Ascending(first) \in Seq(first)
      <4>1. first \subseteq Objects
          OBVIOUS
      <4> HIDE DEF first
      <4>2. first \subseteq Nat /\ IsFiniteSet(first)
          BY <4>1, CatalogIs, FS_Subset
      <4> QED BY <4>2, AscendingLists DEF Lists
    <3>3. \A o \in first : Catalog[o].type # "extension" => Visible(Catalog[o].schema)
        OBVIOUS
    <3> HIDE DEF first
    <3>4. a.rows = Ascending(first) /\ a.similar = <<>> /\ a.columns = <<>> /\ a.previews = <<>> /\ a.guide = <<>>
        BY DEF Answer
    <3> HIDE DEF a
    <3>5. \A s \in ToldBy(a) : Visible(s)
      <4>1. a.rows \in Seq(first)
          BY <3>2, <3>4
      <4> QED BY <3>3, <3>4, <4>1, RowsTell
    <3> QED BY <2>0, <3>1, <3>5, RefusalTells
  <2>2. ASSUME NEW args \in Listings, NEW n \in Limits, ListObjects(args, n, <<>>, FALSE) PROVE DiscoveryInv'
      BY <2>2, ListObjectsKeeps
  <2>3. ASSUME NEW args \in Details, GetDetails(args) PROVE DiscoveryInv'
    <3> DEFINE named == {o \in Objects : /\ Catalog[o].name = args.name
                                         /\ IF args.type \in {"table", "view"} THEN o \in Relations
                                            ELSE Catalog[o].type = args.type
                                         /\ args.type # "extension" => Catalog[o].schema = args.schema}
               a == [Answer("details") EXCEPT !.rows = Ascending(named)]
    <3>1. UNCHANGED <<policy, cursor, listing>>
          /\ answer' = IF ~Visible(args.schema) THEN Refused("METADATA_ACCESS_DENIED")
                       ELSE IF args.type \notin {"table", "view", "sequence", "extension"} THEN Refused("INVALID_ARGUMENT")
                       ELSE a
        BY <2>3 DEF GetDetails
    <3>2. Ascending(named) \in Seq(named)
      <4>1. named \subseteq Objects
          OBVIOUS
      <4> HIDE DEF named
      <4>2. named \subseteq Nat /\ IsFiniteSet(named)
          BY <4>1, CatalogIs, FS_Subset
      <4> QED BY <4>2, AscendingLists DEF Lists
    <3>3. Visible(args.schema) => \A o \in named : Catalog[o].type # "extension" => Visible(Catalog[o].schema)
        OBVIOUS
    <3> HIDE DEF named
    <3>4. a.rows = Ascending(named) /\ a.similar = <<>> /\ a.columns = <<>> /\ a.previews = <<>> /\ a.guide = <<>>
        BY DEF Answer
    <3> HIDE DEF a
    <3>5. Visible(args.schema) => \A s \in ToldBy(a) : Visible(s)
      <4>1. a.rows \in Seq(named)
          BY <3>2, <3>4
      <4> QED BY <3>3, <3>4, <4>1, RowsTell
    <3> QED BY <2>0, <3>1, <3>5, RefusalTells
  <2>4. ASSUME NEW f \in Failures, StatementFails(f) PROVE DiscoveryInv'
    <3>1. UNCHANGED <<policy, cursor, listing>> /\ answer' = Hints(f)
        BY <2>4 DEF StatementFails
    <3> QED BY <2>0, <3>1, HintsVisible
  <2>5. ASSUME NEW args \in Listings, NEW n \in Limits, NEW late \in BOOLEAN, ListObjects(args, n, cursor, late)
        PROVE  DiscoveryInv'
      BY <2>5, ListObjectsKeeps
  <2>6. CASE UNCHANGED vars
      BY <2>6 DEF vars, DiscoveryInv, CursorHasOffset, ListingFollows, DiscoveryStaysVisible, Told
  <2> QED BY <2>1, <2>2, <2>3, <2>4, <2>5, <2>6 DEF Next, Ask, Continue
<1> QED BY <1>1, <1>2, PTL DEF Spec

\* No answer tells of a schema that the policy hides.
THEOREM StaysVisible == Spec => []DiscoveryStaysVisible
<1>1. DiscoveryInv => DiscoveryStaysVisible
    BY DEF DiscoveryInv
<1> QED BY <1>1, DiscoveryInvariant, PTL

\* Who follows a listing's cursors to the end is given all of it, in order.
THEOREM ListingsComplete == Spec => []ListingComplete
<1>1. DiscoveryInv => ListingComplete
  <2> SUFFICES ASSUME DiscoveryInv, listing # NoListing
               PROVE  LET l == listing[1]
                          all == Ascending({o \in Objects : InListing(o, l.args)})
                      IN  IsPrefix(l.rows, all) /\ (~l.more => l.rows = all)
      BY DEF ListingComplete
  <2> DEFINE l == listing[1]
             all == Ascending(Matching(l.args))
             rows == l.rows
  <2>1. /\ rows \in Seq(Matching(l.args))
        /\ Len(rows) <= Len(all) /\ \A i \in 1..Len(rows) : rows[i] = all[i]
        /\ ~l.more => Len(rows) = Len(all)
      BY DEF DiscoveryInv, ListingFollows
  <2>2. all \in Seq(Matching(l.args))
      BY MatchingLists
  <2>3. all = Ascending({o \in Objects : InListing(o, l.args)})
      BY DEF Matching
  <2> HIDE DEF rows, all
  <2>4. IsPrefix(rows, all)
    <3>1. \A i \in 1..Len(rows) : rows[i] = all[i]
        BY <2>1
    <3>2. SubSeq(rows, 1, Len(rows)) = SubSeq(all, 1, Len(rows))
        BY <2>1, <2>2
    <3> QED BY <2>1, <3>2 DEF IsPrefix
  <2>5. ~l.more => rows = all
      BY <2>1, <2>2
  <2> QED BY <2>3, <2>4, <2>5 DEF rows
<1> QED BY <1>1, DiscoveryInvariant, PTL

-----------------------------------------------------------------------------
(* Literals and patterns, which are read from their end                      *)

\* What ReadELiteral makes of a text from a place on, given what it makes of it from later ones.
ReadAt(written, read, i) ==
    IF i > Len(written) \/ written[i] = "'" THEN <<>>
    ELSE IF written[i] = "\\" /\ i < Len(written) THEN <<written[i + 1]>> \o read[i + 2]
    ELSE <<written[i]>> \o read[i + 1]
Reads(written, lo, read) == read = [i \in lo..Len(written) + 2 |-> ReadAt(written, read, i)]

\* It exists: ReadELiteral is what it makes of the text from the start.
LEMMA ReadELiteralReads ==
    ASSUME NEW written, Len(written) \in Nat
    PROVE  \E read : Reads(written, 1, read) /\ ReadELiteral(written) = read[1]
<1> DEFINE L == Len(written)
           Good == {n \in 0..L + 2 : \E f : Reads(written, L + 3 - n, f)}
<1>1. 0 \in Good
  <2>1. L + 3 - 0 = L + 3 /\ (L + 3)..(L + 2) = {}
      OBVIOUS
  <2> DEFINE f == [i \in {} |-> ReadAt(written, <<>>, i)]
  <2>2. f = [i \in {} |-> ReadAt(written, f, i)]
      OBVIOUS
  <2>3. Reads(written, L + 3, f)
      BY <2>1, <2>2 DEF Reads
  <2> HIDE DEF f
  <2> QED BY <2>1, <2>3
<1>2. ASSUME NEW n \in 1..L + 2, n - 1 \in Good PROVE n \in Good
  <2> DEFINE lo == L + 3 - n
  <2>1. lo \in 1..L + 2 /\ L + 3 - (n - 1) = lo + 1
      OBVIOUS
  <2>2. PICK f : Reads(written, lo + 1, f)
      BY <1>2, <2>1
  <2> DEFINE g == [i \in lo..L + 2 |-> IF i = lo THEN ReadAt(written, f, i) ELSE f[i]]
             h == [i \in lo..L + 2 |-> ReadAt(written, g, i)]
  <2> HIDE DEF lo
  <2>3. ASSUME NEW i \in lo..L + 2 PROVE ReadAt(written, g, i) = ReadAt(written, f, i)
    <3>1. CASE i > L
        BY <3>1 DEF ReadAt
    <3>2. CASE ~(i > L)
      <4>1. i + 1 \in lo..L + 2 /\ i + 2 \in lo..L + 2 /\ i + 1 # lo /\ i + 2 # lo
          BY <2>1, <3>2
      <4>2. g[i + 1] = f[i + 1] /\ g[i + 2] = f[i + 2]
          BY <4>1
      <4> HIDE DEF g
      <4> QED BY <4>2 DEF ReadAt
    <3> QED BY <3>1, <3>2
  <2>4. ASSUME NEW i \in lo..L + 2 PROVE g[i] = h[i]
    <3>1. CASE i = lo
        BY <2>3, <3>1
    <3>2. CASE i # lo
      <4>1. i \in lo + 1..L + 2
          BY <2>1, <3>2
      <4>2. f[i] = ReadAt(written, f, i)
          BY <2>2, <4>1 DEF Reads
      <4> QED BY <2>3, <3>2, <4>2
    <3> QED BY <3>1, <3>2
  <2>5. g = h
      BY <2>4
  <2>6. Reads(written, lo, g)
      BY <2>5 DEF Reads
  <2> HIDE DEF g
  <2> QED BY <2>6 DEF lo
<1>3. L + 2 \in Good
  <2> DEFINE N == L + 2
  <2>1. N \in Nat
      OBVIOUS
  <2> HIDE DEF Good
  <2>2. \A n \in 1..N : n - 1 \in Good => n \in Good
      BY <1>2
  <2> HIDE DEF N
  <2>3. 0..N \subseteq Good
      BY <1>1, <2>1, <2>2, UpTo
  <2> QED BY <2>1, <2>3 DEF N
<1>4. L + 3 - (L + 2) = 1
    OBVIOUS
<1> DEFINE last == CHOOSE read : Reads(written, 1, read)
<1>5. Reads(written, 1, last)
    BY <1>3, <1>4
<1>6. ReadELiteral(written) = last[1]
    BY DEF ReadELiteral, Reads, ReadAt
<1> QED BY <1>5, <1>6

\* The places of a name from where on it matches a pattern from one of its places on, likewise.
MatchAt(n, p, match, i) ==
    LET after == IF i > Len(p) THEN {} ELSE match[i + 1]
        escaped == IF i < Len(p) THEN match[i + 2] ELSE {}
    IN  IF i > Len(p) THEN {Len(n) + 1}
        ELSE IF p[i] = "%" THEN {j \in 1..Len(n) + 1 : \E k \in after : j <= k}
        ELSE IF p[i] = "\\" THEN {j \in 1..Len(n) : j + 1 \in escaped /\ p[i + 1] = n[j]}
        ELSE {j \in 1..Len(n) : j + 1 \in after /\ p[i] \in {"_", n[j]}}
Matches(n, p, lo, match) == match = [i \in lo..Len(p) + 2 |-> MatchAt(n, p, match, i)]

\* ILIKE is the table of places the definition above describes.
LEMMA ILikeMatches ==
    ASSUME NEW name, NEW pattern, Len(Folded(pattern)) \in Nat
    PROVE  \E match : /\ Matches(Folded(name), Folded(pattern), 1, match)
                      /\ ILike(name, pattern) <=> 1 \in match[1]
<1> DEFINE n == Folded(name)
           p == Folded(pattern)
           L == Len(p)
           Good == {m \in 0..L + 2 : \E f : Matches(n, p, L + 3 - m, f)}
<1>0. L \in Nat
    OBVIOUS
<1> HIDE DEF n, p
<1>1. 0 \in Good
  <2>1. L + 3 - 0 = L + 3 /\ (L + 3)..(L + 2) = {}
      BY <1>0
  <2> DEFINE f == [i \in {} |-> MatchAt(n, p, <<>>, i)]
  <2>2. f = [i \in {} |-> MatchAt(n, p, f, i)]
      OBVIOUS
  <2>3. Matches(n, p, L + 3, f)
      BY <2>1, <2>2 DEF Matches
  <2> HIDE DEF f
  <2> QED BY <1>0, <2>1, <2>3
<1>2. ASSUME NEW m \in 1..L + 2, m - 1 \in Good PROVE m \in Good
  <2> DEFINE lo == L + 3 - m
  <2>1. lo \in 1..L + 2 /\ L + 3 - (m - 1) = lo + 1
      BY <1>0
  <2>2. PICK f : Matches(n, p, lo + 1, f)
      BY <1>2, <2>1
  <2> DEFINE g == [i \in lo..L + 2 |-> IF i = lo THEN MatchAt(n, p, f, i) ELSE f[i]]
             h == [i \in lo..L + 2 |-> MatchAt(n, p, g, i)]
  <2> HIDE DEF lo
  <2>3. ASSUME NEW i \in lo..L + 2 PROVE MatchAt(n, p, g, i) = MatchAt(n, p, f, i)
    <3>1. CASE i > L
        BY <3>1 DEF MatchAt
    <3>2. CASE ~(i > L)
      <4>1. i + 1 \in lo..L + 2 /\ i + 2 \in lo..L + 2 /\ i + 1 # lo /\ i + 2 # lo
          BY <1>0, <2>1, <3>2
      <4>2. g[i + 1] = f[i + 1] /\ g[i + 2] = f[i + 2]
          BY <4>1
      <4> HIDE DEF g
      <4> QED BY <4>2 DEF MatchAt
    <3> QED BY <3>1, <3>2
  <2>4. ASSUME NEW i \in lo..L + 2 PROVE g[i] = h[i]
    <3>1. CASE i = lo
        BY <2>3, <3>1
    <3>2. CASE i # lo
      <4>1. i \in lo + 1..L + 2
          BY <1>0, <2>1, <3>2
      <4>2. f[i] = MatchAt(n, p, f, i)
          BY <2>2, <4>1 DEF Matches
      <4> QED BY <2>3, <3>2, <4>2
    <3> QED BY <3>1, <3>2
  <2>5. g = h
      BY <2>4
  <2>6. Matches(n, p, lo, g)
      BY <2>5 DEF Matches
  <2> HIDE DEF g
  <2> QED BY <2>6 DEF lo
<1>3. L + 2 \in Good
  <2> DEFINE N == L + 2
  <2>1. N \in Nat
      BY <1>0
  <2> HIDE DEF Good
  <2>2. \A m \in 1..N : m - 1 \in Good => m \in Good
      BY <1>2
  <2> HIDE DEF N
  <2>3. 0..N \subseteq Good
      BY <1>1, <2>1, <2>2, UpTo
  <2> QED BY <2>1, <2>3 DEF N
<1>4. L + 3 - (L + 2) = 1
    BY <1>0
<1> DEFINE last == CHOOSE match : Matches(n, p, 1, match)
<1>5. Matches(n, p, 1, last)
    BY <1>3, <1>4
<1>6. ILike(name, pattern) <=> 1 \in last[1]
  <2>1. ILike(name, pattern) <=> 1 \in last[1]
      BY DEF ILike, Matches, MatchAt, n, p
  <2> QED BY <2>1
<1> QED BY <1>5, <1>6 DEF n, p

-----------------------------------------------------------------------------
(* Quoting                                                                   *)

\* Where a text has each of the characters of a value that it quotes, and where it has a next one.
Width(ch, special) == IF ch \in special THEN 2 ELSE 1
QuotesAt(written, ch, special, at) ==
    IF ch \in special THEN written[at] = "\\" /\ written[at + 1] = ch ELSE written[at] = ch
Places(value, special, place) ==
    /\ place[1] = 1 /\ \A k \in 1..Len(value) + 1 : place[k] \in Nat \ {0}
    /\ \A k \in 1..Len(value) : place[k + 1] = place[k] + Width(value[k], special)

\* The text ends with the value; each place of it is within the text.
LEMMA QuotedIs ==
    ASSUME NEW S, NEW value \in Seq(S), NEW special
    PROVE  /\ Quoted(value, special) \in Seq(S \cup {"\\"})
           /\ \E place : /\ Places(value, special, place)
                         /\ Len(Quoted(value, special)) = place[Len(value) + 1] - 1
                         /\ \A k \in 1..Len(value) : /\ place[k + 1] <= place[Len(value) + 1]
                                                     /\ QuotesAt(Quoted(value, special), value[k], special, place[k])
<1> DEFINE N == Len(value)
           T == S \cup {"\\"}
           piece(i) == IF value[i] \in special THEN <<"\\", value[i]>> ELSE <<value[i]>>
           seqs == [i \in DOMAIN value |-> piece(i)]
           written == Quoted(value, special)
<1>1. N \in Nat /\ DOMAIN value = 1..N /\ \A i \in 1..N : value[i] \in S
    OBVIOUS
<1>2. ASSUME NEW i \in 1..N
      PROVE  /\ piece(i) \in Seq(T) /\ Len(piece(i)) = Width(value[i], special)
             /\ QuotesAt(piece(i), value[i], special, 1)
  <2>1. value[i] \in T /\ "\\" \in T
      BY <1>1
  <2> HIDE DEF T
  <2> QED BY <2>1 DEF Width, QuotesAt
<1>3. seqs \in Seq(Seq(T)) /\ Len(seqs) = N /\ \A i \in 1..N : seqs[i] = piece(i)
  <2> HIDE DEF piece, T
  <2>1. seqs \in [1..N -> Seq(T)] /\ DOMAIN seqs = 1..N
      BY <1>1, <1>2
  <2>2. \A i \in 1..N : seqs[i] = piece(i)
      BY <1>1
  <2> HIDE DEF seqs, N
  <2>3. seqs \in Seq(Seq(T)) /\ Len(seqs) = N
      BY <1>1, <2>1
  <2> QED BY <2>2, <2>3
<1>4. written = FlattenSeq(seqs)
    BY DEF Quoted
<1> HIDE DEF seqs, piece, T, written
<1>5. PICK full : /\ full[0] = <<>> /\ FlattenSeq(seqs) = full[N]
                  /\ \A n \in 0..N : full[n] \in Seq(T)
                  /\ \A n \in 1..N : full[n] = full[n - 1] \o seqs[n]
  <2>1. PICK full : Steps(T, seqs, full)
      BY <1>3, FlattenSteps
  <2> QED BY <1>3, <2>1 DEF Steps
<1> HIDE DEF N
<1> DEFINE place == [k \in 1..N + 1 |-> Len(full[k - 1]) + 1]
<1>6. \A k \in 1..N + 1 : k - 1 \in 0..N /\ Len(full[k - 1]) \in Nat /\ place[k] = Len(full[k - 1]) + 1 /\ place[k] \in Nat \ {0}
  <2>1. \A k \in 1..N + 1 : k - 1 \in 0..N
      BY <1>1
  <2>2. \A n \in 0..N : Len(full[n]) \in Nat
      BY <1>5
  <2> QED BY <1>1, <2>1, <2>2
<1>7. place[1] = 1
    BY <1>1, <1>5
<1> HIDE DEF place
<1>8. ASSUME NEW n \in 1..N
      PROVE  /\ place[n + 1] = place[n] + Width(value[n], special) /\ place[n] = Len(full[n - 1]) + 1
             /\ place[n + 1] = Len(full[n]) + 1
             /\ n \in 1..N + 1 /\ n + 1 \in 1..N + 1 /\ place[n] \in Nat \ {0} /\ place[n + 1] \in Nat \ {0}
  <2>1. n \in 1..N + 1 /\ n + 1 \in 1..N + 1 /\ n - 1 \in 0..N /\ n + 1 - 1 = n /\ n \in 0..N
      BY <1>1
  <2>2. place[n] = Len(full[n - 1]) + 1 /\ place[n + 1] = Len(full[n]) + 1
      BY <1>6, <2>1
  <2>3. full[n] = full[n - 1] \o piece(n) /\ full[n - 1] \in Seq(T) /\ piece(n) \in Seq(T)
        /\ Len(piece(n)) = Width(value[n], special)
      BY <1>2, <1>3, <1>5, <2>1
  <2>4. Len(full[n]) = Len(full[n - 1]) + Width(value[n], special) /\ Width(value[n], special) \in Nat
    <3> DEFINE s == full[n - 1]
               t == piece(n)
    <3>1. s \in Seq(T) /\ t \in Seq(T) /\ full[n] = s \o t /\ Len(t) = Width(value[n], special)
        BY <2>3
    <3> HIDE DEF s, t
    <3>2. Len(full[n]) = Len(s) + Width(value[n], special)
        BY <3>1, ConcatIs
    <3> QED BY <3>2 DEF Width, s
  <2>5. place[n + 1] = place[n] + Width(value[n], special)
    <3> DEFINE a == Len(full[n - 1])
               w == Width(value[n], special)
    <3>1. place[n] = a + 1 /\ place[n + 1] = (a + w) + 1
        BY <2>2, <2>4
    <3>2. a \in Nat /\ w \in Nat
        BY <1>6, <2>1, <2>4
    <3> HIDE DEF a, w
    <3>3. place[n + 1] = place[n] + w
        BY <3>1, <3>2
    <3> QED BY <3>3 DEF w
  <2>6. place[n] \in Nat \ {0} /\ place[n + 1] \in Nat \ {0}
      BY <1>6, <2>1
  <2> QED BY <2>1, <2>2, <2>5, <2>6
<1> DEFINE Good == {n \in 0..N : \A k \in 1..n : /\ place[k + 1] <= Len(full[n]) + 1
                                                 /\ QuotesAt(full[n], value[k], special, place[k])}
<1>9. 0 \in Good
    BY <1>1
<1>10. ASSUME NEW n \in 1..N, n - 1 \in Good PROVE n \in Good
  <2> DEFINE m == n - 1
             old == full[m]
             new == full[n]
             ch == value[n]
  <2>1. /\ old \in Seq(T) /\ piece(n) \in Seq(T) /\ new = old \o piece(n)
        /\ Len(piece(n)) = Width(ch, special) /\ QuotesAt(piece(n), ch, special, 1)
    <3>1. m \in 0..N /\ n \in 0..N
        BY <1>1
    <3>2. old \in Seq(T) /\ new = old \o seqs[n] /\ seqs[n] = piece(n)
        BY <1>3, <1>5, <3>1
    <3> QED BY <1>2, <3>2
  <2>2. \A k \in 1..m : place[k + 1] <= Len(old) + 1 /\ QuotesAt(old, value[k], special, place[k])
      BY <1>10
  <2>3. n \in 0..N /\ m \in 0..N /\ n \in Nat /\ n = m + 1
      BY <1>1
  <2>4. place[n] = Len(old) + 1 /\ place[n + 1] = Len(new) + 1
      BY <1>8
  <2> HIDE DEF m, old, new, ch
  <2>5. /\ Len(new) = Len(old) + Width(ch, special) /\ Len(old) \in Nat /\ Len(new) \in Nat
        /\ \A i \in 1..Len(old) : new[i] = old[i]
        /\ \A i \in 1..Len(piece(n)) : new[Len(old) + i] = piece(n)[i]
      BY <2>1
  <2>6. Len(old) <= Len(new)
      BY <2>5 DEF Width
  <2>7. ASSUME NEW k \in 1..m PROVE place[k + 1] <= Len(new) + 1 /\ QuotesAt(new, value[k], special, place[k])
    <3>1. k \in 1..N
        BY <1>1, <2>3
    <3>2. /\ place[k + 1] = place[k] + Width(value[k], special)
          /\ place[k] \in Nat \ {0} /\ place[k + 1] \in Nat /\ place[k + 1] <= Len(old) + 1
        BY <1>8, <2>2, <3>1
    <3>3. place[k + 1] <= Len(new) + 1
        BY <2>5, <2>6, <3>2
    <3>4. CASE value[k] \in special
      <4>1. place[k] \in 1..Len(old) /\ place[k] + 1 \in 1..Len(old)
          BY <2>5, <3>2, <3>4 DEF Width
      <4> QED BY <2>2, <2>5, <3>3, <3>4, <4>1 DEF QuotesAt
    <3>5. CASE value[k] \notin special
      <4>1. place[k] \in 1..Len(old)
          BY <2>5, <3>2, <3>5 DEF Width
      <4> QED BY <2>2, <2>5, <3>3, <3>5, <4>1 DEF QuotesAt
    <3> QED BY <3>4, <3>5
  <2>8. place[n + 1] <= Len(new) + 1 /\ QuotesAt(new, ch, special, place[n])
    <3>1. CASE ch \in special
      <4>1. Len(piece(n)) = 2 /\ 1 \in 1..2 /\ 2 \in 1..2 /\ place[n] + 1 = Len(old) + 2
          BY <2>1, <2>4, <2>5, <3>1 DEF Width
      <4>2. new[place[n]] = piece(n)[1] /\ new[place[n] + 1] = piece(n)[2]
          BY <2>4, <2>5, <4>1
      <4>3. 1 + 1 = 2
          OBVIOUS
      <4> QED BY <2>1, <2>4, <2>5, <3>1, <4>2, <4>3 DEF QuotesAt
    <3>2. CASE ch \notin special
      <4>1. Len(piece(n)) = 1 /\ 1 \in 1..1
          BY <2>1, <3>2 DEF Width
      <4>2. new[place[n]] = piece(n)[1]
          BY <2>4, <2>5, <4>1
      <4> QED BY <2>1, <2>4, <2>5, <3>2, <4>2 DEF QuotesAt
    <3> QED BY <3>1, <3>2
  <2>9. \A k \in 1..n : k \in 1..m \/ k = n
      BY <2>3
  <2>10. \A k \in 1..n : place[k + 1] <= Len(new) + 1 /\ QuotesAt(new, value[k], special, place[k])
      BY <2>7, <2>8, <2>9 DEF ch
  <2> QED BY <2>3, <2>10 DEF new
<1> HIDE DEF Good
<1>11. N \in Good
  <2>1. \A n \in 1..N : n - 1 \in Good => n \in Good
      BY <1>10
  <2>2. 0..N \subseteq Good
      BY <1>1, <1>9, <2>1, UpTo
  <2> QED BY <1>1, <2>2
<1>12. written = full[N] /\ written \in Seq(T) /\ Len(written) \in Nat
    BY <1>1, <1>4, <1>5
<1>13. N + 1 \in 1..N + 1 /\ N + 1 - 1 = N
    BY <1>1
<1>14. place[N + 1] = Len(written) + 1 /\ Len(written) = place[N + 1] - 1
  <2> DEFINE e == N + 1
             d == e - 1
  <2>1. e \in 1..N + 1 /\ d = N
      BY <1>1
  <2> HIDE DEF e
  <2>2. place[e] = Len(full[d]) + 1
      BY <1>6, <2>1
  <2> HIDE DEF d
  <2>3. place[e] = Len(written) + 1
      BY <1>12, <2>1, <2>2
  <2> DEFINE at == place[e]
  <2> HIDE DEF at
  <2>4. at = Len(written) + 1 /\ Len(written) = at - 1
      BY <1>12, <2>3 DEF at
  <2> QED BY <2>4 DEF at, e
<1>15. \A k \in 1..N : place[k + 1] <= place[N + 1] /\ QuotesAt(written, value[k], special, place[k])
    BY <1>11, <1>12, <1>14 DEF Good
<1>16. Places(value, special, place)
    BY <1>6, <1>7, <1>8 DEF Places, N
<1> QED BY <1>12, <1>14, <1>15, <1>16 DEF N, written, T

\* What is left of a list.
LEMMA RestIs ==
    ASSUME NEW S, NEW list \in Seq(S), NEW k \in 1..Len(list), NEW next, next = k + 1
    PROVE  <<list[k]>> \o SubSeq(list, next, Len(list)) = SubSeq(list, k, Len(list))
<1> DEFINE N == Len(list)
           one == <<list[k]>>
           tail == SubSeq(list, next, N)
           both == SubSeq(list, k, N)
<1>1. N \in Nat /\ \A i \in 1..N : list[i] \in S
    OBVIOUS
<1>2. one \in Seq(S) /\ Len(one) = 1 /\ one[1] = list[k]
    BY <1>1
<1>3. tail \in Seq(S) /\ Len(tail) = N - k /\ \A i \in 1..N - k : tail[i] = list[i + k]
    BY <1>1
<1>4. both \in Seq(S) /\ Len(both) = N - k + 1 /\ \A i \in 1..N - k + 1 : both[i] = list[i + k - 1]
    BY <1>1
<1> HIDE DEF one, tail, both
<1>5. /\ one \o tail \in Seq(S) /\ Len(one \o tail) = 1 + (N - k)
      /\ \A i \in 1..Len(one \o tail) : (one \o tail)[i] = IF i <= 1 THEN one[i] ELSE tail[i - 1]
  <2>1. /\ one \o tail \in Seq(S) /\ Len(one \o tail) = Len(one) + Len(tail)
        /\ \A i \in 1..Len(one \o tail) : (one \o tail)[i] = IF i <= Len(one) THEN one[i] ELSE tail[i - Len(one)]
      BY <1>2, <1>3, ConcatIs
  <2> QED BY <1>2, <1>3, <2>1
<1> DEFINE joined == one \o tail
<1> HIDE DEF joined, N
<1>6. joined \in Seq(S) /\ Len(joined) = Len(both)
    BY <1>1, <1>4, <1>5 DEF joined, N
<1>7. ASSUME NEW i \in 1..Len(joined) PROVE joined[i] = both[i]
  <2>1. joined[i] = IF i <= 1 THEN one[i] ELSE tail[i - 1]
      BY <1>5 DEF joined
  <2>2. i \in 1..N - k + 1 /\ both[i] = list[i + k - 1]
      BY <1>4, <1>6
  <2>3. CASE i = 1
      BY <1>2, <2>1, <2>2, <2>3 DEF N
  <2>4. CASE i # 1
    <3> DEFINE j == i - 1
    <3>1. j \in 1..N - k /\ i + k - 1 = j + k /\ ~(i <= 1)
        BY <1>1, <2>2, <2>4 DEF N
    <3>2. tail[j] = list[j + k]
        BY <1>3, <3>1 DEF N
    <3> QED BY <2>1, <2>2, <3>1, <3>2
  <2> QED BY <2>3, <2>4
<1>8. joined = both
    BY <1>4, <1>6, <1>7
<1> QED BY <1>8 DEF joined, one, tail, both, N

\* A literal is read as the value it was made of.
LEMMA LiteralIsRead ==
    ASSUME NEW S, NEW value \in Seq(S)
    PROVE  ReadELiteral(SqlQuoteELiteral(value)) = value
<1> DEFINE special == {"\\", "'"}
           written == Quoted(value, special)
           N == Len(value)
           rest(k) == SubSeq(value, k, N)
<1>1. N \in Nat /\ \A k \in 1..N : value[k] \in S
    OBVIOUS
<1>2. written = SqlQuoteELiteral(value)
    BY DEF SqlQuoteELiteral
<1> HIDE DEF special
<1>3. PICK place : /\ Places(value, special, place)
                   /\ Len(written) = place[N + 1] - 1
                   /\ \A k \in 1..N : /\ place[k + 1] <= place[N + 1]
                                      /\ QuotesAt(written, value[k], special, place[k])
    BY QuotedIs
<1>4. written \in Seq(S \cup {"\\"})
    BY QuotedIs
<1> HIDE DEF written, N
<1>5. /\ place[1] = 1 /\ \A k \in 1..N + 1 : place[k] \in Nat \ {0}
      /\ \A k \in 1..N : place[k + 1] = place[k] + Width(value[k], special)
    BY <1>3 DEF Places, N
<1>6. Len(written) \in Nat
    BY <1>4
<1>7. PICK read : Reads(written, 1, read) /\ ReadELiteral(written) = read[1]
    BY <1>6, ReadELiteralReads
<1>8. \A i \in 1..Len(written) + 2 : read[i] = ReadAt(written, read, i)
    BY <1>7 DEF Reads
<1> DEFINE Good == {n \in 0..N : read[place[N + 1 - n]] = rest(N + 1 - n)}
<1>9. 0 \in Good
  <2>1. N + 1 - 0 = N + 1 /\ 0 \in 0..N /\ N + 1 \in 1..N + 1
      BY <1>1
  <2> DEFINE e == place[N + 1]
  <2>2. e = Len(written) + 1 /\ e \in 1..Len(written) + 2 /\ e > Len(written)
    <3>1. e \in Nat /\ Len(written) = e - 1
        BY <1>3, <1>5, <2>1
    <3> QED BY <1>6, <3>1
  <2> HIDE DEF e
  <2>3. read[e] = <<>>
      BY <1>8, <2>2 DEF ReadAt
  <2>4. rest(N + 1) = <<>>
      BY <1>1 DEF N
  <2> QED BY <2>1, <2>3, <2>4 DEF e
<1>10. ASSUME NEW n \in 1..N, n - 1 \in Good PROVE n \in Good
  <2> DEFINE k == N + 1 - n
             next == k + 1
             at == place[k]
             ch == value[k]
  <2>1. k \in 1..N /\ N + 1 - (n - 1) = next /\ n \in 0..N /\ next \in 1..N + 1 /\ k \in 1..N + 1 /\ next = k + 1
      BY <1>1
  <2>2. read[place[next]] = rest(next)
      BY <1>10, <2>1
  <2> HIDE DEF k
  <2>3. /\ place[next] = at + Width(ch, special) /\ place[next] <= place[N + 1]
        /\ QuotesAt(written, ch, special, at) /\ at \in Nat \ {0}
      BY <1>3, <1>5, <2>1
  <2>4. place[N + 1] = Len(written) + 1
    <3> DEFINE e == place[N + 1]
    <3>1. e \in Nat /\ Len(written) = e - 1
        BY <1>1, <1>3, <1>5
    <3> HIDE DEF e
    <3>2. e = Len(written) + 1
        BY <1>6, <3>1
    <3> QED BY <3>2 DEF e
  <2> HIDE DEF next, at
  <2>5. <<ch>> \o rest(next) = rest(k)
    <3>1. ch = value[k] /\ next = k + 1 /\ k \in 1..N
        BY <2>1 DEF next
    <3> HIDE DEF ch
    <3> QED BY <1>1, <3>1, RestIs DEF N
  <2> HIDE DEF ch, rest
  <2>6. read[at] = <<ch>> \o read[place[next]]
    <3>1. CASE ch \in special
      <4>1. written[at] = "\\" /\ written[at + 1] = ch /\ place[next] = at + 2
          BY <2>3, <3>1 DEF QuotesAt, Width
      <4>2. at \in 1..Len(written) + 2 /\ at < Len(written) /\ ~(at > Len(written))
          BY <1>6, <2>3, <2>4, <4>1
      <4>3. "\\" # "'"
          OBVIOUS
      <4>4. read[at] = ReadAt(written, read, at)
          BY <1>8, <4>2
      <4> QED BY <4>1, <4>2, <4>3, <4>4 DEF ReadAt
    <3>2. CASE ch \notin special
      <4>1. written[at] = ch /\ place[next] = at + 1 /\ ch # "\\" /\ ch # "'"
          BY <2>3, <3>2 DEF QuotesAt, Width, special
      <4>2. at \in 1..Len(written) + 2 /\ ~(at > Len(written))
          BY <1>6, <2>3, <2>4, <4>1
      <4>3. read[at] = ReadAt(written, read, at)
          BY <1>8, <4>2
      <4> QED BY <4>1, <4>2, <4>3 DEF ReadAt
    <3> QED BY <3>1, <3>2
  <2>7. read[at] = rest(k)
      BY <2>2, <2>5, <2>6
  <2> QED BY <2>1, <2>7 DEF k, at
<1> HIDE DEF Good
<1>11. N \in Good
  <2>1. \A n \in 1..N : n - 1 \in Good => n \in Good
      BY <1>10
  <2>2. 0..N \subseteq Good
      BY <1>1, <1>9, <2>1, UpTo
  <2> QED BY <1>1, <2>2
<1>12. N + 1 - N = 1
    BY <1>1
<1>13. read[1] = rest(1)
    BY <1>5, <1>11, <1>12 DEF Good
<1>14. rest(1) = value
    BY DEF N
<1> QED BY <1>2, <1>7, <1>13, <1>14

-----------------------------------------------------------------------------
(* Patterns                                                                  *)

\* The characters that LIKE does not read as themselves; they are in no case.
Special == {"\\"} \cup Wildcards

\* Folding the case leaves these characters alone and makes none of them.
LEMMA FoldSpecial ==
    /\ FoldChar("\\") = "\\" /\ FoldChar("%") = "%"
    /\ \A ch : FoldChar(ch) \in Special <=> ch \in Special
    /\ \A ch \in Special : FoldChar(ch) = ch
    /\ \A ch : FoldChar(FoldChar(ch)) = FoldChar(ch)
<1>1. \A ch \in DOMAIN Fold : ch \notin Special /\ Fold[ch] \notin Special /\ Fold[ch] \notin DOMAIN Fold
    BY FoldAssumption DEF Special, Wildcards
<1>2. "\\" \in Special /\ "%" \in Special
    BY DEF Special, Wildcards
<1> QED BY <1>1, <1>2 DEF FoldChar

\* From its k-th character on, a value is what a name has from its j-th on.
Fits(w, n, k, j) ==
    /\ j + (Len(w) + 1 - k) <= Len(n) + 1
    /\ \A x \in k..Len(w) : w[x] = n[j + x - k]

\* A value fits at a place when its first character does and the rest fits at the next.
LEMMA FitsStep ==
    ASSUME NEW w, Len(w) \in Nat, NEW n, Len(n) \in Nat, NEW k \in 1..Len(w), NEW j \in 1..Len(n) + 1
    PROVE  Fits(w, n, k, j) <=> j \in 1..Len(n) /\ w[k] = n[j] /\ Fits(w, n, k + 1, j + 1)
<1> DEFINE m == Len(w)
           l == Len(n)
<1>1. m \in Nat /\ l \in Nat /\ k \in 1..m /\ j \in 1..l + 1
    OBVIOUS
<1> HIDE DEF m, l
<1>2. ASSUME Fits(w, n, k, j) PROVE j \in 1..l /\ w[k] = n[j] /\ Fits(w, n, k + 1, j + 1)
  <2>1. j + (m + 1 - k) <= l + 1 /\ \A x \in k..m : w[x] = n[j + x - k]
      BY <1>2 DEF Fits, m, l
  <2>2. j \in 1..l /\ k \in k..m /\ j + k - k = j /\ (j + 1) + (m + 1 - (k + 1)) <= l + 1
      BY <1>1, <2>1
  <2>3. w[k] = n[j]
      BY <2>1, <2>2
  <2>4. ASSUME NEW x \in k + 1..m PROVE w[x] = n[(j + 1) + x - (k + 1)]
    <3>1. x \in k..m /\ (j + 1) + x - (k + 1) = j + x - k
        BY <1>1
    <3> QED BY <2>1, <3>1
  <2> QED BY <2>2, <2>3, <2>4 DEF Fits, m, l
<1>3. ASSUME j \in 1..l, w[k] = n[j], Fits(w, n, k + 1, j + 1) PROVE Fits(w, n, k, j)
  <2>1. (j + 1) + (m + 1 - (k + 1)) <= l + 1 /\ \A x \in k + 1..m : w[x] = n[(j + 1) + x - (k + 1)]
      BY <1>3 DEF Fits, m, l
  <2>2. j + (m + 1 - k) <= l + 1
      BY <1>1, <2>1
  <2>3. ASSUME NEW x \in k..m PROVE w[x] = n[j + x - k]
    <3>1. CASE x = k
      <4>1. j + x - k = j
          BY <1>1, <3>1
      <4> QED BY <1>3, <3>1, <4>1
    <3>2. CASE x # k
      <4>1. x \in k + 1..m /\ (j + 1) + x - (k + 1) = j + x - k
          BY <1>1, <3>2
      <4> QED BY <2>1, <4>1
    <3> QED BY <3>1, <3>2
  <2> QED BY <2>2, <2>3 DEF Fits, m, l
<1> QED BY <1>2, <1>3 DEF l

\* A pattern that quotes a value has it at these places.
Encodes(p, w, place) ==
    /\ \A k \in 1..Len(w) + 1 : place[k] \in Nat \ {0} /\ place[k] <= Len(p) + 1
    /\ \A k \in 1..Len(w) : place[k + 1] = place[k] + Width(w[k], Special) /\ QuotesAt(p, w[k], Special, place[k])

\* One character of the value is one of the name.
CharStep(n, match, w, place, k) ==
    \A j : j \in match[place[k]] <=> j \in 1..Len(n) /\ j + 1 \in match[place[k + 1]] /\ w[k] = n[j]

\* Quoted or not, a character of the value matches itself and nothing else.
LEMMA CharMatches ==
    ASSUME NEW n, Len(n) \in Nat, NEW p, Len(p) \in Nat, NEW match, Matches(n, p, 1, match),
           NEW w, Len(w) \in Nat, NEW place, Encodes(p, w, place), NEW k \in 1..Len(w)
    PROVE  CharStep(n, match, w, place, k)
<1> DEFINE at == place[k]
           next == place[k + 1]
           ch == w[k]
           L == Len(p)
<1>1. /\ at \in Nat \ {0} /\ next \in Nat /\ next <= L + 1 /\ next = at + Width(ch, Special)
      /\ QuotesAt(p, ch, Special, at)
  <2>1. k \in 1..Len(w) + 1 /\ k + 1 \in 1..Len(w) + 1
      OBVIOUS
  <2> QED BY <2>1 DEF Encodes
<1>2. \A i \in 1..L + 2 : match[i] = MatchAt(n, p, match, i)
    BY DEF Matches
<1>0. L \in Nat
    OBVIOUS
<1> HIDE DEF at, next, ch, L
<1>3. CASE ch \in Special
  <2>1. p[at] = "\\" /\ p[at + 1] = ch /\ next = at + 2
      BY <1>1, <1>3 DEF QuotesAt, Width
  <2>2. at \in 1..L + 2 /\ ~(at > L) /\ at < L
      BY <1>0, <1>1, <2>1
  <2>3. "\\" # "%"
      OBVIOUS
  <2>4. match[at] = MatchAt(n, p, match, at)
      BY <1>2, <2>2
  <2>5. match[at] = {j \in 1..Len(n) : j + 1 \in match[next] /\ ch = n[j]}
      BY <2>1, <2>2, <2>3, <2>4 DEF MatchAt, L
  <2> QED BY <2>5 DEF at, next, ch, CharStep
<1>4. CASE ch \notin Special
  <2>1. p[at] = ch /\ next = at + 1 /\ ch # "\\" /\ ch # "%" /\ ch # "_"
      BY <1>1, <1>4 DEF QuotesAt, Width, Special, Wildcards
  <2>2. at \in 1..L + 2 /\ ~(at > L)
    <3>1. next = at + 1
        BY <2>1
    <3> QED BY <1>0, <1>1, <3>1
  <2>3. match[at] = MatchAt(n, p, match, at)
      BY <1>2, <2>2
  <2>4. match[at] = {j \in 1..Len(n) : j + 1 \in match[next] /\ ch \in {"_", n[j]}}
      BY <2>1, <2>2, <2>3 DEF MatchAt, L
  <2>5. match[at] = {j \in 1..Len(n) : j + 1 \in match[next] /\ ch = n[j]}
      BY <2>1, <2>4
  <2> QED BY <2>5 DEF at, next, ch, CharStep
<1> QED BY <1>3, <1>4

\* So is the whole of it.
WholeMatches(n, match, w, place) ==
    \A j \in 1..Len(n) + 1 :
        j \in match[place[1]] <=> Fits(w, n, 1, j) /\ j + Len(w) \in match[place[Len(w) + 1]]

\* By the characters from the last one back.
LEMMA QuotedMatches ==
    ASSUME NEW n, Len(n) \in Nat, NEW p, Len(p) \in Nat, NEW match, Matches(n, p, 1, match),
           NEW w, Len(w) \in Nat, NEW place, Encodes(p, w, place)
    PROVE  WholeMatches(n, match, w, place)
<1> DEFINE m == Len(w)
           end == place[m + 1]
           Good == {r \in 0..m : \A j \in 1..Len(n) + 1 :
                       j \in match[place[m + 1 - r]] <=> Fits(w, n, m + 1 - r, j) /\ j + r \in match[end]}
<1>1. m \in Nat
    OBVIOUS
<1>2. 0 \in Good
  <2>1. m + 1 - 0 = m + 1 /\ 0 \in 0..m
      BY <1>1
  <2>2. ASSUME NEW j \in 1..Len(n) + 1 PROVE Fits(w, n, m + 1, j) /\ j + 0 = j
    <3>1. j + (m + 1 - (m + 1)) <= Len(n) + 1 /\ (m + 1)..m = {} /\ j + 0 = j
        BY <1>1
    <3> QED BY <3>1 DEF Fits
  <2> QED BY <2>1, <2>2
<1>3. ASSUME NEW r \in 1..m, r - 1 \in Good PROVE r \in Good
  <2> DEFINE k == m + 1 - r
             next == k + 1
             s == r - 1
  <2>1. k \in 1..m /\ m + 1 - s = next /\ r \in 0..m /\ next = k + 1 /\ s + 1 = r
      BY <1>1
  <2>2. \A j \in 1..Len(n) + 1 : j \in match[place[next]] <=> Fits(w, n, next, j) /\ j + s \in match[end]
      BY <1>3, <2>1
  <2> HIDE DEF k, s
  <2>3. ASSUME NEW j \in 1..Len(n) + 1
        PROVE  j \in match[place[k]] <=> Fits(w, n, k, j) /\ j + r \in match[end]
    <3> DEFINE then == j + 1
    <3>1. \A i : i \in match[place[k]] <=> i \in 1..Len(n) /\ i + 1 \in match[place[next]] /\ w[k] = n[i]
      <4>1. k \in 1..Len(w)
          BY <2>1
      <4>2. CharStep(n, match, w, place, k)
          BY <4>1, CharMatches
      <4> QED BY <4>2 DEF CharStep
    <3>2. Fits(w, n, k, j) <=> j \in 1..Len(n) /\ w[k] = n[j] /\ Fits(w, n, next, then)
        BY <2>1, FitsStep
    <3>3. j \in 1..Len(n) => then \in 1..Len(n) + 1
        OBVIOUS
    <3>4. then + s = j + r
        BY <2>1 DEF s
    <3> HIDE DEF next
    <3>5. j \in match[place[k]] <=> j \in 1..Len(n) /\ then \in match[place[next]] /\ w[k] = n[j]
        BY <3>1
    <3> HIDE DEF then
    <3>6. j \in 1..Len(n) => (then \in match[place[next]] <=> Fits(w, n, next, then) /\ then + s \in match[end])
        BY <2>2, <3>3
    <3> QED BY <3>2, <3>4, <3>5, <3>6
  <2> QED BY <2>1, <2>3 DEF k
<1> HIDE DEF Good
<1>4. m \in Good
  <2>1. \A r \in 1..m : r - 1 \in Good => r \in Good
      BY <1>3
  <2> HIDE DEF m
  <2>2. 0..m \subseteq Good
      BY <1>1, <1>2, <2>1, UpTo
  <2> QED BY <1>1, <2>2
<1>5. m + 1 - m = 1
    BY <1>1
<1> QED BY <1>4, <1>5 DEF Good, WholeMatches

\* A pattern that has a text, and a wildcard before or after it, or both.
Surrounds(pattern, written, h, t) ==
    /\ Len(pattern) = Len(written) + h + t
    /\ \A i \in 1..Len(written) : pattern[i + h] = written[i]
    /\ h = 1 => pattern[1] = "%"
    /\ t = 1 => pattern[Len(pattern)] = "%"

\* The lower-case form of a list.
LEMMA FoldedIs ==
    ASSUME NEW S, NEW s \in Seq(S)
    PROVE  /\ Len(Folded(s)) = Len(s) /\ Len(s) \in Nat /\ Folded(s) \in Seq({FoldChar(ch) : ch \in S})
           /\ \A i \in 1..Len(s) : Folded(s)[i] = FoldChar(s[i])
<1>1. Len(s) \in Nat /\ DOMAIN s = 1..Len(s) /\ \A i \in 1..Len(s) : s[i] \in S
    OBVIOUS
<1> DEFINE folded == [i \in 1..Len(s) |-> FoldChar(s[i])]
           all == {FoldChar(ch) : ch \in S}
<1>2. folded \in [1..Len(s) -> all] /\ DOMAIN folded = 1..Len(s) /\ \A i \in 1..Len(s) : folded[i] = FoldChar(s[i])
    BY <1>1
<1>3. Folded(s) = folded
    BY <1>1 DEF Folded
<1> HIDE DEF folded, all
<1>4. folded \in Seq(all) /\ Len(folded) = Len(s)
    BY <1>1, <1>2
<1> QED BY <1>1, <1>2, <1>3, <1>4 DEF all

\* Such a pattern has the value, in lower case as the name is.
LEMMA SurroundedEncodes ==
    ASSUME NEW S, NEW value \in Seq(S), NEW T, NEW pattern \in Seq(T), NEW h \in {0, 1}, NEW t \in {0, 1},
           Surrounds(pattern, EscapeLikePattern(value), h, t)
    PROVE  \E place : /\ Encodes(Folded(pattern), Folded(value), place)
                      /\ place[1] = h + 1 /\ place[Len(value) + 1] = Len(pattern) + 1 - t
<1> DEFINE m == Len(value)
           written == Quoted(value, Special)
           p == Folded(pattern)
           w == Folded(value)
           L == Len(written)
<1>1. /\ m \in Nat /\ Len(w) = m /\ \A k \in 1..m : w[k] = FoldChar(value[k])
      /\ Len(p) = Len(pattern) /\ Len(p) \in Nat /\ \A i \in 1..Len(p) : p[i] = FoldChar(pattern[i])
    BY FoldedIs
<1>2. /\ Len(pattern) = L + h + t /\ \A i \in 1..L : pattern[i + h] = written[i]
    BY DEF Surrounds, EscapeLikePattern, Special
<1>3. PICK place : /\ Places(value, Special, place) /\ L = place[m + 1] - 1
                   /\ \A k \in 1..m : /\ place[k + 1] <= place[m + 1]
                                      /\ QuotesAt(written, value[k], Special, place[k])
    BY QuotedIs
<1>4. L \in Nat
  <2>1. written \in Seq(S \cup {"\\"})
      BY QuotedIs
  <2> HIDE DEF written
  <2> QED BY <2>1
<1>5. /\ place[1] = 1 /\ \A k \in 1..m + 1 : place[k] \in Nat \ {0}
      /\ \A k \in 1..m : place[k + 1] = place[k] + Width(value[k], Special)
    BY <1>3 DEF Places
<1> HIDE DEF m, written, p, w, L
<1>6. \A k \in 1..m + 1 : place[k] <= L + 1
  <2> TAKE k \in 1..m + 1
  <2> DEFINE e == place[m + 1]
  <2>1. e \in Nat \ {0} /\ L = e - 1
    <3>1. m + 1 \in 1..m + 1
        BY <1>1
    <3> QED BY <1>3, <1>5, <3>1
  <2>2. place[k] <= e
    <3>1. CASE k = 1
      <4> HIDE DEF e
      <4> QED BY <1>5, <2>1, <3>1
    <3>2. CASE k # 1
      <4> DEFINE d == k - 1
      <4>1. d \in 1..m /\ d + 1 = k
          BY <1>1, <3>2
      <4> HIDE DEF d, e
      <4>2. place[d + 1] <= place[m + 1]
          BY <1>3, <4>1
      <4> QED BY <4>1, <4>2 DEF e
    <3> QED BY <3>1, <3>2
  <2>3. place[k] \in Nat
      BY <1>5
  <2> HIDE DEF e
  <2> QED BY <2>1, <2>2, <2>3
<1> DEFINE moved == [k \in 1..m + 1 |-> place[k] + h]
<1>7. \A k \in 1..m + 1 : moved[k] = place[k] + h
    OBVIOUS
<1> HIDE DEF moved
<1>8. \A k \in 1..m + 1 : moved[k] \in Nat \ {0} /\ moved[k] <= Len(p) + 1
  <2> TAKE k \in 1..m + 1
  <2> DEFINE at == place[k]
  <2>1. at \in Nat \ {0} /\ at <= L + 1 /\ moved[k] = at + h
      BY <1>5, <1>6, <1>7
  <2>2. Len(p) = L + h + t
      BY <1>1, <1>2
  <2> HIDE DEF at
  <2> QED BY <1>4, <2>1, <2>2
<1>9. ASSUME NEW k \in 1..m
      PROVE  moved[k + 1] = moved[k] + Width(w[k], Special) /\ QuotesAt(p, w[k], Special, moved[k])
  <2> DEFINE at == place[k]
             next == place[k + 1]
             ch == value[k]
  <2>1. k \in 1..m + 1 /\ k + 1 \in 1..m + 1
      BY <1>1
  <2>2. moved[k] = at + h /\ moved[k + 1] = next + h
      BY <1>7, <2>1
  <2>3. next = at + Width(ch, Special) /\ at \in Nat \ {0} /\ next <= L + 1 /\ QuotesAt(written, ch, Special, at)
      BY <1>3, <1>5, <1>6, <2>1
  <2>4. w[k] = FoldChar(ch)
      BY <1>1
  <2> HIDE DEF at, next, ch
  <2>5. Width(w[k], Special) = Width(ch, Special)
      BY <2>4, FoldSpecial DEF Width
  <2>6. moved[k + 1] = moved[k] + Width(w[k], Special)
      BY <2>2, <2>3, <2>5 DEF Width
  <2>7. ASSUME NEW i \in 1..L PROVE p[i + h] = FoldChar(written[i])
    <3>1. i + h \in 1..Len(p)
        BY <1>1, <1>2, <1>4
    <3> QED BY <1>1, <1>2, <3>1
  <2>8. QuotesAt(p, w[k], Special, at + h)
    <3>1. CASE ch \in Special
      <4>1. at \in 1..L /\ at + 1 \in 1..L /\ (at + 1) + h = (at + h) + 1
          BY <1>4, <2>3, <3>1 DEF Width
      <4>2. written[at] = "\\" /\ written[at + 1] = ch
          BY <2>3, <3>1 DEF QuotesAt
      <4>3. p[at + h] = FoldChar("\\") /\ p[(at + h) + 1] = FoldChar(ch)
          BY <2>7, <4>1, <4>2
      <4> QED BY <2>4, <3>1, <4>3, FoldSpecial DEF QuotesAt
    <3>2. CASE ch \notin Special
      <4>1. at \in 1..L
          BY <1>4, <2>3, <3>2 DEF Width
      <4>2. written[at] = ch
          BY <2>3, <3>2 DEF QuotesAt
      <4>3. p[at + h] = FoldChar(ch)
          BY <2>7, <4>1, <4>2
      <4> QED BY <2>4, <3>2, <4>3, FoldSpecial DEF QuotesAt
    <3> QED BY <3>1, <3>2
  <2> QED BY <2>2, <2>6, <2>8
<1>10. Encodes(p, w, moved)
    BY <1>1, <1>8, <1>9 DEF Encodes
<1>11. moved[1] = h + 1
    BY <1>1, <1>5, <1>7
<1>12. moved[m + 1] = Len(pattern) + 1 - t
  <2> DEFINE e == place[m + 1]
  <2>1. e \in Nat \ {0} /\ L = e - 1 /\ moved[m + 1] = e + h
    <3>1. m + 1 \in 1..m + 1
        BY <1>1
    <3> QED BY <1>3, <1>5, <1>7, <3>1
  <2> HIDE DEF e
  <2> QED BY <1>2, <1>4, <2>1
<1> QED BY <1>10, <1>11, <1>12 DEF p, w, m

\* How a name matches such a pattern.
Matched(name, value, pattern, h, t, match) ==
    /\ Matches(Folded(name), Folded(pattern), 1, match)
    /\ ILikeLiteral(name, pattern) <=> 1 \in match[1]
    /\ \A j \in 1..Len(name) + 1 :
           j \in match[h + 1] <=> /\ Fits(Folded(value), Folded(name), 1, j)
                                  /\ j + Len(value) \in match[Len(pattern) + 1 - t]

\* This holds with the case folded, and with the wildcards before and after.
LEMMA SurroundedMatches ==
    ASSUME NEW R, NEW name \in Seq(R), NEW S, NEW value \in Seq(S), NEW T, NEW pattern \in Seq(T),
           NEW h \in {0, 1}, NEW t \in {0, 1}, Surrounds(pattern, EscapeLikePattern(value), h, t)
    PROVE  \E match : Matched(name, value, pattern, h, t, match)
<1> DEFINE n == Folded(name)
           p == Folded(pattern)
           w == Folded(value)
<1>1. Len(n) = Len(name) /\ Len(n) \in Nat /\ Len(p) \in Nat /\ Len(w) = Len(value) /\ Len(w) \in Nat
    BY FoldedIs
<1>2. PICK place : /\ Encodes(p, w, place)
                   /\ place[1] = h + 1 /\ place[Len(value) + 1] = Len(pattern) + 1 - t
    BY SurroundedEncodes
<1>3. PICK match : Matches(n, p, 1, match) /\ (ILike(name, pattern) <=> 1 \in match[1])
    BY <1>1, ILikeMatches
<1> HIDE DEF n, p, w
<1>4. WholeMatches(n, match, w, place)
    BY <1>1, <1>2, <1>3, QuotedMatches
<1>5. \A j \in 1..Len(n) + 1 : j \in match[h + 1] <=> Fits(w, n, 1, j) /\ j + Len(w) \in match[Len(pattern) + 1 - t]
    BY <1>1, <1>2, <1>4 DEF WholeMatches
<1>6. ILikeLiteral(name, pattern) = ILike(name, pattern)
    BY LiteralIsRead DEF ILikeLiteral
<1> QED BY <1>1, <1>3, <1>5, <1>6 DEF Matched, n, p, w

\* At the end of a pattern only the end of a name is left; a wildcard takes what there is.
LEMMA MatchEnds ==
    ASSUME NEW n, Len(n) \in Nat, NEW p, Len(p) \in Nat, NEW match, Matches(n, p, 1, match)
    PROVE  /\ match[Len(p) + 1] = {Len(n) + 1}
           /\ \A i \in 1..Len(p) : match[i] \subseteq 1..Len(n) + 1
           /\ Len(p) # 0 /\ p[Len(p)] = "%" => match[Len(p)] = 1..Len(n) + 1
           /\ Len(p) # 0 /\ p[1] = "%" => match[1] = {j \in 1..Len(n) + 1 : \E k \in match[2] : j <= k}
<1> DEFINE L == Len(p)
           l == Len(n)
<1>1. L \in Nat /\ l \in Nat
    OBVIOUS
<1>2. \A i \in 1..L + 2 : match[i] = MatchAt(n, p, match, i)
    BY DEF Matches
<1> HIDE DEF L, l
<1>3. match[L + 1] = {l + 1}
  <2> DEFINE e == L + 1
  <2>1. e \in 1..L + 2 /\ e > L
      BY <1>1
  <2> HIDE DEF e
  <2>2. match[e] = {l + 1}
      BY <1>2, <2>1 DEF MatchAt, L, l
  <2> QED BY <2>2 DEF e
<1>4. ASSUME L # 0, p[L] = "%" PROVE match[L] = 1..l + 1
  <2>1. L \in 1..L + 2 /\ ~(L > L) /\ ~(L < L)
      BY <1>1, <1>4
  <2>2. match[L] = MatchAt(n, p, match, L)
      BY <1>2, <2>1
  <2>3. match[L] = {j \in 1..l + 1 : \E k \in match[L + 1] : j <= k}
      BY <1>4, <2>1, <2>2 DEF MatchAt, L, l
  <2>4. match[L] = {j \in 1..l + 1 : j <= l + 1}
      BY <1>3, <2>3
  <2> QED BY <1>1, <2>4
<1>5. ASSUME L # 0, p[1] = "%" PROVE match[1] = {j \in 1..l + 1 : \E k \in match[2] : j <= k}
  <2>1. 1 \in 1..L + 2 /\ ~(1 > L) /\ 1 + 1 = 2
      BY <1>1, <1>5
  <2>2. match[1] = MatchAt(n, p, match, 1)
      BY <1>2, <2>1
  <2> QED BY <1>5, <2>1, <2>2 DEF MatchAt, L, l
<1>6. ASSUME NEW i \in 1..L PROVE match[i] \subseteq 1..l + 1
  <2>1. i \in 1..L + 2 /\ ~(i > L) /\ 1..l \subseteq 1..l + 1
      BY <1>1
  <2>2. match[i] = MatchAt(n, p, match, i)
      BY <1>2, <2>1
  <2> QED BY <2>1, <2>2 DEF MatchAt, L, l
<1> QED BY <1>3, <1>4, <1>5, <1>6 DEF L, l

\* What a list begins with, by its elements.
LEMMA PrefixElements ==
    ASSUME NEW S, NEW s \in Seq(S), NEW T, NEW t \in Seq(T)
    PROVE  IsPrefix(s, t) <=> Len(s) <= Len(t) /\ \A i \in 1..Len(s) : s[i] = t[i]
<1> DEFINE m == Len(s)
<1>1. m \in Nat /\ Len(t) \in Nat
    OBVIOUS
<1>2. SUFFICES ASSUME m <= Len(t)
               PROVE  SubSeq(s, 1, m) = SubSeq(t, 1, m) <=> \A i \in 1..m : s[i] = t[i]
    BY DEF IsPrefix
<1>3. SubSeq(s, 1, m) = [i \in 1..m |-> s[i]]
    BY <1>1
<1>4. SubSeq(t, 1, m) = [i \in 1..m |-> t[i]]
    BY <1>1, <1>2
<1> HIDE DEF m
<1>5. ASSUME [i \in 1..m |-> s[i]] = [i \in 1..m |-> t[i]], NEW i \in 1..m PROVE s[i] = t[i]
  <2>1. [k \in 1..m |-> s[k]][i] = [k \in 1..m |-> t[k]][i]
      BY <1>5
  <2> QED BY <2>1
<1>6. ASSUME \A i \in 1..m : s[i] = t[i] PROVE [i \in 1..m |-> s[i]] = [i \in 1..m |-> t[i]]
    BY <1>6
<1> QED BY <1>3, <1>4, <1>5, <1>6

\* Fits says what a name has from a place on.
LEMMA FitsIsPrefix ==
    ASSUME NEW S, NEW w \in Seq(S), NEW T, NEW n \in Seq(T), NEW j \in 1..Len(n) + 1, NEW i, j = i + 1, i \in 0..Len(n)
    PROVE  Fits(w, n, 1, j) <=> IsPrefix(w, SubSeq(n, i + 1, Len(n)))
<1> DEFINE m == Len(w)
           l == Len(n)
           rest == SubSeq(n, i + 1, l)
<1>1. m \in Nat /\ l \in Nat /\ i \in 0..l
    OBVIOUS
<1>2. rest \in Seq(T) /\ Len(rest) = l - i /\ \A x \in 1..l - i : rest[x] = n[x + i]
    BY <1>1
<1>3. IsPrefix(w, rest) <=> m <= l - i /\ \A x \in 1..m : w[x] = rest[x]
  <2> HIDE DEF rest, l
  <2>1. IsPrefix(w, rest) <=> Len(w) <= Len(rest) /\ \A x \in 1..Len(w) : w[x] = rest[x]
      BY <1>2, PrefixElements
  <2> QED BY <1>2, <2>1
<1> HIDE DEF rest
<1>4. Fits(w, n, 1, j) <=> j + (m + 1 - 1) <= l + 1 /\ \A x \in 1..m : w[x] = n[j + x - 1]
    BY DEF Fits
<1> HIDE DEF m, l
<1>5. j + (m + 1 - 1) <= l + 1 <=> m <= l - i
    BY <1>1
<1>6. ASSUME m <= l - i, NEW x \in 1..m PROVE rest[x] = n[j + x - 1]
  <2>1. x \in 1..l - i /\ j + x - 1 = x + i
      BY <1>1, <1>6
  <2> QED BY <1>2, <2>1
<1> QED BY <1>3, <1>4, <1>5, <1>6 DEF rest, l

\* The escaped value alone matches the names that equal it, case aside.
LEMMA LikeExact ==
    ASSUME NEW R, NEW name \in Seq(R), NEW S, NEW value \in Seq(S)
    PROVE  ILikeLiteral(name, EscapeLikePattern(value)) <=> Folded(name) = Folded(value)
<1> DEFINE pattern == EscapeLikePattern(value)
           n == Folded(name)
           w == Folded(value)
           m == Len(value)
           l == Len(name)
<1>1. pattern \in Seq(S \cup {"\\"})
    BY QuotedIs DEF EscapeLikePattern
<1> HIDE DEF pattern
<1>2. Surrounds(pattern, EscapeLikePattern(value), 0, 0)
  <2>1. Len(pattern) = Len(pattern) + 0 + 0 /\ \A i \in 1..Len(pattern) : i + 0 = i
      BY <1>1
  <2> QED BY <2>1 DEF Surrounds, pattern
<1>3. PICK match : Matched(name, value, pattern, 0, 0, match)
    BY <1>1, <1>2, SurroundedMatches
<1>4. /\ Len(n) = l /\ l \in Nat /\ n \in Seq({FoldChar(ch) : ch \in R}) /\ Len(w) = m /\ m \in Nat
      /\ w \in Seq({FoldChar(ch) : ch \in S}) /\ Len(Folded(pattern)) = Len(pattern) /\ Len(pattern) \in Nat
    BY <1>1, FoldedIs
<1>5. match[Len(pattern) + 1] = {l + 1}
  <2> DEFINE p == Folded(pattern)
  <2>1. Len(n) \in Nat /\ Len(p) \in Nat /\ Matches(n, p, 1, match)
      BY <1>3, <1>4 DEF Matched
  <2> HIDE DEF n, p
  <2>2. match[Len(p) + 1] = {Len(n) + 1}
      BY <2>1, MatchEnds
  <2> QED BY <1>4, <2>2 DEF n, p
<1> HIDE DEF n, w, m, l
<1>6. ILikeLiteral(name, pattern) <=> Fits(w, n, 1, 1) /\ 1 + m = l + 1
  <2>1. 0 + 1 = 1 /\ Len(pattern) + 1 - 0 = Len(pattern) + 1 /\ 1 \in 1..l + 1
      BY <1>4
  <2> QED BY <1>3, <1>5, <2>1 DEF Matched, n, w, m, l
<1>7. Fits(w, n, 1, 1) <=> 1 + (m + 1 - 1) <= l + 1 /\ \A x \in 1..m : w[x] = n[1 + x - 1]
    BY <1>4 DEF Fits
<1>8. ILikeLiteral(name, pattern) <=> m = l /\ \A x \in 1..m : w[x] = n[x]
  <2>1. 1 + m = l + 1 <=> m = l
      BY <1>4
  <2>2. m = l => 1 + (m + 1 - 1) <= l + 1
      BY <1>4
  <2>3. \A x \in 1..m : 1 + x - 1 = x
      BY <1>4
  <2> QED BY <1>6, <1>7, <2>1, <2>2, <2>3
<1>9. (m = l /\ \A x \in 1..m : w[x] = n[x]) <=> n = w
  <2>1. n = [x \in 1..l |-> n[x]] /\ w = [x \in 1..m |-> w[x]]
    <3>1. DOMAIN n = 1..l /\ DOMAIN w = 1..m
        BY <1>4
    <3>2. n \in [1..l -> {FoldChar(ch) : ch \in R}] /\ w \in [1..m -> {FoldChar(ch) : ch \in S}]
        BY <1>4, <3>1
    <3> QED BY <3>2
  <2>2. ASSUME m = l, \A x \in 1..m : w[x] = n[x] PROVE n = w
      BY <2>1, <2>2
  <2>3. n = w => m = l /\ \A x \in 1..m : w[x] = n[x]
      BY <1>4
  <2> QED BY <2>2, <2>3
<1> QED BY <1>8, <1>9 DEF pattern, n, w

\* Followed by a wildcard, those that begin with it.
LEMMA LikePrefix ==
    ASSUME NEW R, NEW name \in Seq(R), NEW S, NEW value \in Seq(S)
    PROVE  ILikeLiteral(name, PrefixPattern(value)) <=> IsPrefix(Folded(value), Folded(name))
<1> DEFINE written == EscapeLikePattern(value)
           pattern == PrefixPattern(value)
           T == S \cup {"\\", "%"}
           n == Folded(name)
           w == Folded(value)
           m == Len(value)
           l == Len(name)
<1>1. written \in Seq(T) /\ <<"%">> \in Seq(T)
  <2>1. written \in Seq(S \cup {"\\"})
      BY QuotedIs DEF EscapeLikePattern
  <2>2. S \cup {"\\"} \subseteq T
      OBVIOUS
  <2> HIDE DEF written
  <2> QED BY <2>1, <2>2, SeqMonotonic
<1>2. pattern = written \o <<"%">>
    BY DEF PrefixPattern
<1> HIDE DEF written, pattern, T
<1>3. /\ pattern \in Seq(T) /\ Len(pattern) = Len(written) + 1 /\ Len(written) \in Nat
      /\ \A i \in 1..Len(pattern) : pattern[i] = IF i <= Len(written) THEN written[i] ELSE <<"%">>[i - Len(written)]
  <2>1. /\ pattern \in Seq(T) /\ Len(pattern) = Len(written) + Len(<<"%">>)
        /\ \A i \in 1..Len(pattern) : pattern[i] = IF i <= Len(written) THEN written[i] ELSE <<"%">>[i - Len(written)]
      BY <1>1, <1>2, ConcatIs
  <2> QED BY <1>1, <2>1
<1>4. pattern[Len(pattern)] = "%"
  <2> DEFINE e == Len(pattern)
  <2>1. e \in 1..Len(pattern) /\ ~(e <= Len(written)) /\ e - Len(written) = 1
      BY <1>3
  <2> HIDE DEF e
  <2> QED BY <1>3, <2>1 DEF e
<1>5. Surrounds(pattern, written, 0, 1)
  <2>1. ASSUME NEW i \in 1..Len(written) PROVE pattern[i + 0] = written[i]
    <3>1. i + 0 = i /\ i \in 1..Len(pattern) /\ i <= Len(written)
        BY <1>3
    <3> QED BY <1>3, <3>1
  <2>2. Len(pattern) = Len(written) + 0 + 1
      BY <1>3
  <2> QED BY <1>4, <2>1, <2>2 DEF Surrounds
<1>6. PICK match : Matched(name, value, pattern, 0, 1, match)
    BY <1>3, <1>5, SurroundedMatches DEF written
<1>7. /\ Len(n) = l /\ l \in Nat /\ n \in Seq({FoldChar(ch) : ch \in R}) /\ Len(w) = m /\ m \in Nat
      /\ w \in Seq({FoldChar(ch) : ch \in S}) /\ Len(Folded(pattern)) = Len(pattern) /\ Len(pattern) \in Nat
      /\ \A i \in 1..Len(pattern) : Folded(pattern)[i] = FoldChar(pattern[i])
    BY <1>3, FoldedIs
<1>8. Len(pattern) \in 1..Len(pattern) /\ Len(pattern) # 0
    BY <1>3
<1>9. match[Len(pattern)] = 1..l + 1
  <2>1. Folded(pattern)[Len(pattern)] = "%"
      BY <1>4, <1>7, <1>8, FoldSpecial
  <2> QED BY <1>6, <1>7, <1>8, <2>1, MatchEnds DEF Matched
<1> HIDE DEF n, w, m, l
<1>10. ILikeLiteral(name, pattern) <=> Fits(w, n, 1, 1) /\ 1 + m \in 1..l + 1
  <2>1. 0 + 1 = 1 /\ Len(pattern) + 1 - 1 = Len(pattern) /\ 1 \in 1..l + 1
      BY <1>7
  <2> QED BY <1>6, <1>9, <2>1 DEF Matched, n, w, m, l
<1>11. Fits(w, n, 1, 1) => 1 + m \in 1..l + 1
  <2>1. Fits(w, n, 1, 1) => 1 + (m + 1 - 1) <= l + 1
      BY <1>7 DEF Fits
  <2> QED BY <1>7, <2>1
<1>12. Fits(w, n, 1, 1) <=> IsPrefix(w, SubSeq(n, 0 + 1, Len(n)))
  <2> DEFINE j == 1
             i == 0
  <2>1. j \in 1..Len(n) + 1 /\ j = i + 1 /\ i \in 0..Len(n)
      BY <1>7
  <2> HIDE DEF j, i
  <2>2. Fits(w, n, 1, j) <=> IsPrefix(w, SubSeq(n, i + 1, Len(n)))
      BY <1>7, <2>1, FitsIsPrefix
  <2> QED BY <2>2 DEF j, i
<1>13. SubSeq(n, 0 + 1, Len(n)) = n
    BY <1>7
<1> QED BY <1>10, <1>11, <1>12, <1>13 DEF pattern, n, w

\* Between two wildcards, those that include it.
LEMMA LikeContains ==
    ASSUME NEW R, NEW name \in Seq(R), NEW S, NEW value \in Seq(S)
    PROVE  ILikeLiteral(name, ContainsPattern(value)) <=> Includes(name, value)
<1> DEFINE written == EscapeLikePattern(value)
           pattern == ContainsPattern(value)
           start == <<"%">> \o written
           T == S \cup {"\\", "%"}
           n == Folded(name)
           w == Folded(value)
           m == Len(value)
           l == Len(name)
<1>1. written \in Seq(T) /\ <<"%">> \in Seq(T)
  <2>1. written \in Seq(S \cup {"\\"})
      BY QuotedIs DEF EscapeLikePattern
  <2>2. S \cup {"\\"} \subseteq T
      OBVIOUS
  <2> HIDE DEF written
  <2> QED BY <2>1, <2>2, SeqMonotonic
<1>2. pattern = start \o <<"%">>
    BY DEF ContainsPattern
<1> HIDE DEF written, pattern, T
<1>3. /\ start \in Seq(T) /\ Len(start) = Len(written) + 1 /\ Len(written) \in Nat
      /\ start[1] = "%" /\ \A i \in 1..Len(written) : start[i + 1] = written[i]
  <2>1. /\ start \in Seq(T) /\ Len(start) = Len(<<"%">>) + Len(written)
        /\ \A i \in 1..Len(start) : start[i] = IF i <= Len(<<"%">>) THEN <<"%">>[i] ELSE written[i - Len(<<"%">>)]
      BY <1>1, ConcatIs
  <2>2. Len(<<"%">>) = 1 /\ <<"%">>[1] = "%" /\ Len(written) \in Nat
      BY <1>1
  <2> HIDE DEF start
  <2>3. start[1] = "%"
    <3>1. 1 \in 1..Len(start) /\ 1 <= Len(<<"%">>)
        BY <2>1, <2>2
    <3> QED BY <2>1, <2>2, <3>1
  <2>4. ASSUME NEW i \in 1..Len(written) PROVE start[i + 1] = written[i]
    <3>1. i + 1 \in 1..Len(start) /\ ~(i + 1 <= Len(<<"%">>)) /\ i + 1 - Len(<<"%">>) = i
        BY <2>1, <2>2
    <3> QED BY <2>1, <3>1
  <2> QED BY <2>1, <2>2, <2>3, <2>4
<1> HIDE DEF start
<1>4. /\ pattern \in Seq(T) /\ Len(pattern) = Len(start) + 1
      /\ \A i \in 1..Len(pattern) : pattern[i] = IF i <= Len(start) THEN start[i] ELSE <<"%">>[i - Len(start)]
  <2>1. /\ pattern \in Seq(T) /\ Len(pattern) = Len(start) + Len(<<"%">>)
        /\ \A i \in 1..Len(pattern) : pattern[i] = IF i <= Len(start) THEN start[i] ELSE <<"%">>[i - Len(start)]
      BY <1>1, <1>2, <1>3, ConcatIs
  <2> QED BY <2>1
<1>5. pattern[Len(pattern)] = "%" /\ pattern[1] = "%"
  <2> DEFINE e == Len(pattern)
  <2>1. /\ e \in 1..Len(pattern) /\ ~(e <= Len(start)) /\ e - Len(start) = 1
        /\ 1 \in 1..Len(pattern) /\ 1 <= Len(start)
      BY <1>3, <1>4
  <2> HIDE DEF e
  <2> QED BY <1>3, <1>4, <2>1 DEF e
<1>6. Surrounds(pattern, written, 1, 1)
  <2>1. ASSUME NEW i \in 1..Len(written) PROVE pattern[i + 1] = written[i]
    <3>1. i + 1 \in 1..Len(pattern) /\ i + 1 <= Len(start)
        BY <1>3, <1>4
    <3> QED BY <1>3, <1>4, <3>1
  <2>2. Len(pattern) = Len(written) + 1 + 1
      BY <1>3, <1>4
  <2> QED BY <1>5, <2>1, <2>2 DEF Surrounds
<1>7. PICK match : Matched(name, value, pattern, 1, 1, match)
    BY <1>4, <1>6, SurroundedMatches DEF written
<1>8. /\ Len(n) = l /\ l \in Nat /\ n \in Seq({FoldChar(ch) : ch \in R}) /\ Len(w) = m /\ m \in Nat
      /\ w \in Seq({FoldChar(ch) : ch \in S}) /\ Len(Folded(pattern)) = Len(pattern) /\ Len(pattern) \in Nat
      /\ \A i \in 1..Len(pattern) : Folded(pattern)[i] = FoldChar(pattern[i])
    BY <1>4, FoldedIs
<1>9. /\ Len(pattern) \in 1..Len(pattern) /\ 1 \in 1..Len(pattern) /\ 2 \in 1..Len(pattern) /\ Len(pattern) # 0
    BY <1>3, <1>4
<1>10. /\ match[Len(pattern)] = 1..l + 1 /\ match[2] \subseteq 1..l + 1
       /\ match[1] = {j \in 1..l + 1 : \E k \in match[2] : j <= k}
  <2>1. Folded(pattern)[Len(pattern)] = "%" /\ Folded(pattern)[1] = "%"
      BY <1>5, <1>8, <1>9, FoldSpecial
  <2> QED BY <1>7, <1>8, <1>9, <2>1, MatchEnds DEF Matched
<1> HIDE DEF n, w, m, l
<1>11. \A j \in 1..l + 1 : j \in match[2] <=> Fits(w, n, 1, j) /\ j + m \in 1..l + 1
  <2>1. 1 + 1 = 2 /\ Len(pattern) + 1 - 1 = Len(pattern)
      BY <1>8
  <2> QED BY <1>7, <1>10, <2>1 DEF Matched, n, w, m, l
<1>12. \A j \in 1..l + 1 : Fits(w, n, 1, j) => j + m \in 1..l + 1
  <2> TAKE j \in 1..l + 1
  <2>1. Fits(w, n, 1, j) => j + (m + 1 - 1) <= l + 1
      BY <1>8 DEF Fits
  <2> QED BY <1>8, <2>1
<1>13. 1 \in match[1] <=> \E j \in 1..l + 1 : Fits(w, n, 1, j)
  <2>1. 1 \in match[1] <=> \E k \in match[2] : 1 <= k
      BY <1>8, <1>10
  <2>2. \A k \in match[2] : k \in 1..l + 1 /\ 1 <= k
      BY <1>8, <1>10
  <2> QED BY <1>11, <1>12, <2>1, <2>2
<1>14. ASSUME NEW i \in 0..l PROVE Fits(w, n, 1, i + 1) <=> IsPrefix(w, SubSeq(n, i + 1, Len(n)))
  <2> DEFINE j == i + 1
  <2>1. j \in 1..Len(n) + 1 /\ j = i + 1 /\ i \in 0..Len(n)
      BY <1>8
  <2> HIDE DEF j
  <2>2. Fits(w, n, 1, j) <=> IsPrefix(w, SubSeq(n, i + 1, Len(n)))
      BY <1>8, <2>1, FitsIsPrefix
  <2> QED BY <2>2 DEF j
<1>15. (\E j \in 1..l + 1 : Fits(w, n, 1, j)) <=> \E i \in 0..l : IsPrefix(w, SubSeq(n, i + 1, l))
  <2>1. ASSUME NEW j \in 1..l + 1, Fits(w, n, 1, j) PROVE \E i \in 0..l : IsPrefix(w, SubSeq(n, i + 1, l))
    <3> DEFINE i == j - 1
    <3>1. i \in 0..l /\ i + 1 = j
        BY <1>8
    <3> HIDE DEF i
    <3>2. IsPrefix(w, SubSeq(n, i + 1, l))
        BY <1>8, <1>14, <2>1, <3>1
    <3> QED BY <3>1, <3>2
  <2>2. ASSUME NEW i \in 0..l, IsPrefix(w, SubSeq(n, i + 1, l)) PROVE \E j \in 1..l + 1 : Fits(w, n, 1, j)
    <3>1. i + 1 \in 1..l + 1
        BY <1>8
    <3> QED BY <1>8, <1>14, <2>2, <3>1
  <2> QED BY <2>1, <2>2
<1> QED BY <1>7, <1>13, <1>15 DEF Includes, Matched, pattern, n, w, l

-----------------------------------------------------------------------------
(* What a filter finds                                                       *)

\* A name, a column and a value are lists.
LEMMA ListsAre ==
    /\ \A o \in Objects : \E S : Catalog[o].name \in Seq(S)
    /\ \A o \in Objects : \A k \in DOMAIN Catalog[o].columns : \E S : Catalog[o].columns[k] \in Seq(S)
    /\ \A args \in Listings : \A a \in DOMAIN args.filters : \E S : args.filters[a] \in Seq(S)
    /\ \A f \in Failures : \E S : f.name \in Seq(S)
BY CatalogAssumption, ArgumentsAssumption DEF IsList, Objects

\* What a filter's only argument says is what passes it.
LEMMA FilterMeans ==
    ASSUME NEW args \in Listings, ~FilterRefused(args.filters), NEW a \in DOMAIN args.filters,
           Mode(a, args.filters[a]) # "pattern", NEW o \in Objects
    PROVE  Passes(Catalog[o].name, Compiled(args.filters))
               <=> Means(Mode(a, args.filters[a]), args.filters[a], Catalog[o].name)
<1> DEFINE mode == Mode(a, args.filters[a])
           value == args.filters[a]
           name == Catalog[o].name
<1>1. \A b \in DOMAIN args.filters : b = a
    BY DEF FilterRefused
<1>2. (CHOOSE b \in DOMAIN args.filters : TRUE) = a
    BY <1>1
<1>3. mode \in {"exact", "prefix", "contains"}
  <2>1. a \in {"name_exact", "name_prefix", "name_contains", "name_like", "name_pattern"}
      BY ArgumentsAssumption
  <2> QED BY <2>1 DEF Mode
<1>4. Compiled(args.filters) = [mode |-> mode, pattern |-> PatternOf(mode, value)]
    BY <1>2 DEF Compiled
<1> HIDE DEF mode
<1>5. Passes(name, Compiled(args.filters)) <=> ILikeLiteral(name, PatternOf(mode, value))
    BY <1>3, <1>4 DEF Passes
<1>6. PICK R : name \in Seq(R)
    BY ListsAre
<1>7. PICK S : value \in Seq(S)
    BY ListsAre
<1> HIDE DEF name, value
<1>8. CASE mode = "exact"
    BY <1>5, <1>6, <1>7, <1>8, LikeExact DEF PatternOf, Means, mode, name, value
<1>9. CASE mode = "prefix"
    BY <1>5, <1>6, <1>7, <1>9, LikePrefix DEF PatternOf, Means, mode, name, value
<1>10. CASE mode = "contains"
    BY <1>5, <1>6, <1>7, <1>10, LikeContains DEF PatternOf, Means, mode, name, value
<1> QED BY <1>3, <1>8, <1>9, <1>10

\* A listing at its end has what its filter means.
LEMMA ListingMeans ==
    ASSUME DiscoveryInv
    PROVE  FilterMeansWhatItSays
<1> SUFFICES ASSUME listing # NoListing, ~listing[1].more,
                    NEW a \in DOMAIN listing[1].args.filters, Mode(a, listing[1].args.filters[a]) # "pattern",
                    NEW o \in Objects
             PROVE  (o \in Range(listing[1].rows)) <=>
                        /\ Catalog[o].type = listing[1].args.type
                        /\ listing[1].args.type = "extension" \/ Catalog[o].schema = listing[1].args.schema
                        /\ Means(Mode(a, listing[1].args.filters[a]), listing[1].args.filters[a], Catalog[o].name)
    BY DEF FilterMeansWhatItSays
<1> DEFINE l == listing[1]
           args == l.args
           rows == l.rows
           all == Ascending(Matching(args))
<1>1. /\ args \in Listings /\ ~FilterRefused(args.filters) /\ rows \in Seq(Matching(args))
      /\ \A i \in 1..Len(rows) : rows[i] = all[i]
      /\ Len(rows) = Len(all)
    BY DEF DiscoveryInv, ListingFollows
<1>2. Range(rows) = Matching(args)
  <2> HIDE DEF rows, args
  <2> DEFINE size == Cardinality(Matching(args))
  <2>1. {all[i] : i \in 1..size} = Matching(args) /\ Len(all) = size
      BY MatchingLists DEF Lists
  <2> HIDE DEF all, size
  <2>2. DOMAIN rows = 1..size
      BY <1>1, <2>1
  <2>3. \A i \in 1..size : rows[i] = all[i]
      BY <1>1, <2>1
  <2> QED BY <2>1, <2>2, <2>3 DEF Range
<1>3. Passes(Catalog[o].name, Compiled(args.filters))
          <=> Means(Mode(a, args.filters[a]), args.filters[a], Catalog[o].name)
  <2>1. a \in DOMAIN args.filters /\ Mode(a, args.filters[a]) # "pattern"
      OBVIOUS
  <2> HIDE DEF args
  <2> QED BY <1>1, <2>1, FilterMeans
<1> QED BY <1>2, <1>3 DEF Matching, InListing

\* Who follows a listing gets just what was asked for.
THEOREM ListingsAreWhatWasAsked == Spec => []ListingIsWhatWasAsked
<1>1. ListingComplete /\ FilterMeansWhatItSays => ListingIsWhatWasAsked
    BY DEF ListingIsWhatWasAsked
<1>2. DiscoveryInv => FilterMeansWhatItSays
    BY ListingMeans
<1> QED BY <1>1, <1>2, DiscoveryInvariant, ListingsComplete, PTL

-----------------------------------------------------------------------------
(* What the hints find                                                       *)

\* The policy has a mode, and an answer to a failed statement is its hints.
HintsInv ==
    /\ policy.mode \in {"denied", "full", "limited"}
    /\ answer.kind = "error" => \E f \in Failures : answer = Hints(f)

\* The name of a failure in lower case is included where the name is.
LEMMA FoldedIncludes ==
    ASSUME NEW name, NEW S, NEW value \in Seq(S)
    PROVE  /\ \E T : Folded(value) \in Seq(T)
           /\ Includes(name, Folded(value)) <=> Includes(name, value)
<1>1. /\ Len(Folded(value)) = Len(value) /\ Len(value) \in Nat /\ Folded(value) \in Seq({FoldChar(ch) : ch \in S})
      /\ \A i \in 1..Len(value) : Folded(value)[i] = FoldChar(value[i])
    BY FoldedIs
<1>2. DOMAIN value = 1..Len(value) /\ DOMAIN Folded(value) = 1..Len(value)
  <2> DEFINE w == Folded(value)
  <2> HIDE DEF w
  <2>1. DOMAIN w = 1..Len(value)
      BY <1>1 DEF w
  <2> QED BY <2>1 DEF w
<1>3. Folded(Folded(value)) = Folded(value)
  <2>1. Folded(Folded(value)) = [i \in 1..Len(value) |-> FoldChar(Folded(value)[i])]
      BY <1>2 DEF Folded
  <2>2. \A i \in 1..Len(value) : FoldChar(Folded(value)[i]) = FoldChar(value[i])
      BY <1>1, FoldSpecial
  <2>3. Folded(value) = [i \in 1..Len(value) |-> FoldChar(value[i])]
      BY <1>2 DEF Folded
  <2> HIDE DEF Folded
  <2> QED BY <2>1, <2>2, <2>3
<1> QED BY <1>1, <1>3 DEF Includes

\* What includes the missing name is like the pattern of the hints.
LEMMA IncludedIsLike ==
    ASSUME NEW R, NEW name \in Seq(R), NEW S, NEW value \in Seq(S), Includes(name, value)
    PROVE  ILikeLiteral(name, ContainsPattern(Folded(value)))
<1>1. PICK T : Folded(value) \in Seq(T)
    BY FoldedIncludes
<1>2. Includes(name, Folded(value))
    BY FoldedIncludes
<1> QED BY <1>1, <1>2, LikeContains

\* The database's predicate is the policy's.
LEMMA SqlIsVisible ==
    ASSUME policy.mode \in {"denied", "full", "limited"}
    PROVE  \A s : VisibleInSql(s) <=> Visible(s)
BY DEF VisibleInSql, Visible, Denied

\* The hints of a failure find what is visible.
LEMMA HintsFind ==
    ASSUME policy.mode \in {"denied", "full", "limited"}, NEW f \in Failures
    PROVE  LET visible == {o \in Relations : Catalog[o].schema \notin System /\ Visible(Catalog[o].schema)}
           IN  /\ f.kind = "relation" /\ (\E o \in visible : Includes(Catalog[o].name, f.name))
                   => Hints(f).similar # <<>>
               /\ f.kind = "column" /\ f.schema = <<>>
                  /\ (\E o \in visible : \E c \in Range(Catalog[o].columns) : Includes(c, f.name))
                   => Hints(f).columns # <<>>
<1> DEFINE visible == {o \in Relations : Catalog[o].schema \notin System /\ Visible(Catalog[o].schema)}
<1>1. IsList(f.name) /\ \E S : f.name \in Seq(S)
    BY ArgumentsAssumption, ListsAre
<1>2. \A s : VisibleInSql(s) <=> Visible(s)
    BY SqlIsVisible
<1>3. ASSUME f.kind = "relation", NEW o \in visible, Includes(Catalog[o].name, f.name)
      PROVE  Hints(f).similar # <<>>
  <2>1. o \in Relations /\ o \in Objects /\ Catalog[o].schema \notin System /\ Visible(Catalog[o].schema)
      BY DEF Relations
  <2>2. ILikeLiteral(Catalog[o].name, ContainsPattern(Folded(f.name)))
      BY <1>1, <1>3, <2>1, ListsAre, IncludedIsLike
  <2>3. SimilarRelations(f.name) # <<>>
      BY <1>1, <1>2, <2>1, <2>2, SimilarRelationsVisible
  <2> DEFINE similar == SimilarRelations(f.name)
             guide == IF Visible(GuideSchema(f)) THEN <<GuideSchema(f)>> ELSE <<>>
             a == Hints(f)
  <2>4. a = [Answer("error") EXCEPT !.failure = <<f>>, !.similar = similar, !.guide = guide]
      BY <1>3 DEF Hints
  <2> HIDE DEF similar, guide, a
  <2>5. a.similar = similar
      BY <2>4 DEF Answer
  <2> QED BY <2>3, <2>5 DEF similar, a
<1>4. ASSUME f.kind = "column", f.schema = <<>>, NEW o \in visible,
             NEW c \in Range(Catalog[o].columns), Includes(c, f.name)
      PROVE  Hints(f).columns # <<>>
  <2> DEFINE shown == {r \in Relations : /\ Catalog[r].schema \notin System
                                         /\ VisibleInSql(Catalog[r].schema)}
             columns == IF ColumnsOfStatement(f) # <<>> THEN ColumnsOfStatement(f) ELSE ColumnsAnywhere(f)
             previews == IF Denied THEN <<>>
                         ELSE FlattenSeq([i \in DOMAIN f.refs |-> Ascending(Previewed(f.refs[i]))])
             a == Hints(f)
  <2>1. o \in Objects /\ o \in shown /\ ~Denied
      BY <1>2 DEF Relations, Visible
  <2>2. PICK k \in DOMAIN Catalog[o].columns : c = Catalog[o].columns[k]
      BY DEF Range
  <2>3. ILikeLiteral(Catalog[o].columns[k], ContainsPattern(Folded(f.name)))
      BY <1>1, <1>4, <2>1, <2>2, ListsAre, IncludedIsLike
  <2>4. shown \in SUBSET Relations /\ \A r \in shown : Visible(Catalog[r].schema)
      BY <1>2
  <2>5. ColumnsAnywhere(f) = SimilarColumns(f.name, shown)
      BY <2>1 DEF ColumnsAnywhere
  <2> HIDE DEF shown
  <2>6. SimilarColumns(f.name, shown) # <<>>
      BY <1>1, <2>1, <2>3, <2>4, SimilarColumnsVisible
  <2>7. columns # <<>>
      BY <2>5, <2>6
  <2>8. a = [Answer("error") EXCEPT !.failure = <<f>>, !.previews = previews, !.columns = columns]
      BY <1>4 DEF Hints
  <2> HIDE DEF columns, previews, a
  <2>9. a.columns = columns
      BY <2>8 DEF Answer
  <2> QED BY <2>7, <2>9 DEF a
<1> QED BY <1>3, <1>4

\* A failed statement's hints name it.
LEMMA HintsName ==
    ASSUME NEW f \in Failures
    PROVE  Hints(f).failure = <<f>> /\ Hints(f).kind = "error"
<1> DEFINE similar == SimilarRelations(f.name)
           columns == IF ColumnsOfStatement(f) # <<>> THEN ColumnsOfStatement(f) ELSE ColumnsAnywhere(f)
           previews == IF Denied THEN <<>>
                       ELSE FlattenSeq([i \in DOMAIN f.refs |-> Ascending(Previewed(f.refs[i]))])
           guide == IF Visible(GuideSchema(f)) THEN <<GuideSchema(f)>> ELSE <<>>
           told == IF Visible(GuideSchema(f)) /\ ~f.hinted THEN <<GuideSchema(f)>> ELSE <<>>
           a == Hints(f)
<1>1. f.kind \in {"relation", "column", "alias", "timeout"}
    BY ArgumentsAssumption
<1>2. a \in {[Answer("error") EXCEPT !.failure = <<f>>, !.similar = similar, !.guide = guide],
             [Answer("error") EXCEPT !.failure = <<f>>, !.guide = told],
             [Answer("error") EXCEPT !.failure = <<f>>, !.previews = previews, !.columns = columns],
             [Answer("error") EXCEPT !.failure = <<f>>]}
    BY <1>1 DEF Hints
<1> HIDE DEF similar, columns, previews, guide, told, a
<1>3. a.failure = <<f>> /\ a.kind = "error"
    BY <1>2 DEF Answer
<1> QED BY <1>3 DEF a

\* Hints do not depend but on the policy.
LEMMA HintsSame ==
    ASSUME UNCHANGED policy
    PROVE  \A f : Hints(f)' = Hints(f)
<1>1. (\A s : Visible(s)' <=> Visible(s)) /\ (\A s : VisibleInSql(s)' <=> VisibleInSql(s)) /\ (Denied' <=> Denied)
    BY DEF Visible, VisibleInSql, Denied
<1> QED BY DEF Hints, SimilarRelations, ColumnsOfStatement, ColumnsAnywhere, SimilarColumns, SeenOf,
              Previewed, Resolve, Visible, VisibleInSql, Denied

\* The invariant of the hints.
THEOREM HintsInvariant == Spec => []HintsInv
<1>1. Init => HintsInv
  <2> SUFFICES ASSUME Init PROVE HintsInv
      OBVIOUS
  <2>1. PICK p \in Policies : policy = Normalized(p)
      BY DEF Init
  <2>2. policy.mode = p.mode
      BY <2>1 DEF Normalized
  <2>3. answer.kind = "none"
      BY DEF Init, Answer
  <2> QED BY <2>2, <2>3, PoliciesAssumption DEF HintsInv
<1>2. HintsInv /\ [Next]_vars => HintsInv'
  <2> SUFFICES ASSUME HintsInv, [Next]_vars PROVE HintsInv'
      OBVIOUS
  <2>0. ASSUME UNCHANGED policy, answer'.kind # "error" PROVE HintsInv'
      BY <2>0 DEF HintsInv
  <2>1. \A code : Refused(code).kind = "refused"
      BY DEF Refused, Answer
  <2>2. CASE ListSchemas
    <3> DEFINE rows == Ascending({o \in Objects : /\ \A p \in 1..o - 1 : Catalog[p].schema # Catalog[o].schema
                                                  /\ Visible(Catalog[o].schema)})
    <3>1. UNCHANGED policy /\ answer' \in {Refused("METADATA_ACCESS_DENIED"), [Answer("schemas") EXCEPT !.rows = rows]}
        BY <2>2 DEF ListSchemas
    <3> HIDE DEF rows
    <3>2. [Answer("schemas") EXCEPT !.rows = rows].kind = "schemas"
        BY DEF Answer
    <3> QED BY <2>0, <2>1, <3>1, <3>2
  <2>3. ASSUME NEW args \in Listings, NEW n \in Limits, NEW c, NEW late, ListObjects(args, n, c, late) PROVE HintsInv'
    <3>1. UNCHANGED policy /\ \E code, rows, next :
              answer' \in {Refused(code), [Answer("objects") EXCEPT !.rows = rows, !.next = next]}
        BY <2>3 DEF ListObjects
    <3>2. \A rows, next : [Answer("objects") EXCEPT !.rows = rows, !.next = next].kind = "objects"
        BY DEF Answer
    <3> QED BY <2>0, <2>1, <3>1, <3>2
  <2>4. ASSUME NEW args \in Details, GetDetails(args) PROVE HintsInv'
    <3>1. UNCHANGED policy /\ \E code, rows : answer' \in {Refused(code), [Answer("details") EXCEPT !.rows = rows]}
        BY <2>4 DEF GetDetails
    <3>2. \A rows : [Answer("details") EXCEPT !.rows = rows].kind = "details"
        BY DEF Answer
    <3> QED BY <2>0, <2>1, <3>1, <3>2
  <2>5. ASSUME NEW f \in Failures, StatementFails(f) PROVE HintsInv'
    <3>1. UNCHANGED policy /\ answer' = Hints(f)
        BY <2>5 DEF StatementFails
    <3>2. Hints(f)' = Hints(f)
        BY <3>1, HintsSame
    <3> QED BY <3>1, <3>2 DEF HintsInv
  <2>6. CASE UNCHANGED vars
    <3>1. UNCHANGED <<policy, answer>> /\ \A f : Hints(f)' = Hints(f)
        BY <2>6, HintsSame DEF vars
    <3> QED BY <3>1 DEF HintsInv
  <2> QED BY <2>2, <2>3, <2>4, <2>5, <2>6 DEF Next, Ask, Continue
<1> QED BY <1>1, <1>2, PTL DEF Spec

\* No hint is lost to what is hidden.
THEOREM HintsFindVisible == Spec => []HintsFindWhatIsVisible
<1>1. HintsInv => HintsFindWhatIsVisible
  <2> SUFFICES ASSUME HintsInv, answer.kind = "error"
               PROVE  LET f == answer.failure[1]
                          visible == {o \in Relations : Catalog[o].schema \notin System /\ Visible(Catalog[o].schema)}
                      IN  /\ f.kind = "relation" /\ (\E o \in visible : Includes(Catalog[o].name, f.name))
                              => answer.similar # <<>>
                          /\ f.kind = "column" /\ f.schema = <<>>
                             /\ (\E o \in visible : \E c \in Range(Catalog[o].columns) : Includes(c, f.name))
                              => answer.columns # <<>>
      BY DEF HintsFindWhatIsVisible
  <2>1. PICK f \in Failures : answer = Hints(f)
      BY DEF HintsInv
  <2>2. answer.failure[1] = f
      BY <2>1, HintsName
  <2> QED BY <2>1, <2>2, HintsFind DEF HintsInv
<1> QED BY <1>1, HintsInvariant, PTL
-----------------------------------------------------------------------------
(* latest_snapshot                                                           *)

\* The rows that a call chooses from, and which of them it chooses among.
Eligible(given, rows) == {r \in rows : "include_null_timestamps" \in given \/ r.ts # Null}
Together(given, r, q) == "partition_by" \in given => r.part = q.part

\* ORDER BY is a strict total order on the rows of a table: to_jsonb tells what is left apart.
LEMMA BeforeOrders ==
    ASSUME NEW rows \in Tables, NEW given, NEW S \in SUBSET rows
    PROVE  Orders({p \in S \X S : Before(given, p[1], p[2])}, S)
<1> DEFINE before == {p \in S \X S : Before(given, p[1], p[2])}
<1>1. \A r, q \in S : <<r, q>> \in before <=> Before(given, r, q)
    OBVIOUS
<1>2. /\ \A r \in S : r.ts \in Nat \cup {Null} /\ r.tie \in Int /\ r.json \in Int
      /\ \A r, q \in S : r.json = q.json => r = q
    BY TablesAssumption
<1>3. \A r \in S : ~Before(given, r, r)
    BY <1>2 DEF Before, Later
<1>4. \A r, q, t \in S : Before(given, r, q) /\ Before(given, q, t) => Before(given, r, t)
  <2> SUFFICES ASSUME NEW r \in S, NEW q \in S, NEW t \in S, Before(given, r, q), Before(given, q, t)
               PROVE  Before(given, r, t)
      OBVIOUS
  <2> DEFINE a == r.ts
             b == q.ts
             c == t.ts
             nullsFirst == {"include_null_timestamps", "nulls_first"} \subseteq given
             tie(v) == IF "tie_breakers" \in given THEN v ELSE 0
             i == tie(r.tie)
             j == tie(q.tie)
             k == tie(t.tie)
             x == r.json
             y == q.json
             z == t.json
  <2>1. {a, b, c} \subseteq Nat \cup {Null} /\ {i, j, k, x, y, z} \subseteq Int
      BY <1>2
  <2>2. /\ Later(a, b, nullsFirst) \/ (a = b /\ i < j) \/ (a = b /\ i = j /\ x < y)
        /\ Later(b, c, nullsFirst) \/ (b = c /\ j < k) \/ (b = c /\ j = k /\ y < z)
      BY DEF Before
  <2>3. Before(given, r, t) <=> Later(a, c, nullsFirst) \/ (a = c /\ i < k) \/ (a = c /\ i = k /\ x < z)
      BY DEF Before
  <2> HIDE DEF a, b, c, i, j, k, x, y, z, nullsFirst
  <2>4. Later(a, b, nullsFirst) /\ Later(b, c, nullsFirst) => Later(a, c, nullsFirst)
      BY <2>1 DEF Later, Null
  <2> QED BY <2>1, <2>2, <2>3, <2>4
<1>5. \A r, q \in S : r = q \/ Before(given, r, q) \/ Before(given, q, r)
  <2> SUFFICES ASSUME NEW r \in S, NEW q \in S, r # q PROVE Before(given, r, q) \/ Before(given, q, r)
      OBVIOUS
  <2>1. r.json # q.json
      BY <1>2
  <2> QED BY <1>2, <2>1 DEF Before, Later, Null
<1> HIDE DEF before
<1> QED BY <1>1, <1>3, <1>4, <1>5 DEF Orders, before

\* A strict total order has a least element on a finite set.
LEMMA LeastExists ==
    ASSUME NEW S, IsFiniteSet(S), S # {}, NEW before, Orders(before, S)
    PROVE  \E first \in S : \A r \in S \ {first} : <<first, r>> \in before
<1> DEFINE Below(x) == {y \in S : <<y, x>> \in before}
           all == {Below(x) : x \in S}
<1>1. all \subseteq FiniteSubsetsOf(S) /\ all # {}
  <2>1. \A x \in S : Below(x) \subseteq S /\ IsFiniteSet(Below(x))
      BY FS_Subset
  <2> QED BY <2>1 DEF FiniteSubsetsOf
<1>2. IsWellFoundedOn(StrictSubsetOrdering(S), FiniteSubsetsOf(S))
    BY FS_StrictSubsetOrderingWellFounded
<1> HIDE DEF all
<1>3. PICK least \in all : \A B \in all : ~(<<B, least>> \in StrictSubsetOrdering(S))
    BY <1>1, <1>2, WFMin
<1>4. PICK first \in S : least = Below(first)
    BY DEF all
<1>5. ASSUME NEW r \in S, <<r, first>> \in before PROVE FALSE
  <2>1. Below(r) \in all
      BY DEF all
  <2>2. Below(r) \subseteq Below(first) /\ r \in Below(first) /\ r \notin Below(r)
      BY <1>5 DEF Orders
  <2>3. <<Below(r), least>> \in StrictSubsetOrdering(S)
      BY <1>4, <2>2 DEF StrictSubsetOrdering
  <2> QED BY <1>3, <2>1, <2>3
<1> QED BY <1>5 DEF Orders

\* So each part of a table has a first row.
LEMMA FirstRow ==
    ASSUME NEW rows \in Tables, NEW given, NEW S \in SUBSET rows, S # {}
    PROVE  \E first \in S : \A r \in S \ {first} : Before(given, first, r)
<1> DEFINE before == {p \in S \X S : Before(given, p[1], p[2])}
<1>1. IsFiniteSet(S)
    BY TablesAssumption, FS_Subset
<1>2. Orders(before, S)
    BY BeforeOrders
<1>3. \A r, q \in S : <<r, q>> \in before <=> Before(given, r, q)
    OBVIOUS
<1> HIDE DEF before
<1>4. \E first \in S : \A r \in S \ {first} : <<first, r>> \in before
    BY <1>1, <1>2, LeastExists
<1> QED BY <1>3, <1>4

\* An expansion has the newest row of each partition that has one to choose, and no other.
LEMMA SnapshotIs ==
    ASSUME NEW rows \in Tables, NEW given
    PROVE  LET together(r, q) == "partition_by" \in given => r.part = q.part
               nullsAllowed == "include_null_timestamps" \in given
               nullsWin == nullsAllowed /\ "nulls_first" \in given
               result == LatestSnapshot(given, rows)
           IN  /\ \A r, q \in result : together(r, q) => r = q
               /\ \A q \in rows : q.ts # Null \/ nullsAllowed =>
                     \E r \in result :
                         /\ together(r, q)
                         /\ IF nullsWin THEN r.ts = Null \/ (q.ts # Null /\ r.ts >= q.ts)
                                        ELSE r.ts >= q.ts
<1> DEFINE nullsWin == "include_null_timestamps" \in given /\ "nulls_first" \in given
           result == LatestSnapshot(given, rows)
           eligible == Eligible(given, rows)
<1>1. result = {r \in eligible : \A q \in eligible \ {r} : Together(given, r, q) => Before(given, r, q)}
    BY DEF LatestSnapshot, Eligible, Together
<1>2. eligible \subseteq rows /\ \A q \in rows : q \in eligible <=> "include_null_timestamps" \in given \/ q.ts # Null
    BY DEF Eligible
<1> HIDE DEF result, eligible
<1>3. ASSUME NEW r \in rows, NEW q \in rows, Before(given, r, q), Before(given, q, r) PROVE FALSE
  <2> DEFINE before == {p \in rows \X rows : Before(given, p[1], p[2])}
  <2>1. Orders(before, rows)
      BY BeforeOrders
  <2>2. <<r, q>> \in before /\ <<q, r>> \in before
      BY <1>3
  <2> HIDE DEF before
  <2> QED BY <2>1, <2>2 DEF Orders
<1>4. ASSUME NEW r \in result, NEW q \in result, Together(given, r, q) PROVE r = q
  <2>1. Together(given, q, r)
      BY <1>4 DEF Together
  <2> QED BY <1>1, <1>2, <1>3, <1>4, <2>1
<1>5. ASSUME NEW q \in rows, q.ts # Null \/ "include_null_timestamps" \in given
      PROVE  \E r \in result : /\ Together(given, r, q)
                               /\ IF nullsWin THEN r.ts = Null \/ (q.ts # Null /\ r.ts >= q.ts)
                                              ELSE r.ts >= q.ts
  <2> DEFINE S == {r \in eligible : Together(given, q, r)}
  <2>1. q \in S /\ S \in SUBSET rows
      BY <1>2, <1>5 DEF Together
  <2>2. PICK first \in S : \A r \in S \ {first} : Before(given, first, r)
      BY <2>1, FirstRow
  <2>3. first \in result
    <3>1. ASSUME NEW r \in eligible \ {first}, Together(given, first, r) PROVE Before(given, first, r)
      <4>1. Together(given, q, r)
          BY <3>1 DEF Together
      <4> QED BY <2>2, <3>1, <4>1
    <3> QED BY <1>1, <3>1
  <2>4. Together(given, first, q)
      BY DEF Together
  <2>5. first.ts \in Nat \cup {Null} /\ q.ts \in Nat \cup {Null}
      BY <2>1, TablesAssumption
  <2>6. first.ts = q.ts \/ Later(first.ts, q.ts, nullsWin)
    <3>1. first = q \/ Before(given, first, q)
        BY <2>1, <2>2
    <3> QED BY <3>1 DEF Before
  <2> HIDE DEF S
  <2>7. IF nullsWin THEN first.ts = Null \/ (q.ts # Null /\ first.ts >= q.ts) ELSE first.ts >= q.ts
      BY <2>5, <2>6 DEF Later, Null
  <2> QED BY <2>3, <2>4, <2>7
<1> QED BY <1>4, <1>5 DEF Together, result

\* Whatever a text has for its calls, each gets the newest rows.
THEOREM SnapshotsAreNewest == TextSpec => []SnapshotPerPartition
<1>1. SnapshotPerPartition
    BY SnapshotIs DEF SnapshotPerPartition
<1> QED BY <1>1, PTL DEF TextSpec

-----------------------------------------------------------------------------
(* Scans of texts                                                            *)

\* The states a scan can be in.
LexStates == [is : {"code", "quote", "comment"},
              mode : {"code", "single", "double", "line", "block", "dollar"},
              skip : Nat, depth : Nat, tag : Seq(STRING), escapes : BOOLEAN]

\* A dollar quote's delimiter: two dollars, words in between.
IsTag(tag) ==
    /\ tag \in Seq(STRING) /\ Len(tag) >= 2
    /\ tag[1] = "$" /\ tag[Len(tag)] = "$" /\ \A k \in 2..Len(tag) - 1 : tag[k] \in Words

\* What holds of the state after symbol i: code leaves nothing behind, a mode says what its
\* symbols are, backslashes escape in strings only, and no symbol after the end of the text is taken.
StateOk(t, i, s) ==
    /\ s \in LexStates
    /\ s.is = "code" => s = InCode
    /\ s.mode \in {"line", "block"} => s.is = "comment"
    /\ s.mode \in {"single", "double", "dollar"} => s.is = "quote"
    /\ s.mode = "dollar" => IsTag(s.tag)
    /\ s.escapes => s.mode = "single"
    /\ s.skip + i <= Len(t)

\* The state after symbol i of a scan, InCode before the first.
StateAt(states, i) == IF i = 0 THEN InCode ELSE states[i]

\* A sequence of states is the scan of the first n symbols.
Scans(lexer, t, n, states) ==
    /\ states \in Seq(LexStates) /\ Len(states) = n
    /\ \A i \in 1..n : StateAt(states, i) = LexStep(lexer, t, i, StateAt(states, i - 1))
    /\ \A i \in 0..n : StateOk(t, i, StateAt(states, i))

\* Where a delimiter that opens at i ends.
EndsTag(t, i, e) == t[i] = "$" /\ e \in i + 1..Len(t) /\ t[e] = "$" /\ \A k \in i + 1..e - 1 : t[k] \in Words

\* A place has one delimiter at most.
LEMMA DollarTagIs ==
    ASSUME NEW t \in Texts, NEW i \in 1..Len(t)
    PROVE  /\ \A e : EndsTag(t, i, e) => DollarTag(t, i) = SubSeq(t, i, e)
           /\ DollarTag(t, i) # <<>> => \E e : EndsTag(t, i, e)
<1> DEFINE ends == {j \in (i + 1)..Len(t) : t[j] = "$" /\ \A k \in (i + 1)..(j - 1) : t[k] \in Words}
<1>1. "$" \notin Words
    BY DEF Words, Letters, Digits, ReadVerbs, WriteVerbs
<1>2. \A e : EndsTag(t, i, e) <=> t[i] = "$" /\ e \in ends
    BY DEF EndsTag
<1>3. \A e, f \in ends : e = f
  <2> SUFFICES ASSUME NEW e \in ends, NEW f \in ends, e < f PROVE FALSE
      OBVIOUS
  <2> e \in (i + 1)..(f - 1)
      OBVIOUS
  <2> QED BY <1>1
<1>4. DollarTag(t, i) = IF t[i] = "$" /\ ends # {} THEN SubSeq(t, i, CHOOSE j \in ends : TRUE) ELSE <<>>
    BY DEF DollarTag
<1> HIDE DEF ends
<1>5. ASSUME NEW e, EndsTag(t, i, e) PROVE DollarTag(t, i) = SubSeq(t, i, e)
    BY <1>2, <1>3, <1>4, <1>5
<1>6. ASSUME DollarTag(t, i) # <<>> PROVE \E e : EndsTag(t, i, e)
    BY <1>2, <1>4, <1>6
<1> QED BY <1>5, <1>6

\* It is a delimiter, and fits into the text.
LEMMA TagIs ==
    ASSUME NEW t \in Texts, NEW i \in 1..Len(t), NEW e, EndsTag(t, i, e)
    PROVE  /\ IsTag(SubSeq(t, i, e)) /\ Len(SubSeq(t, i, e)) = e - i + 1
           /\ SubSeq(t, i, e) # <<>>
<1> DEFINE tag == SubSeq(t, i, e)
<1>1. e \in Int /\ i < e /\ e <= Len(t) /\ Len(t) \in Nat
    BY DEF EndsTag, Texts
<1>2. tag \in Seq(STRING) /\ Len(tag) = e - i + 1 /\ \A k \in 1..e - i + 1 : tag[k] = t[i + k - 1]
  <2>1. i \in 1..Len(t) + 1 /\ e \in i - 1..Len(t)
      BY <1>1
  <2> QED BY <2>1, SubSeqProperties DEF Texts
<1>3. tag[1] = "$"
    BY <1>1, <1>2 DEF EndsTag
<1>4. tag[Len(tag)] = "$"
    BY <1>1, <1>2 DEF EndsTag
<1>5. \A k \in 2..Len(tag) - 1 : tag[k] \in Words
  <2> TAKE k \in 2..Len(tag) - 1
  <2>1. tag[k] = t[i + k - 1] /\ i + k - 1 \in i + 1..e - 1
      BY <1>1, <1>2
  <2> QED BY <2>1 DEF EndsTag
<1> HIDE DEF tag
<1>6. Len(tag) >= 2 /\ tag # <<>>
    BY <1>1, <1>2
<1>7. IsTag(tag)
    BY <1>2, <1>3, <1>4, <1>5, <1>6 DEF IsTag
<1> QED BY <1>2, <1>6, <1>7 DEF tag

\* A step of a scan leads from such a state to such a state.
LEMMA StepOk ==
    ASSUME NEW lexer \in Lexers, NEW t \in Texts, NEW i \in 1..Len(t), NEW h \in Nat, h + 1 = i,
           NEW s, StateOk(t, h, s)
    PROVE  StateOk(t, i, LexStep(lexer, t, i, s))
<1> DEFINE L == Len(t)
<1>r. SUFFICES ASSUME NEW r, r = LexStep(lexer, t, i, s) PROVE StateOk(t, i, r)
    OBVIOUS
<1>1. L \in Nat /\ i \in Nat /\ h = i - 1 /\ 1 <= i /\ i <= L
    BY DEF Texts
<1>2. s \in LexStates /\ s.skip + h <= L /\ s.skip \in Nat
    BY DEF StateOk, LexStates
<1>3. InCode \in LexStates /\ InCode.is = "code" /\ InCode.mode = "code" /\ InCode.skip = 0 /\ InCode.escapes = FALSE
    BY DEF InCode, LexStates
<1>d. t[i] # "$" => DollarTag(t, i) = <<>>
    BY DEF DollarTag
<1>4. StateOk(t, i, InCode)
    BY <1>1, <1>3 DEF StateOk
<1>5. CASE s.skip > 0
  <2>1. r = [s EXCEPT !.skip = @ - 1]
      BY <1>r, <1>5, <1>2 DEF LexStep, LexStates
  <2>2. s.is # "code"
      BY <1>3, <1>5 DEF StateOk
  <2>3. r \in LexStates /\ r.is = s.is /\ r.mode = s.mode /\ r.tag = s.tag /\ r.escapes = s.escapes /\ r.skip = s.skip - 1
      BY <2>1, <1>2, <1>5 DEF LexStates
  <2> QED BY <1>1, <1>2, <2>2, <2>3 DEF StateOk
<1>6. CASE s.skip = 0 /\ s.mode = "code"
  <2>1. r = StepInCode(lexer, t, i)
      BY <1>r, <1>6 DEF LexStep
  <2>2. CASE t[i] = "'"
    <3> DEFINE b == lexer.escape /\ BackslashEscapes(t, i)
    <3>1. r = [InCode EXCEPT !.is = "quote", !.mode = "single", !.escapes = b]
        BY <1>d, <2>1, <2>2 DEF StepInCode, Pair
    <3>2. b \in BOOLEAN
        BY DEF Lexers
    <3> HIDE DEF b
    <3>3. r \in LexStates /\ r.is = "quote" /\ r.mode = "single" /\ r.skip = 0
        BY <1>3, <3>1, <3>2 DEF LexStates
    <3> QED BY <1>1, <3>3 DEF StateOk
  <2>3. CASE t[i] = "dq"
    <3>1. r = [InCode EXCEPT !.is = "quote", !.mode = "double"]
        BY <1>d, <2>1, <2>3 DEF StepInCode, Pair
    <3>2. r \in LexStates /\ r.is = "quote" /\ r.mode = "double" /\ ~r.escapes /\ r.skip = 0
        BY <1>3, <3>1 DEF LexStates
    <3> QED BY <1>1, <3>2 DEF StateOk
  <2>4. CASE Pair(t, i, "-", "-")
    <3>1. r = [InCode EXCEPT !.is = "comment", !.mode = "line", !.skip = 1] /\ i < L
        BY <1>d, <2>1, <2>4 DEF StepInCode, Pair
    <3>2. r \in LexStates /\ r.is = "comment" /\ r.mode = "line" /\ ~r.escapes /\ r.skip = 1
        BY <1>3, <3>1 DEF LexStates
    <3> QED BY <1>1, <3>1, <3>2 DEF StateOk
  <2>5. CASE Pair(t, i, "/", "*")
    <3>1. r = [InCode EXCEPT !.is = "comment", !.mode = "block", !.depth = 1, !.skip = 1] /\ i < L
        BY <1>d, <2>1, <2>5 DEF StepInCode, Pair
    <3>2. r \in LexStates /\ r.is = "comment" /\ r.mode = "block" /\ ~r.escapes /\ r.skip = 1
        BY <1>3, <3>1 DEF LexStates
    <3> QED BY <1>1, <3>1, <3>2 DEF StateOk
  <2>6. CASE t[i] \notin {"'", "dq"} /\ ~Pair(t, i, "-", "-") /\ ~Pair(t, i, "/", "*")
    <3> DEFINE tag == DollarTag(t, i)
    <3>1. CASE lexer.dollar /\ tag # <<>>
      <4>1. PICK e : EndsTag(t, i, e)
          BY <3>1, DollarTagIs
      <4>2. IsTag(tag) /\ Len(tag) = e - i + 1 /\ e \in i + 1..L
        <5>1. tag = SubSeq(t, i, e)
            BY <4>1, DollarTagIs
        <5>2. e \in i + 1..L
            BY <4>1 DEF EndsTag
        <5> QED BY <4>1, <5>1, <5>2, TagIs
      <4>3. r = [InCode EXCEPT !.is = "quote", !.mode = "dollar", !.tag = tag, !.skip = Len(tag) - 1]
          BY <2>1, <2>6, <3>1 DEF StepInCode
      <4> HIDE DEF tag
      <4>4. Len(tag) - 1 = e - i /\ e - i \in Nat /\ tag \in Seq(STRING)
          BY <1>1, <4>2 DEF IsTag
      <4>5. r \in LexStates /\ r.is = "quote" /\ r.mode = "dollar" /\ ~r.escapes /\ r.skip = e - i /\ r.tag = tag
          BY <1>3, <4>3, <4>4 DEF LexStates
      <4> QED BY <1>1, <4>2, <4>4, <4>5 DEF StateOk
    <3>2. CASE ~(lexer.dollar /\ tag # <<>>)
      <4>1. r = InCode
          BY <2>1, <2>6, <3>2 DEF StepInCode
      <4> QED BY <4>1, <1>4
    <3> QED BY <3>1, <3>2
  <2> QED BY <2>2, <2>3, <2>4, <2>5, <2>6
<1>7. CASE s.skip = 0 /\ s.mode \notin {"code"}
  <2>1. StateOk(t, i, s)
      BY <1>1, <1>3, <1>7 DEF StateOk
  <2>2. s.is # "code"
      BY <1>3, <1>7 DEF StateOk
  <2>3. ASSUME i < L PROVE StateOk(t, i, [s EXCEPT !.skip = 1])
    <3> DEFINE z == [s EXCEPT !.skip = 1]
    <3>1. z \in LexStates /\ z.is = s.is /\ z.mode = s.mode /\ z.tag = s.tag /\ z.escapes = s.escapes /\ z.skip = 1
        BY <1>2 DEF LexStates
    <3> HIDE DEF z
    <3>2. StateOk(t, i, z)
        BY <1>1, <2>1, <2>2, <2>3, <3>1 DEF StateOk
    <3> QED BY <3>2 DEF z
  <2>4. CASE s.mode \in {"single", "double"}
    <3> DEFINE quote == IF s.mode = "single" THEN "'" ELSE "dq"
    <3>1. r = StepInQuote(t, i, s, quote)
        BY <1>r, <1>7, <2>4 DEF LexStep
    <3> DEFINE z == [InCode EXCEPT !.is = "quote"]
    <3>a. z \in LexStates /\ z.is = "quote" /\ z.mode = "code" /\ ~z.escapes /\ z.skip = 0
        BY <1>3 DEF LexStates
    <3> HIDE DEF z
    <3>b. StateOk(t, i, z)
        BY <1>1, <3>a DEF StateOk
    <3>2. StateOk(t, i, [InCode EXCEPT !.is = "quote"])
        BY <3>b DEF z
    <3> HIDE DEF quote
    <3>3. (r = [s EXCEPT !.skip = 1] /\ i < L) \/ r = [InCode EXCEPT !.is = "quote"] \/ r = s
        BY <3>1 DEF StepInQuote, Pair
    <3> QED BY <2>1, <2>3, <3>2, <3>3
  <2>5. CASE s.mode = "line"
    <3>1. r = InCode \/ r = s
        BY <1>r, <1>7, <2>5 DEF LexStep
    <3> QED BY <1>4, <2>1, <3>1
  <2>6. CASE s.mode = "block"
    <3>1. r = StepInBlock(lexer, t, i, s)
        BY <1>r, <1>7, <2>6 DEF LexStep
    <3>2. s.depth \in Nat
        BY <1>2 DEF LexStates
    <3>3. CASE Pair(t, i, "/", "*") /\ lexer.nested
      <4> DEFINE d == s.depth + 1
      <4>1. r = [s EXCEPT !.depth = d, !.skip = 1] /\ i < L
          BY <3>1, <3>3 DEF StepInBlock, Pair
      <4>2. d \in Nat
          BY <3>2
      <4> HIDE DEF d
      <4>3. r \in LexStates /\ r.is = s.is /\ r.mode = s.mode /\ r.escapes = s.escapes /\ r.skip = 1
          BY <1>2, <4>1, <4>2 DEF LexStates
      <4> QED BY <1>1, <2>1, <2>2, <2>6, <4>1, <4>3 DEF StateOk
    <3>4. CASE Pair(t, i, "*", "/") /\ lexer.nested /\ s.depth > 1
      <4> DEFINE d == s.depth - 1
      <4>1. r = [s EXCEPT !.depth = d, !.skip = 1] /\ i < L
          BY <3>1, <3>4 DEF StepInBlock, Pair
      <4>2. d \in Nat
          BY <3>2, <3>4
      <4> HIDE DEF d
      <4>3. r \in LexStates /\ r.is = s.is /\ r.mode = s.mode /\ r.escapes = s.escapes /\ r.skip = 1
          BY <1>2, <4>1, <4>2 DEF LexStates
      <4> QED BY <1>1, <2>1, <2>2, <2>6, <4>1, <4>3 DEF StateOk
    <3>5. CASE Pair(t, i, "*", "/") /\ ~(lexer.nested /\ s.depth > 1)
      <4>1. r = [InCode EXCEPT !.is = "comment", !.skip = 1] /\ i < L
          BY <3>1, <3>5 DEF StepInBlock, Pair
      <4>2. r \in LexStates /\ r.is = "comment" /\ r.mode = "code" /\ ~r.escapes /\ r.skip = 1
          BY <1>3, <4>1 DEF LexStates
      <4> QED BY <1>1, <4>1, <4>2 DEF StateOk
    <3>6. CASE ~(Pair(t, i, "/", "*") /\ lexer.nested) /\ ~Pair(t, i, "*", "/")
        BY <2>1, <3>1, <3>6 DEF StepInBlock
    <3> QED BY <3>3, <3>4, <3>5, <3>6
  <2>7. CASE s.mode = "dollar"
    <3>1. CASE DollarEnds(t, i, s.tag)
      <4> DEFINE n == Len(s.tag) - 1
      <4>1. r = [InCode EXCEPT !.is = "quote", !.skip = n]
          BY <1>r, <1>7, <2>7, <3>1 DEF LexStep
      <4>2. n \in Nat /\ n + i <= L
        <5>1. s.tag \in Seq(STRING) /\ Len(s.tag) >= 2
            BY <2>1, <2>7 DEF StateOk, IsTag
        <5>2. i + Len(s.tag) - 1 <= L /\ Len(s.tag) \in Nat
            BY <3>1, <5>1 DEF DollarEnds
        <5> QED BY <1>1, <5>1, <5>2
      <4> HIDE DEF n
      <4>3. r \in LexStates /\ r.is = "quote" /\ r.mode = "code" /\ ~r.escapes /\ r.skip = n
          BY <1>3, <4>1, <4>2 DEF LexStates
      <4> QED BY <4>2, <4>3 DEF StateOk
    <3>2. CASE ~DollarEnds(t, i, s.tag)
        BY <1>r, <1>7, <2>1, <2>7, <3>2 DEF LexStep
    <3> QED BY <3>1, <3>2
  <2> QED BY <1>2, <1>7, <2>4, <2>5, <2>6, <2>7 DEF LexStates
<1> QED
  <2>1. s.skip \in Nat
      BY <1>2 DEF LexStates
  <2> QED BY <1>5, <1>6, <1>7, <2>1

\* The state at the end of a scan.
LEMMA EndStateIs ==
    ASSUME NEW states \in Seq(LexStates)
    PROVE  EndState(states) = StateAt(states, Len(states))
<1>1. states = <<>> <=> Len(states) = 0
    OBVIOUS
<1>2. states # <<>> => Last(states) = states[Len(states)]
    BY DEF Last
<1> QED BY <1>1, <1>2 DEF EndState, StateAt

\* One more step.
LEMMA ScanStep ==
    ASSUME NEW lexer \in Lexers, NEW t \in Texts, NEW n \in 1..Len(t), NEW m \in Nat, m + 1 = n,
           NEW states, Scans(lexer, t, m, states)
    PROVE  Scans(lexer, t, n, Append(states, LexStep(lexer, t, n, EndState(states))))
<1> DEFINE s == StateAt(states, m)
           r == LexStep(lexer, t, n, s)
           more == Append(states, r)
<1>1. n \in Nat /\ m = n - 1 /\ states \in Seq(LexStates) /\ Len(states) = m
    BY DEF Scans, Texts
<1>2. EndState(states) = s
    BY <1>1, EndStateIs
<1>3. StateOk(t, m, s)
    BY DEF Scans
<1>4. StateOk(t, n, r)
    BY <1>3, StepOk
<1>5. r = LexStep(lexer, t, n, s)
    OBVIOUS
<1>6. r \in LexStates
    BY <1>4 DEF StateOk
<1> HIDE DEF r
<1>7. more \in Seq(LexStates) /\ Len(more) = n /\ more[n] = r /\ \A i \in 1..m : more[i] = states[i]
    BY <1>1, <1>6
<1> HIDE DEF more
<1>8. StateAt(more, n) = r /\ \A i \in 0..m : StateAt(more, i) = StateAt(states, i)
    BY <1>1, <1>7 DEF StateAt
<1>9. ASSUME NEW i \in 1..n PROVE StateAt(more, i) = LexStep(lexer, t, i, StateAt(more, i - 1))
  <2>1. CASE i = n
      BY <1>1, <1>5, <1>8, <2>1
  <2>2. CASE i # n
    <3>1. i \in 1..m /\ i \in 0..m /\ i - 1 \in 0..m
        BY <1>1, <2>2
    <3> QED BY <1>8, <3>1 DEF Scans
  <2> QED BY <2>1, <2>2
<1>10. ASSUME NEW i \in 0..n PROVE StateOk(t, i, StateAt(more, i))
  <2>1. CASE i = n
      BY <1>4, <1>8, <2>1
  <2>2. CASE i # n
    <3>1. i \in 0..m
        BY <1>1, <2>2
    <3> QED BY <1>8, <3>1 DEF Scans
  <2> QED BY <2>1, <2>2
<1>11. Scans(lexer, t, n, more)
    BY <1>7, <1>9, <1>10 DEF Scans
<1> QED BY <1>2, <1>5, <1>11 DEF more

\* What Scan has made of the first symbols, after each.
Scanned(lexer, t, n, f) ==
    f = [k \in 0..n |-> IF k = 0 THEN <<>>
                        ELSE Append(f[k - 1], LexStep(lexer, t, k, EndState(f[k - 1])))]

\* It exists: Scan scans a text, step by step.
LEMMA ScanIs ==
    ASSUME NEW lexer \in Lexers, NEW t \in Texts
    PROVE  Scans(lexer, t, Len(t), Scan(lexer, t))
<1> DEFINE N == Len(t)
           OneMore(states, k) == Append(states, LexStep(lexer, t, k, EndState(states)))
           Good == {n \in 0..N : \E f : Scanned(lexer, t, n, f)}
<1>1. N \in Nat
    BY DEF Texts
<1>2. 0 \in Good
  <2> DEFINE f == [k \in 0..0 |-> <<>>]
             g == [k \in 0..0 |-> IF k = 0 THEN <<>> ELSE OneMore(f[k - 1], k)]
  <2>1. f = g
      OBVIOUS
  <2>2. Scanned(lexer, t, 0, f)
      BY <2>1 DEF Scanned
  <2> QED BY <1>1, <2>2
<1>3. ASSUME NEW n \in 1..N, n - 1 \in Good PROVE n \in Good
  <2>1. PICK f : Scanned(lexer, t, n - 1, f)
      BY <1>3
  <2> DEFINE g == [k \in 0..n |-> IF k < n THEN f[k] ELSE OneMore(f[k - 1], k)]
             h == [k \in 0..n |-> IF k = 0 THEN <<>> ELSE OneMore(g[k - 1], k)]
  <2> HIDE DEF N, OneMore
  <2>2. ASSUME NEW k \in 0..n PROVE g[k] = h[k]
    <3>1. CASE k = n
      <4>1. g[k - 1] = f[k - 1] /\ k # 0
          BY <3>1
      <4> QED BY <3>1, <4>1
    <3>2. CASE k # n
      <4>1. k \in 0..n - 1 /\ g[k] = f[k] /\ (k # 0 => g[k - 1] = f[k - 1])
          BY <3>2
      <4>2. f[k] = IF k = 0 THEN <<>> ELSE OneMore(f[k - 1], k)
          BY <2>1, <4>1 DEF Scanned, OneMore
      <4> QED BY <4>1, <4>2
    <3> QED BY <3>1, <3>2
  <2>3. g = h
      BY <2>2
  <2>4. Scanned(lexer, t, n, g)
      BY <2>3 DEF Scanned, OneMore
  <2> QED BY <2>4
<1>4. N \in Good
  <2> HIDE DEF Good, N
  <2>1. \A n \in 1..N : n - 1 \in Good => n \in Good
      BY <1>3
  <2>2. 0..N \subseteq Good
      BY <1>1, <1>2, <2>1, UpTo
  <2> QED BY <1>1, <2>2
<1> DEFINE last == CHOOSE f : Scanned(lexer, t, N, f)
<1>5. Scanned(lexer, t, N, last)
    BY <1>4
<1>6. Scan(lexer, t) = last[N]
    BY DEF Scan, Scanned
<1> DEFINE Fine == {n \in 0..N : Scans(lexer, t, n, last[n])}
<1> HIDE DEF last
<1>7. 0 \in Fine
  <2>1. last[0] = <<>>
      BY <1>1, <1>5 DEF Scanned
  <2>2. StateAt(<<>>, 0) = InCode /\ StateOk(t, 0, InCode)
      BY <1>1 DEF StateAt, StateOk, InCode, LexStates
  <2>3. Scans(lexer, t, 0, <<>>)
      BY <2>2 DEF Scans
  <2> QED BY <1>1, <2>1, <2>3
<1>8. ASSUME NEW n \in 1..N, n - 1 \in Fine PROVE n \in Fine
  <2>1. last[n] = OneMore(last[n - 1], n)
    <3>1. n \in 0..N /\ n # 0
        BY <1>1
    <3> HIDE DEF N
    <3> QED BY <1>5, <3>1 DEF Scanned
  <2>2. n - 1 \in Nat /\ (n - 1) + 1 = n /\ n \in 0..N
      BY <1>1
  <2>3. Scans(lexer, t, n - 1, last[n - 1])
      BY <1>8
  <2>4. Scans(lexer, t, n, OneMore(last[n - 1], n))
      BY <2>2, <2>3, ScanStep
  <2> QED BY <2>1, <2>2, <2>4
<1>9. N \in Fine
  <2> HIDE DEF Fine, N
  <2>1. \A n \in 1..N : n - 1 \in Fine => n \in Fine
      BY <1>8
  <2>2. 0..N \subseteq Fine
      BY <1>1, <1>7, <2>1, UpTo
  <2> QED BY <1>1, <2>2
<1> QED BY <1>6, <1>9

\* What a scan says of a text, symbol by symbol.
LEMMA ScanAt ==
    ASSUME NEW lexer \in Lexers, NEW t \in Texts, NEW s, s = Scan(lexer, t)
    PROVE  /\ Len(t) \in Nat /\ s \in Seq(LexStates) /\ Len(s) = Len(t)
           /\ \A i \in 1..Len(t) : StateAt(s, i) = LexStep(lexer, t, i, StateAt(s, i - 1))
           /\ \A i \in 1..Len(t) : StateAt(s, i) = s[i] /\ (s[i].is = "code" <=> s[i] = InCode)
           /\ \A i \in 0..Len(t) : StateOk(t, i, StateAt(s, i)) /\ StateAt(s, i) \in LexStates
           /\ EndState(s) = StateAt(s, Len(t)) /\ StateAt(s, 0) = InCode
           /\ CodeOf(lexer, t) = {i \in 1..Len(t) : StateAt(s, i) = InCode}
<1>1. Scans(lexer, t, Len(t), s)
    BY ScanIs
<1>2. Len(t) \in Nat /\ s \in Seq(LexStates) /\ Len(s) = Len(t)
    BY <1>1 DEF Scans, Texts
<1>3. \A i \in 1..Len(t) : StateAt(s, i) = LexStep(lexer, t, i, StateAt(s, i - 1))
    BY <1>1 DEF Scans
<1>4. \A i \in 1..Len(t) : StateAt(s, i) = s[i]
    BY <1>2 DEF StateAt
<1>5. \A i \in 0..Len(t) : StateOk(t, i, StateAt(s, i)) /\ StateAt(s, i) \in LexStates
    BY <1>1 DEF Scans, StateOk
<1>6. InCode.is = "code"
    BY DEF InCode
<1>7. \A i \in 1..Len(t) : s[i].is = "code" <=> s[i] = InCode
  <2> TAKE i \in 1..Len(t)
  <2>1. StateOk(t, i, s[i])
      BY <1>2, <1>4, <1>5
  <2> QED BY <1>6, <2>1 DEF StateOk
<1>8. EndState(s) = StateAt(s, Len(t))
    BY <1>2, EndStateIs
<1>9. CodeOf(lexer, t) = {i \in 1..Len(t) : StateAt(s, i) = InCode}
    BY <1>4, <1>7 DEF CodeOf, CodeIn
<1> QED BY <1>2, <1>3, <1>4, <1>5, <1>7, <1>8, <1>9 DEF StateAt

\* The symbols that change what the one before or after them means.
Telling == Words \cup {"$", "'", "dq", "-", "*", "/"}

\* Two places look the same to a scan in state s.
Alike(u, i, t, j, s) ==
    /\ u[i] = t[j]
    /\ \A b \in {"'", "dq", "-", "*", "/"} : i < Len(u) /\ u[i + 1] = b <=> j < Len(t) /\ t[j + 1] = b
    /\ s.escapes /\ u[i] = "\\" => (i < Len(u) <=> j < Len(t))
    /\ BackslashEscapes(u, i) <=> BackslashEscapes(t, j)
    /\ Ready(s) => DollarTag(u, i) = DollarTag(t, j)
    /\ s.mode = "dollar" => (DollarEnds(u, i, s.tag) <=> DollarEnds(t, j, s.tag))

\* Then it takes the same step.
LEMMA SameStep ==
    ASSUME NEW lexer \in Lexers, NEW u, NEW i, NEW t, NEW j, NEW s \in LexStates, NEW z \in LexStates,
           Alike(u, i, t, j, s), s = z \/ (Ready(s) /\ Ready(z))
    PROVE  LexStep(lexer, u, i, s) = LexStep(lexer, t, j, z)
<1>1. ASSUME NEW a, NEW b \in {"'", "dq", "-", "*", "/"} PROVE Pair(u, i, a, b) <=> Pair(t, j, a, b)
    BY DEF Alike, Pair
<1>2. ASSUME Ready(s) PROVE StepInCode(lexer, u, i) = StepInCode(lexer, t, j)
  <2>1. u[i] = t[j] /\ (BackslashEscapes(u, i) <=> BackslashEscapes(t, j)) /\ DollarTag(u, i) = DollarTag(t, j)
      BY <1>2 DEF Alike
  <2>2. (Pair(u, i, "-", "-") <=> Pair(t, j, "-", "-")) /\ (Pair(u, i, "/", "*") <=> Pair(t, j, "/", "*"))
      BY <1>1
  <2>3. [InCode EXCEPT !.is = "quote", !.mode = "single", !.escapes = lexer.escape /\ BackslashEscapes(u, i)]
        = [InCode EXCEPT !.is = "quote", !.mode = "single", !.escapes = lexer.escape /\ BackslashEscapes(t, j)]
    <3>1. (lexer.escape /\ BackslashEscapes(u, i)) = (lexer.escape /\ BackslashEscapes(t, j))
        BY <2>1
    <3> QED BY <3>1, Zenon
  <2> QED BY <2>1, <2>2, <2>3 DEF StepInCode
<1>3. CASE Ready(s) /\ Ready(z)
    BY <1>2, <1>3 DEF LexStep, Ready
<1>4. CASE s = z /\ ~Ready(s)
  <2>1. CASE s.skip > 0
      BY <1>4, <2>1 DEF LexStep
  <2>2. CASE s.skip = 0 /\ s.mode \in {"single", "double"}
    <3>1. ASSUME NEW q \in {"'", "dq"} PROVE StepInQuote(u, i, s, q) = StepInQuote(t, j, s, q)
      <4>1. Pair(u, i, q, q) <=> Pair(t, j, q, q)
          BY <1>1
      <4> QED BY <4>1 DEF StepInQuote, Alike
    <3> QED BY <1>4, <2>2, <3>1 DEF LexStep
  <2>3. CASE s.skip = 0 /\ s.mode = "line"
      BY <1>4, <2>3 DEF LexStep, Alike
  <2>4. CASE s.skip = 0 /\ s.mode = "block"
    <3>1. StepInBlock(lexer, u, i, s) = StepInBlock(lexer, t, j, s)
      <4>1. (Pair(u, i, "*", "/") <=> Pair(t, j, "*", "/")) /\ (Pair(u, i, "/", "*") <=> Pair(t, j, "/", "*"))
          BY <1>1
      <4> QED BY <4>1 DEF StepInBlock
    <3> QED BY <1>4, <2>4, <3>1 DEF LexStep
  <2>5. CASE s.skip = 0 /\ s.mode = "dollar"
      BY <1>4, <2>5 DEF LexStep, Alike
  <2> QED BY <1>4, <2>1, <2>2, <2>3, <2>4, <2>5 DEF Ready, LexStates
<1> QED BY <1>3, <1>4

\* From i to e, n symbols of a text, and what they are.
Span(t, i, e, n) == i \in Nat \ {0} /\ e \in Nat /\ e <= Len(t) /\ i <= e + 1 /\ n = e - i + 1
PartOf(a, t, i, n) == a \in Texts /\ Len(a) = n /\ \A k \in 1..n : a[k] = t[i + k - 1]

\* SubSeq gives them.
LEMMA SubTextIs ==
    ASSUME NEW t \in Texts, NEW i, NEW e, NEW n, Span(t, i, e, n)
    PROVE  PartOf(SubSeq(t, i, e), t, i, n) /\ n \in Nat
<1> DEFINE a == SubSeq(t, i, e)
<1>1. t \in Seq(STRING) /\ Len(t) \in Nat /\ n \in Nat /\ i \in Int /\ e \in Int
    BY DEF Texts, Span
<1>2. \A k \in i..e : k \in 1..Len(t)
    BY <1>1 DEF Span
<1>3. \A k \in i..e : t[k] \in STRING
    BY <1>1, <1>2
<1>4. a \in Seq(STRING) /\ Len(a) = (IF i <= e THEN e - i + 1 ELSE 0) /\ \A k \in 1..e - i + 1 : a[k] = t[i + k - 1]
    BY <1>1, <1>3, SubSeqProperties
<1>5. n = e - i + 1 /\ Len(a) = n
    BY <1>1, <1>4 DEF Span
<1> HIDE DEF a
<1>6. PartOf(a, t, i, n)
    BY <1>4, <1>5 DEF PartOf, Texts
<1> QED BY <1>1, <1>6 DEF a

\* One text is part of another, from symbol d + 1 on, and what is around it tells nothing.
Embeds(u, t, d) ==
    /\ u \in Texts /\ t \in Texts /\ d \in Nat /\ Len(u) + d <= Len(t)
    /\ \A i \in 1..Len(u) : u[i] = t[i + d]
    /\ d > 0 => t[d] \notin Telling
    /\ Len(u) + d < Len(t) => t[Len(u) + d + 1] \notin Telling

\* A place of the part and the place of the whole that it is.
LEMMA EmbeddedPlace ==
    ASSUME NEW u, NEW t, NEW d, Embeds(u, t, d), NEW i \in 1..Len(u), NEW j, j = i + d
    PROVE  /\ Len(u) \in Nat /\ Len(t) \in Nat /\ d \in Nat /\ j \in 1..Len(t) /\ u[i] = t[j]
           /\ i < Len(u) => j < Len(t) /\ t[j + 1] = u[i + 1]
           /\ i = Len(u) /\ j < Len(t) => t[j + 1] \notin Telling
<1>1. Len(u) \in Nat /\ Len(t) \in Nat /\ d \in Nat /\ Len(u) + d <= Len(t)
    BY DEF Embeds, Texts
<1>2. j \in 1..Len(t) /\ u[i] = t[j]
    BY <1>1 DEF Embeds
<1>3. ASSUME i < Len(u) PROVE j < Len(t) /\ t[j + 1] = u[i + 1]
  <2>1. i + 1 \in 1..Len(u) /\ (i + 1) + d = j + 1 /\ j < Len(t)
      BY <1>1, <1>3
  <2> QED BY <2>1 DEF Embeds
<1>4. ASSUME i = Len(u), j < Len(t) PROVE t[j + 1] \notin Telling
    BY <1>1, <1>4 DEF Embeds
<1> QED BY <1>1, <1>2, <1>3, <1>4

\* A dollar quote opens in the part where it does in the whole.
LEMMA EmbeddedTag ==
    ASSUME NEW u, NEW t, NEW d, Embeds(u, t, d), NEW i \in 1..Len(u), NEW j, j = i + d
    PROVE  DollarTag(u, i) = DollarTag(t, j)
<1>1. /\ Len(u) \in Nat /\ Len(t) \in Nat /\ d \in Nat /\ j \in 1..Len(t) /\ u[i] = t[j]
      /\ u \in Texts /\ t \in Texts /\ Len(u) + d <= Len(t) /\ \A k \in 1..Len(u) : u[k] = t[k + d]
    BY EmbeddedPlace DEF Embeds
<1>0. Len(u) \in Nat /\ Len(t) \in Nat /\ d \in Nat /\ Len(u) + d <= Len(t) /\ i \in Nat /\ j = i + d
    BY <1>1
<1>2. ASSUME NEW e, EndsTag(u, i, e) PROVE EndsTag(t, j, e + d) /\ DollarTag(u, i) = SubSeq(t, j, e + d)
  <2>1. e \in i + 1..Len(u) /\ u[i] = "$" /\ u[e] = "$" /\ \A k \in i + 1..e - 1 : u[k] \in Words
      BY <1>2 DEF EndsTag
  <2>0. e \in Int /\ i < e /\ e <= Len(u) /\ 1 <= i /\ i \in Int
      BY <1>0, <2>1
  <2>a. e + d \in j + 1..Len(t) /\ e \in 1..Len(u)
      BY <1>0, <2>0
  <2>2. e + d \in j + 1..Len(t) /\ t[e + d] = "$" /\ t[j] = "$"
      BY <1>1, <2>1, <2>a
  <2>3. ASSUME NEW k \in j + 1..(e + d) - 1 PROVE t[k] \in Words
    <3> DEFINE m == k - d
    <3>1. m \in i + 1..e - 1 /\ m \in 1..Len(u) /\ m + d = k
        BY <1>0, <2>0
    <3> HIDE DEF m
    <3>2. u[m] = t[k]
        BY <1>1, <3>1
    <3> QED BY <2>1, <3>1, <3>2
  <2>4. EndsTag(t, j, e + d)
      BY <2>2, <2>3 DEF EndsTag
  <2>5. DollarTag(u, i) = SubSeq(u, i, e)
      BY <1>1, <1>2, DollarTagIs
  <2>6. SubSeq(u, i, e) = SubSeq(t, j, e + d)
    <3> DEFINE a == SubSeq(u, i, e)
               b == SubSeq(t, j, e + d)
               n == e - i + 1
    <3>1. PartOf(a, u, i, n) /\ n \in Nat
      <4>1. Span(u, i, e, n)
          BY <1>0, <2>0 DEF Span
      <4> QED BY <1>1, <4>1, SubTextIs
    <3>2. PartOf(b, t, j, n)
      <4>1. Span(t, j, e + d, n)
          BY <1>0, <2>0 DEF Span
      <4> QED BY <1>1, <4>1, SubTextIs
    <3>3. ASSUME NEW k \in 1..n PROVE u[i + k - 1] = t[j + k - 1]
      <4> DEFINE m == i + k - 1
      <4>1. m \in 1..Len(u) /\ m + d = j + k - 1
          BY <1>0, <2>0
      <4> HIDE DEF m
      <4>2. u[m] = t[m + d]
          BY <1>1, <4>1
      <4> QED BY <4>1, <4>2 DEF m
    <3> HIDE DEF a, b, n
    <3>4. \A k \in 1..n : a[k] = b[k]
        BY <3>1, <3>2, <3>3 DEF PartOf
    <3>5. a = b
        BY <3>1, <3>2, <3>4, SeqEqual DEF PartOf, Texts
    <3> QED BY <3>5 DEF a, b
  <2> QED BY <2>4, <2>5, <2>6
<1>3. ASSUME NEW f, EndsTag(t, j, f) PROVE EndsTag(u, i, f - d)
  <2>1. f \in j + 1..Len(t) /\ t[j] = "$" /\ t[f] = "$" /\ \A k \in j + 1..f - 1 : t[k] \in Words
      BY <1>3 DEF EndsTag
  <2>0. f \in Int /\ j < f /\ f <= Len(t)
      BY <1>0, <2>1
  <2>2. CASE f <= Len(u) + d
    <3> DEFINE e == f - d
    <3>1. e \in i + 1..Len(u) /\ e + d = f /\ e \in 1..Len(u) /\ e \in Int
        BY <1>0, <2>0, <2>2
    <3> HIDE DEF e
    <3>2. u[e] = "$" /\ u[i] = "$"
        BY <1>1, <2>1, <3>1
    <3>3. ASSUME NEW k \in i + 1..e - 1 PROVE u[k] \in Words
      <4>1. k + d \in j + 1..f - 1 /\ k \in 1..Len(u)
          BY <1>0, <2>0, <3>1
      <4>2. u[k] = t[k + d]
          BY <1>1, <4>1
      <4> QED BY <2>1, <4>1, <4>2
    <3>4. EndsTag(u, i, e)
        BY <3>1, <3>2, <3>3 DEF EndsTag
    <3> QED BY <3>4 DEF e
  <2>3. CASE f > Len(u) + d
    <3> DEFINE k == Len(u) + d + 1
    <3>1. (k = f \/ k \in j + 1..f - 1) /\ Len(u) + d < Len(t)
        BY <1>0, <2>0, <2>3
    <3>4. t[k] \notin Telling
        BY <3>1 DEF Embeds
    <3> HIDE DEF k
    <3>2. t[k] \in Words \cup {"$"}
        BY <2>1, <3>1
    <3> QED BY <3>2, <3>4 DEF Telling
  <2> QED BY <1>0, <2>0, <2>2, <2>3
<1>4. CASE \E e : EndsTag(u, i, e)
    BY <1>1, <1>2, <1>4, DollarTagIs
<1>5. CASE ~\E e : EndsTag(u, i, e)
    BY <1>1, <1>3, <1>5, DollarTagIs
<1> QED BY <1>4, <1>5

\* ... and ends where it does.
LEMMA EmbeddedEnd ==
    ASSUME NEW u, NEW t, NEW d, Embeds(u, t, d), NEW i \in 1..Len(u), NEW j, j = i + d,
           NEW tag, IsTag(tag)
    PROVE  DollarEnds(u, i, tag) <=> DollarEnds(t, j, tag)
<1> DEFINE n == Len(tag)
           a == SubSeq(u, i, i + n - 1)
           b == SubSeq(t, j, j + n - 1)
<1>1. /\ Len(u) \in Nat /\ Len(t) \in Nat /\ d \in Nat /\ j \in 1..Len(t) /\ u[i] = t[j]
      /\ u \in Texts /\ t \in Texts /\ Len(u) + d <= Len(t) /\ \A k \in 1..Len(u) : u[k] = t[k + d]
    BY EmbeddedPlace DEF Embeds
<1>0. Len(u) \in Nat /\ Len(t) \in Nat /\ d \in Nat /\ Len(u) + d <= Len(t) /\ i \in Nat \ {0} /\ j = i + d
    BY <1>1
<1>2. n \in Nat /\ n >= 2 /\ tag \in Seq(STRING)
    BY DEF IsTag
<1>3. \A k \in 1..n : tag[k] \in Telling
  <2> TAKE k \in 1..n
  <2>1. k = 1 \/ k = n \/ k \in 2..n - 1
      BY <1>2
  <2> QED BY <2>1 DEF IsTag, Telling
<1>4. DollarEnds(u, i, tag) <=> i + n - 1 <= Len(u) /\ a = tag
    BY DEF DollarEnds
<1>5. DollarEnds(t, j, tag) <=> j + n - 1 <= Len(t) /\ b = tag
    BY DEF DollarEnds
<1>6. CASE i + n - 1 <= Len(u)
  <2>1. j + n - 1 <= Len(t)
      BY <1>0, <1>2, <1>6
  <2>2. PartOf(a, u, i, n)
    <3>1. Span(u, i, i + n - 1, n)
      <4> HIDE DEF n
      <4> QED BY <1>0, <1>2, <1>6 DEF Span
    <3> QED BY <1>1, <3>1, SubTextIs
  <2>3. PartOf(b, t, j, n)
    <3>1. Span(t, j, j + n - 1, n)
      <4> HIDE DEF n
      <4> QED BY <1>0, <1>2, <2>1 DEF Span
    <3> QED BY <1>1, <3>1, SubTextIs
  <2>4. ASSUME NEW k \in 1..n PROVE u[i + k - 1] = t[j + k - 1]
    <3> DEFINE m == i + k - 1
    <3>1. m \in 1..Len(u) /\ m + d = j + k - 1
        BY <1>0, <1>2, <1>6
    <3> HIDE DEF m
    <3>2. u[m] = t[m + d]
        BY <1>1, <3>1
    <3> QED BY <3>1, <3>2 DEF m
  <2> HIDE DEF a, b, n
  <2>6. \A k \in 1..n : a[k] = b[k]
      BY <2>2, <2>3, <2>4 DEF PartOf
  <2>5. a = b
      BY <1>2, <2>2, <2>3, <2>6, SeqEqual DEF PartOf, Texts
  <2> QED BY <1>4, <1>5, <1>6, <2>1, <2>5
<1>7. CASE i + n - 1 > Len(u)
  <2>1. ~DollarEnds(u, i, tag)
      BY <1>1, <1>2, <1>4, <1>7
  <2>2. ASSUME DollarEnds(t, j, tag) PROVE FALSE
    <3> DEFINE k == Len(u) + d + 1 - j + 1
    <3>1. j + n - 1 <= Len(t) /\ b = tag
        BY <1>5, <2>2
    <3>2. k \in 1..n /\ j + k - 1 = Len(u) + d + 1
        BY <1>0, <1>2, <1>7, <3>1
    <3>3. PartOf(b, t, j, n)
      <4>1. Span(t, j, j + n - 1, n)
        <5> HIDE DEF n
        <5> QED BY <1>0, <1>2, <3>1 DEF Span
      <4> QED BY <1>1, <4>1, SubTextIs
    <3>4. tag[k] = t[Len(u) + d + 1]
      <4> HIDE DEF n, b, k
      <4> QED BY <3>1, <3>2, <3>3 DEF PartOf
    <3>5. tag[k] \in Telling
        BY <1>3, <3>2
    <3>6. Len(u) + d < Len(t)
        BY <1>0, <1>2, <1>7, <3>1
    <3>7. t[Len(u) + d + 1] \notin Telling
        BY <3>6 DEF Embeds
    <3> QED BY <3>4, <3>5, <3>7
  <2> QED BY <2>1, <2>2
<1> QED BY <1>0, <1>2, <1>6, <1>7

\* The part is scanned as the whole is. At its end only one thing may differ: what a backslash
\* there escapes, in a string.
LEMMA EmbeddedScan ==
    ASSUME NEW lexer \in Lexers, NEW u, NEW t, NEW d, Embeds(u, t, d),
           NEW su, su = Scan(lexer, u), NEW st, st = Scan(lexer, t), Ready(StateAt(st, d))
    PROVE  /\ \A i \in 1..Len(u) : i < Len(u) => StateAt(su, i) = StateAt(st, i + d)
           /\ \A i \in 1..Len(u) : /\ StateAt(su, i).is = StateAt(st, i + d).is
                                   /\ StateAt(su, i).mode = StateAt(st, i + d).mode
                                   /\ StateAt(su, i).mode # "single" => StateAt(su, i) = StateAt(st, i + d)
           /\ Len(u) + d = Len(t) => \A i \in 1..Len(u) : StateAt(su, i) = StateAt(st, i + d)
<1> DEFINE m == Len(u)
           InString(s, z) == s.mode = "single" /\ z.mode = "single" /\ s.is = "quote" /\ z.is = "quote"
           Joint(i) == \/ i = 0 \/ StateAt(su, i) = StateAt(st, i + d)
                       \/ i = m /\ m + d # Len(t) /\ InString(StateAt(su, i), StateAt(st, i + d))
           Good == {i \in 0..m : Joint(i)}
<1>1. u \in Texts /\ t \in Texts /\ m \in Nat /\ Len(t) \in Nat /\ d \in Nat /\ m + d <= Len(t)
    BY DEF Embeds, Texts
<1>2. ASSUME NEW i \in 1..m, i - 1 \in Good PROVE i \in Good
  <2> DEFINE j == i + d
             s == StateAt(su, i - 1)
             z == StateAt(st, j - 1)
             r == StateAt(su, i)
             q == StateAt(st, j)
  <2>1. i - 1 < m /\ j \in 1..Len(t) /\ j \in Int /\ i - 1 \in 0..m /\ j - 1 \in 0..Len(t) /\ j - 1 = (i - 1) + d
      BY <1>1
  <2>2. s = z \/ (Ready(s) /\ Ready(z))
    <3>1. CASE i - 1 = 0
      <4>1. s = InCode /\ z = StateAt(st, d)
          BY <1>1, <3>1 DEF StateAt
      <4> QED BY <4>1 DEF Ready, InCode
    <3>2. CASE i - 1 # 0
      <4>1. StateAt(su, i - 1) = StateAt(st, (i - 1) + d)
        <5> HIDE DEF m
        <5> QED BY <1>2, <2>1, <3>2
      <4> QED BY <2>1, <4>1
    <3> QED BY <3>1, <3>2
  <2>3. s \in LexStates /\ z \in LexStates /\ StateOk(u, i - 1, s)
      BY <1>1, <2>1, ScanAt
  <2>4. r = LexStep(lexer, u, i, s) /\ q = LexStep(lexer, t, j, z)
      BY <1>1, <2>1, ScanAt
  <2>5. /\ u[i] = t[j]
        /\ i < m => j < Len(t) /\ t[j + 1] = u[i + 1]
        /\ i = m /\ j < Len(t) => t[j + 1] \notin Telling
      BY EmbeddedPlace
  <2>6. DollarTag(u, i) = DollarTag(t, j)
      BY EmbeddedTag
  <2>7. s.mode = "dollar" => (DollarEnds(u, i, s.tag) <=> DollarEnds(t, j, s.tag))
      BY <2>3, EmbeddedEnd DEF StateOk
  <2>8. BackslashEscapes(u, i) <=> BackslashEscapes(t, j)
    <3>1. \A k \in 1..m : u[k] = t[k + d]
        BY DEF Embeds
    <3>2. "e" \in Telling /\ Words \cup {"$"} \subseteq Telling
        BY DEF Telling, Words, Letters, Digits
    <3>3. CASE i = 1
      <4>1. d > 0 => t[d] # "e"
          BY <3>2 DEF Embeds
      <4>2. j - 1 = d /\ (j > 1 <=> d > 0)
          BY <1>1, <3>3
      <4> QED BY <3>3, <4>1, <4>2 DEF BackslashEscapes
    <3>4. CASE i = 2
      <4>1. d > 0 => t[d] \notin Words \cup {"$"}
          BY <3>2 DEF Embeds
      <4>2. j - 2 = d /\ (j > 2 <=> d > 0) /\ j > 1 /\ j - 1 = 1 + d /\ i - 1 = 1 /\ 1 \in 1..m
          BY <1>1, <3>4
      <4>3. u[1] = t[1 + d]
          BY <3>1, <4>2
      <4> QED BY <3>4, <4>1, <4>2, <4>3 DEF BackslashEscapes
    <3>5. CASE i > 2
      <4>1. j > 2 /\ i - 1 \in 1..m /\ i - 2 \in 1..m /\ (i - 1) + d = j - 1 /\ (i - 2) + d = j - 2
          BY <1>1, <3>5
      <4>2. u[i - 1] = t[j - 1] /\ u[i - 2] = t[j - 2]
          BY <3>1, <4>1
      <4>3. j > 1 /\ i > 1
          BY <1>1, <3>5, <4>1
      <4> HIDE DEF j
      <4> QED BY <3>5, <4>1, <4>2, <4>3 DEF BackslashEscapes
    <3> QED BY <3>3, <3>4, <3>5
  <2>9. ASSUME NEW b \in {"'", "dq", "-", "*", "/"}
        PROVE  i < m /\ u[i + 1] = b <=> j < Len(t) /\ t[j + 1] = b
      BY <1>1, <2>5 DEF Telling
  <2> HIDE DEF j, s, z
  <2>10. CASE s.escapes /\ u[i] = "\\" => (i < m <=> j < Len(t))
    <3>1. Alike(u, i, t, j, s)
        BY <2>5, <2>6, <2>7, <2>8, <2>9, <2>10 DEF Alike
    <3>2. r = q
        BY <2>2, <2>3, <2>4, <3>1, SameStep
    <3> QED BY <3>2 DEF j
  <2>11. CASE s.escapes /\ u[i] = "\\" /\ ~(i < m <=> j < Len(t))
    <3>1. i = m /\ j < Len(t) /\ m + d # Len(t)
        BY <1>1, <2>5, <2>11 DEF j
    <3>2. s.mode = "single" /\ s.is = "quote"
        BY <2>3, <2>11 DEF StateOk
    <3>3. s = z
        BY <2>2, <3>2 DEF Ready
    <3>4. s.skip \in Nat
        BY <2>3 DEF LexStates
    <3>5. CASE s.skip > 0
      <4>1. r = [s EXCEPT !.skip = @ - 1] /\ q = [s EXCEPT !.skip = @ - 1]
          BY <2>4, <3>3, <3>5 DEF LexStep
      <4> QED BY <4>1 DEF j
    <3>6. CASE s.skip = 0
      <4>1. r = StepInQuote(u, i, s, "'") /\ q = StepInQuote(t, j, s, "'")
          BY <2>4, <3>2, <3>3, <3>6 DEF LexStep
      <4>2. r = s
          BY <2>11, <3>1, <4>1 DEF StepInQuote, Pair
      <4>3. q = [s EXCEPT !.skip = 1]
          BY <2>5, <2>11, <3>1, <4>1 DEF StepInQuote, Pair
      <4>4. r.mode = "single" /\ r.is = "quote" /\ q.mode = "single" /\ q.is = "quote"
          BY <2>3, <3>2, <4>2, <4>3 DEF LexStates
      <4> QED BY <3>1, <4>4 DEF j
    <3> QED BY <3>4, <3>5, <3>6
  <2> QED BY <2>10, <2>11
<1>3. 0..m \subseteq Good
  <2>1. 0 \in Good
      BY <1>1
  <2> HIDE DEF Good, m
  <2>2. \A i \in 1..m : i - 1 \in Good => i \in Good
      BY <1>2
  <2> QED BY <1>1, <2>1, <2>2, UpTo
<1>4. ASSUME NEW i \in 1..m
      PROVE  \/ StateAt(su, i) = StateAt(st, i + d)
             \/ i = m /\ m + d # Len(t) /\ InString(StateAt(su, i), StateAt(st, i + d))
  <2>1. i \in Good /\ i # 0
      BY <1>1, <1>3
  <2> HIDE DEF m, InString
  <2> QED BY <2>1
<1> HIDE DEF Good, Joint
<1> QED BY <1>1, <1>4

-----------------------------------------------------------------------------
(* Counting parentheses                                                      *)

\* What Count counts, place by place.
Counts(s, t, code) ==
    /\ \A i \in Nat : Count(s, t, code, i) \in Nat
    /\ Count(s, t, code, 1) = 0
    /\ \A i \in Nat : Count(s, t, code, i + 1) = Count(s, t, code, i) + (IF i \in code /\ t[i] = s THEN 1 ELSE 0)

\* Count does that.
LEMMA CountIs ==
    ASSUME NEW n \in Nat, NEW code \in SUBSET (1..n), NEW t, NEW s
    PROVE  Counts(s, t, code)
<1> DEFINE Earlier(i) == {j \in code : j < i /\ t[j] = s}
<1>0. \A j \in code : j \in Nat /\ 1 <= j
    OBVIOUS
<1>1. ASSUME NEW i \in Nat PROVE IsFiniteSet(Earlier(i)) /\ Cardinality(Earlier(i)) \in Nat
  <2>1. IsFiniteSet(1..n)
      BY FS_Interval
  <2>2. Earlier(i) \in SUBSET (1..n)
      OBVIOUS
  <2>3. IsFiniteSet(Earlier(i))
      BY <2>1, <2>2, FS_Subset
  <2> HIDE DEF Earlier
  <2> QED BY <2>3, FS_CardinalityType
<1>2. Cardinality(Earlier(1)) = 0
  <2>0. \A j \in code : ~(j < 1 /\ t[j] = s)
      BY <1>0
  <2>1. Earlier(1) = {}
      BY <2>0, Zenon
  <2> HIDE DEF Earlier
  <2> QED BY <2>1, FS_EmptySet
<1>3. ASSUME NEW i \in Nat
      PROVE  Cardinality(Earlier(i + 1)) = Cardinality(Earlier(i)) + (IF i \in code /\ t[i] = s THEN 1 ELSE 0)
  <2> DEFINE A == Earlier(i)
             B == Earlier(i + 1)
  <2>1. CASE i \in code /\ t[i] = s
    <3>0. \A j \in code : j < i + 1 /\ t[j] = s <=> (j < i /\ t[j] = s) \/ j = i
        BY <1>0, <2>1
    <3>a. ~(i < i)
        OBVIOUS
    <3>1. B = A \cup {i} /\ i \notin A
        BY <2>1, <3>0, <3>a, Zenon
    <3>2. IsFiniteSet(A) /\ Cardinality(A) \in Nat
        BY <1>1
    <3> HIDE DEF A, B
    <3>3. Cardinality(B) = Cardinality(A) + 1
        BY <3>1, <3>2, FS_AddElement
    <3> QED BY <2>1, <3>3 DEF A, B
  <2>2. CASE ~(i \in code /\ t[i] = s)
    <3>0. \A j \in code : j < i + 1 /\ t[j] = s <=> j < i /\ t[j] = s
        BY <1>0, <2>2
    <3>1. A = B
        BY <3>0, Zenon
    <3>2. Cardinality(A) \in Nat
        BY <1>1
    <3> HIDE DEF A, B
    <3>3. Cardinality(B) = Cardinality(A) + 0
        BY <3>1, <3>2
    <3> QED BY <2>2, <3>3 DEF A, B
  <2> QED BY <2>1, <2>2
<1>4. \A i \in Nat : Count(s, t, code, i) = Cardinality(Earlier(i))
    BY DEF Count
<1> HIDE DEF Earlier
<1>5. \A i \in Nat : i + 1 \in Nat /\ 1 \in Nat
    OBVIOUS
<1> QED BY <1>1, <1>2, <1>3, <1>4, <1>5 DEF Counts

\* There is none from a place on, before another.
NoneIn(s, t, code, a, b) ==
    code \subseteq Nat /\ a \in Nat /\ b \in Nat /\ a <= b /\ \A i \in code : a <= i /\ i < b => t[i] # s

\* Then the count stays.
LEMMA CountFlat ==
    ASSUME NEW code, NEW t, NEW s, NEW a, NEW b, NoneIn(s, t, code, a, b)
    PROVE  Count(s, t, code, a) = Count(s, t, code, b)
<1>0. code \subseteq Nat /\ a \in Nat /\ b \in Nat /\ a <= b /\ \A i \in code : a <= i /\ i < b => t[i] # s
    BY DEF NoneIn
<1>1. ASSUME NEW j \in code PROVE j < a /\ t[j] = s <=> j < b /\ t[j] = s
  <2>1. j \in Nat
      BY <1>0
  <2> QED BY <1>0, <2>1
<1>2. {j \in code : j < a /\ t[j] = s} = {j \in code : j < b /\ t[j] = s}
    BY <1>1
<1> QED BY <1>2 DEF Count

\* Two texts with the same symbols and the same code, d symbols apart, for k symbols.
Moved(u, cu, t, ct, d, k) ==
    /\ d \in Nat /\ k \in Nat
    /\ \A i \in 1..k : u[i] = t[i + d] /\ (i \in cu <=> i + d \in ct)

\* From there on the counts go the same way.
LEMMA CountMoved ==
    ASSUME NEW s, NEW u, NEW cu, NEW t, NEW ct, NEW d, NEW k, Moved(u, cu, t, ct, d, k),
           Counts(s, u, cu), Counts(s, t, ct)
    PROVE  \A i \in 1..k + 1 : Count(s, t, ct, i + d) = Count(s, t, ct, d + 1) + Count(s, u, cu, i)
<1> DEFINE Good == {i \in 0..k : Count(s, t, ct, (i + 1) + d) = Count(s, t, ct, d + 1) + Count(s, u, cu, i + 1)}
<1>1. d \in Nat /\ k \in Nat
    BY DEF Moved
<1>2. 0 \in Good
  <2>1. Count(s, t, ct, d + 1) \in Nat /\ Count(s, u, cu, 0 + 1) = 0
      BY <1>1 DEF Counts
  <2>2. (0 + 1) + d = d + 1
      BY <1>1
  <2> QED BY <1>1, <2>1, <2>2
<1>3. ASSUME NEW i \in 1..k, i - 1 \in Good PROVE i \in Good
  <2> DEFINE a == Count(s, t, ct, d + 1)
             b == Count(s, u, cu, i)
             j == i + d
             c == Count(s, t, ct, j)
             x == IF i \in cu /\ u[i] = s THEN 1 ELSE 0
  <2>1. i \in Nat /\ j \in Nat /\ (i - 1) + 1 = i /\ (i + 1) + d = j + 1 /\ d + 1 \in Nat
      BY <1>1
  <2>2. a \in Nat /\ b \in Nat /\ c \in Nat
      BY <2>1 DEF Counts
  <2>3. c = a + b
    <3>1. Count(s, t, ct, ((i - 1) + 1) + d) = a + Count(s, u, cu, (i - 1) + 1)
        BY <1>3
    <3> QED BY <2>1, <3>1
  <2>4. Count(s, u, cu, i + 1) = b + x
      BY <2>1 DEF Counts
  <2>5. Count(s, t, ct, j + 1) = c + x
    <3>1. Count(s, t, ct, j + 1) = c + (IF j \in ct /\ t[j] = s THEN 1 ELSE 0)
        BY <2>1 DEF Counts
    <3>2. u[i] = t[j] /\ (i \in cu <=> j \in ct)
        BY DEF Moved
    <3> QED BY <3>1, <3>2
  <2>6. x \in Nat
      OBVIOUS
  <2> HIDE DEF a, b, c, j, x
  <2>7. Count(s, t, ct, (i + 1) + d) = a + Count(s, u, cu, i + 1)
      BY <2>1, <2>2, <2>3, <2>4, <2>5, <2>6
  <2>8. i \in 0..k
      BY <1>1
  <2> QED BY <2>7, <2>8 DEF a
<1>4. 0..k \subseteq Good
  <2> HIDE DEF Good
  <2>1. \A i \in 1..k : i - 1 \in Good => i \in Good
      BY <1>3
  <2> QED BY <1>1, <1>2, <2>1, UpTo
<1>5. ASSUME NEW i \in 1..k + 1
      PROVE  Count(s, t, ct, i + d) = Count(s, t, ct, d + 1) + Count(s, u, cu, i)
  <2>1. i - 1 \in 0..k /\ (i - 1) + 1 = i
      BY <1>1
  <2>2. i - 1 \in Good
      BY <1>4, <2>1
  <2>3. Count(s, t, ct, ((i - 1) + 1) + d) = Count(s, t, ct, d + 1) + Count(s, u, cu, (i - 1) + 1)
      BY <2>2
  <2> QED BY <2>1, <2>3
<1> QED BY <1>5

\* One step of paren_depth, and the depths after each symbol.
DepthStep(t, code, n, before) ==
    CASE n \in code /\ t[n] = "(" -> before + 1
      [] n \in code /\ t[n] = ")" /\ before > 0 -> before - 1
      [] OTHER -> before
Depths(t, code, n, f) == f = [k \in 0..n |-> IF k = 0 THEN 0 ELSE DepthStep(t, code, k, f[k - 1])]

\* They exist: SaturatingDepth is the depth before a symbol.
LEMMA DepthsIs ==
    ASSUME NEW t \in Texts, NEW code, NEW i
    PROVE  \E f : Depths(t, code, Len(t), f) /\ SaturatingDepth(t, code, i) = f[i - 1]
<1> DEFINE N == Len(t)
           Good == {n \in 0..N : \E f : Depths(t, code, n, f)}
<1>1. N \in Nat
    BY DEF Texts
<1>2. 0 \in Good
  <2> DEFINE f == [k \in 0..0 |-> 0]
             g == [k \in 0..0 |-> IF k = 0 THEN 0 ELSE DepthStep(t, code, k, f[k - 1])]
  <2>1. f = g
      OBVIOUS
  <2>2. Depths(t, code, 0, f)
      BY <2>1 DEF Depths
  <2> QED BY <1>1, <2>2
<1>3. ASSUME NEW n \in 1..N, n - 1 \in Good PROVE n \in Good
  <2>1. PICK f : Depths(t, code, n - 1, f)
      BY <1>3
  <2> DEFINE g == [k \in 0..n |-> IF k < n THEN f[k] ELSE DepthStep(t, code, k, f[k - 1])]
             h == [k \in 0..n |-> IF k = 0 THEN 0 ELSE DepthStep(t, code, k, g[k - 1])]
  <2> HIDE DEF N
  <2>2. ASSUME NEW k \in 0..n PROVE g[k] = h[k]
    <3>1. CASE k = n
      <4>1. g[k - 1] = f[k - 1] /\ k # 0
          BY <3>1
      <4> QED BY <3>1, <4>1
    <3>2. CASE k # n
      <4>1. k \in 0..n - 1 /\ g[k] = f[k] /\ (k # 0 => g[k - 1] = f[k - 1])
          BY <3>2
      <4>2. f[k] = IF k = 0 THEN 0 ELSE DepthStep(t, code, k, f[k - 1])
          BY <2>1, <4>1 DEF Depths
      <4> QED BY <4>1, <4>2
    <3> QED BY <3>1, <3>2
  <2>3. g = h
      BY <2>2
  <2>4. Depths(t, code, n, g)
      BY <2>3 DEF Depths
  <2> QED BY <2>4
<1>4. N \in Good
  <2> HIDE DEF Good, N
  <2>1. \A n \in 1..N : n - 1 \in Good => n \in Good
      BY <1>3
  <2>2. 0..N \subseteq Good
      BY <1>1, <1>2, <2>1, UpTo
  <2> QED BY <1>1, <2>2
<1> DEFINE last == CHOOSE f : Depths(t, code, N, f)
<1>5. Depths(t, code, N, last)
    BY <1>4
<1>6. SaturatingDepth(t, code, i) = last[i - 1]
    BY DEF SaturatingDepth, Depths, DepthStep
<1> QED BY <1>5, <1>6

\* As long as no more parentheses close than open, the depth is how many are open.
LEMMA DepthIsOpen ==
    ASSUME NEW t \in Texts, NEW code \in SUBSET (1..Len(t)), NEW i \in 1..Len(t),
           \A k \in 1..i : Count(")", t, code, k) <= Count("(", t, code, k)
    PROVE  SaturatingDepth(t, code, i) = Count("(", t, code, i) - Count(")", t, code, i)
<1> DEFINE Opened(k) == Count("(", t, code, k)
           Closed(k) == Count(")", t, code, k)
<1>1. Len(t) \in Nat
    BY DEF Texts
<1>2. Counts("(", t, code) /\ Counts(")", t, code)
    BY <1>1, CountIs
<1>3. PICK f : Depths(t, code, Len(t), f) /\ SaturatingDepth(t, code, i) = f[i - 1]
    BY DepthsIs
<1> DEFINE m == i - 1
           Good == {k \in 0..m : f[k] = Opened(k + 1) - Closed(k + 1)}
<1>4. m \in Nat /\ m < Len(t)
    BY <1>1
<1>5. 0 \in Good
  <2>1. f[0] = 0
      BY <1>1, <1>3 DEF Depths
  <2>2. Opened(0 + 1) = 0 /\ Closed(0 + 1) = 0
      BY <1>2 DEF Counts
  <2> QED BY <1>4, <2>1, <2>2
<1>6. ASSUME NEW k \in 1..m, k - 1 \in Good PROVE k \in Good
  <2> DEFINE x == IF k \in code /\ t[k] = "(" THEN 1 ELSE 0
             y == IF k \in code /\ t[k] = ")" THEN 1 ELSE 0
             a == Opened(k)
             b == Closed(k)
             before == f[k - 1]
  <2>1. k \in Nat /\ (k - 1) + 1 = k /\ k \in 0..Len(t) /\ k # 0 /\ k + 1 \in 1..i
      BY <1>1, <1>4
  <2>2. f[k] = DepthStep(t, code, k, before)
      BY <1>3, <2>1 DEF Depths
  <2>3. a \in Nat /\ b \in Nat
      BY <1>2, <2>1 DEF Counts
  <2>4. Opened(k + 1) = a + x /\ Closed(k + 1) = b + y
      BY <1>2, <2>1 DEF Counts
  <2>5. before = a - b
    <3>1. f[k - 1] = Opened((k - 1) + 1) - Closed((k - 1) + 1)
        BY <1>6
    <3> QED BY <2>1, <3>1
  <2>6. Closed(k + 1) <= Opened(k + 1)
      BY <2>1
  <2>7. b + y <= a + x
      BY <2>4, <2>6
  <2> HIDE DEF Opened, Closed, a, b, before
  <2>8. DepthStep(t, code, k, before) = a + x - (b + y)
    <3>1. CASE k \in code /\ t[k] = "("
      <4>1. DepthStep(t, code, k, before) = before + 1 /\ x = 1 /\ y = 0
          BY <3>1 DEF DepthStep
      <4> QED BY <2>3, <2>5, <4>1
    <3>2. CASE k \in code /\ t[k] = ")"
      <4>1. x = 0 /\ y = 1
          BY <3>2
      <4>2. before > 0
          BY <2>3, <2>5, <2>7, <4>1
      <4>3. DepthStep(t, code, k, before) = before - 1
          BY <3>2, <4>2 DEF DepthStep
      <4> QED BY <2>3, <2>5, <4>1, <4>3
    <3>3. CASE ~(k \in code /\ t[k] \in {"(", ")"})
      <4>1. DepthStep(t, code, k, before) = before /\ x = 0 /\ y = 0
          BY <3>3 DEF DepthStep
      <4> QED BY <2>3, <2>5, <4>1
    <3> QED BY <3>1, <3>2, <3>3
  <2>9. f[k] = Opened(k + 1) - Closed(k + 1)
      BY <2>2, <2>3, <2>4, <2>8
  <2> QED BY <2>9
<1>7. 0..m \subseteq Good
  <2> HIDE DEF Good, m
  <2>1. \A k \in 1..m : k - 1 \in Good => k \in Good
      BY <1>6
  <2> QED BY <1>4, <1>5, <2>1, UpTo
<1>8. m \in Good /\ m + 1 = i
    BY <1>4, <1>7
<1> HIDE DEF m
<1>9. f[m] = Opened(m + 1) - Closed(m + 1)
    BY <1>8
<1> QED BY <1>3, <1>8, <1>9 DEF m

-----------------------------------------------------------------------------
(* What canonicalize_sql cuts off                                            *)

\* A set of numbers has a least element.
LEMMA MinIs ==
    ASSUME NEW S, S \subseteq Nat, S # {}
    PROVE  Min(S) \in S /\ \A x \in S : Min(S) <= x
<1> DEFINE Below == {p \in Nat \X Nat : p[1] < p[2]}
<1>1. IsWellFoundedOn(Below, Nat)
    BY NatLessThanWellFounded DEF OpToRel
<1>2. PICK m \in S : \A x \in S : <<x, m>> \notin Below
  <2>1. S \in SUBSET Nat
      OBVIOUS
  <2> HIDE DEF Below
  <2> QED BY <1>1, <2>1, WFMin
<1>3. \A x \in S : m <= x
  <2> TAKE x \in S
  <2>1. x \in Nat /\ m \in Nat /\ <<x, m>> \notin Below
      BY <1>2
  <2> QED BY <2>1
<1>4. Min(S) = CHOOSE x \in S : \A y \in S : x <= y
    BY DEF Min
<1> QED BY <1>3, <1>4

\* One that has a bound has a greatest.
LEMMA MaxIs ==
    ASSUME NEW n \in Nat, NEW S, S \subseteq 1..n, S # {}
    PROVE  Max(S) \in S /\ \A x \in S : x <= Max(S)
<1> DEFINE T == {n - x : x \in S}
<1>0. \A x \in S : x \in 1..n
    OBVIOUS
<1>1. T \subseteq Nat /\ T # {}
  <2>1. \A x \in S : n - x \in Nat
      BY <1>0
  <2> QED BY <2>1
<1>2. PICK m \in T : \A x \in T : m <= x
  <2> HIDE DEF T
  <2> QED BY <1>1, MinIs
<1>3. PICK x \in S : m = n - x
    BY <1>2
<1>4. \A y \in S : x >= y
  <2> TAKE y \in S
  <2>1. n - y \in T /\ x \in 1..n /\ y \in 1..n
      OBVIOUS
  <2>2. m <= n - y
      BY <1>2, <2>1
  <2> QED BY <1>3, <2>1, <2>2
<1>5. Max(S) = CHOOSE y \in S : \A z \in S : y >= z
    BY DEF Max
<1>6. Max(S) \in S /\ \A y \in S : Max(S) >= y
    BY <1>4, <1>5
<1> QED BY <1>6

\* What is left of a text without d blanks before it and symbols of a set after it.
Slice(u, t, d, S) ==
    /\ u \in Texts /\ t \in Texts /\ d \in Nat /\ Len(u) + d <= Len(t)
    /\ \A i \in 1..Len(u) : u[i] = t[i + d]
    /\ \A i \in 1..d : t[i] \in Blanks
    /\ \A i \in 1..Len(t) : i > Len(u) + d => t[i] \in S

\* A slice of a slice.
LEMMA SliceOfSlice ==
    ASSUME NEW u, NEW v, NEW t, NEW d, NEW e, NEW S, Slice(u, t, d, S), Slice(v, u, e, S)
    PROVE  Slice(v, t, d + e, S)
<1>1. /\ u \in Texts /\ t \in Texts /\ v \in Texts /\ d \in Nat /\ e \in Nat
      /\ Len(u) + d <= Len(t) /\ Len(v) + e <= Len(u)
      /\ Len(u) \in Nat /\ Len(t) \in Nat /\ Len(v) \in Nat
    BY DEF Slice, Texts
<1>2. \A i \in 1..Len(u) : u[i] = t[i + d]
    BY DEF Slice
<1>3. ASSUME NEW i \in 1..Len(v) PROVE v[i] = t[i + (d + e)]
  <2>1. v[i] = u[i + e]
      BY DEF Slice
  <2>2. i + e \in 1..Len(u) /\ (i + e) + d = i + (d + e)
      BY <1>1
  <2> QED BY <1>2, <2>1, <2>2
<1>4. ASSUME NEW i \in 1..d + e PROVE t[i] \in Blanks
  <2>1. CASE i <= d
    <3>1. i \in 1..d
        BY <1>1, <2>1
    <3> QED BY <3>1 DEF Slice
  <2>2. CASE i > d
    <3> DEFINE k == i - d
    <3>1. k \in 1..e /\ k \in 1..Len(u) /\ k + d = i
        BY <1>1, <2>2
    <3> HIDE DEF k
    <3>2. u[k] \in Blanks
        BY <3>1 DEF Slice
    <3> QED BY <1>2, <3>1, <3>2
  <2> QED BY <1>1, <2>1, <2>2
<1>5. ASSUME NEW i \in 1..Len(t), i > Len(v) + (d + e) PROVE t[i] \in S
  <2>1. CASE i > Len(u) + d
      BY <2>1 DEF Slice
  <2>2. CASE i <= Len(u) + d
    <3> DEFINE k == i - d
    <3>1. k \in 1..Len(u) /\ k + d = i /\ k > Len(v) + e
        BY <1>1, <1>5, <2>2
    <3> HIDE DEF k
    <3>2. u[k] \in S
        BY <3>1 DEF Slice
    <3> QED BY <1>2, <3>1, <3>2
  <2> QED BY <1>1, <2>1, <2>2
<1>6. d + e \in Nat /\ Len(v) + (d + e) <= Len(t)
    BY <1>1
<1> QED BY <1>1, <1>3, <1>4, <1>5, <1>6 DEF Slice

\* A span of a text is a slice, if it is cut off so.
LEMMA SpanSlice ==
    ASSUME NEW t \in Texts, NEW a, NEW b, NEW n, Span(t, a, b, n), NEW d, d + 1 = a, d \in Nat, NEW S,
           \A i \in 1..d : t[i] \in Blanks,
           \A i \in 1..Len(t) : i > b => t[i] \in S
    PROVE  Slice(SubSeq(t, a, b), t, d, S) /\ Len(SubSeq(t, a, b)) = n
<1> DEFINE u == SubSeq(t, a, b)
<1>1. PartOf(u, t, a, n) /\ n \in Nat
    BY SubTextIs
<1>2. u \in Texts /\ Len(u) = n /\ \A k \in 1..n : u[k] = t[a + k - 1]
    BY <1>1 DEF PartOf
<1> HIDE DEF u
<1>3. Len(t) \in Nat /\ b <= Len(t) /\ b \in Nat /\ n + d = b /\ a \in Nat
    BY <1>1 DEF Span, Texts
<1>4. \A k \in 1..n : u[k] = t[k + d]
  <2> TAKE k \in 1..n
  <2>1. a + k - 1 = k + d
      BY <1>3
  <2> QED BY <1>2, <2>1
<1>5. Slice(u, t, d, S)
    BY <1>2, <1>3, <1>4 DEF Slice
<1> QED BY <1>2, <1>5 DEF u

\* Trim cuts blanks off.
LEMMA TrimIs ==
    ASSUME NEW t \in Texts
    PROVE  \E d : Slice(Trim(t), t, d, Blanks)
<1> DEFINE ink == {i \in 1..Len(t) : t[i] \notin Blanks}
<1>1. Len(t) \in Nat
    BY DEF Texts
<1>2. CASE ink = {}
  <2>1. Trim(t) = <<>>
      BY <1>2 DEF Trim
  <2>2. <<>> \in Texts /\ Len(<<>>) = 0
      BY DEF Texts
  <2>3. \A i \in 1..Len(t) : t[i] \in Blanks
      BY <1>2
  <2>4. Slice(<<>>, t, 0, Blanks)
      BY <1>1, <2>2, <2>3 DEF Slice
  <2> QED BY <2>1, <2>4
<1>3. CASE ink # {}
  <2> DEFINE a == Min(ink)
             b == Max(ink)
  <2>1. Trim(t) = SubSeq(t, a, b)
      BY <1>3 DEF Trim
  <2>2. a \in ink /\ \A i \in ink : a <= i
    <3>1. ink \subseteq Nat
        OBVIOUS
    <3> HIDE DEF ink
    <3> QED BY <1>3, <3>1, MinIs
  <2>3. b \in ink /\ \A i \in ink : i <= b
    <3>1. ink \subseteq 1..Len(t)
        OBVIOUS
    <3> HIDE DEF ink
    <3> QED BY <1>1, <1>3, <3>1, MaxIs
  <2>4. a \in 1..Len(t) /\ b \in 1..Len(t) /\ a <= b
      BY <2>2, <2>3
  <2> HIDE DEF a, b
  <2> DEFINE d == a - 1
             n == b - a + 1
  <2>5. Span(t, a, b, n) /\ d + 1 = a /\ d \in Nat
      BY <1>1, <2>4 DEF Span
  <2>6. ASSUME NEW i \in 1..d PROVE t[i] \in Blanks
    <3>1. i \in 1..Len(t) /\ ~(a <= i)
        BY <1>1, <2>4
    <3> QED BY <2>2, <3>1
  <2>7. ASSUME NEW i \in 1..Len(t), i > b PROVE t[i] \in Blanks
    <3>1. ~(i <= b)
        BY <1>1, <2>4, <2>7
    <3> QED BY <2>3, <3>1
  <2> HIDE DEF d, n
  <2>8. Slice(SubSeq(t, a, b), t, d, Blanks)
      BY <2>5, <2>6, <2>7, SpanSlice
  <2> QED BY <2>1, <2>8
<1> QED BY <1>2, <1>3

\* What canonicalize_sql may cut off at the end.
Cut == Blanks \cup {"semi"}

\* canonicalize_sql cuts off blanks, and semicolons at the end.
LEMMA CanonicalIs ==
    ASSUME NEW t \in Texts
    PROVE  \E d : Slice(Canonical(t), t, d, Cut)
<1> DEFINE u == Trim(t)
           S == Cut
           kept == {i \in 1..Len(u) : u[i] # "semi"}
<1>1. PICK d : Slice(u, t, d, Blanks)
    BY TrimIs
<1>2. Slice(u, t, d, S)
    BY <1>1 DEF Slice, Cut
<1>3. u \in Texts /\ Len(u) \in Nat
    BY <1>1 DEF Slice, Texts
<1>4. CASE kept = {}
  <2>1. Canonical(t) = <<>>
      BY <1>4 DEF Canonical
  <2>2. <<>> \in Texts /\ Len(<<>>) = 0
      BY DEF Texts
  <2>3. \A i \in 1..Len(u) : u[i] \in S
      BY <1>4 DEF Cut
  <2> HIDE DEF u, S
  <2>4. Slice(<<>>, u, 0, S)
      BY <1>3, <2>2, <2>3 DEF Slice
  <2>5. Slice(<<>>, t, d + 0, S)
      BY <1>2, <2>4, SliceOfSlice
  <2> QED BY <2>1, <2>5 DEF S
<1>5. CASE kept # {}
  <2> DEFINE m == Max(kept)
             v == SubSeq(u, 1, m)
  <2>1. Canonical(t) = Trim(v)
      BY <1>5 DEF Canonical
  <2>2. m \in kept /\ \A i \in kept : i <= m
    <3>1. kept \subseteq 1..Len(u)
        OBVIOUS
    <3> HIDE DEF kept, u
    <3> QED BY <1>3, <1>5, <3>1, MaxIs
  <2>3. m \in 1..Len(u)
      BY <2>2
  <2>4. ASSUME NEW i \in 1..Len(u), i > m PROVE u[i] \in S
    <3> HIDE DEF m, u
    <3>1. ~(i <= m)
        BY <1>3, <2>3, <2>4
    <3> QED BY <2>2, <3>1 DEF Cut
  <2> HIDE DEF m, u, kept, S
  <2>5. Span(u, 1, m, m)
      BY <1>3, <2>3 DEF Span
  <2>6. Slice(v, u, 0, S)
    <3>1. \A i \in 1..0 : u[i] \in Blanks
        OBVIOUS
    <3>2. 0 + 1 = 1 /\ 0 \in Nat
        OBVIOUS
    <3> QED BY <1>3, <2>4, <2>5, <3>1, <3>2, SpanSlice
  <2> HIDE DEF v
  <2>7. v \in Texts
      BY <2>6 DEF Slice
  <2>8. PICK e : Slice(Trim(v), v, e, Blanks)
      BY <2>7, TrimIs
  <2>9. Slice(Trim(v), v, e, S)
      BY <2>8 DEF Slice, S, Cut
  <2>10. Slice(Trim(v), u, 0 + e, S)
      BY <2>6, <2>9, SliceOfSlice
  <2>11. Slice(Trim(v), t, d + (0 + e), S)
      BY <1>2, <2>10, SliceOfSlice
  <2> QED BY <2>1, <2>11 DEF S
<1> QED BY <1>4, <1>5

-----------------------------------------------------------------------------
(* One statement                                                             *)

\* The symbols that open nothing.
LEMMA PlainStep ==
    ASSUME NEW lexer, NEW t \in Texts, NEW i \in 1..Len(t), NEW s, Ready(s),
           t[i] \notin {"'", "dq", "-", "/", "$"}
    PROVE  LexStep(lexer, t, i, s) = InCode
<1>1. LexStep(lexer, t, i, s) = StepInCode(lexer, t, i)
    BY DEF LexStep, Ready
<1>2. DollarTag(t, i) = <<>>
    BY DEF DollarTag
<1>3. \A b : ~Pair(t, i, "-", b) /\ ~Pair(t, i, "/", b)
    BY DEF Pair
<1> QED BY <1>1, <1>2, <1>3 DEF StepInCode

\* Where a text begins with blanks, its scan begins with code.
LEMMA BlanksAreCode ==
    ASSUME NEW lexer \in Lexers, NEW t \in Texts, NEW d \in Nat, d <= Len(t),
           \A i \in 1..d : t[i] \in Blanks, NEW s, s = Scan(lexer, t)
    PROVE  \A i \in 0..d : StateAt(s, i) = InCode
<1> DEFINE Good == {i \in 0..d : StateAt(s, i) = InCode}
<1>1. 0 \in Good
    BY ScanAt
<1>2. ASSUME NEW i \in 1..d, i - 1 \in Good PROVE i \in Good
  <2>1. i \in 1..Len(t) /\ i \in 0..d /\ Len(t) \in Nat
      BY DEF Texts
  <2>2. StateAt(s, i) = LexStep(lexer, t, i, InCode)
      BY <1>2, <2>1, ScanAt
  <2>3. t[i] \notin {"'", "dq", "-", "/", "$"}
      BY DEF Blanks, Newlines
  <2>4. Ready(InCode)
      BY DEF Ready, InCode
  <2>5. StateAt(s, i) = InCode
      BY <2>1, <2>2, <2>3, <2>4, PlainStep
  <2> QED BY <2>1, <2>5
<1>3. 0..d \subseteq Good
  <2> HIDE DEF Good
  <2>1. \A i \in 1..d : i - 1 \in Good => i \in Good
      BY <1>2
  <2> QED BY <1>1, <2>1, UpTo
<1> QED BY <1>3

\* A quote begins with a mark that is no blank.
LEMMA QuoteBegins ==
    ASSUME NEW lexer \in Lexers, NEW t \in Texts, NEW i \in 1..Len(t), NEW h \in Nat, NEW s,
           StateOk(t, h, s), s.is # "quote", LexStep(lexer, t, i, s).is = "quote"
    PROVE  t[i] \in {"'", "dq", "$"}
<1> SUFFICES ASSUME t[i] \notin {"'", "dq", "$"} PROVE FALSE
    OBVIOUS
<1> DEFINE r == LexStep(lexer, t, i, s)
<1>1. s \in LexStates /\ s.skip \in Nat
    BY DEF StateOk, LexStates
<1>2. s.mode \in {"code", "line", "block"}
    BY <1>1 DEF StateOk, LexStates
<1>3. CASE s.skip > 0
  <2>1. r = [s EXCEPT !.skip = @ - 1]
      BY <1>3 DEF LexStep
  <2>2. r.is = s.is
      BY <1>1, <2>1 DEF LexStates
  <2> QED BY <2>2
<1>4. CASE s.skip = 0 /\ s.mode = "code"
  <2>1. r = StepInCode(lexer, t, i)
      BY <1>4 DEF LexStep
  <2>2. DollarTag(t, i) = <<>>
      BY DEF DollarTag
  <2>3. \/ r = [InCode EXCEPT !.is = "comment", !.mode = "line", !.skip = 1]
        \/ r = [InCode EXCEPT !.is = "comment", !.mode = "block", !.depth = 1, !.skip = 1]
        \/ r = InCode
      BY <2>1, <2>2 DEF StepInCode
  <2>4. InCode \in LexStates /\ InCode.is = "code"
      BY DEF InCode, LexStates
  <2> HIDE DEF r
  <2>5. r.is \in {"comment", "code"}
      BY <2>3, <2>4 DEF LexStates
  <2> QED BY <2>5 DEF r
<1>5. CASE s.skip = 0 /\ s.mode = "line"
  <2>1. r = InCode \/ r = s
      BY <1>5 DEF LexStep
  <2> QED BY <2>1 DEF InCode
<1>6. CASE s.skip = 0 /\ s.mode = "block"
  <2>1. r = StepInBlock(lexer, t, i, s)
      BY <1>6 DEF LexStep
  <2>2. \/ r = [s EXCEPT !.depth = @ + 1, !.skip = 1]
        \/ r = [s EXCEPT !.depth = @ - 1, !.skip = 1]
        \/ r = [InCode EXCEPT !.is = "comment", !.skip = 1]
        \/ r = s
      BY <2>1 DEF StepInBlock
  <2>3. r.is = s.is \/ r.is = "comment"
      BY <1>1, <2>2 DEF InCode, LexStates
  <2> QED BY <2>3
<1> QED BY <1>1, <1>2, <1>3, <1>4, <1>5, <1>6

\* Between code and a quote after it, there is the mark that opens one.
LEMMA QuoteHasMark ==
    ASSUME NEW lexer \in Lexers, NEW t \in Texts, NEW s, s = Scan(lexer, t),
           NEW b \in 1..Len(t), s[b].is = "code", NEW i \in 1..Len(t), b < i, s[i].is = "quote"
    PROVE  \E o \in 1..Len(t) : b < o /\ o <= i /\ s[o].is = "quote" /\ t[o] \in {"'", "dq", "$"}
<1>1. /\ Len(t) \in Nat
      /\ \A k \in 1..Len(t) : StateAt(s, k) = LexStep(lexer, t, k, StateAt(s, k - 1)) /\ StateAt(s, k) = s[k]
      /\ \A k \in 0..Len(t) : StateOk(t, k, StateAt(s, k))
    BY ScanAt
<1> DEFINE n == i - b
           Opened(k) == \E o \in 1..Len(t) : b < o /\ o <= k /\ s[o].is = "quote" /\ t[o] \in {"'", "dq", "$"}
           Good == {k \in 0..n : s[k + b].is = "quote" => Opened(k + b)}
<1>2. n \in Nat /\ n + b = i
    BY <1>1
<1>3. 0 \in Good
    BY <1>1, <1>2
<1>4. ASSUME NEW k \in 1..n, k - 1 \in Good PROVE k \in Good
  <2> DEFINE j == k + b
             h == j - 1
  <2>1. j \in 1..Len(t) /\ h \in 1..Len(t) /\ h \in Nat /\ h \in 0..Len(t) /\ (k - 1) + b = h /\ b < j /\ k \in 0..n /\ h <= j
      BY <1>1, <1>2
  <2>2. s[h].is = "quote" => Opened(h)
    <3>1. s[(k - 1) + b].is = "quote" => Opened((k - 1) + b)
        BY <1>4
    <3> QED BY <2>1, <3>1
  <2>3. s[j] = LexStep(lexer, t, j, s[h]) /\ StateOk(t, h, s[h])
    <3>1. StateAt(s, j) = LexStep(lexer, t, j, StateAt(s, h)) /\ StateAt(s, j) = s[j] /\ StateAt(s, h) = s[h]
        BY <1>1, <2>1
    <3> QED BY <1>1, <2>1, <3>1
  <2>4. ASSUME s[j].is = "quote" PROVE Opened(j)
    <3>1. CASE s[h].is = "quote"
      <4>1. PICK o \in 1..Len(t) : b < o /\ o <= h /\ s[o].is = "quote" /\ t[o] \in {"'", "dq", "$"}
          BY <2>2, <3>1
      <4>2. o <= j
          BY <1>1, <2>1, <4>1
      <4> QED BY <4>1, <4>2
    <3>2. CASE s[h].is # "quote"
      <4> HIDE DEF j, h
      <4>1. t[j] \in {"'", "dq", "$"}
          BY <2>1, <2>3, <2>4, <3>2, QuoteBegins
      <4>2. j <= j
          BY <2>1
      <4> QED BY <2>1, <2>4, <4>1, <4>2
    <3> QED BY <3>1, <3>2
  <2> QED BY <2>1, <2>4
<1>5. 0..n \subseteq Good
  <2> HIDE DEF Good, n
  <2>1. \A k \in 1..n : k - 1 \in Good => k \in Good
      BY <1>4
  <2> QED BY <1>2, <1>3, <2>1, UpTo
<1>6. n \in Good
    BY <1>2, <1>5
<1> HIDE DEF n, Opened
<1>7. s[n + b].is = "quote" => Opened(n + b)
    BY <1>6
<1>8. Opened(i)
    BY <1>2, <1>7
<1> QED BY <1>8 DEF Opened

\* What is left of a text is part of it, and scanned as such.
LEMMA SliceScan ==
    ASSUME NEW u, NEW t, NEW d, Slice(u, t, d, Cut), NEW lexer \in Lexers,
           NEW su, su = Scan(lexer, u), NEW st, st = Scan(lexer, t)
    PROVE  /\ \A i \in 1..Len(u) : i < Len(u) => StateAt(su, i) = StateAt(st, i + d)
           /\ \A i \in 1..Len(u) : /\ StateAt(su, i).is = StateAt(st, i + d).is
                                   /\ StateAt(su, i).mode = StateAt(st, i + d).mode
                                   /\ StateAt(su, i).mode # "single" => StateAt(su, i) = StateAt(st, i + d)
           /\ \A i \in 0..d : StateAt(st, i) = InCode
<1>1. /\ u \in Texts /\ t \in Texts /\ d \in Nat /\ Len(u) + d <= Len(t) /\ Len(u) \in Nat /\ Len(t) \in Nat
      /\ \A i \in 1..Len(u) : u[i] = t[i + d]
      /\ \A i \in 1..d : t[i] \in Blanks
      /\ \A i \in 1..Len(t) : i > Len(u) + d => t[i] \in Cut
    BY DEF Slice, Texts
<1>2. Blanks \subseteq Cut /\ Cut \cap Telling = {}
    BY DEF Cut, Blanks, Newlines, Telling, Words, Letters, Digits, ReadVerbs, WriteVerbs
<1>3. d > 0 => t[d] \notin Telling
  <2>1. d > 0 => d \in 1..d
      BY <1>1
  <2> QED BY <1>1, <1>2, <2>1
<1>4. Len(u) + d < Len(t) => t[Len(u) + d + 1] \notin Telling
  <2> DEFINE k == Len(u) + d + 1
  <2>1. Len(u) + d < Len(t) => k \in 1..Len(t) /\ k > Len(u) + d
      BY <1>1
  <2> HIDE DEF k
  <2>2. Len(u) + d < Len(t) => t[k] \notin Telling
      BY <1>1, <1>2, <2>1
  <2> QED BY <2>2 DEF k
<1>5. Embeds(u, t, d)
    BY <1>1, <1>3, <1>4 DEF Embeds
<1>6. d <= Len(t)
    BY <1>1
<1>7. \A i \in 0..d : StateAt(st, i) = InCode
    BY <1>1, <1>6, BlanksAreCode
<1>8. Ready(StateAt(st, d))
  <2>1. d \in 0..d
      BY <1>1
  <2> QED BY <1>7, <2>1 DEF Ready, InCode
<1> QED BY <1>5, <1>7, <1>8, EmbeddedScan

\* u, scanned as z, is what follows b in t, scanned as s.
RestAlike(t, s, b, u, z) ==
    \A i \in 1..Len(t) : i > b => i - b \in 1..Len(u) /\ u[i - b] = t[i] /\ z[i - b] = s[i]

\* A text that ends another, after code, is scanned as there.
LEMMA RestAsThere ==
    ASSUME NEW lexer \in Lexers, NEW t, NEW s, s = Scan(lexer, t), NEW b \in 1..Len(t), s[b].is = "code",
           NEW u, Embeds(u, t, b), Len(u) + b = Len(t), NEW z, z = Scan(lexer, u)
    PROVE  RestAlike(t, s, b, u, z)
<1>1. u \in Texts /\ t \in Texts /\ Len(t) \in Nat /\ Len(u) \in Nat /\ \A k \in 1..Len(u) : u[k] = t[k + b]
    BY DEF Embeds, Texts
<1>2. StateAt(s, b) = InCode
    BY <1>1, ScanAt
<1>3. Ready(StateAt(s, b))
    BY <1>2 DEF Ready, InCode
<1>4. \A i \in 1..Len(u) : StateAt(z, i) = StateAt(s, i + b)
    BY <1>3, EmbeddedScan
<1>5. ASSUME NEW i \in 1..Len(t), i > b PROVE i - b \in 1..Len(u) /\ u[i - b] = t[i] /\ z[i - b] = s[i]
  <2> DEFINE k == i - b
  <2>1. k + b = i /\ k \in 1..Len(u)
      BY <1>1, <1>5
  <2> HIDE DEF k
  <2>2. u[k] = t[i]
      BY <1>1, <2>1
  <2>3. StateAt(z, k) = StateAt(s, i)
      BY <1>4, <2>1
  <2>4. StateAt(z, k) = z[k]
      BY <1>1, <2>1, ScanAt
  <2>5. StateAt(s, i) = s[i]
      BY <1>1, ScanAt
  <2>6. k \in 1..Len(u) /\ u[k] = t[i] /\ z[k] = s[i]
      BY <2>1, <2>2, <2>3, <2>4, <2>5
  <2> QED BY <2>6 DEF k
<1> QED BY <1>5 DEF RestAlike

\* The text after a semicolon is scanned as before.
LEMMA RestScan ==
    ASSUME NEW lexer \in Lexers, NEW t \in Texts, NEW s, s = Scan(lexer, t), NEW b \in 1..Len(t), s[b].is = "code",
           t[b] = "semi", NEW u, u = SubSeq(t, b + 1, Len(t)), NEW z, z = Scan(lexer, u)
    PROVE  RestAlike(t, s, b, u, z)
<1> DEFINE n == Len(t) - b
           a == b + 1
<1>1. Len(t) \in Nat /\ b \in Nat
    BY DEF Texts
<1>2. Span(t, a, Len(t), n)
    BY <1>1 DEF Span
<1>3. PartOf(SubSeq(t, a, Len(t)), t, a, n) /\ n \in Nat
    BY <1>2, SubTextIs
<1>4. u \in Texts /\ Len(u) = n /\ \A k \in 1..n : u[k] = t[a + k - 1]
    BY <1>3 DEF PartOf
<1>5. \A k \in 1..n : u[k] = t[k + b]
  <2> TAKE k \in 1..n
  <2>1. a + k - 1 = k + b
      BY <1>1
  <2> QED BY <1>4, <2>1
<1>6. "semi" \notin Telling
    BY DEF Telling, Words, Letters, Digits, ReadVerbs, WriteVerbs
<1>7. Len(u) + b = Len(t)
    BY <1>1, <1>4
<1>8. Embeds(u, t, b)
    BY <1>1, <1>4, <1>5, <1>6, <1>7 DEF Embeds
<1> QED BY <1>7, <1>8, RestAsThere

\* What is code of what is left is code of the text, and counted there too.
LEMMA SliceCounts ==
    ASSUME NEW u, NEW t, NEW d, Slice(u, t, d, Cut), NEW lexer \in Lexers, NEW m,
           m \in 0..Len(u), m < Len(u) \/ StateAt(Scan(lexer, u), Len(u)).mode # "single"
    PROVE  /\ Moved(u, CodeOf(lexer, u), t, CodeOf(lexer, t), d, m)
           /\ \A s \in {"(", ")"} : \A i \in 1..m + 1 :
                Count(s, t, CodeOf(lexer, t), i + d) = Count(s, u, CodeOf(lexer, u), i)
<1> DEFINE su == Scan(lexer, u)
           st == Scan(lexer, t)
           cu == CodeOf(lexer, u)
           ct == CodeOf(lexer, t)
<1>1. /\ u \in Texts /\ t \in Texts /\ d \in Nat /\ Len(u) + d <= Len(t) /\ Len(u) \in Nat /\ Len(t) \in Nat
      /\ \A i \in 1..Len(u) : u[i] = t[i + d]
      /\ \A i \in 1..d : t[i] \in Blanks
    BY DEF Slice, Texts
<1>2. cu = {i \in 1..Len(u) : StateAt(su, i) = InCode} /\ ct = {i \in 1..Len(t) : StateAt(st, i) = InCode}
    BY <1>1, ScanAt
<1>s. su = Scan(lexer, u) /\ st = Scan(lexer, t) /\ (m < Len(u) \/ StateAt(su, Len(u)).mode # "single")
    OBVIOUS
<1> HIDE DEF su, st, cu, ct
<1>v. /\ \A i \in 1..Len(u) : i < Len(u) => StateAt(su, i) = StateAt(st, i + d)
      /\ \A i \in 1..Len(u) : StateAt(su, i).mode # "single" => StateAt(su, i) = StateAt(st, i + d)
    BY <1>s, SliceScan
<1>3. ASSUME NEW i \in 1..m PROVE u[i] = t[i + d] /\ (i \in cu <=> i + d \in ct)
  <2>1. i \in 1..Len(u) /\ i + d \in 1..Len(t)
      BY <1>1
  <2>2. StateAt(su, i) = StateAt(st, i + d)
    <3>1. CASE i < Len(u)
        BY <1>v, <2>1, <3>1
    <3>2. CASE i = Len(u)
      <4>1. m = Len(u)
          BY <1>1, <3>2
      <4>2. StateAt(su, i).mode # "single"
          BY <1>s, <1>1, <3>2, <4>1
      <4> QED BY <1>v, <2>1, <4>2
    <3> QED BY <1>1, <2>1, <3>1, <3>2
  <2> QED BY <1>1, <1>2, <2>1, <2>2
<1>4. m \in Nat
    BY <1>1
<1>5. Moved(u, cu, t, ct, d, m)
    BY <1>1, <1>3, <1>4 DEF Moved
<1>6. ASSUME NEW s \in {"(", ")"} PROVE \A i \in 1..m + 1 : Count(s, t, ct, i + d) = Count(s, u, cu, i)
  <2>1. cu \in SUBSET (1..Len(u)) /\ ct \in SUBSET (1..Len(t))
      BY <1>2
  <2>2. Counts(s, u, cu) /\ Counts(s, t, ct)
      BY <1>1, <2>1, CountIs
  <2>3. \A i \in 1..m + 1 : Count(s, t, ct, i + d) = Count(s, t, ct, d + 1) + Count(s, u, cu, i)
      BY <1>5, <2>2, CountMoved
  <2>4. Count(s, t, ct, d + 1) = 0
    <3>1. ct \subseteq Nat
        BY <2>1
    <3> DEFINE e == d + 1
    <3>2. e = d + 1 /\ 1 \in Nat /\ e \in Nat /\ 1 <= e
        BY <1>1
    <3> HIDE DEF e
    <3>3. \A i \in ct : 1 <= i /\ i < e => t[i] # s
      <4> TAKE i \in ct
      <4>1. 1 <= i /\ i < e => i \in 1..d
          BY <1>1, <3>1, <3>2
      <4> QED BY <1>1, <4>1 DEF Blanks, Newlines
    <3>4. NoneIn(s, t, ct, 1, e)
        BY <3>1, <3>2, <3>3 DEF NoneIn
    <3>6. Count(s, t, ct, 1) = Count(s, t, ct, e)
        BY <3>4, CountFlat
    <3>5. Count(s, t, ct, 1) = 0
        BY <2>2 DEF Counts
    <3> QED BY <3>2, <3>5, <3>6
  <2>5. ASSUME NEW i \in 1..m + 1 PROVE Count(s, t, ct, i + d) = Count(s, u, cu, i)
    <3>0. i \in Nat
        BY <1>4
    <3>1. Count(s, u, cu, i) \in Nat
        BY <2>2, <3>0 DEF Counts
    <3>2. Count(s, t, ct, i + d) = 0 + Count(s, u, cu, i)
        BY <2>3, <2>4
    <3> QED BY <3>1, <3>2
  <2> QED BY <2>5
<1> QED BY <1>5, <1>6 DEF cu, ct

-----------------------------------------------------------------------------
(* What PostgreSQL reads                                                     *)

\* What it would read if it went by the scanner of delimiters: the proofs below are about that
\* scan, and AsPostgres takes them to PostgreSQL's own reading.
Formed(t) ==
    LET code == CodeOf(DelimiterLexer, t)
    IN  /\ ~Unterminated(DelimiterLexer, t)
        /\ \A i \in 1..(Len(t) + 1) : Count(")", t, code, i) <= Count("(", t, code, i)
        /\ Balanced(t, code, Len(t) + 1)
        /\ \A i \in code : t[i] = "semi" => Balanced(t, code, i)
CodeStatements(t) ==
    LET s == Scan(DelimiterLexer, t)
        ends == {i \in CodeOf(DelimiterLexer, t) : t[i] = "semi"}
        ink == {i \in 1..Len(t) : /\ s[i].is # "comment"
                                  /\ s[i].is = "code" => t[i] \notin Blanks \cup {"semi"}}
        of(a) == {i \in ink : a < i /\ \A e \in ends : e > a => i < e}
    IN  {of(a) : a \in {0} \cup ends} \ {{}}
Nests(t) == \E i \in 1..Len(t) : Scan(DelimiterLexer, t)[i].depth > 1
LooseEnd(t) ==
    LET c == Canonical(t)
    IN  \/ EndState(Scan(DelimiterLexer, c)).is = "comment"
        \/ \E i \in CodeOf(DelimiterLexer, c) : c[i] = "semi"

\* The states PostgreSQL's reading can be in, and the one after symbol i.
Lasts == {"none", "e", "name", "escaped", "continued"}
PostgresStates == [lex : LexStates, last : Lasts]
ReadingAt(states, i) == IF i = 0 THEN Untouched ELSE states[i]

\* A sequence of states is PostgreSQL's reading of the first n symbols.
ReadsAs(t, n, states) ==
    /\ states \in Seq(PostgresStates) /\ Len(states) = n
    /\ \A i \in 1..n : ReadingAt(states, i) = PostgresStep(t, i, ReadingAt(states, i - 1))
    /\ \A i \in 0..n : ReadingAt(states, i) \in PostgresStates /\ StateOk(t, i, ReadingAt(states, i).lex)

\* A step of the reading is one of the scanner, but for three places where it has its own.
LEMMA PostgresStepIs ==
    ASSUME NEW t, NEW i, NEW s,
           NEW step, step = LexStep(PostgresLexer, t, i, s.lex),
           NEW r, r = PostgresStep(t, i, s)
    PROVE  /\ r.last \in Lasts \cup {s.last}
           /\ \/ Ready(s.lex) /\ t[i] = "'" /\ r.lex = [step EXCEPT !.escapes = Escapes(s)]
              \/ Ready(s.lex) /\ t[i] = "$" /\ NoTag(t, i, s) /\ r.lex = InCode
              \/ s.lex.mode = "line" /\ s.lex.skip = 0 /\ t[i] \in Newlines /\ r.lex = InCode
              \/ /\ ~(Ready(s.lex) /\ t[i] = "'") /\ ~(Ready(s.lex) /\ t[i] = "$" /\ NoTag(t, i, s))
                 /\ ~(s.lex.mode = "line" /\ s.lex.skip = 0 /\ t[i] \in Newlines)
                 /\ r.lex = step
           /\ r = [lex |-> r.lex, last |-> r.last]
<1> DEFINE carried == IF Continues(s.last) THEN s.last ELSE "none"
           last == CASE Ready(s.lex) /\ step = InCode -> LastOf(t, i, s.last)
                     [] s.lex.escapes /\ Ready(step) -> "escaped"
                     [] step.mode = "line" -> carried
                     [] OTHER -> "none"
           a == Ready(s.lex) /\ t[i] = "'"
           b == Ready(s.lex) /\ t[i] = "$" /\ NoTag(t, i, s)
           c == s.lex.mode = "line" /\ s.lex.skip = 0 /\ t[i] \in Newlines
<1>1. \A x : LastOf(t, i, x) \in Lasts \cup {x}
    BY DEF LastOf, Lasts
<1>2. carried \in {s.last, "none"} /\ "none" \in Lasts /\ "escaped" \in Lasts
    BY DEF Lasts
<1>3. LastOf(t, i, s.last) \in Lasts \cup {s.last} /\ LastOf(t, i, carried) \in Lasts \cup {s.last}
    BY <1>1, <1>2
<1>4. last \in Lasts \cup {s.last}
    BY <1>2, <1>3
<1>5. r = CASE a -> [lex |-> [step EXCEPT !.escapes = Escapes(s)], last |-> "none"]
            [] b -> [lex |-> InCode, last |-> LastOf(t, i, s.last)]
            [] c -> [lex |-> InCode, last |-> LastOf(t, i, carried)]
            [] OTHER -> [lex |-> step, last |-> last]
    BY DEF PostgresStep
<1>6. ~(a /\ b) /\ ~(a /\ c) /\ ~(b /\ c)
    BY DEF Ready
<1> DEFINE quoted == [step EXCEPT !.escapes = Escapes(s)]
           named == LastOf(t, i, s.last)
           after == LastOf(t, i, carried)
<1>a. quoted = [step EXCEPT !.escapes = Escapes(s)]
    OBVIOUS
<1> HIDE DEF quoted, named, after, last
<1>7. CASE a
  <2>1. r = [lex |-> quoted, last |-> "none"]
      BY <1>5, <1>6, <1>7 DEF quoted
  <2> QED BY <1>2, <1>7, <1>a, <2>1
<1>8. CASE b
  <2>1. r = [lex |-> InCode, last |-> named]
      BY <1>5, <1>6, <1>8 DEF named
  <2> QED BY <1>3, <1>8, <2>1 DEF named
<1>9. CASE c
  <2>1. r = [lex |-> InCode, last |-> after]
      BY <1>5, <1>6, <1>9 DEF after
  <2> QED BY <1>3, <1>9, <2>1 DEF after
<1>10. CASE ~a /\ ~b /\ ~c
  <2>1. r = [lex |-> step, last |-> last]
      BY <1>5, <1>10
  <2> QED BY <1>4, <1>10, <2>1
<1> QED BY <1>7, <1>8, <1>9, <1>10

\* It leads from such a state to such a state.
LEMMA PostgresStepOk ==
    ASSUME NEW t \in Texts, NEW i \in 1..Len(t), NEW h \in Nat, h + 1 = i,
           NEW s \in PostgresStates, StateOk(t, h, s.lex),
           NEW r, r = PostgresStep(t, i, s)
    PROVE  r \in PostgresStates /\ StateOk(t, i, r.lex)
<1> DEFINE step == LexStep(PostgresLexer, t, i, s.lex)
<1>1. PostgresLexer \in Lexers
    BY DEF PostgresLexer, Lexers
<1>2. StateOk(t, i, step)
    BY <1>1, StepOk
<1>3. s.lex \in LexStates /\ s.last \in Lasts
    BY DEF PostgresStates
<1>4. InCode \in LexStates /\ StateOk(t, i, InCode)
  <2>1. Len(t) \in Nat /\ i \in Nat /\ i <= Len(t)
      BY DEF Texts
  <2> QED BY <2>1 DEF StateOk, InCode, LexStates
<1>s. step = LexStep(PostgresLexer, t, i, s.lex)
    OBVIOUS
<1> HIDE DEF step
<1>5. /\ r.last \in Lasts \cup {s.last}
      /\ \/ Ready(s.lex) /\ t[i] = "'" /\ r.lex = [step EXCEPT !.escapes = Escapes(s)]
         \/ r.lex = InCode
         \/ r.lex = step
      /\ r = [lex |-> r.lex, last |-> r.last]
    BY <1>s, PostgresStepIs
<1>6. StateOk(t, i, r.lex)
  <2>1. CASE Ready(s.lex) /\ t[i] = "'" /\ r.lex = [step EXCEPT !.escapes = Escapes(s)]
    <3> DEFINE b == PostgresLexer.escape /\ BackslashEscapes(t, i)
               x == Escapes(s)
    <3>1. step = StepInCode(PostgresLexer, t, i)
        BY <1>s, <2>1 DEF LexStep, Ready
    <3>2. DollarTag(t, i) = <<>>
        BY <2>1 DEF DollarTag
    <3>3. step = [InCode EXCEPT !.is = "quote", !.mode = "single", !.escapes = b]
        BY <2>1, <3>1, <3>2 DEF StepInCode, Pair
    <3>4. x \in BOOLEAN /\ step \in LexStates
        BY <1>2 DEF Escapes, StateOk
    <3>5. b \in BOOLEAN /\ r.lex = [step EXCEPT !.escapes = x]
        BY <2>1 DEF PostgresLexer, BackslashEscapes
    <3> HIDE DEF b, x
    <3>6. step.is = "quote" /\ step.mode = "single" /\ step.skip = 0
        BY <1>4, <3>3, <3>5 DEF LexStates, InCode
    <3>7. r.lex \in LexStates /\ r.lex.is = "quote" /\ r.lex.mode = "single" /\ r.lex.skip = 0
        BY <3>4, <3>5, <3>6 DEF LexStates
    <3>8. i \in Nat /\ Len(t) \in Nat /\ i <= Len(t)
        BY DEF Texts
    <3> QED BY <3>7, <3>8 DEF StateOk
  <2> QED BY <1>2, <1>4, <1>5, <2>1
<1>7. r.lex \in LexStates
    BY <1>6 DEF StateOk
<1> QED BY <1>3, <1>5, <1>6, <1>7 DEF PostgresStates

\* One more step.
LEMMA ReadStep ==
    ASSUME NEW t \in Texts, NEW n \in 1..Len(t), NEW m \in Nat, m + 1 = n,
           NEW states, ReadsAs(t, m, states)
    PROVE  ReadsAs(t, n, Append(states, PostgresStep(t, n, PostgresLast(states))))
<1> DEFINE s == ReadingAt(states, m)
           r == PostgresStep(t, n, s)
           more == Append(states, r)
<1>1. n \in Nat /\ m = n - 1 /\ states \in Seq(PostgresStates) /\ Len(states) = m
    BY DEF ReadsAs, Texts
<1>2. PostgresLast(states) = s
  <2>1. states = <<>> <=> m = 0
      BY <1>1
  <2>2. states # <<>> => Last(states) = states[m]
      BY <1>1 DEF Last
  <2> QED BY <2>1, <2>2 DEF PostgresLast, ReadingAt
<1>3. s \in PostgresStates /\ StateOk(t, m, s.lex)
    BY DEF ReadsAs
<1>5. r = PostgresStep(t, n, s)
    OBVIOUS
<1> HIDE DEF r, s
<1>4. r \in PostgresStates /\ StateOk(t, n, r.lex)
    BY <1>3, <1>5, PostgresStepOk
<1>7. more \in Seq(PostgresStates) /\ Len(more) = n /\ more[n] = r /\ \A i \in 1..m : more[i] = states[i]
    BY <1>1, <1>4
<1> HIDE DEF more
<1>8. ReadingAt(more, n) = r /\ \A i \in 0..m : ReadingAt(more, i) = ReadingAt(states, i)
    BY <1>1, <1>7 DEF ReadingAt
<1>9. ASSUME NEW i \in 1..n PROVE ReadingAt(more, i) = PostgresStep(t, i, ReadingAt(more, i - 1))
  <2>1. CASE i = n
      BY <1>1, <1>5, <1>8, <2>1 DEF s
  <2>2. CASE i # n
    <3>1. i \in 1..m /\ i \in 0..m /\ i - 1 \in 0..m
        BY <1>1, <2>2
    <3> QED BY <1>8, <3>1 DEF ReadsAs
  <2> QED BY <2>1, <2>2
<1>10. ASSUME NEW i \in 0..n PROVE ReadingAt(more, i) \in PostgresStates /\ StateOk(t, i, ReadingAt(more, i).lex)
  <2>1. CASE i = n
      BY <1>4, <1>8, <2>1
  <2>2. CASE i # n
    <3>1. i \in 0..m
        BY <1>1, <2>2
    <3> QED BY <1>8, <3>1 DEF ReadsAs
  <2> QED BY <2>1, <2>2
<1>11. ReadsAs(t, n, more)
    BY <1>7, <1>9, <1>10 DEF ReadsAs
<1> QED BY <1>2, <1>5, <1>11 DEF more

\* What PostgresReading has made of the first symbols, after each.
ReadUpTo(t, n, f) ==
    f = [k \in 0..n |-> IF k = 0 THEN <<>>
                        ELSE Append(f[k - 1], PostgresStep(t, k, PostgresLast(f[k - 1])))]

\* It exists: PostgresReading reads a text, step by step.
LEMMA ReadingIs ==
    ASSUME NEW t \in Texts
    PROVE  ReadsAs(t, Len(t), PostgresReading(t))
<1> DEFINE N == Len(t)
           OneMore(states, k) == Append(states, PostgresStep(t, k, PostgresLast(states)))
           Good == {n \in 0..N : \E f : ReadUpTo(t, n, f)}
<1>1. N \in Nat
    BY DEF Texts
<1>2. 0 \in Good
  <2> DEFINE f == [k \in 0..0 |-> <<>>]
             g == [k \in 0..0 |-> IF k = 0 THEN <<>> ELSE OneMore(f[k - 1], k)]
  <2>1. f = g
      OBVIOUS
  <2>2. ReadUpTo(t, 0, f)
      BY <2>1 DEF ReadUpTo
  <2> QED BY <1>1, <2>2
<1>3. ASSUME NEW n \in 1..N, n - 1 \in Good PROVE n \in Good
  <2>1. PICK f : ReadUpTo(t, n - 1, f)
      BY <1>3
  <2> DEFINE g == [k \in 0..n |-> IF k < n THEN f[k] ELSE OneMore(f[k - 1], k)]
             h == [k \in 0..n |-> IF k = 0 THEN <<>> ELSE OneMore(g[k - 1], k)]
  <2> HIDE DEF N, OneMore
  <2>2. ASSUME NEW k \in 0..n PROVE g[k] = h[k]
    <3>1. CASE k = n
      <4>1. g[k - 1] = f[k - 1] /\ k # 0
          BY <3>1
      <4> QED BY <3>1, <4>1
    <3>2. CASE k # n
      <4>1. k \in 0..n - 1 /\ g[k] = f[k] /\ (k # 0 => g[k - 1] = f[k - 1])
          BY <3>2
      <4>2. f[k] = IF k = 0 THEN <<>> ELSE OneMore(f[k - 1], k)
          BY <2>1, <4>1 DEF ReadUpTo, OneMore
      <4> QED BY <4>1, <4>2
    <3> QED BY <3>1, <3>2
  <2>3. g = h
      BY <2>2
  <2>4. ReadUpTo(t, n, g)
      BY <2>3 DEF ReadUpTo, OneMore
  <2> QED BY <2>4
<1>4. N \in Good
  <2> HIDE DEF Good, N
  <2>1. \A n \in 1..N : n - 1 \in Good => n \in Good
      BY <1>3
  <2>2. 0..N \subseteq Good
      BY <1>1, <1>2, <2>1, UpTo
  <2> QED BY <1>1, <2>2
<1> DEFINE last == CHOOSE f : ReadUpTo(t, N, f)
<1>5. ReadUpTo(t, N, last)
    BY <1>4
<1>6. PostgresReading(t) = last[N]
    BY DEF PostgresReading, ReadUpTo
<1> DEFINE Fine == {n \in 0..N : ReadsAs(t, n, last[n])}
<1> HIDE DEF last
<1>7. 0 \in Fine
  <2>1. last[0] = <<>>
      BY <1>1, <1>5 DEF ReadUpTo
  <2>2. InCode \in LexStates /\ StateOk(t, 0, InCode)
      BY <1>1 DEF StateOk, InCode, LexStates
  <2>3. ReadingAt(<<>>, 0) = Untouched /\ Untouched.lex = InCode /\ Untouched \in PostgresStates
      BY <2>2 DEF ReadingAt, Untouched, PostgresStates, Lasts
  <2>4. ReadsAs(t, 0, <<>>)
      BY <2>2, <2>3 DEF ReadsAs
  <2> QED BY <1>1, <2>1, <2>4
<1>8. ASSUME NEW n \in 1..N, n - 1 \in Fine PROVE n \in Fine
  <2>1. last[n] = OneMore(last[n - 1], n)
    <3>1. n \in 0..N /\ n # 0
        BY <1>1
    <3> HIDE DEF N
    <3> QED BY <1>5, <3>1 DEF ReadUpTo
  <2>2. n - 1 \in Nat /\ (n - 1) + 1 = n /\ n \in 0..N
      BY <1>1
  <2>3. ReadsAs(t, n - 1, last[n - 1])
      BY <1>8
  <2>4. ReadsAs(t, n, OneMore(last[n - 1], n))
      BY <2>2, <2>3, ReadStep
  <2> QED BY <2>1, <2>2, <2>4
<1>9. N \in Fine
  <2> HIDE DEF Fine, N
  <2>1. \A n \in 1..N : n - 1 \in Fine => n \in Fine
      BY <1>8
  <2>2. 0..N \subseteq Fine
      BY <1>1, <1>7, <2>1, UpTo
  <2> QED BY <1>1, <2>2
<1> QED BY <1>6, <1>9

\* What a scan says that goes as PostgreSQL's own.
LEMMA SameReading ==
    ASSUME NEW t \in Texts, ~Misread(t)
    PROVE  PostgresScan(t) = Scan(DelimiterLexer, t)
<1> DEFINE N == Len(t)
           rd == PostgresReading(t)
           st == Scan(DelimiterLexer, t)
           Good == {i \in 0..N : ReadingAt(rd, i).lex = StateAt(st, i)}
<1>1. DelimiterLexer \in Lexers /\ PostgresLexer = DelimiterLexer
    BY DEF DelimiterLexer, PostgresLexer, Lexers
<1>2. ReadsAs(t, N, rd)
    BY ReadingIs
<1>3. /\ N \in Nat /\ st \in Seq(LexStates) /\ Len(st) = N
      /\ \A i \in 1..N : StateAt(st, i) = LexStep(DelimiterLexer, t, i, StateAt(st, i - 1)) /\ StateAt(st, i) = st[i]
      /\ StateAt(st, 0) = InCode
    BY <1>1, ScanAt
<1>4. \A i \in 1..N : LET s == ReadingAt(rd, i - 1)
                      IN  /\ ~(Ready(s.lex) /\ DollarTag(t, i) # <<>> /\ NoTag(t, i, s))
                          /\ ~(Ready(s.lex) /\ t[i] = "'" /\ Escapes(s) # BackslashEscapes(t, i))
                          /\ ~(s.lex.mode = "line" /\ s.lex.skip = 0 /\ t[i] = "cr")
  <2> TAKE i \in 1..N
  <2>1. ReadingAt(rd, i - 1) = IF i = 1 THEN Untouched ELSE rd[i - 1]
      BY <1>3 DEF ReadingAt
  <2> HIDE DEF rd
  <2> QED BY <2>1 DEF Misread, rd
<1> HIDE DEF rd, st, N
<1>5. 0 \in Good
    BY <1>3 DEF ReadingAt, Untouched
<1>6. ASSUME NEW i \in 1..N, i - 1 \in Good PROVE i \in Good
  <2> DEFINE s == ReadingAt(rd, i - 1)
             z == StateAt(st, i - 1)
             r == ReadingAt(rd, i)
             step == LexStep(PostgresLexer, t, i, s.lex)
  <2>1. s.lex = z /\ i \in 0..N
      BY <1>3, <1>6
  <2>2. r = PostgresStep(t, i, s)
      BY <1>2 DEF ReadsAs
  <2>3. step = LexStep(PostgresLexer, t, i, s.lex) /\ StateAt(st, i) = step
      BY <1>1, <1>3, <2>1
  <2>4. /\ ~(Ready(s.lex) /\ DollarTag(t, i) # <<>> /\ NoTag(t, i, s))
        /\ ~(Ready(s.lex) /\ t[i] = "'" /\ Escapes(s) # BackslashEscapes(t, i))
        /\ ~(s.lex.mode = "line" /\ s.lex.skip = 0 /\ t[i] = "cr")
      BY <1>4
  <2> HIDE DEF s, z, r, step
  <2>5. \/ Ready(s.lex) /\ t[i] = "'" /\ r.lex = [step EXCEPT !.escapes = Escapes(s)]
        \/ Ready(s.lex) /\ t[i] = "$" /\ NoTag(t, i, s) /\ r.lex = InCode
        \/ s.lex.mode = "line" /\ s.lex.skip = 0 /\ t[i] \in Newlines /\ r.lex = InCode
        \/ r.lex = step
      BY <2>2, <2>3, PostgresStepIs
  <2>6. CASE Ready(s.lex) /\ t[i] = "'" /\ r.lex = [step EXCEPT !.escapes = Escapes(s)]
    <3> DEFINE b == PostgresLexer.escape /\ BackslashEscapes(t, i)
    <3>1. DollarTag(t, i) = <<>>
        BY <2>6 DEF DollarTag
    <3>2. step = StepInCode(PostgresLexer, t, i)
        BY <2>3, <2>6 DEF LexStep, Ready
    <3>3. step = [InCode EXCEPT !.is = "quote", !.mode = "single", !.escapes = b]
        BY <2>6, <3>1, <3>2 DEF StepInCode, Pair
    <3>4. b = Escapes(s)
        BY <2>4, <2>6 DEF PostgresLexer, BackslashEscapes, Escapes
    <3>5. r.lex = [step EXCEPT !.escapes = b]
        BY <2>6, <3>4
    <3> HIDE DEF b
    <3>6. r.lex = step
        BY <3>3, <3>5 DEF InCode
    <3> QED BY <2>1, <2>3, <3>6 DEF r
  <2>7. CASE Ready(s.lex) /\ t[i] = "$" /\ NoTag(t, i, s) /\ r.lex = InCode
    <3>1. DollarTag(t, i) = <<>>
        BY <2>4, <2>7
    <3>2. step = StepInCode(PostgresLexer, t, i)
        BY <2>3, <2>7 DEF LexStep, Ready
    <3>3. step = InCode
        BY <2>7, <3>1, <3>2 DEF StepInCode, Pair
    <3> QED BY <2>1, <2>3, <2>7, <3>3 DEF r
  <2>8. CASE s.lex.mode = "line" /\ s.lex.skip = 0 /\ t[i] \in Newlines /\ r.lex = InCode
    <3>1. t[i] = "nl"
        BY <2>4, <2>8 DEF Newlines
    <3>2. step = InCode
        BY <2>3, <2>8, <3>1 DEF LexStep
    <3> QED BY <2>1, <2>3, <2>8, <3>2 DEF r
  <2>9. CASE r.lex = step
      BY <2>1, <2>3, <2>9 DEF r
  <2> QED BY <2>5, <2>6, <2>7, <2>8, <2>9
<1>7. 0..N \subseteq Good
  <2> HIDE DEF Good
  <2>1. \A i \in 1..N : i - 1 \in Good => i \in Good
      BY <1>6
  <2> QED BY <1>3, <1>5, <2>1, UpTo
<1>8. ASSUME NEW i \in 1..N PROVE rd[i].lex = st[i]
  <2>1. ReadingAt(rd, i).lex = StateAt(st, i) /\ i # 0
      BY <1>3, <1>7
  <2> QED BY <1>3, <2>1 DEF ReadingAt
<1>9. [i \in 1..N |-> rd[i].lex] = [i \in 1..N |-> st[i]]
    BY <1>8
<1>10. st = [i \in 1..N |-> st[i]]
    BY <1>3
<1>11. PostgresScan(t) = [i \in 1..N |-> rd[i].lex]
    BY DEF PostgresScan, rd, N
<1> QED BY <1>9, <1>10, <1>11 DEF st

\* So PostgreSQL reads a text as the scanner of delimiters does, unless that misreads it.
LEMMA AsPostgres ==
    ASSUME NEW t \in Texts, ~Misread(t)
    PROVE  /\ PostgresScan(t) = Scan(DelimiterLexer, t)
           /\ CodeIn(t, PostgresScan(t)) = CodeOf(DelimiterLexer, t)
           /\ WellFormed(t) <=> Formed(t)
           /\ PostgresStatements(t) = CodeStatements(t)
           /\ NestsComments(t) <=> Nests(t)
<1> DEFINE s == Scan(DelimiterLexer, t)
<1>1. PostgresScan(t) = s
    BY SameReading
<1>2. CodeIn(t, PostgresScan(t)) = CodeOf(DelimiterLexer, t)
    BY <1>1 DEF CodeOf
<1>3. EndState(s).mode \in {"code", "line"} <=> ~Unterminated(DelimiterLexer, t)
    BY DEF Unterminated
<1>s. s = Scan(DelimiterLexer, t)
    OBVIOUS
<1> HIDE DEF s
<1>4. WellFormed(t) <=> Formed(t)
    BY <1>1, <1>2, <1>3 DEF WellFormed, Formed, ReadsWell
<1>5. PostgresStatements(t) = CodeStatements(t)
    BY <1>1, <1>2, <1>s DEF PostgresStatements, CodeStatements, StatementsIn
<1>6. NestsComments(t) <=> Nests(t)
    BY <1>1, <1>s DEF NestsComments, Nests, NestsIn
<1> QED BY <1>1, <1>2, <1>4, <1>5, <1>6 DEF s

\* A text that is more than one statement for PostgreSQL has a delimiter with something after it.
LEMMA TwoStatements ==
    ASSUME NEW t \in Texts, Cardinality(CodeStatements(t)) > 1, NEW s, s = Scan(DelimiterLexer, t)
    PROVE  \E b, i \in 1..Len(t) :
              /\ s[b].is = "code" /\ t[b] = "semi" /\ b < i
              /\ s[i].is # "comment" /\ (s[i].is = "code" => t[i] \notin Cut)
<1> DEFINE ends == {i \in CodeOf(DelimiterLexer, t) : t[i] = "semi"}
           ink == {i \in 1..Len(t) : s[i].is # "comment" /\ (s[i].is = "code" => t[i] \notin Blanks \cup {"semi"})}
           of(a) == {i \in ink : a < i /\ \A e \in ends : e > a => i < e}
           all == {of(a) : a \in {0} \cup ends} \ {{}}
<1>1. CodeStatements(t) = all
    BY DEF CodeStatements
<1>2. ends = {i \in 1..Len(t) : s[i].is = "code" /\ t[i] = "semi"}
    BY DEF CodeOf, CodeIn
<1>3. SUFFICES ASSUME \A b \in ends, i \in ink : ~(b < i) PROVE FALSE
    BY <1>2 DEF Cut
<1>4. \A a \in ends : of(a) = {}
    BY <1>3
<1> DEFINE first == of(0)
<1>5. all \subseteq {first}
  <2> HIDE DEF of
  <2> QED BY <1>4
<1> HIDE DEF all, first
<1>6. IsFiniteSet({first}) /\ Cardinality({first}) = 1
    BY FS_Singleton
<1>7. Cardinality(all) <= 1 /\ IsFiniteSet(all)
    BY <1>5, <1>6, FS_Subset
<1>8. Cardinality(all) \in Nat /\ Cardinality(all) > 1
    BY <1>1, <1>7, FS_CardinalityType
<1> QED BY <1>7, <1>8

\* ... and then something that canonicalize_sql leaves.
LEMMA SqlAfterDelimiter ==
    ASSUME NEW t \in Texts, NEW s, s = Scan(DelimiterLexer, t), NEW b \in 1..Len(t), NEW i \in 1..Len(t),
           s[b].is = "code", b < i, s[i].is # "comment", s[i].is = "code" => t[i] \notin Cut
    PROVE  \E o \in 1..Len(t) : b < o /\ s[o].is # "comment" /\ t[o] \notin Cut
<1>1. DelimiterLexer \in Lexers
    BY DEF DelimiterLexer, Lexers
<1>2. s[i].is \in {"code", "quote", "comment"}
  <2>1. s \in Seq(LexStates) /\ Len(s) = Len(t)
      BY <1>1, ScanAt
  <2>2. s[i] \in LexStates
      BY <2>1
  <2> QED BY <2>2 DEF LexStates
<1>3. CASE s[i].is = "code"
    BY <1>3
<1>4. CASE s[i].is = "quote"
  <2>1. PICK o \in 1..Len(t) : b < o /\ s[o].is = "quote" /\ t[o] \in {"'", "dq", "$"}
      BY <1>1, <1>4, QuoteHasMark
  <2> QED BY <2>1 DEF Cut, Blanks, Newlines
<1> QED BY <1>2, <1>3, <1>4

\* A delimiter of a well formed text is outside of parentheses, and found there.
LEMMA DelimiterFound ==
    ASSUME NEW t \in Texts, Formed(t), NEW s, s = Scan(DelimiterLexer, t),
           NEW b \in 1..Len(t), s[b].is = "code", t[b] = "semi",
           NEW o \in 1..Len(t), b < o, s[o].is # "comment", t[o] \notin Cut
    PROVE  ContainsDelimiter(t)
<1> DEFINE c == Canonical(t)
           code == CodeOf(DelimiterLexer, c)
           ct == CodeOf(DelimiterLexer, t)
           ends == {i \in code : c[i] = "semi" /\ SaturatingDepth(c, code, i) = 0}
           sc == Scan(DelimiterLexer, c)
<1>1. DelimiterLexer \in Lexers
    BY DEF DelimiterLexer, Lexers
<1>c. ContainsDelimiter(t) <=> ends # {} /\ SqlFollows(c, Min(ends))
    BY DEF ContainsDelimiter
<1>2. PICK d : Slice(c, t, d, Cut)
    BY CanonicalIs
<1> HIDE DEF c
<1>3. /\ c \in Texts /\ d \in Nat /\ Len(c) + d <= Len(t) /\ Len(c) \in Nat /\ Len(t) \in Nat
      /\ \A i \in 1..Len(c) : c[i] = t[i + d]
      /\ \A i \in 1..d : t[i] \in Blanks
      /\ \A i \in 1..Len(t) : i > Len(c) + d => t[i] \in Cut
    BY <1>2 DEF Slice, Texts
<1> DEFINE p == b - d
           q == o - d
<1>4. p \in 1..Len(c) /\ p + d = b /\ q \in 1..Len(c) /\ q + d = o /\ p < q
  <2>1. ~(b \in 1..d)
      BY <1>3 DEF Blanks, Newlines
  <2>2. ~(o > Len(c) + d)
      BY <1>3
  <2> QED BY <1>3, <2>1, <2>2
<1> HIDE DEF p, q
<1>s. sc = Scan(DelimiterLexer, c) /\ s = Scan(DelimiterLexer, t)
    BY <1>1
<1> HIDE DEF sc
<1>5. /\ \A i \in 1..Len(c) : i < Len(c) => StateAt(sc, i) = StateAt(s, i + d)
      /\ \A i \in 1..Len(c) : StateAt(sc, i).is = StateAt(s, i + d).is
    BY <1>1, <1>2, <1>s, SliceScan
<1>6. /\ \A i \in 1..Len(c) : StateAt(sc, i) = sc[i]
      /\ \A i \in 1..Len(t) : StateAt(s, i) = s[i]
    BY <1>1, <1>3, <1>s, ScanAt
<1>7. sc[p].is = "code" /\ c[p] = "semi" /\ p \in code
  <2>1. sc[p].is = s[b].is
      BY <1>4, <1>5, <1>6
  <2>2. c[p] = t[b]
      BY <1>3, <1>4
  <2> QED BY <1>4, <1>s, <2>1, <2>2 DEF CodeOf, CodeIn
<1>8. sc[q].is # "comment" /\ c[q] \notin Cut
  <2>1. sc[q].is = s[o].is
      BY <1>4, <1>5, <1>6
  <2>2. c[q] = t[o]
      BY <1>3, <1>4
  <2> QED BY <2>1, <2>2
<1>9. SaturatingDepth(c, code, p) = 0
  <2>1. p \in 0..Len(c) /\ p < Len(c)
      BY <1>3, <1>4
  <2>2. \A x \in {"(", ")"} : \A i \in 1..p + 1 : Count(x, t, ct, i + d) = Count(x, c, code, i)
      BY <1>1, <1>2, <2>1, SliceCounts
  <2>3. /\ \A i \in 1..Len(t) + 1 : Count(")", t, ct, i) <= Count("(", t, ct, i)
        /\ \A i \in ct : t[i] = "semi" => Count("(", t, ct, i) = Count(")", t, ct, i)
      BY <1>1 DEF Formed, Balanced
  <2>4. \A k \in 1..p : Count(")", c, code, k) <= Count("(", c, code, k)
    <3> TAKE k \in 1..p
    <3>1. k \in 1..p + 1 /\ k + d \in 1..Len(t) + 1
        BY <1>3, <1>4
    <3> QED BY <2>2, <2>3, <3>1
  <2>5. Count("(", c, code, p) = Count(")", c, code, p)
    <3>1. b \in ct
        BY <1>s DEF CodeOf, CodeIn
    <3>2. p \in 1..p + 1
        BY <1>4
    <3> QED BY <1>4, <2>2, <2>3, <3>1, <3>2
  <2>6. code \in SUBSET (1..Len(c))
      BY DEF CodeOf, CodeIn
  <2>7. Counts("(", c, code)
      BY <1>3, <2>6, CountIs
  <2>8. p \in Nat
      BY <1>4
  <2>9. Count("(", c, code, p) \in Nat
      BY <2>7, <2>8 DEF Counts
  <2>10. SaturatingDepth(c, code, p) = Count("(", c, code, p) - Count(")", c, code, p)
      BY <1>3, <1>4, <2>4, <2>6, DepthIsOpen
  <2> QED BY <2>5, <2>9, <2>10
<1> DEFINE f == Min(ends)
<1>10. p \in ends
    BY <1>7, <1>9
<1>11. f \in ends /\ f <= p
  <2>1. ends \subseteq Nat
      BY DEF CodeOf, CodeIn
  <2> HIDE DEF ends
  <2> QED BY <1>10, <2>1, MinIs
<1>12. f \in 1..Len(c) /\ sc[f].is = "code" /\ c[f] = "semi" /\ f < q
  <2>1. f \in 1..Len(c) /\ sc[f].is = "code" /\ c[f] = "semi"
      BY <1>11, <1>s DEF CodeOf, CodeIn
  <2> QED BY <1>3, <1>4, <1>11, <2>1
<1> HIDE DEF ends, f, code, ct
<1> DEFINE rest == SubSeq(c, f + 1, Len(c))
           z == Scan(DelimiterLexer, rest)
           k == q - f
<1>r. rest = SubSeq(c, f + 1, Len(c)) /\ z = Scan(DelimiterLexer, rest)
    OBVIOUS
<1> HIDE DEF rest, z
<1>a. RestAlike(c, sc, f, rest, z)
    BY <1>1, <1>3, <1>12, <1>s, <1>r, RestScan
<1>13. k \in 1..Len(rest) /\ rest[k] = c[q] /\ z[k] = sc[q]
    BY <1>4, <1>12, <1>a DEF RestAlike
<1>14. z[k].is # "comment" /\ rest[k] \notin Blanks \cup {"semi"}
    BY <1>8, <1>13 DEF Cut
<1>15. SqlFollows(c, f)
    BY <1>13, <1>14, <1>r DEF SqlFollows
<1> QED BY <1>c, <1>10, <1>15 DEF f

\* So a text that is more than one statement for PostgreSQL is not let pass.
LEMMA OneStatementAtMost ==
    ASSUME NEW t \in Texts, Cardinality(CodeStatements(t)) > 1, Formed(t)
    PROVE  ContainsDelimiter(t)
<1> DEFINE s == Scan(DelimiterLexer, t)
<1>1. s = Scan(DelimiterLexer, t)
    OBVIOUS
<1> HIDE DEF s
<1>2. PICK b \in 1..Len(t), i \in 1..Len(t) :
          /\ s[b].is = "code" /\ t[b] = "semi" /\ b < i
          /\ s[i].is # "comment" /\ (s[i].is = "code" => t[i] \notin Cut)
    BY <1>1, TwoStatements
<1>3. PICK o \in 1..Len(t) : b < o /\ s[o].is # "comment" /\ t[o] \notin Cut
    BY <1>1, <1>2, SqlAfterDelimiter
<1> QED BY <1>1, <1>2, <1>3, DelimiterFound

\* Whatever is typed is a text.
LEMMA TextsOnly == TextSpec => [](text \in Texts)
<1> DEFINE Inv == text \in Texts
<1>1. TextInit => Inv
    BY DEF TextInit, Texts
<1>2. Inv /\ [TextNext]_textVars => Inv'
  <2> SUFFICES ASSUME Inv, [TextNext]_textVars PROVE text' \in Texts
      OBVIOUS
  <2>1. ASSUME NEW piece \in Pieces \cup Arguments, Type(piece) PROVE text' \in Texts
    <3>1. piece \in Seq(STRING) /\ text \in Seq(STRING) /\ text' = text \o piece
        BY <2>1, PiecesAssumption DEF Type, Texts
    <3> QED BY <3>1 DEF Texts
  <2>2. CASE WriteOutside
      BY <2>1, <2>2 DEF WriteOutside
  <2>3. CASE WriteInside
      BY <2>1, <2>3 DEF WriteInside
  <2>4. CASE UNCHANGED textVars
      BY <2>4 DEF textVars
  <2> QED BY <2>2, <2>3, <2>4 DEF TextNext
<1>3. TextSpec => []Inv
  <2> HIDE DEF Inv
  <2> QED BY <1>1, <1>2, PTL DEF TextSpec
<1> QED BY <1>3

\* OneStatementOnly: a text the delimiter scanner lets pass is one statement at most for
\* PostgreSQL, however long it is and whatever its quotes and comments hide, unless it is one that
\* the scanner misreads.
THEOREM TextIsOneStatement == TextSpec => []OneStatementOnly
<1>1. text \in Texts => OneStatementOnly
    BY OneStatementAtMost, AsPostgres DEF OneStatementOnly
<1> QED BY <1>1, TextsOnly, PTL

\* In a quote or a block comment, a blank or a semicolon changes nothing.
LEMMA StaysInside ==
    ASSUME NEW lexer \in Lexers, NEW t \in Texts, NEW i \in 1..Len(t), NEW h \in Nat, NEW s,
           StateOk(t, h, s), s.mode \in {"single", "double", "block", "dollar"}, t[i] \in Cut
    PROVE  LexStep(lexer, t, i, s).mode = s.mode
<1>1. s \in LexStates /\ s.skip \in Nat /\ Len(t) \in Nat
    BY DEF StateOk, LexStates, Texts
<1>2. t[i] \notin {"'", "dq", "/", "*", "$"}
    BY DEF Cut, Blanks, Newlines
<1> DEFINE r == LexStep(lexer, t, i, s)
           k == s.skip - 1
<1>3. CASE s.skip > 0
  <2> HIDE DEF k
  <2>1. r = [s EXCEPT !.skip = k]
      BY <1>3 DEF LexStep, k
  <2> QED BY <1>1, <2>1 DEF LexStates
<1>4. CASE s.skip = 0 /\ s.mode \in {"single", "double"}
  <2>1. ASSUME NEW q \in {"'", "dq"} PROVE StepInQuote(t, i, s, q).mode = s.mode
    <3>1. t[i] # q
        BY <1>2
    <3>2. StepInQuote(t, i, s, q) \in {[s EXCEPT !.skip = 1], s}
        BY <3>1 DEF StepInQuote, Pair
    <3> QED BY <1>1, <3>2 DEF LexStates
  <2>2. r = StepInQuote(t, i, s, "'") \/ r = StepInQuote(t, i, s, "dq")
      BY <1>4 DEF LexStep
  <2> QED BY <2>1, <2>2
<1>5. CASE s.skip = 0 /\ s.mode = "block"
  <2>1. r = StepInBlock(lexer, t, i, s)
      BY <1>5 DEF LexStep
  <2>2. ~Pair(t, i, "/", "*") /\ ~Pair(t, i, "*", "/")
      BY <1>2 DEF Pair
  <2>3. StepInBlock(lexer, t, i, s) = s
      BY <2>2 DEF StepInBlock
  <2> QED BY <2>1, <2>3
<1>6. CASE s.skip = 0 /\ s.mode = "dollar"
  <2>1. IsTag(s.tag)
      BY <1>6 DEF StateOk
  <2> DEFINE tag == s.tag
             n == Len(tag)
             e == i + n - 1
             a == SubSeq(t, i, e)
  <2>2. n \in Nat /\ n >= 2 /\ tag[1] = "$"
      BY <2>1 DEF IsTag
  <2>3. ~DollarEnds(t, i, tag)
    <3> SUFFICES ASSUME e <= Len(t), a = tag PROVE FALSE
        BY DEF DollarEnds
    <3>1. Span(t, i, e, n)
        BY <1>1, <2>2 DEF Span
    <3>2. PartOf(a, t, i, n)
        BY <3>1, SubTextIs
    <3> HIDE DEF a, e
    <3>3. a[1] = t[i]
        BY <1>1, <2>2, <3>2 DEF PartOf
    <3> QED BY <1>2, <2>2, <3>3
  <2>4. r = s
      BY <1>6, <2>3 DEF LexStep
  <2> QED BY <2>4
<1> QED BY <1>1, <1>3, <1>4, <1>5, <1>6

\* So what is left of a text that ends outside of quotes and block comments, and does not end in a
\* comment, ends in code.
LEMMA SliceEnds ==
    ASSUME NEW c, NEW t, NEW d, Slice(c, t, d, Cut), ~Unterminated(DelimiterLexer, t),
           NEW sc, sc = Scan(DelimiterLexer, c), EndState(sc).is # "comment"
    PROVE  Ready(StateAt(sc, Len(c)))
<1> DEFINE st == Scan(DelimiterLexer, t)
           m == Len(c)
           N == Len(t)
           Inside == {"single", "double", "block", "dollar"}
<1>1. /\ c \in Texts /\ t \in Texts /\ d \in Nat /\ m + d <= N /\ m \in Nat /\ N \in Nat
      /\ \A i \in 1..N : i > m + d => t[i] \in Cut
    BY DEF Slice, Texts
<1>2. DelimiterLexer \in Lexers
    BY DEF DelimiterLexer, Lexers
<1>s. st = Scan(DelimiterLexer, t)
    OBVIOUS
<1>u. EndState(st).mode \in {"code", "line"}
    BY DEF Unterminated
<1> HIDE DEF st
<1>3. /\ EndState(sc) = StateAt(sc, m) /\ StateOk(c, m, StateAt(sc, m)) /\ StateAt(sc, 0) = InCode
      /\ EndState(st) = StateAt(st, N) /\ \A i \in 0..N : StateOk(t, i, StateAt(st, i))
      /\ \A i \in 1..N : StateAt(st, i) = LexStep(DelimiterLexer, t, i, StateAt(st, i - 1))
    BY <1>1, <1>2, <1>s, ScanAt
<1>4. m > 0 => StateAt(st, m + d).mode = StateAt(sc, m).mode
  <2>1. m > 0 => m \in 1..m
      BY <1>1
  <2>2. \A i \in 1..m : StateAt(sc, i).mode = StateAt(st, i + d).mode
      BY <1>2, <1>s, SliceScan
  <2> QED BY <2>1, <2>2
<1>5. StateAt(sc, m).mode \notin Inside
  <2> SUFFICES ASSUME StateAt(sc, m).mode \in Inside PROVE FALSE
      OBVIOUS
  <2>1. m > 0
      BY <1>1, <1>3 DEF InCode
  <2> DEFINE b == m + d
             Good == {i \in b..N : StateAt(st, i).mode \in Inside}
             Bad == {i \in b..N : i \notin Good}
  <2>2. b \in Nat /\ b <= N /\ b \in Good
      BY <1>1, <1>4, <2>1
  <2>3. \A i \in b..N : i # b /\ i - 1 \in Good => i \in Good
    <3> TAKE i \in b..N
    <3> HAVE i # b /\ i - 1 \in Good
    <3> DEFINE h == i - 1
               s == StateAt(st, h)
    <3>1. h \in Nat /\ h \in 0..N /\ i \in 1..N /\ i > m + d
        BY <1>1, <2>2
    <3>2. StateOk(t, h, s) /\ s.mode \in Inside /\ t[i] \in Cut
        BY <1>1, <1>3, <3>1
    <3>3. StateAt(st, i) = LexStep(DelimiterLexer, t, i, s)
        BY <1>3, <3>1
    <3> HIDE DEF s, h
    <3>4. LexStep(DelimiterLexer, t, i, s).mode = s.mode
        BY <1>1, <1>2, <3>1, <3>2, StaysInside
    <3> QED BY <3>2, <3>3, <3>4
  <2>4. Bad = {}
    <3> SUFFICES ASSUME Bad # {} PROVE FALSE
        OBVIOUS
    <3>1. Bad \subseteq Nat
        BY <1>1, <2>2
    <3> HIDE DEF Bad
    <3>2. Min(Bad) \in Bad /\ \A x \in Bad : Min(Bad) <= x
        BY <3>1, MinIs
    <3> DEFINE i == Min(Bad)
    <3>3. i \in Bad /\ \A x \in Bad : i <= x
        BY <3>2
    <3> HIDE DEF i
    <3> QED BY <2>2, <2>3, <3>3 DEF Bad
  <2>5. StateAt(st, N).mode \in Inside
      BY <1>1, <2>2, <2>4
  <2> QED BY <1>u, <1>3, <2>5
<1>6. StateAt(sc, m).mode # "line"
    BY <1>3 DEF StateOk
<1>7. StateAt(sc, m).mode = "code" /\ StateAt(sc, m).skip = 0
  <2>1. StateAt(sc, m) \in LexStates /\ StateAt(sc, m).skip + m <= m
      BY <1>3 DEF StateOk
  <2>2. StateAt(sc, m).skip = 0
      BY <1>1, <2>1 DEF LexStates
  <2> QED BY <1>5, <1>6, <2>1, <2>2 DEF LexStates
<1> QED BY <1>7 DEF Ready


\* w is c between the parentheses of a derived table.
Wraps(w, c) ==
    /\ c \in Texts /\ w \in Texts /\ Len(w) = Len(c) + 5
    /\ w[1] = "select" /\ w[2] = "from" /\ w[3] = "("
    /\ \A i \in 1..Len(c) : c[i] = w[i + 3]
    /\ w[Len(c) + 4] = ")" /\ w[Len(c) + 5] = "x"

\* A sequence of two.
LEMMA PairIsSeq ==
    ASSUME NEW S, NEW a \in S, NEW b \in S PROVE <<a, b>> \in Seq(S)
OBVIOUS

\* ... of three.
LEMMA TripleIsSeq ==
    ASSUME NEW S, NEW a \in S, NEW b \in S, NEW c \in S PROVE <<a, b, c>> \in Seq(S)
OBVIOUS

\* WrapForPage makes that.
LEMMA WrapIs ==
    ASSUME NEW t, Canonical(t) \in Texts
    PROVE  Wraps(WrapForPage(t), Canonical(t))
<1> DEFINE c == Canonical(t)
           w == WrapForPage(t)
           pre == <<"select", "from", "(">>
           post == <<")", "x">>
<1>1. w = pre \o c \o post
    BY DEF WrapForPage
<1> HIDE DEF c, w
<1>2. c \in Seq(STRING) /\ pre \in Seq(STRING) /\ post \in Seq(STRING) /\ Len(c) \in Nat
  <2>1. c \in Seq(STRING)
      BY DEF c, Texts
  <2> DEFINE S == STRING
             x1 == "select"
             x2 == "from"
             x3 == "("
             x4 == ")"
             x5 == "x"
  <2>4. x1 \in S /\ x2 \in S /\ x3 \in S /\ x4 \in S /\ x5 \in S
      BY SymbolsAssumption
  <2> HIDE DEF S, x1, x2, x3, x4, x5
  <2>5. <<x1, x2, x3>> \in Seq(S)
      BY <2>4, TripleIsSeq
  <2>6. <<x4, x5>> \in Seq(S)
      BY <2>4, PairIsSeq
  <2>2. pre \in Seq(STRING)
      BY <2>5 DEF S, x1, x2, x3
  <2>3. post \in Seq(STRING)
      BY <2>6 DEF S, x4, x5
  <2> QED BY <2>1, <2>2, <2>3
<1>3. w \in Seq(STRING)
    BY <1>1, <1>2
<1>4. Len(w) = Len(c) + 5
    BY <1>1, <1>2
<1>5. w[1] = "select" /\ w[2] = "from" /\ w[3] = "("
    BY <1>1, <1>2
<1>6. \A i \in 1..Len(c) : c[i] = w[i + 3]
    BY <1>1, <1>2
<1>7. w[Len(c) + 4] = ")" /\ w[Len(c) + 5] = "x"
    BY <1>1, <1>2
<1> QED BY <1>2, <1>3, <1>4, <1>5, <1>6, <1>7 DEF Wraps, c, w, Texts

\* Its scan is that of the text in it, with code around.
LEMMA WrapScan ==
    ASSUME NEW w, NEW c, Wraps(w, c), NEW lexer \in Lexers, NEW sc, sc = Scan(lexer, c),
           Ready(StateAt(sc, Len(c))), NEW sw, sw = Scan(lexer, w)
    PROVE  /\ \A i \in 1..Len(c) : StateAt(sw, i + 3) = StateAt(sc, i)
           /\ \A i \in 1..3 : StateAt(sw, i) = InCode
           /\ StateAt(sw, Len(c) + 4) = InCode /\ StateAt(sw, Len(c) + 5) = InCode
<1> DEFINE m == Len(c)
           N == Len(w)
           d == 3
<1>1. /\ c \in Texts /\ w \in Texts /\ N = m + 5 /\ m \in Nat /\ N \in Nat
      /\ w[1] = "select" /\ w[2] = "from" /\ w[3] = "(" /\ w[m + 4] = ")" /\ w[m + 5] = "x"
      /\ \A i \in 1..m : c[i] = w[i + 3]
    BY DEF Wraps, Texts
<1>2. /\ \A i \in 1..N : StateAt(sw, i) = LexStep(lexer, w, i, StateAt(sw, i - 1))
      /\ StateAt(sw, 0) = InCode
    BY <1>1, ScanAt
<1>r. Ready(InCode)
    BY DEF Ready, InCode
<1>3. ASSUME NEW i \in 1..N, w[i] \in {"select", "from", "(", ")", "x"}, Ready(StateAt(sw, i - 1))
      PROVE  StateAt(sw, i) = InCode
  <2> DEFINE s == StateAt(sw, i - 1)
  <2>1. Ready(s) /\ StateAt(sw, i) = LexStep(lexer, w, i, s)
      BY <1>2, <1>3
  <2> HIDE DEF s
  <2>2. w[i] \notin {"'", "dq", "-", "/", "$"}
      BY <1>3
  <2>3. LexStep(lexer, w, i, s) = InCode
      BY <1>1, <2>1, <2>2, PlainStep
  <2> QED BY <2>1, <2>3
<1>4. StateAt(sw, 1) = InCode /\ StateAt(sw, 2) = InCode /\ StateAt(sw, 3) = InCode
  <2>1. 1 \in 1..N /\ 2 \in 1..N /\ 3 \in 1..N /\ 1 - 1 = 0 /\ 2 - 1 = 1 /\ 3 - 1 = 2
      BY <1>1
  <2>2. StateAt(sw, 1) = InCode
      BY <1>1, <1>2, <1>r, <1>3, <2>1
  <2>3. StateAt(sw, 2) = InCode
      BY <1>1, <1>r, <1>3, <2>1, <2>2
  <2>4. StateAt(sw, 3) = InCode
      BY <1>1, <1>r, <1>3, <2>1, <2>3
  <2> QED BY <2>2, <2>3, <2>4
<1>5. Embeds(c, w, 3)
  <2>1. "(" \notin Telling /\ ")" \notin Telling
      BY DEF Telling, Words, Letters, Digits, ReadVerbs, WriteVerbs
  <2>2. w[m + 3 + 1] = w[m + 4]
      BY <1>1
  <2> QED BY <1>1, <2>1, <2>2 DEF Embeds
<1>6. Ready(StateAt(sw, 3))
    BY <1>4, <1>r
<1>7. /\ \A i \in 1..m : i < m => StateAt(sc, i) = StateAt(sw, i + 3)
      /\ \A i \in 1..m : StateAt(sc, i).mode # "single" => StateAt(sc, i) = StateAt(sw, i + 3)
    BY <1>5, <1>6, EmbeddedScan
<1>8. \A i \in 1..m : StateAt(sw, i + 3) = StateAt(sc, i)
  <2> TAKE i \in 1..m
  <2>1. i < m \/ i = m
      BY <1>1
  <2>2. i = m => StateAt(sc, i).mode # "single"
      BY DEF Ready
  <2> QED BY <1>7, <2>1, <2>2
<1>9. Ready(StateAt(sw, m + 3))
  <2>1. CASE m = 0
      BY <1>6, <2>1
  <2>2. CASE m > 0
    <3>1. m \in 1..m
        BY <1>1, <2>2
    <3> QED BY <1>8, <3>1
  <2> QED BY <1>1, <2>1, <2>2
<1>10. StateAt(sw, m + 4) = InCode
  <2> DEFINE i == m + 4
  <2>1. i \in 1..N /\ i - 1 = m + 3 /\ w[i] = ")"
      BY <1>1
  <2> HIDE DEF i
  <2>2. Ready(StateAt(sw, i - 1))
      BY <1>9, <2>1
  <2>3. StateAt(sw, i) = InCode
      BY <1>3, <2>1, <2>2
  <2> QED BY <2>3 DEF i
<1>11. StateAt(sw, m + 5) = InCode
  <2> DEFINE i == m + 5
  <2>1. i \in 1..N /\ i - 1 = m + 4 /\ w[i] = "x"
      BY <1>1
  <2> HIDE DEF i
  <2>2. Ready(StateAt(sw, i - 1))
      BY <1>10, <1>r, <2>1
  <2>3. StateAt(sw, i) = InCode
      BY <1>3, <2>1, <2>2
  <2> QED BY <2>3 DEF i
<1>12. \A i \in 1..3 : StateAt(sw, i) = InCode
  <2> TAKE i \in 1..3
  <2>1. i = 1 \/ i = 2 \/ i = 3
      OBVIOUS
  <2> QED BY <1>4, <2>1
<1> QED BY <1>8, <1>10, <1>11, <1>12


\* Its parentheses pair up if those of the text in it do, and no delimiter is in it if none is there.
LEMMA WrapCounts ==
    ASSUME NEW w, NEW c, Wraps(w, c), Ready(StateAt(Scan(DelimiterLexer, c), Len(c))),
           \A i \in CodeOf(DelimiterLexer, c) : c[i] # "semi",
           \A i \in 1..Len(c) + 1 : Count(")", c, CodeOf(DelimiterLexer, c), i) <= Count("(", c, CodeOf(DelimiterLexer, c), i),
           Count("(", c, CodeOf(DelimiterLexer, c), Len(c) + 1) = Count(")", c, CodeOf(DelimiterLexer, c), Len(c) + 1)
    PROVE  Formed(w) /\ \A i \in CodeOf(DelimiterLexer, w) : w[i] # "semi"
<1> DEFINE sc == Scan(DelimiterLexer, c)
           sw == Scan(DelimiterLexer, w)
           cc == CodeOf(DelimiterLexer, c)
           cw == CodeOf(DelimiterLexer, w)
           m == Len(c)
           N == Len(w)
           Opened(i) == Count("(", w, cw, i)
           Closed(i) == Count(")", w, cw, i)
<1>1. /\ c \in Texts /\ w \in Texts /\ N = m + 5 /\ m \in Nat /\ N \in Nat
      /\ w[1] = "select" /\ w[2] = "from" /\ w[3] = "(" /\ w[m + 4] = ")" /\ w[m + 5] = "x"
      /\ \A i \in 1..m : c[i] = w[i + 3]
    BY DEF Wraps, Texts
<1>2. DelimiterLexer \in Lexers
    BY DEF DelimiterLexer, Lexers
<1>s. sc = Scan(DelimiterLexer, c) /\ sw = Scan(DelimiterLexer, w) /\ Ready(StateAt(sc, Len(c)))
    OBVIOUS
<1>3. /\ \A i \in cc : c[i] # "semi"
      /\ \A i \in 1..m + 1 : Count(")", c, cc, i) <= Count("(", c, cc, i)
      /\ Count("(", c, cc, m + 1) = Count(")", c, cc, m + 1)
    OBVIOUS
<1>4. cc = {i \in 1..m : StateAt(sc, i) = InCode} /\ cw = {i \in 1..N : StateAt(sw, i) = InCode} /\ EndState(sw) = StateAt(sw, N)
    BY <1>1, <1>2, ScanAt
<1>5. Unterminated(DelimiterLexer, w) <=> EndState(sw).mode \notin {"code", "line"}
    BY DEF Unterminated
<1>w. Formed(w) <=>
        /\ ~Unterminated(DelimiterLexer, w)
        /\ \A i \in 1..N + 1 : Closed(i) <= Opened(i)
        /\ Opened(N + 1) = Closed(N + 1)
        /\ \A i \in cw : w[i] = "semi" => Opened(i) = Closed(i)
    BY DEF Formed, Balanced
<1> HIDE DEF sc, sw, cc, cw
<1>6. /\ \A i \in 1..m : StateAt(sw, i + 3) = StateAt(sc, i)
      /\ \A i \in 1..3 : StateAt(sw, i) = InCode
      /\ StateAt(sw, m + 4) = InCode /\ StateAt(sw, m + 5) = InCode
    BY <1>2, <1>s, WrapScan
<1>7. /\ 1 \in cw /\ 2 \in cw /\ 3 \in cw /\ m + 4 \in cw
      /\ \A i \in 1..m : i \in cc <=> i + 3 \in cw
  <2>1. 1 \in 1..N /\ 2 \in 1..N /\ 3 \in 1..N /\ m + 4 \in 1..N /\ 1 \in 1..3 /\ 2 \in 1..3 /\ 3 \in 1..3
      BY <1>1
  <2>2. \A i \in 1..m : i + 3 \in 1..N
      BY <1>1
  <2>3. 1 \in cw /\ 2 \in cw /\ 3 \in cw /\ m + 4 \in cw
      BY <1>4, <1>6, <2>1
  <2>4. ASSUME NEW i \in 1..m PROVE i \in cc <=> i + 3 \in cw
      BY <1>4, <1>6, <2>2
  <2> QED BY <2>3, <2>4
<1>8. \A i \in cw : w[i] # "semi"
  <2> SUFFICES ASSUME NEW i \in cw, w[i] = "semi" PROVE FALSE
      OBVIOUS
  <2> DEFINE j == i - 3
  <2>1. i \in 1..N
      BY <1>4
  <2>2. j \in 1..m /\ j + 3 = i
    <3>1. i # 1 /\ i # 2 /\ i # 3 /\ i # m + 4 /\ i # m + 5
        BY <1>1
    <3> QED BY <1>1, <2>1, <3>1
  <2> HIDE DEF j
  <2>3. j \in cc /\ c[j] = "semi"
      BY <1>1, <1>7, <2>2
  <2> QED BY <1>3, <2>3
<1>9. Counts("(", w, cw) /\ Counts(")", w, cw) /\ Counts("(", c, cc) /\ Counts(")", c, cc)
  <2>1. cw \in SUBSET (1..N) /\ cc \in SUBSET (1..m)
      BY <1>4
  <2> QED BY <1>1, <2>1, CountIs
<1>10. Moved(c, cc, w, cw, 3, m)
    BY <1>1, <1>7 DEF Moved
<1>11. /\ \A i \in 1..m + 1 : Opened(i + 3) = Opened(4) + Count("(", c, cc, i)
       /\ \A i \in 1..m + 1 : Closed(i + 3) = Closed(4) + Count(")", c, cc, i)
  <2> DEFINE d == 3
  <2>1. d + 1 = 4 /\ d = 3
      OBVIOUS
  <2> HIDE DEF d, m
  <2>2. Moved(c, cc, w, cw, d, m)
      BY <1>10, <2>1
  <2>3. \A i \in 1..m + 1 : Count("(", w, cw, i + d) = Count("(", w, cw, d + 1) + Count("(", c, cc, i)
      BY <1>9, <2>2, CountMoved
  <2>4. \A i \in 1..m + 1 : Count(")", w, cw, i + d) = Count(")", w, cw, d + 1) + Count(")", c, cc, i)
      BY <1>9, <2>2, CountMoved
  <2> QED BY <2>1, <2>3, <2>4
<1>12. /\ \A i \in Nat : Opened(i) \in Nat /\ Closed(i) \in Nat
       /\ Opened(1) = 0 /\ Closed(1) = 0
    BY <1>9 DEF Counts
<1>n. ASSUME NEW i \in Nat, NEW j, j = i + 1
      PROVE  /\ i \in cw /\ w[i] = "(" => Opened(j) = Opened(i) + 1
             /\ ~(i \in cw /\ w[i] = "(") => Opened(j) = Opened(i)
             /\ i \in cw /\ w[i] = ")" => Closed(j) = Closed(i) + 1
             /\ ~(i \in cw /\ w[i] = ")") => Closed(j) = Closed(i)
  <2>1. Opened(i + 1) = Opened(i) + (IF i \in cw /\ w[i] = "(" THEN 1 ELSE 0)
      BY <1>9 DEF Counts
  <2>2. Closed(i + 1) = Closed(i) + (IF i \in cw /\ w[i] = ")" THEN 1 ELSE 0)
      BY <1>9 DEF Counts
  <2> HIDE DEF Opened, Closed
  <2>3. Opened(i) \in Nat /\ Closed(i) \in Nat
      BY <1>12
  <2> QED BY <1>n, <2>1, <2>2, <2>3
<1> HIDE DEF Opened, Closed
<1>13. Closed(2) = 0 /\ Closed(3) = 0 /\ Closed(4) = 0 /\ Opened(2) = 0 /\ Opened(3) = 0 /\ Opened(4) = 1
  <2>1. 2 = 1 + 1 /\ 3 = 2 + 1 /\ 4 = 3 + 1
      OBVIOUS
  <2>2. Closed(2) = Closed(1) /\ Opened(2) = Opened(1)
      BY <1>1, <1>n, <2>1
  <2>3. Closed(3) = Closed(2) /\ Opened(3) = Opened(2)
      BY <1>1, <1>n, <2>1
  <2>4. Closed(4) = Closed(3) /\ Opened(4) = Opened(3) + 1
      BY <1>1, <1>7, <1>n, <2>1
  <2> QED BY <1>12, <2>2, <2>3, <2>4
<1> DEFINE k == Count("(", c, cc, m + 1)
<1>14. k \in Nat /\ Opened(m + 4) = 1 + k /\ Closed(m + 4) = k
  <2> DEFINE e == m + 1
             f == m + 4
  <2>1. e \in 1..e /\ e \in Nat /\ e + 3 = f
      BY <1>1
  <2>e. k = Count(")", c, cc, e)
      BY <1>3
  <2>f. /\ \A i \in 1..e : Opened(i + 3) = Opened(4) + Count("(", c, cc, i)
        /\ \A i \in 1..e : Closed(i + 3) = Closed(4) + Count(")", c, cc, i)
      BY <1>11
  <2>g. k = Count("(", c, cc, e)
      OBVIOUS
  <2> HIDE DEF e, f, k
  <2>2. k \in Nat
      BY <1>9, <2>1, <2>g DEF Counts
  <2>3. Opened(f) = Opened(4) + k /\ Closed(f) = Closed(4) + k
      BY <2>1, <2>e, <2>f, <2>g
  <2>4. Opened(f) = 1 + k /\ Closed(f) = k
      BY <1>13, <2>2, <2>3
  <2> QED BY <2>2, <2>4 DEF f
<1> HIDE DEF k
<1>15. Opened(m + 5) = 1 + k /\ Closed(m + 5) = 1 + k /\ Opened(m + 6) = 1 + k /\ Closed(m + 6) = 1 + k
  <2> DEFINE e == m + 4
             f == m + 5
             g == m + 6
  <2>1. e \in Nat /\ f \in Nat /\ f = e + 1 /\ g = f + 1
      BY <1>1
  <2>2. e \in cw /\ w[e] = ")" /\ w[f] = "x" /\ Opened(e) = 1 + k /\ Closed(e) = k
      BY <1>1, <1>7, <1>14
  <2> HIDE DEF e, f, g
  <2>3. Opened(f) = Opened(e) /\ Closed(f) = Closed(e) + 1
      BY <1>n, <2>1, <2>2
  <2>4. Opened(g) = Opened(f) /\ Closed(g) = Closed(f)
      BY <1>n, <2>1, <2>2
  <2>5. Opened(f) = 1 + k /\ Closed(f) = 1 + k /\ Opened(g) = 1 + k /\ Closed(g) = 1 + k
      BY <1>14, <2>2, <2>3, <2>4
  <2> QED BY <2>5 DEF f, g
<1>16. ASSUME NEW i \in 1..N + 1 PROVE Closed(i) <= Opened(i)
  <2>1. CASE i \in 4..m + 4
    <3> DEFINE j == i - 3
    <3>1. j \in 1..m + 1 /\ j + 3 = i /\ j \in Nat
        BY <1>1, <2>1
    <3> HIDE DEF j
    <3>2. Opened(i) = 1 + Count("(", c, cc, j) /\ Closed(i) = 0 + Count(")", c, cc, j)
        BY <1>11, <1>13, <3>1
    <3>3. Count("(", c, cc, j) \in Nat /\ Count(")", c, cc, j) \in Nat
        BY <1>9, <3>1 DEF Counts
    <3>4. Count(")", c, cc, j) <= Count("(", c, cc, j)
        BY <1>3, <3>1
    <3> QED BY <3>2, <3>3, <3>4
  <2>2. CASE i \notin 4..m + 4
    <3>1. i = 1 \/ i = 2 \/ i = 3 \/ i = m + 5 \/ i = m + 6
        BY <1>1, <2>2
    <3>2. Closed(m + 5) <= Opened(m + 5) /\ Closed(m + 6) <= Opened(m + 6)
        BY <1>14, <1>15
    <3>3. Closed(1) <= Opened(1) /\ Closed(2) <= Opened(2) /\ Closed(3) <= Opened(3)
        BY <1>12, <1>13
    <3> QED BY <3>1, <3>2, <3>3
  <2> QED BY <2>1, <2>2
<1>17. Opened(N + 1) = Closed(N + 1)
  <2>1. N + 1 = m + 6
      BY <1>1
  <2> QED BY <1>15, <2>1
<1>18. ~Unterminated(DelimiterLexer, w)
  <2>1. EndState(sw) = InCode
      BY <1>1, <1>4, <1>6
  <2> QED BY <1>5, <2>1 DEF InCode
<1>19. Formed(w)
    BY <1>8, <1>16, <1>17, <1>18, <1>w
<1> QED BY <1>8, <1>19 DEF cw


\* A text without a delimiter is one statement, if it has code other than blanks.
LEMMA OneStatement ==
    ASSUME NEW t \in Texts, \A i \in CodeOf(DelimiterLexer, t) : t[i] # "semi",
           NEW o \in CodeOf(DelimiterLexer, t), t[o] \notin Cut
    PROVE  Cardinality(CodeStatements(t)) = 1
<1> DEFINE s == Scan(DelimiterLexer, t)
           ends == {i \in CodeOf(DelimiterLexer, t) : t[i] = "semi"}
           ink == {i \in 1..Len(t) : s[i].is # "comment" /\ (s[i].is = "code" => t[i] \notin Blanks \cup {"semi"})}
           of(a) == {i \in ink : a < i /\ \A e \in ends : e > a => i < e}
           all == {of(a) : a \in {0} \cup ends} \ {{}}
<1>1. CodeStatements(t) = all
    BY DEF CodeStatements
<1>2. ends = {}
    OBVIOUS
<1>3. o \in 1..Len(t) /\ s[o].is = "code"
    BY DEF CodeOf, CodeIn
<1>4. o \in ink
    BY <1>3 DEF Cut
<1> HIDE DEF ends, ink, s
<1> DEFINE first == of(0)
<1>5. o \in first
    BY <1>2, <1>3, <1>4
<1>6. all = {first}
  <2> HIDE DEF of
  <2>1. {of(a) : a \in {0} \cup ends} = {of(0)}
      BY <1>2
  <2> QED BY <1>5, <2>1
<1> HIDE DEF all, first
<1>7. Cardinality({first}) = 1
    BY FS_Singleton
<1> QED BY <1>1, <1>6, <1>7

\* What canonicalize_sql leaves of a well formed text is well formed too: it ends in code and its
\* parentheses pair up.
LEMMA CanonicalCounts ==
    ASSUME NEW t, NEW c, NEW d, Slice(c, t, d, Cut), Formed(t),
           Ready(StateAt(Scan(DelimiterLexer, c), Len(c)))
    PROVE  /\ \A i \in 1..Len(c) + 1 : Count(")", c, CodeOf(DelimiterLexer, c), i) <= Count("(", c, CodeOf(DelimiterLexer, c), i)
           /\ Count("(", c, CodeOf(DelimiterLexer, c), Len(c) + 1) = Count(")", c, CodeOf(DelimiterLexer, c), Len(c) + 1)
<1> DEFINE cc == CodeOf(DelimiterLexer, c)
           ct == CodeOf(DelimiterLexer, t)
           m == Len(c)
           N == Len(t)
           a == m + 1 + d
           b == N + 1
<1>1. /\ c \in Texts /\ t \in Texts /\ d \in Nat /\ m + d <= N /\ m \in Nat /\ N \in Nat
      /\ \A i \in 1..N : i > m + d => t[i] \in Cut
    BY DEF Slice, Texts
<1>2. DelimiterLexer \in Lexers
    BY DEF DelimiterLexer, Lexers
<1>3. /\ \A i \in 1..N + 1 : Count(")", t, ct, i) <= Count("(", t, ct, i)
      /\ Count("(", t, ct, b) = Count(")", t, ct, b)
    BY DEF Formed, Balanced
<1>4. \A s \in {"(", ")"} : \A i \in 1..m + 1 : Count(s, t, ct, i + d) = Count(s, c, cc, i)
  <2>1. m \in 0..Len(c)
      BY <1>1
  <2>2. StateAt(Scan(DelimiterLexer, c), Len(c)).mode # "single"
      BY DEF Ready
  <2> QED BY <1>2, <2>1, <2>2, SliceCounts
<1>c. ct \subseteq 1..N
    BY DEF CodeOf, CodeIn
<1> HIDE DEF cc, ct
<1>5. ASSUME NEW i \in 1..m + 1 PROVE Count(")", c, cc, i) <= Count("(", c, cc, i)
  <2>1. i + d \in 1..N + 1
      BY <1>1
  <2> QED BY <1>3, <1>4, <2>1
<1>6. Count("(", c, cc, m + 1) = Count(")", c, cc, m + 1)
  <2>1. a \in Nat /\ b \in Nat /\ a <= b /\ m + 1 \in 1..m + 1 /\ a = m + 1 + d
      BY <1>1
  <2>2. ASSUME NEW s \in {"(", ")"} PROVE Count(s, t, ct, a) = Count(s, t, ct, b)
    <3>1. ASSUME NEW i \in ct, a <= i PROVE t[i] # s
      <4>1. i \in 1..N /\ i > m + d
          BY <1>1, <1>c, <3>1
      <4>2. t[i] \in Cut
          BY <1>1, <4>1
      <4> QED BY <4>2 DEF Cut, Blanks, Newlines
    <3>2. ct \subseteq Nat
        BY <1>c
    <3> HIDE DEF a, b
    <3>3. NoneIn(s, t, ct, a, b)
        BY <2>1, <3>1, <3>2 DEF NoneIn
    <3> QED BY <3>3, CountFlat
  <2>3. \A s \in {"(", ")"} : Count(s, t, ct, a) = Count(s, c, cc, m + 1)
      BY <1>4, <2>1
  <2> QED BY <1>3, <2>2, <2>3
<1> QED BY <1>5, <1>6 DEF cc

\* What a page is fetched by is one statement, if what it was made from is well formed and does
\* not end loosely.
LEMMA WrappedIsOne ==
    ASSUME NEW t \in Texts, Formed(t), ~LooseEnd(t)
    PROVE  Formed(WrapForPage(t)) /\ Cardinality(CodeStatements(WrapForPage(t))) = 1
<1> DEFINE c == Canonical(t)
           w == WrapForPage(t)
           sc == Scan(DelimiterLexer, c)
<1>1. PICK d : Slice(c, t, d, Cut)
    BY CanonicalIs
<1>2. c \in Texts
    BY <1>1 DEF Slice
<1>3. Wraps(w, c)
    BY <1>2, WrapIs
<1>4. EndState(sc).is # "comment" /\ \A i \in CodeOf(DelimiterLexer, c) : c[i] # "semi"
    BY DEF LooseEnd
<1>5. ~Unterminated(DelimiterLexer, t)
    BY DEF Formed
<1> HIDE DEF c, w
<1>6. Ready(StateAt(sc, Len(c)))
    BY <1>1, <1>4, <1>5, SliceEnds
<1>7. /\ \A i \in 1..Len(c) + 1 : Count(")", c, CodeOf(DelimiterLexer, c), i) <= Count("(", c, CodeOf(DelimiterLexer, c), i)
      /\ Count("(", c, CodeOf(DelimiterLexer, c), Len(c) + 1) = Count(")", c, CodeOf(DelimiterLexer, c), Len(c) + 1)
    BY <1>1, <1>6, CanonicalCounts
<1>8. Formed(w) /\ \A i \in CodeOf(DelimiterLexer, w) : w[i] # "semi"
    BY <1>3, <1>4, <1>6, <1>7, WrapCounts
<1>9. DelimiterLexer \in Lexers
    BY DEF DelimiterLexer, Lexers
<1>10. w \in Texts /\ w[1] = "select" /\ Len(w) = Len(c) + 5 /\ Len(c) \in Nat
    BY <1>3 DEF Wraps, Texts
<1> DEFINE sw == Scan(DelimiterLexer, w)
<1>a. sw = Scan(DelimiterLexer, w)
    OBVIOUS
<1> HIDE DEF sw, sc
<1>11. StateAt(sw, 1) = InCode
  <2>1. 1 \in 1..3
      OBVIOUS
  <2>2. sc = Scan(DelimiterLexer, c)
      BY DEF sc
  <2> QED BY <1>3, <1>6, <1>9, <1>a, <2>1, <2>2, WrapScan
<1>12. 1 \in CodeOf(DelimiterLexer, w)
  <2>1. 1 \in 1..Len(w)
      BY <1>10
  <2>2. CodeOf(DelimiterLexer, w) = {i \in 1..Len(w) : StateAt(sw, i) = InCode}
      BY <1>9, <1>10, <1>a, ScanAt
  <2> QED BY <1>11, <2>1, <2>2
<1>13. w[1] \notin Cut
    BY <1>10 DEF Cut, Blanks, Newlines
<1>14. Cardinality(CodeStatements(w)) = 1
    BY <1>8, <1>10, <1>12, <1>13, OneStatement
<1> QED BY <1>8, <1>14 DEF w

\* None of the texts a page is made from and with is misread.
NoneMisread(t) == \A u \in {t, Canonical(t), WrapForPage(t)} : ~Misread(u)

\* WrapKeepsOneQuery: whatever text is paged or counted, it is one statement for PostgreSQL once
\* it is wrapped, unless it ends loosely; as long as the scanner of delimiters misreads none of them.
THEOREM WrapIsOneQuery == TextSpec => [](NoneMisread(text) => WrapKeepsOneQuery)
<1>1. text \in Texts => (NoneMisread(text) => WrapKeepsOneQuery)
  <2> SUFFICES ASSUME text \in Texts, NoneMisread(text), WellFormed(text), ~EndsLoosely(text)
               PROVE  WellFormed(WrapForPage(text)) /\ Cardinality(PostgresStatements(WrapForPage(text))) = 1
      BY DEF WrapKeepsOneQuery
  <2>1. ~Misread(text) /\ ~Misread(Canonical(text)) /\ ~Misread(WrapForPage(text))
      BY DEF NoneMisread
  <2>2. Canonical(text) \in Texts /\ WrapForPage(text) \in Texts
    <3>1. Canonical(text) \in Texts
        BY CanonicalIs DEF Slice
    <3>2. Wraps(WrapForPage(text), Canonical(text))
        BY <3>1, WrapIs
    <3> QED BY <3>1, <3>2 DEF Wraps
  <2>3. Formed(text) /\ ~LooseEnd(text)
    <3>1. ~LooseEnd(text)
        BY <2>1, <2>2, AsPostgres DEF LooseEnd, EndsLoosely
    <3> QED BY <2>1, <3>1, AsPostgres
  <2> QED BY <2>1, <2>2, <2>3, AsPostgres, WrappedIsOne
<1> QED BY <1>1, TextsOnly, PTL


-----------------------------------------------------------------------------
(* The other scanners, where no backslash is                                 *)

\* Two states that differ in the escapes at most.
Like(s, z) ==
    /\ s \in LexStates /\ z \in LexStates
    /\ s.is = z.is /\ s.mode = z.mode /\ s.skip = z.skip /\ s.depth = z.depth /\ s.tag = z.tag
    /\ s.mode = "block" => s.depth >= 1

\* A scanner that knows dollar quotes follows PostgreSQL in such a state: where it takes block
\* comments for flat, as long as none nests.
LEMMA LikeStep ==
    ASSUME NEW k \in Lexers, k.dollar, NEW t \in Texts, NEW i \in 1..Len(t), t[i] # "\\",
           NEW s, NEW z, Like(s, z),
           NEW r \in LexStates, r = LexStep(DelimiterLexer, t, i, s),
           NEW q \in LexStates, q = LexStep(k, t, i, z),
           k.nested \/ (s.depth <= 1 /\ r.depth <= 1)
    PROVE  Like(r, q)
<1>1. s \in LexStates /\ s.skip \in Nat /\ s.depth \in Nat
    BY DEF Like, LexStates
<1>2. /\ z \in LexStates /\ s.is = z.is /\ s.mode = z.mode /\ s.skip = z.skip /\ s.depth = z.depth /\ s.tag = z.tag
      /\ s.mode = "block" => s.depth >= 1
    BY DEF Like
<1>3. DelimiterLexer.dollar = TRUE /\ DelimiterLexer.nested = TRUE /\ k.dollar = TRUE
    BY DEF DelimiterLexer, Lexers
<1>c. InCode \in LexStates /\ InCode.mode = "code"
    BY DEF InCode, LexStates
<1>4. CASE s.skip > 0
  <2> DEFINE n == s.skip - 1
  <2>1. r = [s EXCEPT !.skip = n] /\ q = [z EXCEPT !.skip = n]
      BY <1>2, <1>4 DEF LexStep
  <2> HIDE DEF n
  <2> QED BY <1>1, <1>2, <2>1 DEF Like, LexStates
<1>5. CASE s.skip = 0 /\ s.mode = "code"
  <2>1. r = StepInCode(DelimiterLexer, t, i) /\ q = StepInCode(k, t, i)
      BY <1>2, <1>5 DEF LexStep
  <2>2. CASE t[i] = "'"
    <3> DEFINE b == DelimiterLexer.escape /\ BackslashEscapes(t, i)
               e == k.escape /\ BackslashEscapes(t, i)
    <3>0. DollarTag(t, i) = <<>> /\ ~Pair(t, i, "-", "-") /\ ~Pair(t, i, "/", "*")
        BY <2>2 DEF DollarTag, Pair
    <3>1. r = [InCode EXCEPT !.is = "quote", !.mode = "single", !.escapes = b]
        BY <2>1, <2>2, <3>0 DEF StepInCode
    <3>2. q = [InCode EXCEPT !.is = "quote", !.mode = "single", !.escapes = e]
        BY <2>1, <2>2, <3>0 DEF StepInCode
    <3> HIDE DEF b, e
    <3> QED BY <1>c, <3>1, <3>2 DEF Like, LexStates
  <2>3. CASE t[i] # "'"
    <3>1. r = q
        BY <1>3, <2>1, <2>3 DEF StepInCode
    <3>2. r.mode = "block" => r.depth >= 1
      <4>1. CASE t[i] = "dq"
        <5>1. DollarTag(t, i) = <<>> /\ ~Pair(t, i, "-", "-") /\ ~Pair(t, i, "/", "*")
            BY <4>1 DEF DollarTag, Pair
        <5>2. r = [InCode EXCEPT !.is = "quote", !.mode = "double"]
            BY <2>1, <4>1, <5>1 DEF StepInCode
        <5> QED BY <1>c, <5>2 DEF LexStates
      <4>2. CASE Pair(t, i, "-", "-")
        <5>1. DollarTag(t, i) = <<>> /\ ~Pair(t, i, "/", "*") /\ t[i] # "dq"
            BY <4>2 DEF DollarTag, Pair
        <5>2. r = [InCode EXCEPT !.is = "comment", !.mode = "line", !.skip = 1]
            BY <2>1, <2>3, <4>2, <5>1 DEF StepInCode
        <5> QED BY <1>c, <5>2 DEF LexStates
      <4>3. CASE Pair(t, i, "/", "*")
        <5>1. DollarTag(t, i) = <<>> /\ ~Pair(t, i, "-", "-") /\ t[i] # "dq"
            BY <4>3 DEF DollarTag, Pair
        <5>2. r = [InCode EXCEPT !.is = "comment", !.mode = "block", !.depth = 1, !.skip = 1]
            BY <2>1, <2>3, <4>3, <5>1 DEF StepInCode
        <5> QED BY <1>c, <5>2 DEF LexStates
      <4>4. CASE t[i] # "dq" /\ ~Pair(t, i, "-", "-") /\ ~Pair(t, i, "/", "*")
        <5> DEFINE tag == DollarTag(t, i)
                   n == Len(tag) - 1
        <5>1. r = [InCode EXCEPT !.is = "quote", !.mode = "dollar", !.tag = tag, !.skip = n] \/ r = InCode
            BY <2>1, <2>3, <4>4 DEF StepInCode
        <5> HIDE DEF tag, n
        <5> QED BY <1>c, <5>1 DEF LexStates
      <4> QED BY <4>1, <4>2, <4>3, <4>4
    <3> QED BY <3>1, <3>2 DEF Like
  <2> QED BY <2>2, <2>3
<1>6. CASE s.skip = 0 /\ s.mode \in {"single", "double"}
  <2>1. ASSUME NEW m \in {"'", "dq"}, r = StepInQuote(t, i, s, m), q = StepInQuote(t, i, z, m) PROVE Like(r, q)
    <3>1. CASE Pair(t, i, m, m)
      <4>1. r = [s EXCEPT !.skip = 1] /\ q = [z EXCEPT !.skip = 1]
          BY <2>1, <3>1 DEF StepInQuote, Pair
      <4> QED BY <1>1, <1>2, <4>1 DEF Like, LexStates
    <3>2. CASE ~Pair(t, i, m, m) /\ t[i] = m
      <4>1. r = [InCode EXCEPT !.is = "quote"] /\ q = [InCode EXCEPT !.is = "quote"]
          BY <2>1, <3>2 DEF StepInQuote
      <4>2. r.mode = "code"
          BY <1>c, <4>1 DEF LexStates
      <4> QED BY <4>1, <4>2 DEF Like
    <3>3. CASE ~Pair(t, i, m, m) /\ t[i] # m
      <4>1. r = s /\ q = z
          BY <2>1, <3>3 DEF StepInQuote
      <4> QED BY <4>1
    <3> QED BY <3>1, <3>2, <3>3
  <2>2. CASE s.mode = "single"
    <3>1. r = StepInQuote(t, i, s, "'") /\ q = StepInQuote(t, i, z, "'")
        BY <1>2, <1>6, <2>2 DEF LexStep
    <3> QED BY <2>1, <3>1
  <2>3. CASE s.mode = "double"
    <3>1. r = StepInQuote(t, i, s, "dq") /\ q = StepInQuote(t, i, z, "dq")
        BY <1>2, <1>6, <2>3 DEF LexStep
    <3> QED BY <2>1, <3>1
  <2> QED BY <1>6, <2>2, <2>3
<1>7. CASE s.skip = 0 /\ s.mode = "line"
  <2>1. (r = InCode /\ q = InCode) \/ (r = s /\ q = z)
      BY <1>2, <1>7 DEF LexStep
  <2> QED BY <1>c, <2>1 DEF Like
<1>8. CASE s.skip = 0 /\ s.mode = "block"
  <2>1. r = StepInBlock(DelimiterLexer, t, i, s) /\ q = StepInBlock(k, t, i, z)
      BY <1>2, <1>8 DEF LexStep
  <2>2. CASE Pair(t, i, "/", "*")
    <3> DEFINE n == s.depth + 1
    <3>0. ~Pair(t, i, "*", "/")
        BY <2>2 DEF Pair
    <3>1. r = [s EXCEPT !.depth = n, !.skip = 1]
        BY <1>3, <2>1, <2>2, <3>0 DEF StepInBlock
    <3>n. n \in Nat /\ n >= 1 /\ n = s.depth + 1
        BY <1>1
    <3> HIDE DEF n
    <3>2. r.depth = n
        BY <1>1, <3>1, <3>n DEF LexStates
    <3>3. k.nested
        BY <1>1, <1>2, <1>8, <3>2, <3>n
    <3>4. q = [z EXCEPT !.depth = n, !.skip = 1]
        BY <1>2, <2>1, <2>2, <3>0, <3>3, <3>n DEF StepInBlock
    <3> QED BY <1>1, <1>2, <3>1, <3>4, <3>n DEF Like, LexStates
  <2>3. CASE Pair(t, i, "*", "/") /\ s.depth > 1
    <3> DEFINE n == s.depth - 1
    <3>0. ~Pair(t, i, "/", "*") /\ k.nested
        BY <1>1, <2>3 DEF Pair
    <3>1. r = [s EXCEPT !.depth = n, !.skip = 1]
        BY <1>3, <2>1, <2>3, <3>0 DEF StepInBlock
    <3>2. q = [z EXCEPT !.depth = n, !.skip = 1]
        BY <1>2, <2>1, <2>3, <3>0 DEF StepInBlock
    <3>n. n \in Nat /\ n >= 1
        BY <1>1, <2>3
    <3> HIDE DEF n
    <3> QED BY <1>1, <1>2, <3>1, <3>2, <3>n DEF Like, LexStates
  <2>4. CASE Pair(t, i, "*", "/") /\ ~(s.depth > 1)
    <3>0. ~Pair(t, i, "/", "*")
        BY <2>4 DEF Pair
    <3>1. r = [InCode EXCEPT !.is = "comment", !.skip = 1]
        BY <2>1, <2>4, <3>0 DEF StepInBlock
    <3>2. q = [InCode EXCEPT !.is = "comment", !.skip = 1]
        BY <1>2, <2>1, <2>4, <3>0 DEF StepInBlock
    <3>3. r.mode = "code"
        BY <1>c, <3>1 DEF LexStates
    <3> QED BY <3>1, <3>2, <3>3 DEF Like
  <2>5. CASE ~Pair(t, i, "/", "*") /\ ~Pair(t, i, "*", "/")
    <3>1. r = s /\ q = z
        BY <2>1, <2>5 DEF StepInBlock
    <3> QED BY <3>1
  <2> QED BY <2>2, <2>3, <2>4, <2>5
<1>9. CASE s.skip = 0 /\ s.mode = "dollar"
  <2> DEFINE n == Len(s.tag) - 1
  <2>1. (r = [InCode EXCEPT !.is = "quote", !.skip = n] /\ q = [InCode EXCEPT !.is = "quote", !.skip = n]) \/ (r = s /\ q = z)
      BY <1>2, <1>9 DEF LexStep
  <2> HIDE DEF n
  <2>2. [InCode EXCEPT !.is = "quote", !.skip = n].mode = "code"
      BY <1>c DEF LexStates
  <2> QED BY <2>1, <2>2 DEF Like
<1> QED BY <1>1, <1>4, <1>5, <1>6, <1>7, <1>8, <1>9 DEF LexStates

\* So its scan of the text says what is code and what is not.
LEMMA ScansAlike ==
    ASSUME NEW k \in Lexers, k.dollar, NEW t \in Texts, NoEscapes(t), k.nested \/ ~Nests(t),
           NEW s, s = Scan(DelimiterLexer, t), NEW z, z = Scan(k, t)
    PROVE  \A i \in 0..Len(t) : Like(StateAt(s, i), StateAt(z, i))
<1> DEFINE N == Len(t)
           Good == {i \in 0..N : Like(StateAt(s, i), StateAt(z, i))}
<1>1. DelimiterLexer \in Lexers
    BY DEF DelimiterLexer, Lexers
<1>2. /\ N \in Nat
      /\ \A i \in 1..N : StateAt(s, i) = LexStep(DelimiterLexer, t, i, StateAt(s, i - 1)) /\ StateAt(s, i) = s[i]
      /\ \A i \in 1..N : StateAt(z, i) = LexStep(k, t, i, StateAt(z, i - 1))
      /\ \A i \in 0..N : StateAt(s, i) \in LexStates /\ StateAt(z, i) \in LexStates
      /\ StateAt(s, 0) = InCode /\ StateAt(z, 0) = InCode
    BY <1>1, ScanAt
<1>3. k.nested \/ \A i \in 0..N : StateAt(s, i).depth <= 1
  <2> SUFFICES ASSUME ~k.nested, NEW i \in 0..N PROVE StateAt(s, i).depth <= 1
      OBVIOUS
  <2>1. CASE i = 0
      BY <1>2, <2>1 DEF InCode
  <2>2. CASE i # 0
    <3>1. i \in 1..N /\ StateAt(s, i) = s[i] /\ s[i] \in LexStates
        BY <1>2, <2>2
    <3>2. ~(s[i].depth > 1)
        BY <3>1 DEF Nests
    <3>3. s[i].depth \in Nat
        BY <3>1 DEF LexStates
    <3> QED BY <3>1, <3>2, <3>3
  <2> QED BY <2>1, <2>2
<1>4. 0 \in Good
  <2>1. InCode \in LexStates /\ InCode.mode = "code"
      BY DEF InCode, LexStates
  <2> QED BY <1>2, <2>1 DEF Like
<1>5. ASSUME NEW i \in 1..N, i - 1 \in Good PROVE i \in Good
  <2> DEFINE h == i - 1
             a == StateAt(s, h)
             b == StateAt(z, h)
             r == StateAt(s, i)
             q == StateAt(z, i)
  <2>1. i \in 0..N /\ h \in 0..N /\ i \in 1..Len(t)
      BY <1>2
  <2>2. /\ Like(a, b) /\ r \in LexStates /\ q \in LexStates
        /\ r = LexStep(DelimiterLexer, t, i, a) /\ q = LexStep(k, t, i, b)
        /\ k.nested \/ (a.depth <= 1 /\ r.depth <= 1)
      BY <1>2, <1>3, <1>5, <2>1
  <2>3. t[i] # "\\"
      BY <2>1 DEF NoEscapes
  <2>4. Like(r, q)
    <3> HIDE DEF a, b, r, q
    <3> QED BY <2>1, <2>2, <2>3, LikeStep
  <2> QED BY <2>1, <2>4
<1>6. 0..N \subseteq Good
  <2> HIDE DEF Good, N
  <2>1. \A i \in 1..N : i - 1 \in Good => i \in Good
      BY <1>5
  <2> QED BY <1>2, <1>4, <2>1, UpTo
<1> QED BY <1>6


\* Where no backslash is and no block comment nests, what the helper's scan takes for code is code.
LEMMA CodeAlike ==
    ASSUME NEW t \in Texts, NoEscapes(t), ~Nests(t)
    PROVE  CodeOf(HelperLexer, t) = CodeOf(DelimiterLexer, t)
<1> DEFINE s == Scan(DelimiterLexer, t)
           z == Scan(HelperLexer, t)
<1>1. HelperLexer \in Lexers /\ HelperLexer.dollar /\ DelimiterLexer \in Lexers
    BY DEF HelperLexer, DelimiterLexer, Lexers
<1>2. \A i \in 0..Len(t) : Like(StateAt(s, i), StateAt(z, i))
    BY <1>1, ScansAlike
<1>3. \A i \in 1..Len(t) : StateAt(s, i) = s[i] /\ StateAt(z, i) = z[i] /\ i \in 0..Len(t)
  <2>1. Len(t) \in Nat
      BY DEF Texts
  <2>2. /\ \A i \in 1..Len(t) : StateAt(s, i) = s[i]
        /\ \A i \in 1..Len(t) : StateAt(z, i) = z[i]
      BY <1>1, ScanAt
  <2> QED BY <2>1, <2>2
<1>4. \A i \in 1..Len(t) : s[i].is = z[i].is
    BY <1>2, <1>3 DEF Like
<1> QED BY <1>4 DEF CodeOf, CodeIn

\* From the name of a call that is code to the parenthesis that opens its arguments all is code.
LEMMA OpenIsCode ==
    ASSUME NEW t \in Texts, NEW f \in CodeOf(DelimiterLexer, t), OpenParen(t, f) # 0
    PROVE  /\ OpenParen(t, f) \in CodeOf(DelimiterLexer, t) /\ t[OpenParen(t, f)] = "("
           /\ f < OpenParen(t, f)
<1> DEFINE after == {j \in (f + 1)..Len(t) : t[j] \notin Blanks}
           o == Min(after)
           s == Scan(DelimiterLexer, t)
           N == Len(t)
<1>1. DelimiterLexer \in Lexers /\ N \in Nat
    BY DEF DelimiterLexer, Lexers, Texts
<1>2. OpenParen(t, f) = o /\ after # {} /\ t[o] = "("
    BY DEF OpenParen
<1>3. f \in 1..N /\ StateAt(s, f) = InCode
    BY <1>1, ScanAt
<1>4. o \in after /\ \A x \in after : o <= x
  <2>1. after \subseteq Nat
      BY <1>1, <1>3
  <2> HIDE DEF after
  <2> QED BY <1>2, <2>1, MinIs
<1> HIDE DEF o
<1>5. o \in f + 1..N /\ o \in 1..N /\ f < o
    BY <1>1, <1>3, <1>4
<1>6. \A i \in f + 1..o - 1 : t[i] \in Blanks
  <2> SUFFICES ASSUME NEW i \in f + 1..o - 1, t[i] \notin Blanks PROVE FALSE
      OBVIOUS
  <2>1. i \in f + 1..N /\ i < o
      BY <1>1, <1>3, <1>5
  <2>2. i \in after
      BY <2>1
  <2> HIDE DEF after
  <2> QED BY <1>4, <1>5, <2>1, <2>2
<1> HIDE DEF after
<1> DEFINE n == o - f
           Good == {k \in 0..n : StateAt(s, k + f) = InCode}
<1>7. n \in Nat /\ n + f = o
    BY <1>1, <1>3, <1>5
<1>8. 0 \in Good
  <2>1. 0 + f = f
      BY <1>3
  <2> QED BY <1>3, <1>7, <2>1
<1>9. ASSUME NEW k \in 1..n, k - 1 \in Good PROVE k \in Good
  <2> DEFINE i == k + f
             h == i - 1
  <2>1. i \in 1..N /\ h = (k - 1) + f /\ i \in f + 1..o /\ k \in 0..n
      BY <1>1, <1>3, <1>5, <1>7
  <2>2. StateAt(s, h) = InCode
      BY <1>9, <2>1
  <2>3. t[i] \in Blanks \cup {"("}
    <3>1. i = o \/ i \in f + 1..o - 1
        BY <1>1, <1>3, <1>5, <2>1
    <3> QED BY <1>2, <1>6, <3>1
  <2>4. StateAt(s, i) = LexStep(DelimiterLexer, t, i, StateAt(s, h))
      BY <1>1, <2>1, ScanAt
  <2> HIDE DEF h, i
  <2>5. StateAt(s, i) = InCode
    <3>1. t[i] \notin {"'", "dq", "-", "/", "$"}
        BY <2>3 DEF Blanks, Newlines
    <3>2. Ready(InCode)
        BY DEF Ready, InCode
    <3>3. LexStep(DelimiterLexer, t, i, InCode) = InCode
        BY <2>1, <3>1, <3>2, PlainStep
    <3> QED BY <2>2, <2>4, <3>3
  <2> QED BY <2>1, <2>5 DEF i
<1>10. StateAt(s, o) = InCode
  <2>1. 0..n \subseteq Good
    <3> HIDE DEF Good, n
    <3>1. \A k \in 1..n : k - 1 \in Good => k \in Good
        BY <1>9
    <3> QED BY <1>7, <1>8, <3>1, UpTo
  <2>2. n \in Good
      BY <1>7, <2>1
  <2> QED BY <1>7, <2>2
<1>11. o \in CodeOf(DelimiterLexer, t)
    BY <1>1, <1>5, <1>10, ScanAt
<1> QED BY <1>2, <1>5, <1>11

\* The code of a text of N symbols, and what of it begins at o.
FromOn(from, code, o, N) ==
    /\ N \in Nat /\ o \in 1..N /\ code \subseteq 1..N /\ from \subseteq 1..N
    /\ \A i \in 1..N : i \in from <=> i \in code /\ i >= o

\* What of it is counted at the end, before m.
CountsFrom(s, t, from, code, o, m) ==
    /\ Count(s, t, from, o) = 0
    /\ Count(s, t, code, m) = Count(s, t, from, m) + Count(s, t, code, o)

\* Its symbols at o and after.
LEMMA CountFrom ==
    ASSUME NEW s, NEW t, NEW code, NEW from, NEW o, NEW N, FromOn(from, code, o, N), NEW m, m = N + 1
    PROVE  CountsFrom(s, t, from, code, o, m)
<1>0. /\ N \in Nat /\ o \in 1..N /\ code \subseteq 1..N /\ from \subseteq 1..N
      /\ \A i \in 1..N : i \in from <=> i \in code /\ i >= o
    BY DEF FromOn
<1> DEFINE M == N + 1 - o
           Good == {n \in 0..M : Count(s, t, code, o + n) = Count(s, t, from, o + n) + Count(s, t, code, o)}
<1>1. Counts(s, t, code) /\ Counts(s, t, from)
  <2>1. code \in SUBSET (1..N) /\ from \in SUBSET (1..N)
      BY <1>0
  <2> QED BY <1>0, <2>1, CountIs
<1>2. M \in Nat
    BY <1>0
<1>3. /\ \A i \in Nat : Count(s, t, code, i) \in Nat /\ Count(s, t, from, i) \in Nat
      /\ Count(s, t, from, 1) = 0
      /\ \A i \in Nat : Count(s, t, code, i + 1) = Count(s, t, code, i) + (IF i \in code /\ t[i] = s THEN 1 ELSE 0)
      /\ \A i \in Nat : Count(s, t, from, i + 1) = Count(s, t, from, i) + (IF i \in from /\ t[i] = s THEN 1 ELSE 0)
    BY <1>1 DEF Counts
<1>z. Count(s, t, from, o) = 0
  <2>0. o \in Nat /\ 1 <= o /\ 1 \in Nat
      BY <1>0
  <2>1. NoneIn(s, t, from, 1, o)
    <3>1. from \subseteq Nat
        BY <1>0
    <3>2. \A i \in from : i \in Nat /\ i >= o
        BY <1>0
    <3>3. \A i \in from : ~(i < o)
        BY <2>0, <3>2
    <3> QED BY <2>0, <3>1, <3>3 DEF NoneIn
  <2> QED BY <1>3, <2>1, CountFlat
<1>4. 0 \in Good
  <2>3. o + 0 = o /\ Count(s, t, code, o) \in Nat
    <3>1. Count(s, t, code, o) \in Nat
        BY <1>0, <1>3
    <3> QED BY <1>0, <3>1
  <2>4. Count(s, t, code, o + 0) = Count(s, t, from, o + 0) + Count(s, t, code, o)
      BY <1>z, <2>3
  <2> QED BY <1>2, <2>4
<1>5. ASSUME NEW n \in 1..M, n - 1 \in Good PROVE n \in Good
  <2> DEFINE i == o + (n - 1)
             x == IF i \in code /\ t[i] = s THEN 1 ELSE 0
             y == IF i \in from /\ t[i] = s THEN 1 ELSE 0
             a == Count(s, t, code, i)
             b == Count(s, t, from, i)
             e == Count(s, t, code, o)
  <2>1. i \in Nat /\ i \in 1..N /\ i >= o /\ o + n = i + 1 /\ n \in 0..M
      BY <1>0, <1>2
  <2>2. a = b + e
      BY <1>5
  <2>3. x = y /\ x \in Nat
      BY <1>0, <2>1
  <2>4. a \in Nat /\ b \in Nat /\ e \in Nat
      BY <1>0, <1>3, <2>1
  <2>5. Count(s, t, code, i + 1) = a + x /\ Count(s, t, from, i + 1) = b + y
      BY <1>3, <2>1
  <2> HIDE DEF x, y, a, b, i
  <2>6. Count(s, t, code, i + 1) = Count(s, t, from, i + 1) + e
    <3> HIDE DEF e
    <3>1. a + x = (b + y) + e
        BY <2>2, <2>3, <2>4
    <3> QED BY <2>5, <3>1
  <2> QED BY <2>1, <2>6
<1>6. 0..M \subseteq Good
  <2> HIDE DEF Good, M
  <2>1. \A n \in 1..M : n - 1 \in Good => n \in Good
      BY <1>5
  <2> QED BY <1>2, <1>4, <2>1, UpTo
<1>7. M \in Good /\ o + M = m
    BY <1>0, <1>2, <1>6
<1> QED BY <1>z, <1>7 DEF CountsFrom


\* In a text whose parentheses pair up one that opens is closed.
LEMMA ParenCloses ==
    ASSUME NEW t \in Texts, Formed(t), NEW o \in CodeOf(DelimiterLexer, t), t[o] = "("
    PROVE  /\ MatchingParen(t, CodeOf(DelimiterLexer, t), o) \in CodeOf(DelimiterLexer, t)
<1> DEFINE code == CodeOf(DelimiterLexer, t)
           N == Len(t)
           from == {i \in code : i >= o}
           closes == {j \in code : j > o /\ Balanced(t, from, j + 1)}
           Opened(i) == Count("(", t, from, i)
           Closed(i) == Count(")", t, from, i)
           After == {j \in o + 1..N : Opened(j + 1) <= Closed(j + 1)}
<1>1. code \subseteq 1..N /\ N \in Nat /\ o \in 1..N /\ o \in Nat /\ o \in from
    BY DEF CodeOf, CodeIn, Texts
<1>2. /\ Count(")", t, code, o) <= Count("(", t, code, o)
      /\ Count("(", t, code, N + 1) = Count(")", t, code, N + 1)
  <2>1. o \in 1..N + 1
      BY <1>1
  <2> QED BY <2>1 DEF Formed, Balanced
<1>m. MatchingParen(t, code, o) = IF closes = {} THEN 0 ELSE Min(closes)
    BY DEF MatchingParen
<1>b. \A j \in code : j \in closes <=> j > o /\ Opened(j + 1) = Closed(j + 1)
    BY DEF Balanced
<1>f. from = {i \in code : i >= o}
    OBVIOUS
<1> HIDE DEF code, from, closes
<1>3. Counts("(", t, code) /\ Counts(")", t, code) /\ Counts("(", t, from) /\ Counts(")", t, from)
  <2>1. code \in SUBSET (1..N) /\ from \in SUBSET (1..N)
      BY <1>1, <1>f
  <2> QED BY <1>1, <2>1, CountIs
<1>4. ASSUME NEW i \in Nat, NEW j, j = i + 1
      PROVE  /\ Opened(i) \in Nat /\ Closed(i) \in Nat
             /\ i \in from /\ t[i] = "(" => Opened(j) = Opened(i) + 1
             /\ ~(i \in from /\ t[i] = "(") => Opened(j) = Opened(i)
             /\ i \in from /\ t[i] = ")" => Closed(j) = Closed(i) + 1
             /\ ~(i \in from /\ t[i] = ")") => Closed(j) = Closed(i)
  <2>1. Opened(i + 1) = Opened(i) + (IF i \in from /\ t[i] = "(" THEN 1 ELSE 0)
      BY <1>3 DEF Counts
  <2>2. Closed(i + 1) = Closed(i) + (IF i \in from /\ t[i] = ")" THEN 1 ELSE 0)
      BY <1>3 DEF Counts
  <2>3. Opened(i) \in Nat /\ Closed(i) \in Nat
      BY <1>3 DEF Counts
  <2> HIDE DEF Opened, Closed
  <2> QED BY <1>4, <2>1, <2>2, <2>3
<1>5. /\ Opened(o) = 0 /\ Closed(o) = 0
      /\ Count("(", t, code, N + 1) = Opened(N + 1) + Count("(", t, code, o)
      /\ Count(")", t, code, N + 1) = Closed(N + 1) + Count(")", t, code, o)
  <2> DEFINE m == N + 1
  <2>1. m = N + 1
      OBVIOUS
  <2>2. FromOn(from, code, o, N)
      BY <1>1, <1>f DEF FromOn
  <2> HIDE DEF m
  <2>3. ASSUME NEW s
        PROVE  CountsFrom(s, t, from, code, o, m)
      BY <2>1, <2>2, CountFrom
  <2> QED BY <2>3 DEF CountsFrom, m
<1>6. Opened(o) = 0 /\ Closed(o) = 0 /\ Opened(N + 1) <= Closed(N + 1)
  <2> DEFINE a == Count("(", t, code, o)
             b == Count(")", t, code, o)
             u == Opened(N + 1)
             v == Closed(N + 1)
  <2>1. N + 1 \in Nat
      BY <1>1
  <2>2. a \in Nat /\ b \in Nat /\ u \in Nat /\ v \in Nat
      BY <1>1, <1>3, <2>1 DEF Counts
  <2>3. u + a = v + b /\ b <= a
      BY <1>2, <1>5
  <2> HIDE DEF a, b, u, v
  <2>4. u <= v
      BY <2>2, <2>3
  <2> QED BY <1>5, <2>4 DEF u, v
<1> HIDE DEF Opened, Closed
<1> DEFINE p == o + 1
<1>7. Opened(p) = 1 /\ Closed(p) = 0
  <2>1. p = o + 1
      OBVIOUS
  <2> HIDE DEF p
  <2>2. Opened(p) = Opened(o) + 1 /\ Closed(p) = Closed(o)
      BY <1>1, <1>4, <2>1
  <2> QED BY <1>6, <2>2
<1>8. N \in After
  <2>1. o # N
      BY <1>6, <1>7
  <2> QED BY <1>1, <1>6, <2>1
<1> DEFINE j == Min(After)
<1>9. j \in After /\ \A x \in After : j <= x
  <2>1. After \subseteq Nat
      BY <1>1
  <2> HIDE DEF After
  <2> QED BY <1>8, <2>1, MinIs
<1> HIDE DEF j
<1> DEFINE q == j + 1
<1>10. j \in o + 1..N /\ Opened(q) <= Closed(q) /\ j \in Nat /\ q = j + 1 /\ q \in Nat
    BY <1>1, <1>9
<1>11. Closed(j) < Opened(j)
  <2>1. CASE j = p
      BY <1>7, <2>1
  <2>2. CASE j # p
    <3> DEFINE h == j - 1
    <3>1. h \in o + 1..N /\ h < j /\ h + 1 = j /\ h \in Nat
        BY <1>1, <1>10, <2>2
    <3>2. h \notin After
        BY <1>9, <1>10, <3>1
    <3>3. ~(Opened(h + 1) <= Closed(h + 1))
        BY <3>1, <3>2
    <3>4. Opened(j) \in Nat /\ Closed(j) \in Nat
        BY <1>4, <1>10
    <3> HIDE DEF h, After
    <3> QED BY <3>1, <3>3, <3>4
  <2> QED BY <2>1, <2>2
<1> HIDE DEF q, After
<1>12. Opened(j) \in Nat /\ Closed(j) \in Nat /\ Opened(q) \in Nat /\ Closed(q) \in Nat
  <2> DEFINE z == q + 1
  <2>1. z = q + 1
      OBVIOUS
  <2> HIDE DEF z
  <2> QED BY <1>4, <1>10, <2>1
<1>13. j \in from /\ t[j] = ")" /\ Closed(q) = Closed(j) + 1
  <2>1. Opened(q) = Opened(j) \/ Opened(q) = Opened(j) + 1
      BY <1>4, <1>10
  <2>2. Closed(q) # Closed(j)
      BY <1>10, <1>11, <1>12, <2>1
  <2> QED BY <1>4, <1>10, <2>2
<1>14. Opened(q) = Closed(q)
  <2>1. Opened(q) = Opened(j) \/ Opened(q) = Opened(j) + 1
      BY <1>4, <1>10
  <2> QED BY <1>10, <1>11, <1>12, <1>13, <2>1
<1>15. j \in closes
  <2>1. j \in code /\ j > o
      BY <1>1, <1>f, <1>10, <1>13
  <2> QED BY <1>b, <1>14, <2>1 DEF q
<1>16. closes \subseteq code /\ closes \subseteq Nat
    BY <1>1 DEF closes
<1>17. Min(closes) \in code
    BY <1>15, <1>16, MinIs
<1> QED BY <1>m, <1>15, <1>17 DEF code


\* p is what comes before the helper's name in t.
TextBefore(p, t, n) ==
    /\ t \in Texts /\ p \in Texts /\ n \in Nat /\ Len(p) = n /\ n < Len(t)
    /\ \A k \in 1..n : p[k] = t[k]
    /\ t[n + 1] = "latest_snapshot" /\ (n > 0 => t[n] \notin Words)

\* What is cut from both is the same.
LEMMA PrefixPart ==
    ASSUME NEW p, NEW t, NEW n, TextBefore(p, t, n), NEW i \in 1..n, NEW e \in i..n
    PROVE  SubSeq(p, i, e) = SubSeq(t, i, e)
<1> DEFINE a == SubSeq(p, i, e)
           b == SubSeq(t, i, e)
           m == e - i + 1
<1>1. /\ t \in Texts /\ p \in Texts /\ n \in Nat /\ Len(p) = n /\ Len(t) \in Nat /\ n < Len(t)
      /\ \A k \in 1..n : p[k] = t[k]
    BY DEF TextBefore, Texts
<1>2. Span(p, i, e, m) /\ Span(t, i, e, m) /\ m \in Nat
    BY <1>1 DEF Span
<1>3. PartOf(a, p, i, m) /\ PartOf(b, t, i, m)
    BY <1>1, <1>2, SubTextIs
<1>4. ASSUME NEW k \in 1..m PROVE p[i + k - 1] = t[i + k - 1]
  <2>1. i + k - 1 \in 1..n
      BY <1>1
  <2> QED BY <1>1, <2>1
<1> HIDE DEF a, b, m
<1>5. \A k \in 1..m : a[k] = b[k]
    BY <1>3, <1>4 DEF PartOf
<1>6. a = b
    BY <1>3, <1>5, SeqEqual DEF PartOf, Texts
<1> QED BY <1>6 DEF a, b

\* No dollar quote's delimiter reaches from the prefix into the name, except from its last symbol.
LEMMA PrefixTag ==
    ASSUME NEW p, NEW t, NEW n, TextBefore(p, t, n), NEW j \in 1..n, j < n \/ t[n] # "$"
    PROVE  DollarTag(p, j) = DollarTag(t, j)
<1>1. /\ t \in Texts /\ p \in Texts /\ n \in Nat /\ Len(p) = n /\ Len(t) \in Nat /\ n < Len(t)
      /\ \A k \in 1..n : p[k] = t[k]
      /\ t[n + 1] = "latest_snapshot" /\ t[n] \notin Words
      /\ j \in 1..Len(p) /\ j \in 1..Len(t)
    BY DEF TextBefore, Texts
<1>2. ASSUME NEW e, EndsTag(p, j, e) PROVE EndsTag(t, j, e) /\ DollarTag(p, j) = SubSeq(t, j, e)
  <2>1. e \in j + 1..n /\ p[j] = "$" /\ p[e] = "$" /\ \A k \in j + 1..e - 1 : p[k] \in Words
      BY <1>1, <1>2 DEF EndsTag
  <2>2. e \in j + 1..Len(t) /\ e \in j..n /\ e \in 1..n
      BY <1>1, <2>1
  <2>3. \A k \in j + 1..e - 1 : k \in 1..n
      BY <1>1, <2>1
  <2>4. EndsTag(t, j, e)
      BY <1>1, <2>1, <2>2, <2>3 DEF EndsTag
  <2>5. DollarTag(p, j) = SubSeq(p, j, e)
      BY <1>1, <1>2, DollarTagIs
  <2>6. SubSeq(p, j, e) = SubSeq(t, j, e)
      BY <2>2, PrefixPart
  <2> QED BY <2>4, <2>5, <2>6
<1>3. ASSUME NEW e, EndsTag(t, j, e) PROVE EndsTag(p, j, e)
  <2>1. e \in j + 1..Len(t) /\ t[j] = "$" /\ t[e] = "$" /\ \A k \in j + 1..e - 1 : t[k] \in Words
      BY <1>3 DEF EndsTag
  <2>2. e <= n
    <3>1. j # n
        BY <2>1
    <3>2. e # n + 1
        BY <1>1, <2>1
    <3>3. ~(n \in j + 1..e - 1)
        BY <1>1, <2>1
    <3> QED BY <1>1, <2>1, <3>1, <3>2, <3>3
  <2>3. e \in j + 1..n /\ e \in 1..n
      BY <1>1, <2>1, <2>2
  <2>4. \A k \in j + 1..e - 1 : k \in 1..n
      BY <1>1, <2>3
  <2> QED BY <1>1, <2>1, <2>3, <2>4 DEF EndsTag
<1>4. CASE \E e : EndsTag(t, j, e)
  <2>1. PICK e : EndsTag(t, j, e)
      BY <1>4
  <2>2. DollarTag(t, j) = SubSeq(t, j, e)
      BY <1>1, <2>1, DollarTagIs
  <2>3. DollarTag(p, j) = SubSeq(t, j, e)
      BY <1>2, <1>3, <2>1
  <2> QED BY <2>2, <2>3
<1>5. CASE ~\E e : EndsTag(t, j, e)
    BY <1>1, <1>2, <1>5, DollarTagIs
<1> QED BY <1>4, <1>5

\* ... and none that ends a quote.
LEMMA PrefixEnd ==
    ASSUME NEW p, NEW t, NEW n, TextBefore(p, t, n), NEW j \in 1..n, j < n, NEW tag, IsTag(tag)
    PROVE  DollarEnds(p, j, tag) <=> DollarEnds(t, j, tag)
<1> DEFINE m == Len(tag)
           e == j + m - 1
<1>1. /\ t \in Texts /\ p \in Texts /\ n \in Nat /\ Len(p) = n /\ Len(t) \in Nat /\ n < Len(t)
      /\ t[n + 1] = "latest_snapshot" /\ t[n] \notin Words /\ j \in Nat \ {0}
    BY DEF TextBefore, Texts
<1>2. m \in Nat /\ m >= 2 /\ tag \in Seq(STRING) /\ tag[m] = "$" /\ \A k \in 2..m - 1 : tag[k] \in Words
    BY DEF IsTag
<1>e. e = j + m - 1
    OBVIOUS
<1>3. DollarEnds(p, j, tag) <=> e <= n /\ SubSeq(p, j, e) = tag
    BY <1>1 DEF DollarEnds
<1>4. DollarEnds(t, j, tag) <=> e <= Len(t) /\ SubSeq(t, j, e) = tag
    BY DEF DollarEnds
<1> HIDE DEF e, m
<1>5. CASE e <= n
  <2>1. e \in j..n /\ e <= Len(t)
      BY <1>1, <1>2, <1>5, <1>e
  <2>2. SubSeq(p, j, e) = SubSeq(t, j, e)
      BY <2>1, PrefixPart
  <2> QED BY <1>3, <1>4, <1>5, <2>1, <2>2
<1>6. CASE ~(e <= n)
  <2> SUFFICES ASSUME e <= Len(t), SubSeq(t, j, e) = tag PROVE FALSE
      BY <1>3, <1>4, <1>6
  <2>1. Span(t, j, e, m)
      BY <1>1, <1>2, <1>e DEF Span
  <2>2. PartOf(tag, t, j, m)
      BY <1>1, <2>1, SubTextIs
  <2>3. e # n + 1
    <3>1. m \in 1..m /\ j + m - 1 = e
        BY <1>1, <1>2, <1>e
    <3>2. tag[m] = t[e]
        BY <2>2, <3>1 DEF PartOf
    <3> QED BY <1>1, <1>2, <3>2
  <2> DEFINE k == n - j + 1
  <2>4. k \in 2..m - 1 /\ k \in 1..m /\ j + k - 1 = n
      BY <1>1, <1>2, <1>6, <1>e, <2>3
  <2> HIDE DEF k
  <2>5. tag[k] = t[n]
      BY <2>2, <2>4 DEF PartOf
  <2> QED BY <1>1, <1>2, <2>4, <2>5
<1> QED BY <1>5, <1>6


\* The scan of the prefix is that of the text, as long as it ends and no "$" in front of the name
\* opens a quote with it.
LEMMA PrefixScan ==
    ASSUME NEW p, NEW t, NEW n, TextBefore(p, t, n), NoEscapes(t),
           NEW k \in Lexers, ~Unterminated(k, p),
           NEW s, s = Scan(k, p), NEW z, z = Scan(k, t),
           n > 0 /\ t[n] = "$" => StateAt(s, n).is = "comment"
    PROVE  StateAt(s, n) = StateAt(z, n)
<1> DEFINE Good == {i \in 0..n : StateAt(s, i) = StateAt(z, i)}
<1>1. /\ t \in Texts /\ p \in Texts /\ n \in Nat /\ Len(p) = n /\ Len(t) \in Nat /\ n < Len(t)
      /\ \A i \in 1..n : p[i] = t[i]
      /\ t[n + 1] = "latest_snapshot"
    BY DEF TextBefore, Texts
<1>2. /\ \A i \in 1..n : StateAt(s, i) = LexStep(k, p, i, StateAt(s, i - 1))
      /\ \A i \in 0..n : StateOk(p, i, StateAt(s, i)) /\ StateAt(s, i) \in LexStates
      /\ EndState(s) = StateAt(s, n) /\ StateAt(s, 0) = InCode
    BY <1>1, ScanAt
<1>3. /\ \A i \in 1..Len(t) : StateAt(z, i) = LexStep(k, t, i, StateAt(z, i - 1))
      /\ \A i \in 0..Len(t) : StateAt(z, i) \in LexStates
      /\ StateAt(z, 0) = InCode
    BY <1>1, ScanAt
<1>4. StateAt(s, n).mode # "dollar"
    BY <1>2 DEF Unterminated
<1>5. ASSUME NEW j \in 1..n, j - 1 \in Good PROVE j \in Good
  <2> DEFINE h == j - 1
             a == StateAt(s, h)
  <2>1. j \in 1..Len(t) /\ j \in 1..Len(p) /\ h \in 0..n /\ h \in 0..Len(t) /\ j \in 0..n
      BY <1>1
  <2>2. a = StateAt(z, h) /\ a \in LexStates /\ StateOk(p, h, a)
      BY <1>2, <1>5, <2>1
  <2>3. StateAt(s, j) = LexStep(k, p, j, a) /\ StateAt(z, j) = LexStep(k, t, j, a)
      BY <1>2, <1>3, <2>1, <2>2
  <2>4. p[j] = t[j] /\ p[j] # "\\"
      BY <1>1, <2>1 DEF NoEscapes
  <2> HIDE DEF h, a, Good
  <2>5. ASSUME NEW b \in {"'", "dq", "-", "*", "/"}
        PROVE  j < Len(p) /\ p[j + 1] = b <=> j < Len(t) /\ t[j + 1] = b
    <3>1. CASE j = n
        BY <1>1, <3>1
    <3>2. CASE j # n
      <4>1. j + 1 \in 1..n /\ j < n
          BY <1>1, <3>2
      <4> QED BY <1>1, <4>1
    <3> QED BY <3>1, <3>2
  <2>6. BackslashEscapes(p, j) <=> BackslashEscapes(t, j)
    <3>1. j > 1 => j - 1 \in 1..n
        BY <1>1
    <3>2. j > 2 => j - 2 \in 1..n
        BY <1>1
    <3>3. /\ j > 1 => p[j - 1] = t[j - 1]
          /\ j > 2 => p[j - 2] = t[j - 2]
        BY <1>1, <3>1, <3>2
    <3> QED BY <3>3 DEF BackslashEscapes
  <2>7. Ready(a) => DollarTag(p, j) = DollarTag(t, j)
    <3>1. CASE j < n \/ t[n] # "$"
        BY <3>1, PrefixTag
    <3>2. CASE j = n /\ t[n] = "$"
      <4> SUFFICES ASSUME Ready(a) PROVE FALSE
          OBVIOUS
      <4>1. DollarTag(p, j) = <<>>
        <5>1. \A e : ~EndsTag(p, j, e)
            BY <1>1, <3>2 DEF EndsTag
        <5> QED BY <1>1, <2>1, <5>1, DollarTagIs
      <4>2. \A x : ~Pair(p, j, "-", x) /\ ~Pair(p, j, "/", x)
          BY <2>4, <3>2 DEF Pair
      <4>3. StepInCode(k, p, j) = InCode
          BY <2>4, <3>2, <4>1, <4>2 DEF StepInCode
      <4>4. StateAt(s, j) = InCode
          BY <2>3, <4>3 DEF LexStep, Ready
      <4>5. StateAt(s, n).is = "comment"
          BY <1>1, <3>2
      <4> QED BY <3>2, <4>4, <4>5 DEF InCode
    <3> QED BY <1>1, <3>1, <3>2
  <2>8. a.mode = "dollar" => (DollarEnds(p, j, a.tag) <=> DollarEnds(t, j, a.tag))
    <3> SUFFICES ASSUME a.mode = "dollar" PROVE DollarEnds(p, j, a.tag) <=> DollarEnds(t, j, a.tag)
        OBVIOUS
    <3>1. IsTag(a.tag)
        BY <2>2 DEF StateOk
    <3>2. CASE j < n
        BY <3>1, <3>2, PrefixEnd
    <3>3. CASE j = n
      <4>1. ~DollarEnds(p, j, a.tag)
          BY <1>1, <3>1, <3>3 DEF DollarEnds, IsTag
      <4>2. a.skip \in Nat
          BY <2>2 DEF LexStates
      <4>3. LexStep(k, p, j, a).mode = "dollar"
        <5>1. CASE a.skip > 0
          <6> DEFINE m == a.skip - 1
          <6>1. LexStep(k, p, j, a) = [a EXCEPT !.skip = m]
              BY <5>1 DEF LexStep
          <6> HIDE DEF m
          <6> QED BY <2>2, <6>1 DEF LexStates
        <5>2. CASE a.skip = 0
            BY <4>1, <5>2 DEF LexStep
        <5> QED BY <4>2, <5>1, <5>2
      <4> QED BY <1>4, <2>3, <3>3, <4>3
    <3> QED BY <1>1, <3>2, <3>3
  <2>9. Alike(p, j, t, j, a)
      BY <2>4, <2>5, <2>6, <2>7, <2>8 DEF Alike
  <2>10. StateAt(s, j) = StateAt(z, j)
      BY <2>2, <2>3, <2>9, SameStep
  <2> QED BY <2>1, <2>10 DEF Good
<1>6. 0 \in Good
    BY <1>1, <1>2, <1>3
<1>7. n \in Good
  <2> HIDE DEF Good
  <2>1. \A j \in 1..n : j - 1 \in Good => j \in Good
      BY <1>5
  <2>2. 0..n \subseteq Good
      BY <1>1, <1>6, <2>1, UpTo
  <2> QED BY <1>1, <2>2
<1> QED BY <1>7


\* One step of strip_sql_comments, and what it has kept after each symbol.
BlockEnds(s, i) == s[i].is = "comment" /\ s[i].mode = "code" /\ s[i].skip = 0
Glues(t, s, out, i) ==
    /\ BlockEnds(s, i) /\ out # <<>> /\ Last(out) \in Words
    /\ i < Len(t) /\ t[i + 1] \in Words
StripStep(t, s, n, out) ==
    CASE s[n].is # "comment" -> Append(out, t[n])
      [] Glues(t, s, out, n) -> Append(out, "sp")
      [] OTHER -> out
Strips(t, s, n, f) == f = [k \in 0..n |-> IF k = 0 THEN <<>> ELSE StripStep(t, s, k, f[k - 1])]

\* A text that does not end in a comment keeps its last symbol.
LEMMA StrippedEnd ==
    ASSUME NEW t \in Texts, Len(t) > 0, NEW s, s = Scan(StripLexer, t), s[Len(t)].is # "comment"
    PROVE  \E out \in Seq(STRING) : Stripped(t) = Append(out, t[Len(t)])
<1> DEFINE N == Len(t)
           Good == {n \in 0..N : \E f : Strips(t, s, n, f)}
<1>1. N \in Nat /\ t \in Seq(STRING)
    BY DEF Texts
<1>2. 0 \in Good
  <2> DEFINE f == [k \in 0..0 |-> <<>>]
             g == [k \in 0..0 |-> IF k = 0 THEN <<>> ELSE StripStep(t, s, k, f[k - 1])]
  <2>1. f = g
      OBVIOUS
  <2>2. Strips(t, s, 0, f)
      BY <2>1 DEF Strips
  <2> QED BY <1>1, <2>2
<1>3. ASSUME NEW n \in 1..N, n - 1 \in Good PROVE n \in Good
  <2>1. PICK f : Strips(t, s, n - 1, f)
      BY <1>3
  <2> DEFINE g == [k \in 0..n |-> IF k < n THEN f[k] ELSE StripStep(t, s, k, f[k - 1])]
             h == [k \in 0..n |-> IF k = 0 THEN <<>> ELSE StripStep(t, s, k, g[k - 1])]
  <2> HIDE DEF N
  <2>2. ASSUME NEW k \in 0..n PROVE g[k] = h[k]
    <3>1. CASE k = n
      <4>1. g[k - 1] = f[k - 1] /\ k # 0
          BY <3>1
      <4> QED BY <3>1, <4>1
    <3>2. CASE k # n
      <4>1. k \in 0..n - 1 /\ g[k] = f[k] /\ (k # 0 => g[k - 1] = f[k - 1])
          BY <3>2
      <4>2. f[k] = IF k = 0 THEN <<>> ELSE StripStep(t, s, k, f[k - 1])
          BY <2>1, <4>1 DEF Strips
      <4> QED BY <4>1, <4>2
    <3> QED BY <3>1, <3>2
  <2>3. g = h
      BY <2>2
  <2>4. Strips(t, s, n, g)
      BY <2>3 DEF Strips
  <2> QED BY <2>4
<1>4. N \in Good
  <2> HIDE DEF Good, N
  <2>1. \A n \in 1..N : n - 1 \in Good => n \in Good
      BY <1>3
  <2>2. 0..N \subseteq Good
      BY <1>1, <1>2, <2>1, UpTo
  <2> QED BY <1>1, <2>2
<1> DEFINE last == CHOOSE f : Strips(t, s, N, f)
<1>5. Strips(t, s, N, last)
    BY <1>4
<1>6. Stripped(t) = last[N]
    BY DEF Stripped, Strips, StripStep, Glues, BlockEnds
<1> HIDE DEF last
<1>7. last[0] = <<>> /\ \A n \in 1..N : last[n] = StripStep(t, s, n, last[n - 1])
  <2>1. last = [k \in 0..N |-> IF k = 0 THEN <<>> ELSE StripStep(t, s, k, last[k - 1])]
      BY <1>5 DEF Strips
  <2>2. 0 \in 0..N /\ \A n \in 1..N : n \in 0..N /\ n # 0
      BY <1>1
  <2> HIDE DEF N
  <2> QED BY <2>1, <2>2
<1> DEFINE Fine == {n \in 0..N : last[n] \in Seq(STRING)}
<1>8. 0 \in Fine
  <2>1. 0 \in 0..N
      BY <1>1
  <2>2. <<>> \in Seq(STRING)
      OBVIOUS
  <2> HIDE DEF N
  <2> QED BY <1>7, <2>1, <2>2
<1>9. ASSUME NEW n \in 1..N, n - 1 \in Fine PROVE n \in Fine
  <2> DEFINE out == last[n - 1]
  <2>1. out \in Seq(STRING)
      BY <1>9
  <2>2. last[n] = StripStep(t, s, n, out)
      BY <1>7
  <2> HIDE DEF out
  <2>3. StripStep(t, s, n, out) \in {Append(out, t[n]), Append(out, "sp"), out}
      BY DEF StripStep
  <2>4. t[n] \in STRING /\ "sp" \in STRING /\ n \in 0..N
      BY <1>1, SymbolsAssumption
  <2>5. Append(out, t[n]) \in Seq(STRING) /\ Append(out, "sp") \in Seq(STRING)
      BY <2>1, <2>4
  <2> QED BY <2>1, <2>2, <2>3, <2>4, <2>5
<1>10. 0..N \subseteq Fine
  <2> HIDE DEF Fine, N
  <2>1. \A n \in 1..N : n - 1 \in Fine => n \in Fine
      BY <1>9
  <2> QED BY <1>1, <1>8, <2>1, UpTo
<1> DEFINE out == last[N - 1]
<1>11. N \in 1..N /\ N - 1 \in 0..N
    BY <1>1
<1>12. out \in Seq(STRING)
    BY <1>10, <1>11
<1>13. last[N] = StripStep(t, s, N, out)
    BY <1>7, <1>11
<1> HIDE DEF out
<1>14. StripStep(t, s, N, out) = Append(out, t[N])
    BY DEF StripStep, Glues, BlockEnds
<1> QED BY <1>6, <1>12, <1>13, <1>14

\* A helper's name in the position of a relation is code for PostgreSQL, or in a line comment.
LEMMA NameIsCode ==
    ASSUME NEW t \in Texts, NoEscapes(t), NEW i \in 1..Len(t), IsNameMatch(t, i), RelationPosition(t, i),
           NEW s, s = Scan(DelimiterLexer, t)
    PROVE  s[i].is = "code" \/ s[i].mode = "line"
<1> DEFINE n == i - 1
           p == SubSeq(t, 1, n)
           sp == Scan(StripLexer, p)
           z == Scan(StripLexer, t)
<1>1. DelimiterLexer \in Lexers /\ StripLexer \in Lexers /\ StripLexer.dollar /\ StripLexer.nested
    BY DEF DelimiterLexer, StripLexer, Lexers
<1>2. n \in Nat /\ n + 1 = i /\ n < Len(t) /\ Len(t) \in Nat /\ i - 1 = n /\ n \in 0..Len(t)
    BY DEF Texts
<1>3. ~Unterminated(StripLexer, p) /\ EndsInFrom(Stripped(p))
    BY DEF RelationPosition
<1>4. t[i] = "latest_snapshot" /\ (i > 1 => t[n] \notin Words)
    BY DEF IsNameMatch
<1>5. PartOf(p, t, 1, n)
  <2> HIDE DEF p, n
  <2>1. Span(t, 1, n, n)
      BY <1>2 DEF Span
  <2> QED BY <2>1, SubTextIs DEF p
<1>s. sp = Scan(StripLexer, p) /\ z = Scan(StripLexer, t)
    OBVIOUS
<1> HIDE DEF p, n, sp, z
<1>6. p \in Texts /\ Len(p) = n /\ \A k \in 1..n : p[k] = t[k]
  <2>1. p \in Texts /\ Len(p) = n /\ \A k \in 1..n : p[k] = t[1 + k - 1]
      BY <1>5 DEF PartOf
  <2>2. \A k \in 1..n : 1 + k - 1 = k
      BY <1>2
  <2> QED BY <2>1, <2>2
<1>7. TextBefore(p, t, n)
    BY <1>2, <1>4, <1>6 DEF TextBefore
<1>8. EndState(sp) = StateAt(sp, n) /\ StateOk(p, n, StateAt(sp, n)) /\ \A k \in 1..n : StateAt(sp, k) = sp[k]
    BY <1>1, <1>2, <1>6, <1>s, ScanAt
<1>9. n > 0 /\ t[n] = "$" => StateAt(sp, n).is = "comment"
  <2> SUFFICES ASSUME n > 0, t[n] = "$", StateAt(sp, n).is # "comment" PROVE FALSE
      OBVIOUS
  <2>1. n \in 1..n /\ p[n] = "$"
      BY <1>2, <1>6
  <2>2. sp[Len(p)].is # "comment"
      BY <1>6, <1>8, <2>1
  <2>3. PICK out \in Seq(STRING) : Stripped(p) = Append(out, "$")
      BY <1>2, <1>6, <1>s, <2>1, <2>2, StrippedEnd
  <2> DEFINE v == Append(out, "$")
             m == Len(v)
  <2>4. m \in Nat /\ m \in 1..m /\ v[m] = "$"
    <3>1. Len(out) \in Nat /\ m = Len(out) + 1
        OBVIOUS
    <3>2. v[Len(out) + 1] = "$"
        OBVIOUS
    <3> QED BY <3>1, <3>2
  <2>5. EndsInFrom(v)
      BY <1>3, <2>3
  <2> HIDE DEF v
  <2>6. PICK x \in 1..m : /\ \A j \in x + 1..m : v[j] \in Blanks
                          /\ v[x] = "comma" \/ v[x] = "from"
      BY <2>5 DEF EndsInFrom
  <2>7. x = m \/ m \in x + 1..m
      BY <2>4
  <2> QED BY <2>4, <2>6, <2>7 DEF Blanks, Newlines
<1>10. StateAt(sp, n) = StateAt(z, n)
    BY <1>1, <1>3, <1>7, <1>9, <1>s, PrefixScan
<1>11. Like(StateAt(s, n), StateAt(z, n))
    BY <1>1, <1>2, <1>s, ScansAlike
<1> DEFINE a == StateAt(s, n)
<1>12. a.mode \in {"code", "line"} /\ a.skip = 0
  <2>1. StateAt(sp, n).mode \in {"code", "line"}
      BY <1>3, <1>8, <1>s DEF Unterminated
  <2>2. StateAt(sp, n).skip + n <= n /\ StateAt(sp, n).skip \in Nat
      BY <1>6, <1>8 DEF StateOk, LexStates
  <2>3. StateAt(sp, n).skip = 0
      BY <1>2, <2>2
  <2> QED BY <1>10, <1>11, <2>1, <2>3 DEF Like
<1>13. StateAt(s, i) = LexStep(DelimiterLexer, t, i, a) /\ StateAt(s, i) = s[i]
    BY <1>1, <1>2, ScanAt
<1> HIDE DEF a
<1>14. CASE a.mode = "code"
  <2>1. LexStep(DelimiterLexer, t, i, a) = InCode
      BY <1>4, <1>12, <1>14, PlainStep DEF Ready
  <2>2. s[i] = InCode
      BY <1>13, <2>1
  <2>3. InCode.is = "code"
      BY DEF InCode
  <2> QED BY <2>2, <2>3
<1>15. CASE a.mode = "line"
  <2>1. LexStep(DelimiterLexer, t, i, a) = a
      BY <1>4, <1>12, <1>15 DEF LexStep
  <2> QED BY <1>13, <1>15, <2>1
<1> QED BY <1>12, <1>14, <1>15


\* What is expanded is no quote and no block comment; where none nests it is code, and a whole call.
LEMMA ExpandedIsCode ==
    ASSUME NEW t \in Texts, NoEscapes(t), NEW c \in Expansions(t),
           NEW s, s = Scan(DelimiterLexer, t)
    PROVE  /\ s[c.from].is = "code" \/ s[c.from].mode = "line"
           /\ Formed(t) /\ ~Nests(t) =>
                /\ {c.from, c.open, c.to} \subseteq CodeOf(DelimiterLexer, t)
                /\ MatchingParen(t, CodeOf(DelimiterLexer, t), c.open) = c.to
<1> DEFINE code == CodeOf(HelperLexer, t)
           real == CodeOf(DelimiterLexer, t)
           names == {i \in code : IsNameMatch(t, i) /\ RelationPosition(t, i) /\ OpenParen(t, i) # 0}
           end(i) == MatchingParen(t, code, OpenParen(t, i))
           call(i) == [from |-> i, open |-> OpenParen(t, i), to |-> end(i)]
           first == {k \in names : \A j \in names : j < k => end(j) < k}
<1>1. Expansions(t) = {call(i) : i \in first}
    BY DEF Expansions
<1>2. PICK i \in first : c = call(i)
    BY <1>1
<1>3. i \in code /\ IsNameMatch(t, i) /\ RelationPosition(t, i) /\ OpenParen(t, i) # 0
    OBVIOUS
<1>4. c.from = i /\ c.open = OpenParen(t, i) /\ c.to = MatchingParen(t, code, OpenParen(t, i))
    BY <1>2
<1>5. i \in 1..Len(t)
    BY <1>3 DEF CodeOf, CodeIn
<1> HIDE DEF code, real, names, end, call, first
<1>6. s[i].is = "code" \/ s[i].mode = "line"
    BY <1>3, <1>5, NameIsCode
<1>7. ASSUME Formed(t), ~Nests(t)
      PROVE  {c.from, c.open, c.to} \subseteq real /\ MatchingParen(t, real, c.open) = c.to
  <2> DEFINE o == OpenParen(t, i)
  <2>1. code = real
      BY <1>7, CodeAlike DEF code, real
  <2>2. i \in real
      BY <1>3, <2>1
  <2>3. o \in real /\ t[o] = "("
      BY <1>3, <2>2, OpenIsCode DEF real
  <2> HIDE DEF o
  <2>4. MatchingParen(t, real, o) \in real
      BY <1>7, <2>3, ParenCloses DEF real
  <2> QED BY <1>4, <2>1, <2>2, <2>3, <2>4 DEF o
<1> QED BY <1>4, <1>6, <1>7 DEF real

\* ExpansionIsCode: in a text without backslashes that is not misread no call of the helper is
\* expanded in a quote or in a block comment; and where no block comment nests, an expansion is code
\* and the call it is for PostgreSQL.
THEOREM ExpandedCallsAreCode == TextSpec => []ExpansionIsCode
<1>1. text \in Texts => ExpansionIsCode
  <2> SUFFICES ASSUME text \in Texts, NoEscapes(text), ~Misread(text), NEW c \in Expansions(text)
               PROVE  LET s == PostgresScan(text)
                          code == CodeIn(text, s)
                      IN  /\ s[c.from].is = "code" \/ s[c.from].mode = "line"
                          /\ WellFormed(text) /\ ~NestsComments(text) =>
                              /\ {c.from, c.open, c.to} \subseteq code
                              /\ MatchingParen(text, code, c.open) = c.to
      BY DEF ExpansionIsCode
  <2> QED BY ExpandedIsCode, AsPostgres
<1> QED BY <1>1, TextsOnly, PTL

=============================================================================
