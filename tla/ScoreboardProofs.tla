--------------------------- MODULE ScoreboardProofs ---------------------------
(***************************************************************************)
(* Theorems about Scoreboard: positions are ranks, rows are current, and a *)
(* client polling a replica misses none of its updates.                    *)
(*                                                                         *)
(* Scores and positions are recursive functions.  That each has a value    *)
(* follows without induction over data: were there a set of solves or a    *)
(* place without one, there would be a least, and it has one.              *)
(*                                                                         *)
(* TypeInv adds to the types that every cache is ranked; CurrentInv, that  *)
(* the last event about a team still to be read, or its row if there is    *)
(* none, is its deployment; PollInv, that an answer or a view of a replica *)
(* whose time is no older than the last update there shows what it has, or *)
(* that this update coincided with an earlier one.                         *)
(***************************************************************************)
EXTENDS Scoreboard, FiniteSetTheorems, SequenceTheorems, TLAPS

(***************************************************************************)
(* Numbers.                                                                *)
(***************************************************************************)
LEMMA LeastExists ==
  ASSUME NEW S \in SUBSET Nat, S # {}
  PROVE  \E m \in S : \A n \in S : m <= n
<1> DEFINE Below == {0 .. n : n \in S}
<1>1. IsWellFoundedOn(StrictSubsetOrdering(Nat), FiniteSubsetsOf(Nat))
  BY FS_StrictSubsetOrderingWellFounded
<1>2. Below \subseteq FiniteSubsetsOf(Nat) /\ Below # {}
  <2>1. \A n \in S : IsFiniteSet(0 .. n) /\ 0 .. n \in SUBSET Nat
    BY FS_Interval
  <2> QED
    BY <2>1 DEF FiniteSubsetsOf
<1>3. \E x \in Below : \A y \in Below : ~ (<<y, x>> \in StrictSubsetOrdering(Nat))
  <2> HIDE DEF Below
  <2> QED
    BY <1>1, <1>2, WFMin
<1>4. PICK m \in S : \A y \in Below : ~ (<<y, 0 .. m>> \in StrictSubsetOrdering(Nat))
  BY <1>3
<1>5. ASSUME NEW n \in S PROVE m <= n
  <2> SUFFICES ASSUME n < m PROVE FALSE
    BY SMT
  <2>1. n \in Nat /\ m \in Nat
    OBVIOUS
  <2>2. 0 .. n \subseteq 0 .. m /\ m \in 0 .. m /\ m \notin 0 .. n
    BY <2>1
  <2>3. 0 .. n \in SUBSET Nat /\ 0 .. m \in SUBSET Nat /\ 0 .. n # 0 .. m
    BY <2>1, <2>2
  <2>4. <<0 .. n, 0 .. m>> \in StrictSubsetOrdering(Nat)
    BY <2>2, <2>3 DEF StrictSubsetOrdering
  <2> QED
    BY <1>4, <2>4
<1> QED
  BY <1>5

LEMMA GreatestExists ==
  ASSUME NEW S \in SUBSET Nat, S # {}, NEW b \in Nat, \A n \in S : n <= b
  PROVE  \E m \in S : \A n \in S : n <= m
<1> DEFINE T == {k \in Nat : \A n \in S : n <= k}
<1>1. T \in SUBSET Nat /\ T # {}
  OBVIOUS
<1>2. PICK m \in T : \A k \in T : m <= k
  BY <1>1, LeastExists
<1>3. m \in S
  <2> SUFFICES ASSUME m \notin S PROVE FALSE
    OBVIOUS
  <2>1. PICK n \in S : TRUE
    OBVIOUS
  <2>2. m \in Nat /\ n \in Nat /\ n < m
    BY <2>1
  <2>3. m - 1 \in T
    BY <2>2
  <2> QED
    BY <1>2, <2>2, <2>3
<1> QED
  BY <1>2, <1>3

\* A finite set of numbers has a greatest one.
LEMMA FiniteHasMax ==
  ASSUME NEW S \in SUBSET Nat, IsFiniteSet(S), S # {}
  PROVE  Max(S) \in S
<1> DEFINE T == {Cardinality({y \in S : y < x}) : x \in S}
           Lower(x) == {y \in S : y < x}
<1>1. ASSUME NEW x \in S
      PROVE  IsFiniteSet(Lower(x)) /\ Cardinality(Lower(x)) \in Nat /\ Cardinality(Lower(x)) <= Cardinality(S)
  <2>1. Lower(x) \in SUBSET S
    OBVIOUS
  <2> QED
    BY <2>1, FS_Subset, FS_CardinalityType
<1>2. T \in SUBSET Nat /\ T # {} /\ Cardinality(S) \in Nat /\ \A n \in T : n <= Cardinality(S)
  BY <1>1, FS_CardinalityType
<1>3. PICK m \in T : \A n \in T : n <= m
  BY <1>2, GreatestExists
<1>4. PICK x \in S : m = Cardinality(Lower(x))
  OBVIOUS
<1>5. ASSUME NEW y \in S PROVE y <= x
  <2> SUFFICES ASSUME x < y PROVE FALSE
    BY SMT
  <2>1. x \in Nat /\ y \in Nat /\ \A z \in S : z \in Nat
    OBVIOUS
  <2>2. Lower(x) \in SUBSET Lower(y)
    <3>1. ASSUME NEW z \in Lower(x) PROVE z \in Lower(y)
      <4>1. z \in S /\ z < x
        OBVIOUS
      <4>2. z < y
        BY <2>1, <4>1
      <4> QED
        BY <4>1, <4>2
    <3> HIDE DEF Lower
    <3> QED
      BY <3>1
  <2>3. x \in Lower(y) /\ x \notin Lower(x)
    BY <2>1
  <2>4. IsFiniteSet(Lower(y)) /\ Cardinality(Lower(x)) \in Nat /\ Cardinality(Lower(y)) \in Nat
    BY <1>1
  <2>5. Cardinality(Lower(y)) <= Cardinality(Lower(x))
    BY <1>3, <1>4
  <2> HIDE DEF Lower
  <2>6. Cardinality(Lower(x)) <= Cardinality(Lower(y)) /\ Cardinality(Lower(x)) # Cardinality(Lower(y))
    BY <2>2, <2>3, <2>4, FS_Subset
  <2> QED
    BY <2>4, <2>5, <2>6
<1>6. \E z \in S : \A y \in S : z >= y
  BY <1>5
<1> QED
  BY <1>6 DEF Max

(***************************************************************************)
(* Scores.                                                                 *)
(***************************************************************************)

\* One solve is taken from the set, and its points are added to those of the others.
Points(set, sum) ==
    IF set = {} THEN 0 ELSE LET s == CHOOSE y \in set : TRUE IN Difficulty[s.key] * 10 + sum[set \ {s}]

SumOf(progress) == CHOOSE sum : sum = [set \in SUBSET progress |-> Points(set, sum)]

LEMMA ScoreIsSum == ASSUME NEW row PROVE Score(row) = SumOf(row.progress)[row.progress]
BY DEF Score, MapThenSumSet, MapThenFoldSet, SumOf, Points

\* The sum is defined for every finite set: if not, for a smallest size.
LEMMA SumExists ==
  ASSUME NEW P \in SUBSET Solve, IsFiniteSet(P)
  PROVE  SumOf(P) = [set \in SUBSET P |-> Points(set, SumOf(P))]
<1> DEFINE Small(n) == {set \in SUBSET P : Cardinality(set) <= n}
           Defined(n) == \E sum : sum = [set \in Small(n) |-> Points(set, sum)]
           Bad == {n \in Nat : ~Defined(n)}
<1>1. \A set \in SUBSET P : IsFiniteSet(set) /\ Cardinality(set) \in Nat /\ Cardinality(set) <= Cardinality(P)
  BY FS_Subset, FS_CardinalityType
<1>2. Defined(0)
  <2>1. \A set \in Small(0) : set = {}
    BY <1>1, FS_EmptySet
  <2> DEFINE sum == [set \in Small(0) |-> 0]
  <2>2. sum = [set \in Small(0) |-> Points(set, sum)]
    BY <2>1 DEF Points
  <2> QED
    BY <2>2
<1>3. ASSUME NEW n \in Nat, Defined(n) PROVE Defined(n + 1)
  <2>1. PICK sum : sum = [set \in Small(n) |-> Points(set, sum)]
    BY <1>3
  <2> DEFINE more == [set \in Small(n + 1) |-> IF set \in Small(n) THEN sum[set] ELSE Points(set, sum)]
  <2>2. ASSUME NEW set \in Small(n + 1), set # {}
        PROVE  /\ set \ {CHOOSE y \in set : TRUE} \in Small(n)
               /\ set \ {CHOOSE y \in set : TRUE} \in Small(n + 1)
    <3>1. (CHOOSE y \in set : TRUE) \in set
      BY <2>2
    <3> DEFINE s == CHOOSE y \in set : TRUE
               rest == set \ {s}
    <3>2. IsFiniteSet(set) /\ Cardinality(set) \in Nat /\ Cardinality(set) <= n + 1
      BY <1>1
    <3>3. rest \in SUBSET P /\ Cardinality(rest) = Cardinality(set) - 1
      <4> HIDE DEF s
      <4> QED
        BY <3>1, <3>2, FS_RemoveElement DEF s
    <3> HIDE DEF rest
    <3>4. rest \in Small(n) /\ rest \in Small(n + 1)
      BY <3>2, <3>3
    <3> QED
      BY <3>4 DEF rest
  <2>3. ASSUME NEW set \in Small(n + 1) PROVE more[set] = Points(set, more)
    <3>1. CASE set = {}
      <4>1. set \in Small(n) => sum[set] = Points(set, sum)
        BY <2>1
      <4> QED
        BY <3>1, <4>1 DEF Points
    <3>2. CASE set # {}
      <4> DEFINE rest == set \ {CHOOSE y \in set : TRUE}
      <4>1. rest \in Small(n) /\ rest \in Small(n + 1)
        BY <2>2, <3>2
      <4>2. more[rest] = sum[rest]
        BY <4>1
      <4>3. Points(set, more) = Points(set, sum)
        BY <4>2 DEF Points
      <4>4. set \in Small(n) => sum[set] = Points(set, sum)
        BY <2>1
      <4> QED
        BY <4>3, <4>4
    <3> QED
      BY <3>1, <3>2
  <2>4. more = [set \in Small(n + 1) |-> more[set]]
    OBVIOUS
  <2>5. more = [set \in Small(n + 1) |-> Points(set, more)]
    <3> HIDE DEF more, Small
    <3> QED
      BY <2>3, <2>4
  <2> QED
    BY <2>5
<1>4. \A n \in Nat : Defined(n)
  <2> SUFFICES ASSUME Bad # {} PROVE FALSE
    OBVIOUS
  <2> HIDE DEF Defined
  <2>1. PICK n \in Bad : \A m \in Bad : n <= m
    BY LeastExists
  <2>2. n # 0 /\ n \in Nat
    BY <1>2
  <2>3. n - 1 \in Nat /\ n - 1 \notin Bad
    BY <2>1, <2>2
  <2>4. Defined((n - 1) + 1)
    BY <1>3, <2>3
  <2>5. (n - 1) + 1 = n
    BY <2>2
  <2>6. Defined(n)
    BY <2>4, <2>5
  <2> QED
    BY <2>6
<1>5. Cardinality(P) \in Nat /\ Small(Cardinality(P)) = SUBSET P
  BY <1>1
<1>6. \E sum : sum = [set \in SUBSET P |-> Points(set, sum)]
  <2>1. Defined(Cardinality(P))
    BY <1>4, <1>5
  <2> QED
    BY <1>5, <2>1
<1> QED
  BY <1>6 DEF SumOf

LEMMA ScoreIsNat ==
  ASSUME NEW row, row.progress \in SUBSET Solve, IsFiniteSet(row.progress)
  PROVE  Score(row) \in Nat
<1> DEFINE P == row.progress
           sum == SumOf(P)
           Bad == {n \in Nat : \E set \in SUBSET P : Cardinality(set) = n /\ sum[set] \notin Nat}
<1>1. sum = [set \in SUBSET P |-> Points(set, sum)]
  BY SumExists
<1>2. \A set \in SUBSET P : IsFiniteSet(set) /\ Cardinality(set) \in Nat
  BY FS_Subset, FS_CardinalityType
<1> HIDE DEF sum
<1>3. ASSUME Bad # {} PROVE FALSE
  <2>1. PICK n \in Bad : \A m \in Bad : n <= m
    BY <1>3, LeastExists
  <2>2. PICK set \in SUBSET P : Cardinality(set) = n /\ sum[set] \notin Nat
    OBVIOUS
  <2>3. sum[set] = Points(set, sum)
    BY <1>1
  <2>4. set # {}
    BY <2>2, <2>3 DEF Points
  <2>5. PICK s : s = CHOOSE y \in set : TRUE
    OBVIOUS
  <2>6. s \in set
    BY <2>4, <2>5
  <2>7. s \in Solve /\ Difficulty[s.key] \in Nat
    BY <2>6, ChallengesAssumption DEF Solve
  <2>8. sum[set] = Difficulty[s.key] * 10 + sum[set \ {s}]
    BY <2>3, <2>4, <2>5 DEF Points
  <2>9. set \ {s} \in SUBSET P /\ Cardinality(set \ {s}) = n - 1 /\ n \in Nat
    BY <1>2, <2>2, <2>6, FS_RemoveElement
  <2>10. n - 1 \in Nat
    BY <1>2, <2>9
  <2>11. n - 1 \notin Bad
    BY <2>1, <2>9, <2>10
  <2>12. sum[set \ {s}] \in Nat
    BY <2>9, <2>10, <2>11
  <2> QED
    BY <2>2, <2>7, <2>8, <2>12
<1>4. sum[P] \in Nat
  BY <1>2, <1>3
<1> QED
  BY <1>4, ScoreIsSum DEF sum

(***************************************************************************)
(* The order.                                                              *)
(***************************************************************************)

\* Rows that can be sorted.
RowsOK(rows) ==
    /\ rows \in [Teams -> {Absent} \cup Row]
    /\ \A t \in Listed(rows) : IsFiniteSet(rows[t].progress)

LEMMA LatestIsNat ==
  ASSUME NEW row, row.progress \in SUBSET Solve, IsFiniteSet(row.progress)
  PROVE  LatestSolve(row) \in Nat
<1> DEFINE P == row.progress
           times == {s.solvedAt : s \in P}
           at == [s \in P |-> s.solvedAt]
<1>1. \A s \in P : s.solvedAt \in Nat
  BY ChallengesAssumption DEF Solve
<1>2. at \in [P -> times] /\ \A n \in times : \E s \in P : at[s] = n
  OBVIOUS
<1>3. IsFiniteSet(times)
  <2> HIDE DEF at, times, P
  <2>1. at \in Surjection(P, times)
    BY <1>2 DEF Surjection
  <2> QED
    BY <2>1, FS_Surjection DEF P
<1>4. IsFiniteSet(times \cup {0}) /\ times \cup {0} \in SUBSET Nat /\ times \cup {0} # {}
  BY <1>1, <1>3, FS_AddElement
<1>5. Max(times \cup {0}) \in Nat
  <2> HIDE DEF times
  <2> QED
    BY <1>4, FiniteHasMax
<1> QED
  BY <1>5 DEF LatestSolve

LEMMA ListedAreNumbers ==
  ASSUME NEW rows, RowsOK(rows)
  PROVE  /\ Listed(rows) \in SUBSET Teams /\ IsFiniteSet(Listed(rows))
         /\ \A t \in Listed(rows) :
               /\ t \in Nat /\ rows[t] \in Row
               /\ Score(rows[t]) \in Nat /\ LatestSolve(rows[t]) \in Nat
<1>1. Listed(rows) \in SUBSET Teams /\ IsFiniteSet(Listed(rows))
  BY TeamsAssumption, FS_Subset DEF Listed
<1>2. ASSUME NEW t \in Listed(rows)
      PROVE  /\ t \in Nat /\ rows[t] \in Row
             /\ Score(rows[t]) \in Nat /\ LatestSolve(rows[t]) \in Nat
  <2>1. t \in Nat /\ rows[t] \in Row /\ IsFiniteSet(rows[t].progress)
    BY TeamsAssumption DEF Listed, RowsOK
  <2>2. rows[t].progress \in SUBSET Solve
    BY <2>1 DEF Row
  <2> QED
    BY <2>1, <2>2, ScoreIsNat, LatestIsNat
<1> QED
  BY <1>1, <1>2

\* Any two of the listed teams are in order, one way only.
LEMMA RanksAreTotal ==
  ASSUME NEW rows, RowsOK(rows), NEW t \in Listed(rows), NEW u \in Listed(rows)
  PROVE  /\ ~RanksBefore(rows, t, t)
         /\ RanksBefore(rows, t, u) => ~RanksBefore(rows, u, t)
         /\ t # u => RanksBefore(rows, t, u) \/ RanksBefore(rows, u, t)
         /\ RanksBefore(rows, t, u) => Score(rows[u]) <= Score(rows[t])
         /\ \A v \in Listed(rows) :
               RanksBefore(rows, t, u) /\ RanksBefore(rows, u, v) => RanksBefore(rows, t, v)
BY ListedAreNumbers DEF RanksBefore

IsInOrder(rows, order) ==
    /\ order \in [1 .. Cardinality(Listed(rows)) -> Listed(rows)]
    /\ \A i, j \in 1 .. Cardinality(Listed(rows)) : i < j => RanksBefore(rows, order[i], order[j])

Ahead(rows, t) == {u \in Listed(rows) : RanksBefore(rows, u, t)}

\* There is an order: each team's place is one more than the number of those ahead.
LEMMA OrderExists ==
  ASSUME NEW rows, RowsOK(rows)
  PROVE  \E order : IsInOrder(rows, order)
<1> DEFINE L == Listed(rows)
           n == Cardinality(L)
           place == [t \in L |-> 1 + Cardinality(Ahead(rows, t))]
<1>1. IsFiniteSet(L) /\ n \in Nat
  BY ListedAreNumbers, FS_CardinalityType
<1>2. ASSUME NEW t \in L
      PROVE  /\ IsFiniteSet(Ahead(rows, t)) /\ Cardinality(Ahead(rows, t)) \in Nat
             /\ Cardinality(Ahead(rows, t)) < n
  <2>1. Ahead(rows, t) \in SUBSET L /\ t \notin Ahead(rows, t)
    BY RanksAreTotal DEF Ahead
  <2>2. IsFiniteSet(Ahead(rows, t)) /\ Cardinality(Ahead(rows, t)) <= n
        /\ (Cardinality(L) = Cardinality(Ahead(rows, t)) => L = Ahead(rows, t))
    BY <1>1, <2>1, FS_Subset
  <2>3. Cardinality(Ahead(rows, t)) \in Nat
    BY <2>2, FS_CardinalityType
  <2> QED
    BY <1>1, <2>1, <2>2, <2>3
<1>3. place \in [L -> 1 .. n]
  BY <1>1, <1>2
<1>4. ASSUME NEW t \in L, NEW u \in L, RanksBefore(rows, t, u)
      PROVE  place[t] < place[u]
  <2>1. Ahead(rows, t) \in SUBSET Ahead(rows, u) /\ t \in Ahead(rows, u) /\ t \notin Ahead(rows, t)
    BY <1>4, RanksAreTotal DEF Ahead
  <2>2. /\ Cardinality(Ahead(rows, t)) <= Cardinality(Ahead(rows, u))
        /\ Cardinality(Ahead(rows, u)) = Cardinality(Ahead(rows, t)) => Ahead(rows, u) = Ahead(rows, t)
    BY <1>2, <2>1, FS_Subset
  <2> QED
    BY <1>2, <2>1, <2>2
<1> HIDE DEF place, L
<1>5. \A t, u \in L : place[t] = place[u] => t = u
  <2> SUFFICES ASSUME NEW t \in L, NEW u \in L, place[t] = place[u], t # u PROVE FALSE
    OBVIOUS
  <2>1. RanksBefore(rows, t, u) \/ RanksBefore(rows, u, t)
    BY RanksAreTotal DEF L
  <2>2. place[t] < place[u] \/ place[u] < place[t]
    BY <1>4, <2>1
  <2> QED
    BY <1>3, <2>2
<1>6. place \in Surjection(L, 1 .. n)
  <2>1. place \in Injection(L, 1 .. n)
    BY <1>3, <1>5 DEF Injection, IsInjective
  <2>2. IsFiniteSet(1 .. n) /\ Cardinality(1 .. n) = n
    BY <1>1, FS_Interval
  <2> QED
    BY <2>1, <2>2, FS_Injection
<1>7. \A i \in 1 .. n : \E t \in L : place[t] = i
  BY <1>6 DEF Surjection
<1> DEFINE order == [i \in 1 .. n |-> CHOOSE t \in L : place[t] = i]
<1>8. \A i \in 1 .. n : order[i] \in L /\ place[order[i]] = i
  BY <1>7
<1>9. order \in [1 .. n -> L]
  BY <1>8
<1> HIDE DEF order, n
<1>10. ASSUME NEW i \in 1 .. n, NEW j \in 1 .. n, i < j
       PROVE  RanksBefore(rows, order[i], order[j])
  <2>1. order[i] \in L /\ order[j] \in L /\ place[order[i]] = i /\ place[order[j]] = j
    BY <1>8
  <2>2. order[i] # order[j]
    BY <1>10, <2>1
  <2>3. RanksBefore(rows, order[j], order[i]) => j < i
    BY <1>4, <2>1
  <2> QED
    BY <1>10, <2>1, <2>2, <2>3, RanksAreTotal DEF L
<1> QED
  BY <1>9, <1>10 DEF IsInOrder, n, L

LEMMA SortedIsSorted ==
  ASSUME NEW rows, RowsOK(rows)
  PROVE  IsInOrder(rows, Sorted(rows))
<1> DEFINE n == Cardinality(Listed(rows))
<1>1. PICK order : IsInOrder(rows, order)
  BY OrderExists
<1>2. order \in [1 .. n -> Listed(rows)] /\ DOMAIN order = 1 .. n
  BY <1>1 DEF IsInOrder
<1>3. \A i, j \in DOMAIN order : i < j => RanksBefore(rows, order[i], order[j])
  BY <1>1, <1>2 DEF IsInOrder
<1>4. /\ Sorted(rows) \in [1 .. n -> Listed(rows)]
      /\ \A i, j \in DOMAIN Sorted(rows) : i < j => RanksBefore(rows, Sorted(rows)[i], Sorted(rows)[j])
  BY <1>2, <1>3 DEF Sorted
<1> QED
  BY <1>4 DEF IsInOrder

\* In an order every listed team has one place.
LEMMA SortedIsBijection ==
  ASSUME NEW rows, RowsOK(rows), NEW order, IsInOrder(rows, order)
  PROVE  /\ Len(order) = Cardinality(Listed(rows)) /\ Len(order) \in Nat
         /\ order \in Seq(Listed(rows)) /\ DOMAIN order = 1 .. Len(order)
         /\ \A i, j \in 1 .. Len(order) : order[i] = order[j] => i = j
         /\ \A t \in Listed(rows) : \E i \in 1 .. Len(order) : order[i] = t
<1> DEFINE L == Listed(rows)
           n == Cardinality(L)
<1>1. IsFiniteSet(L) /\ n \in Nat
  BY ListedAreNumbers, FS_CardinalityType
<1>2. order \in [1 .. n -> L] /\ \A i, j \in 1 .. n : i < j => RanksBefore(rows, order[i], order[j])
  BY DEF IsInOrder
<1>3. order \in Seq(L) /\ Len(order) = n /\ DOMAIN order = 1 .. n
  BY <1>1, <1>2, SeqDef
<1>4. \A i, j \in 1 .. n : order[i] = order[j] => i = j
  <2> SUFFICES ASSUME NEW i \in 1 .. n, NEW j \in 1 .. n, order[i] = order[j], i # j PROVE FALSE
    OBVIOUS
  <2>1. i < j \/ j < i
    BY <1>1
  <2>2. RanksBefore(rows, order[i], order[j]) \/ RanksBefore(rows, order[j], order[i])
    BY <1>2, <2>1
  <2> QED
    BY <1>2, <2>2, RanksAreTotal
<1>5. order \in Surjection(1 .. n, L)
  <2> HIDE DEF L, n
  <2>1. order \in Injection(1 .. n, L)
    BY <1>2, <1>4 DEF Injection, IsInjective
  <2>2. IsFiniteSet(1 .. n) /\ Cardinality(1 .. n) = n
    BY <1>1, FS_Interval
  <2> QED
    BY <1>1, <2>1, <2>2, FS_Injection DEF n
<1>6. \A t \in L : \E i \in 1 .. n : order[i] = t
  BY <1>5 DEF Surjection
<1> QED
  BY <1>1, <1>3, <1>4, <1>6

(***************************************************************************)
(* Positions.                                                              *)
(***************************************************************************)
PositionAt(rows, order, position, i) ==
    IF i > 1 /\ Score(rows[order[i]]) >= Score(rows[order[i - 1]]) THEN position[i - 1] ELSE i

\* The recursion is defined for an order of any length.
LEMMA PositionsExist ==
  ASSUME NEW rows, NEW order, Len(order) \in Nat
  PROVE  Positions(rows, order) =
            [i \in 1 .. Len(order) |-> PositionAt(rows, order, Positions(rows, order), i)]
<1> DEFINE Upto(n) == \E position : position = [i \in 1 .. n |-> PositionAt(rows, order, position, i)]
           Bad == {n \in Nat : ~Upto(n)}
<1>1. Upto(0)
  <2> DEFINE none == [i \in 1 .. 0 |-> 0]
  <2>1. none = [i \in 1 .. 0 |-> PositionAt(rows, order, none, i)]
    OBVIOUS
  <2> QED
    BY <2>1
<1>2. ASSUME NEW n \in Nat, Upto(n) PROVE Upto(n + 1)
  <2>1. PICK position : position = [i \in 1 .. n |-> PositionAt(rows, order, position, i)]
    BY <1>2
  <2> DEFINE more == [i \in 1 .. n + 1 |-> IF i \in 1 .. n THEN position[i] ELSE PositionAt(rows, order, position, i)]
  <2>2. ASSUME NEW i \in 1 .. n + 1 PROVE more[i] = PositionAt(rows, order, more, i)
    <3>1. i > 1 => i - 1 \in 1 .. n /\ i - 1 \in 1 .. n + 1
      OBVIOUS
    <3>2. i > 1 => more[i - 1] = position[i - 1]
      BY <3>1
    <3>3. PositionAt(rows, order, more, i) = PositionAt(rows, order, position, i)
      <4> HIDE DEF more
      <4> QED
        BY <3>2 DEF PositionAt
    <3>4. i \in 1 .. n => position[i] = PositionAt(rows, order, position, i)
      BY <2>1
    <3> QED
      BY <3>3, <3>4
  <2>3. more = [i \in 1 .. n + 1 |-> more[i]]
    OBVIOUS
  <2>4. more = [i \in 1 .. n + 1 |-> PositionAt(rows, order, more, i)]
    <3> HIDE DEF more
    <3> QED
      BY <2>2, <2>3
  <2> QED
    BY <2>4
<1>3. \A n \in Nat : Upto(n)
  <2> SUFFICES ASSUME Bad # {} PROVE FALSE
    OBVIOUS
  <2> HIDE DEF Upto
  <2>1. PICK n \in Bad : \A m \in Bad : n <= m
    BY LeastExists
  <2>2. n # 0 /\ n \in Nat
    BY <1>1
  <2>3. n - 1 \in Nat /\ n - 1 \notin Bad
    BY <2>1, <2>2
  <2>4. Upto((n - 1) + 1)
    BY <1>2, <2>3
  <2>5. (n - 1) + 1 = n
    BY <2>2
  <2>6. Upto(n)
    BY <2>4, <2>5
  <2> QED
    BY <2>6
<1>4. \E position : position = [i \in 1 .. Len(order) |-> PositionAt(rows, order, position, i)]
  BY <1>3
<1>5. Positions(rows, order) =
        CHOOSE position : position = [i \in 1 .. Len(order) |-> PositionAt(rows, order, position, i)]
  BY DEF Positions, PositionAt
<1> QED
  BY <1>4, <1>5

\* The places before a place's position are those of more points.
PositionOK(rows, order, position, i) ==
    /\ position[i] \in 1 .. i
    /\ \A k \in 1 .. Len(order) :
          k < position[i] <=> Score(rows[order[k]]) > Score(rows[order[i]])

LEMMA PositionsDivide ==
  ASSUME NEW rows, RowsOK(rows), NEW order, IsInOrder(rows, order)
  PROVE  \A i \in 1 .. Len(order) : PositionOK(rows, order, Positions(rows, order), i)
<1> DEFINE n == Len(order)
           position == Positions(rows, order)
           score(i) == Score(rows[order[i]])
           Bad == {i \in 1 .. n : ~PositionOK(rows, order, position, i)}
<1>1. n \in Nat /\ \A i \in 1 .. n : order[i] \in Listed(rows) /\ score(i) \in Nat
  <2>1. n \in Nat /\ n = Cardinality(Listed(rows))
    BY SortedIsBijection
  <2>2. \A i \in 1 .. n : order[i] \in Listed(rows)
    BY <2>1 DEF IsInOrder
  <2> QED
    BY <2>1, <2>2, ListedAreNumbers
<1>2. \A i, j \in 1 .. n : i <= j => score(j) <= score(i)
  <2> SUFFICES ASSUME NEW i \in 1 .. n, NEW j \in 1 .. n, i <= j PROVE score(j) <= score(i)
    OBVIOUS
  <2>1. CASE i = j
    BY <1>1, <2>1
  <2>2. CASE i < j
    <3>1. RanksBefore(rows, order[i], order[j])
      BY <2>2, SortedIsBijection DEF IsInOrder
    <3> QED
      BY <1>1, <3>1, RanksAreTotal
  <2> QED
    BY <1>1, <2>1, <2>2
<1>3. \A i \in 1 .. n : position[i] = PositionAt(rows, order, position, i)
  <2> HIDE DEF n, position
  <2>1. position = [i \in 1 .. n |-> PositionAt(rows, order, position, i)]
    BY <1>1, PositionsExist DEF n, position
  <2> QED
    BY <2>1
<1> HIDE DEF position
<1>4. ASSUME Bad # {} PROVE FALSE
  <2>0. Bad \in SUBSET Nat
    BY <1>1
  <2>1. PICK i \in Bad : \A m \in Bad : i <= m
    BY <1>4, <2>0, LeastExists
  <2>2. i \in 1 .. n /\ n \in Nat
    BY <1>1
  <2>3. CASE i > 1 /\ score(i) >= score(i - 1)
    <3>1. i - 1 \in 1 .. n /\ i - 1 \notin Bad
      BY <2>1, <2>2, <2>3
    <3>2. PositionOK(rows, order, position, i - 1)
      BY <3>1
    <3>3. position[i] = position[i - 1]
      BY <1>3, <2>2, <2>3 DEF PositionAt
    <3>4. score(i) = score(i - 1)
      <4>1. score(i) <= score(i - 1)
        BY <1>2, <2>2, <3>1
      <4> HIDE DEF score
      <4> QED
        BY <1>1, <2>2, <2>3, <3>1, <4>1
    <3>5. PositionOK(rows, order, position, i)
      BY <2>2, <3>2, <3>3, <3>4 DEF PositionOK
    <3> QED
      BY <3>5
  <2>4. CASE ~(i > 1 /\ score(i) >= score(i - 1))
    <3>1. position[i] = i
      BY <1>3, <2>2, <2>4 DEF PositionAt
    <3>2. ASSUME NEW k \in 1 .. n PROVE k < i <=> score(k) > score(i)
      <4>1. CASE k < i
        <5>1. i > 1 /\ i - 1 \in 1 .. n /\ k <= i - 1
          BY <2>2, <4>1
        <5>2. score(i - 1) <= score(k)
          BY <1>2, <5>1
        <5> HIDE DEF score
        <5>3. score(i) < score(i - 1)
          BY <1>1, <2>2, <2>4, <5>1
        <5> QED
          BY <1>1, <2>2, <4>1, <5>1, <5>2, <5>3
      <4>2. CASE ~(k < i)
        <5>1. score(k) <= score(i)
          BY <1>2, <2>2, <4>2
        <5> HIDE DEF score
        <5> QED
          BY <1>1, <2>2, <4>2, <5>1
      <4> QED
        BY <4>1, <4>2
    <3>3. PositionOK(rows, order, position, i)
      BY <2>2, <3>1, <3>2 DEF PositionOK
    <3> QED
      BY <3>3
  <2> QED
    BY <2>3, <2>4
<1> QED
  BY <1>4 DEF position

\* The teams with more points are those at the places before the position.
Above(rows, t) == {u \in Listed(rows) : Score(rows[u]) > Score(rows[t])}

LEMMA PositionIsRank ==
  ASSUME NEW rows, RowsOK(rows), NEW order, IsInOrder(rows, order), NEW i \in 1 .. Len(order)
  PROVE  /\ Positions(rows, order)[i] = 1 + Cardinality(Above(rows, order[i]))
         /\ Positions(rows, order)[i] \in Nat \ {0}
<1> DEFINE n == Len(order)
           p == Positions(rows, order)[i]
           t == order[i]
           places == 1 .. p - 1
           at == [k \in places |-> order[k]]
<1>1. /\ n \in Nat /\ \A k \in 1 .. n : order[k] \in Listed(rows)
      /\ \A k, j \in 1 .. n : order[k] = order[j] => k = j
      /\ \A u \in Listed(rows) : \E k \in 1 .. n : order[k] = u
  <2>1. order \in [1 .. Cardinality(Listed(rows)) -> Listed(rows)] /\ n = Cardinality(Listed(rows))
    BY SortedIsBijection DEF IsInOrder
  <2>2. n \in Nat
    BY SortedIsBijection
  <2>3. \A k, j \in 1 .. n : order[k] = order[j] => k = j
    BY SortedIsBijection
  <2>4. \A u \in Listed(rows) : \E k \in 1 .. n : order[k] = u
    BY SortedIsBijection
  <2> HIDE DEF n
  <2>5. \A k \in 1 .. n : order[k] \in Listed(rows)
    BY <2>1
  <2> QED
    BY <2>2, <2>3, <2>4, <2>5
<1>2. /\ p \in 1 .. i
      /\ \A k \in 1 .. n : k < p <=> Score(rows[order[k]]) > Score(rows[t])
  BY PositionsDivide DEF PositionOK
<1> HIDE DEF p
<1>3. \A k \in places : k \in 1 .. n /\ k < p
  BY <1>1, <1>2
<1>4. at \in [places -> Above(rows, t)]
  BY <1>1, <1>2, <1>3 DEF Above
<1>5. \A k, j \in places : at[k] = at[j] => k = j
  BY <1>1, <1>3
<1>6. ASSUME NEW u \in Above(rows, t) PROVE \E k \in places : at[k] = u
  <2>1. PICK k \in 1 .. n : order[k] = u
    BY <1>1 DEF Above
  <2>2. k < p
    BY <1>2, <2>1 DEF Above
  <2>3. k \in places
    BY <1>1, <1>2, <2>1, <2>2
  <2> QED
    BY <2>1, <2>3
<1>7. at \in Bijection(places, Above(rows, t))
  <2> HIDE DEF at, places
  <2>1. at \in Injection(places, Above(rows, t))
    BY <1>4, <1>5 DEF Injection, IsInjective
  <2>2. at \in Surjection(places, Above(rows, t))
    BY <1>4, <1>6 DEF Surjection
  <2> QED
    BY <2>1, <2>2 DEF Bijection
<1>8. IsFiniteSet(places) /\ Cardinality(places) = p - 1
  <2>1. p \in Nat /\ p >= 1
    BY <1>1, <1>2
  <2>2. p - 1 \in Int /\ 1 \in Int
    BY <2>1
  <2>3. IsFiniteSet(1 .. p - 1) /\ Cardinality(1 .. p - 1) = IF 1 > p - 1 THEN 0 ELSE (p - 1) - 1 + 1
    BY ONLY <2>2, FS_Interval
  <2> QED
    BY <2>1, <2>3
<1>9. Cardinality(Above(rows, t)) = p - 1
  <2> HIDE DEF at, places
  <2>1. ExistsBijection(places, Above(rows, t))
    BY <1>7 DEF ExistsBijection
  <2> QED
    BY <1>8, <2>1, FS_Bijection
<1>10. p = 1 + Cardinality(Above(rows, t)) /\ p \in Nat \ {0}
  BY <1>1, <1>2, <1>9
<1> QED
  BY <1>10 DEF p

(***************************************************************************)
(* Sorting the rows changes nothing of them but the positions, which       *)
(* become ranks.                                                           *)
(***************************************************************************)
Same(row, other) ==
    row.progress = other.progress /\ row.ready = other.ready /\ row.stamp = other.stamp

Ranked(rows) ==
    \A t \in Listed(rows) :
        rows[t].position = 1 + Cardinality(Above(rows, t)) /\ rows[t].position \in Nat \ {0}

LEMMA ResortedAreRanked ==
  ASSUME NEW rows, RowsOK(rows), NEW new \in Resorted(rows)
  PROVE  /\ RowsOK(new) /\ Ranked(new)
         /\ \A t \in Teams : rows[t] = Absent <=> new[t] = Absent
         /\ \A t \in Listed(rows) : Same(new[t], rows[t])
<1> DEFINE order == Sorted(rows)
           position == Positions(rows, order)
           place(t) == CHOOSE i \in DOMAIN order : order[i] = t
<1>1. new = [t \in Teams |-> IF rows[t] = Absent THEN Absent
                             ELSE [rows[t] EXCEPT !.position = position[place(t)]]]
  BY DEF Resorted, WithPositions
<1>2. IsInOrder(rows, order)
  BY SortedIsSorted
<1> HIDE DEF order, position
<1>3. /\ Len(order) \in Nat /\ DOMAIN order = 1 .. Len(order)
      /\ \A t \in Listed(rows) : \E i \in 1 .. Len(order) : order[i] = t
  BY <1>2, SortedIsBijection
<1>4. \A t \in Listed(rows) : place(t) \in 1 .. Len(order) /\ order[place(t)] = t
  BY <1>3
<1> HIDE DEF place
<1>5. ASSUME NEW t \in Listed(rows)
      PROVE  /\ position[place(t)] = 1 + Cardinality(Above(rows, t))
             /\ position[place(t)] \in Nat \ {0}
  BY <1>2, <1>4, PositionIsRank DEF position
<1>6. ASSUME NEW t \in Listed(rows)
      PROVE  /\ t \in Teams /\ new[t] \in Row /\ new[t] # Absent
             /\ Same(new[t], rows[t]) /\ new[t].position = position[place(t)]
  <2>1. t \in Teams /\ rows[t] # Absent /\ rows[t] \in Row
    BY DEF Listed, RowsOK
  <2>2. new[t] = [rows[t] EXCEPT !.position = position[place(t)]]
    BY <1>1, <2>1
  <2>3. position[place(t)] \in Nat
    BY <1>5
  <2>4. /\ new[t] \in Row /\ Same(new[t], rows[t]) /\ new[t].position = position[place(t)]
    BY <2>1, <2>2, <2>3 DEF Row, Same
  <2> QED
    BY <2>1, <2>4, AbsentAssumption
<1>7. \A t \in Teams : rows[t] = Absent => new[t] = Absent
  BY <1>1
<1>8. Listed(new) = Listed(rows) /\ \A t \in Teams : rows[t] = Absent <=> new[t] = Absent
  BY <1>6, <1>7 DEF Listed
<1>9. RowsOK(new)
  <2>1. new \in [Teams -> {Absent} \cup Row]
    <3>1. \A t \in Teams : new[t] \in {Absent} \cup Row
      BY <1>6, <1>7 DEF Listed
    <3>2. new = [t \in Teams |-> new[t]]
      BY <1>1
    <3> QED
      BY <3>1, <3>2
  <2>2. \A t \in Listed(new) : IsFiniteSet(new[t].progress)
    BY <1>6, <1>8 DEF RowsOK, Same
  <2> QED
    BY <2>1, <2>2 DEF RowsOK
<1>10. \A t \in Listed(rows) : Score(new[t]) = Score(rows[t])
  BY <1>6, ScoreIsSum DEF Same
<1>11. \A t \in Listed(rows) : Above(new, t) = Above(rows, t)
  BY <1>8, <1>10 DEF Above
<1>12. Ranked(new)
  BY <1>5, <1>6, <1>8, <1>11 DEF Ranked
<1> QED
  BY <1>6, <1>8, <1>9, <1>12

(***************************************************************************)
(* Types.                                                                  *)
(***************************************************************************)

\* A deployment's annotation holds a finite list.
Deployed == {object \in Deployment : IsFiniteSet(object.progress)}
Told == [type : {"added", "modified", "deleted"}, team : Teams, object : Deployed]

CacheOK(rows) == RowsOK(rows) /\ Ranked(rows)

TypeInv ==
    /\ deployment \in [Teams -> {Absent} \cup Deployed]
    /\ phase \in [Replicas -> {"booting", "serving", "watching"}]
    /\ queue \in [Replicas -> Seq(Told)]
    /\ DOMAIN scores = Replicas /\ \A r \in Replicas : CacheOK(scores[r])
    /\ scores = [r \in Replicas |-> scores[r]]
    /\ now \in Nat

LEMMA NoRows == CacheOK([t \in Teams |-> Absent])
BY DEF CacheOK, RowsOK, Ranked, Listed

\* One row of a cache is replaced or removed, and the rows are sorted.
LEMMA RowUpdated ==
  ASSUME NEW rows, RowsOK(rows), NEW t \in Teams, NEW row,
         row = Absent \/ (row \in Row /\ IsFiniteSet(row.progress)),
         NEW new \in Resorted([rows EXCEPT ![t] = row])
  PROVE  /\ CacheOK(new)
         /\ row = Absent => new[t] = Absent
         /\ row # Absent => new[t] # Absent /\ Same(new[t], row)
         /\ \A u \in Teams \ {t} : /\ new[u] = Absent <=> rows[u] = Absent
                                   /\ new[u] # Absent => Same(new[u], rows[u])
<1> DEFINE mid == [rows EXCEPT ![t] = row]
<1>1. /\ rows \in [Teams -> {Absent} \cup Row]
      /\ \A u \in Teams : rows[u] # Absent => IsFiniteSet(rows[u].progress)
  BY DEF RowsOK, Listed
<1>2. /\ mid \in [Teams -> {Absent} \cup Row] /\ mid[t] = row
      /\ \A u \in Teams \ {t} : mid[u] = rows[u]
  BY <1>1
<1> HIDE DEF mid
<1>3. RowsOK(mid)
  BY <1>1, <1>2 DEF RowsOK, Listed
<1>4. new \in Resorted(mid)
  BY DEF mid
<1>5. /\ CacheOK(new)
      /\ \A u \in Teams : mid[u] = Absent <=> new[u] = Absent
      /\ \A u \in Listed(mid) : Same(new[u], mid[u])
  BY <1>3, <1>4, ResortedAreRanked DEF CacheOK
<1> QED
  BY <1>2, <1>5 DEF Listed

\* The caches when that of one replica changes.
LEMMA CacheChanged ==
  ASSUME TypeInv, NEW r \in Replicas, NEW rows, CacheOK(rows), scores' = [scores EXCEPT ![r] = rows]
  PROVE  /\ DOMAIN scores' = Replicas /\ \A q \in Replicas : CacheOK(scores'[q])
         /\ scores' = [q \in Replicas |-> scores'[q]]
         /\ scores'[r] = rows /\ \A q \in Replicas \ {r} : scores'[q] = scores[q]
<1>1. DOMAIN scores = Replicas /\ \A q \in Replicas : CacheOK(scores[q])
  BY DEF TypeInv
<1>2. /\ DOMAIN scores' = Replicas /\ scores' = [q \in Replicas |-> scores'[q]]
      /\ scores'[r] = rows /\ \A q \in Replicas \ {r} : scores'[q] = scores[q]
  BY <1>1
<1>3. ASSUME NEW q \in Replicas PROVE CacheOK(scores'[q])
  <2>1. CASE q = r
    BY <1>2, <2>1
  <2>2. CASE q # r
    BY <1>1, <1>2, <2>2
  <2> QED
    BY <2>1, <2>2
<1> QED
  BY <1>2, <1>3

\* What an update leaves of the cache it changes.
Updated(r, t, row) ==
    /\ row = Absent => scores'[r][t] = Absent
    /\ row # Absent => scores'[r][t] # Absent /\ Same(scores'[r][t], row)
    /\ \A u \in Teams \ {t} : /\ scores'[r][u] = Absent <=> scores[r][u] = Absent
                              /\ scores'[r][u] # Absent => Same(scores'[r][u], scores[r][u])
    /\ \A q \in Replicas \ {r} : scores'[q] = scores[q]

LEMMA UpdateRowIs ==
  ASSUME TypeInv, NEW r \in Replicas, NEW t \in Teams, NEW row, NEW time,
         row = Absent \/ (row \in Row /\ IsFiniteSet(row.progress)),
         UpdateRow(r, t, row, time)
  PROVE  /\ DOMAIN scores' = Replicas /\ \A q \in Replicas : CacheOK(scores'[q])
         /\ scores' = [q \in Replicas |-> scores'[q]]
         /\ Updated(r, t, row)
<1>1. PICK rows \in Resorted([scores[r] EXCEPT ![t] = row]) : scores' = [scores EXCEPT ![r] = rows]
  BY DEF UpdateRow
<1>2. RowsOK(scores[r])
  BY DEF TypeInv, CacheOK
<1>3. /\ CacheOK(rows)
      /\ row = Absent => rows[t] = Absent
      /\ row # Absent => rows[t] # Absent /\ Same(rows[t], row)
      /\ \A u \in Teams \ {t} : /\ rows[u] = Absent <=> scores[r][u] = Absent
                                /\ rows[u] # Absent => Same(rows[u], scores[r][u])
  BY <1>1, <1>2, RowUpdated
<1>4. /\ DOMAIN scores' = Replicas /\ \A q \in Replicas : CacheOK(scores'[q])
      /\ scores' = [q \in Replicas |-> scores'[q]]
      /\ scores'[r] = rows /\ \A q \in Replicas \ {r} : scores'[q] = scores[q]
  BY <1>1, <1>3, CacheChanged
<1> QED
  BY <1>3, <1>4 DEF Updated

LEMMA CalculateScoreIs ==
  ASSUME NEW object \in Deployed, NEW time \in Nat
  PROVE  /\ CalculateScore(object, time) \in Row /\ CalculateScore(object, time) # Absent
         /\ IsFiniteSet(CalculateScore(object, time).progress)
         /\ CalculateScore(object, time).position = 0
         /\ CalculateScore(object, time).stamp = time
         /\ Tells(CalculateScore(object, time), object)
<1>1. /\ object \in Deployment /\ IsFiniteSet(object.progress)
  BY DEF Deployed
<1>2. CalculateScore(object, time) \in Row
  BY <1>1 DEF CalculateScore, Row, Deployment
<1> QED
  BY <1>1, <1>2, AbsentAssumption DEF CalculateScore, Tells

\* A row of a cache has a position, a row just calculated has none: they never
\* compare as equal.
LEMMA EveryEventUpdates ==
  ASSUME TypeInv, NEW r \in Replicas, NEW t \in Teams, scores[r][t] # Absent,
         NEW object \in Deployed, NEW time \in Nat
  PROVE  ~EqualsIgnoringLastUpdate(scores[r][t], CalculateScore(object, time))
<1>1. scores[r][t].position \in Nat \ {0}
  BY DEF TypeInv, CacheOK, Ranked, Listed
<1> QED
  BY <1>1, CalculateScoreIs DEF EqualsIgnoringLastUpdate

LEMMA NextTimesAre == ASSUME now \in Nat, NEW time \in NextTimes PROVE time \in Nat /\ time >= now
BY DEF NextTimes

\* An event that is read, and the update it is.
RowOf(event, time) == IF event.type = "deleted" THEN Absent ELSE CalculateScore(event.object, time)

LEMMA ReadEventIs ==
  ASSUME TypeInv, NEW r \in Replicas, ReadEvent(r)
  PROVE  /\ phase[r] = "watching" /\ queue[r] # <<>> /\ Head(queue[r]) \in Told
         /\ queue' = [queue EXCEPT ![r] = Tail(queue[r])]
         /\ UNCHANGED <<deployment, phase, want, edits, failures>>
         /\ \E time \in NextTimes :
               LET row == RowOf(Head(queue[r]), time) IN
               /\ UpdateRow(r, Head(queue[r]).team, row, time)
               /\ row = Absent \/ (row \in Row /\ IsFiniteSet(row.progress))
<1> DEFINE event == Head(queue[r])
<1>1. phase[r] = "watching" /\ queue[r] # <<>> /\ queue' = [queue EXCEPT ![r] = Tail(queue[r])]
      /\ UNCHANGED <<deployment, phase, want, edits, failures>>
  BY DEF ReadEvent
<1>2. event \in Told
  BY <1>1 DEF TypeInv
<1>3. event.team \in Teams /\ event.object \in Deployed
  BY <1>2 DEF Told
<1>4. PICK time \in NextTimes :
         LET fresh == CalculateScore(event.object, time)
         IN  CASE event.type = "deleted" -> UpdateRow(r, event.team, Absent, time)
               [] /\ event.type # "deleted"
                  /\ scores[r][event.team] # Absent
                  /\ EqualsIgnoringLastUpdate(scores[r][event.team], fresh) ->
                     UNCHANGED <<scores, lastUpdate, coincided, now, client>>
               [] OTHER -> UpdateRow(r, event.team, fresh, time)
  BY DEF ReadEvent
<1> DEFINE fresh == CalculateScore(event.object, time)
<1>5. time \in Nat
  BY NextTimesAre DEF TypeInv
<1>6. scores[r][event.team] # Absent => ~EqualsIgnoringLastUpdate(scores[r][event.team], fresh)
  BY <1>3, <1>5, EveryEventUpdates
<1>7. CASE event.type = "deleted"
  <2>1. UpdateRow(r, event.team, Absent, time)
    BY <1>4, <1>7
  <2> QED
    BY <1>1, <1>2, <1>7, <2>1 DEF RowOf
<1>8. CASE event.type # "deleted"
  <2>1. UpdateRow(r, event.team, fresh, time)
    <3> HIDE DEF fresh
    <3> QED
      BY <1>4, <1>6, <1>8 DEF fresh
  <2>2. fresh \in Row /\ IsFiniteSet(fresh.progress)
    BY <1>3, <1>5, CalculateScoreIs
  <2> QED
    BY <1>1, <1>2, <1>8, <2>1, <2>2 DEF RowOf
<1> QED
  BY <1>7, <1>8

(***************************************************************************)
(* Every replica's rows are ranked.                                        *)
(***************************************************************************)
LEMMA TypeAtStart == Init => TypeInv
<1> SUFFICES ASSUME Init PROVE TypeInv
  OBVIOUS
<1>1. deployment \in [Teams -> {Absent} \cup Deployed]
  <2>1. /\ deployment \in Initial
        /\ deployment \in [Teams -> {Absent} \cup Deployment]
    BY InitialAssumption DEF Init, Deployment, Solve
  <2>2. \A t \in Teams : deployment[t] # Absent => IsFiniteSet(deployment[t].progress)
    BY <2>1, InitialAssumption
  <2>3. \A t \in Teams : deployment[t] \in {Absent} \cup Deployed
    BY <2>1, <2>2 DEF Deployed
  <2> QED
    BY <2>1, <2>3
<1>2. <<>> \in Seq(Told)
  OBVIOUS
<1>3. DOMAIN scores = Replicas /\ scores = [r \in Replicas |-> scores[r]]
      /\ \A r \in Replicas : CacheOK(scores[r])
  BY NoRows DEF Init
<1> QED
  BY <1>1, <1>2, <1>3 DEF Init, TypeInv

LEMMA EditIs ==
  ASSUME TypeInv, NEW t \in Teams,
         CreateDeployment(t) \/ ModifyDeployment(t) \/ DeleteDeployment(t)
  PROVE  /\ UNCHANGED <<phase, scores, lastUpdate, coincided, now, want, client, failures>>
         /\ \E type \in {"added", "modified", "deleted"}, object \in Deployed :
               /\ Publish(type, t, object)
               /\ deployment' = [deployment EXCEPT ![t] = IF type = "deleted" THEN Absent ELSE object]
<1>1. CASE CreateDeployment(t)
  <2>1. IsFiniteSet({}) /\ [progress |-> {}, ready |-> FALSE] \in Deployed
    BY FS_EmptySet DEF Deployed, Deployment
  <2> QED
    BY <1>1, <2>1 DEF CreateDeployment
<1>2. CASE ModifyDeployment(t)
  <2>1. /\ deployment[t] \in Deployed
    BY <1>2 DEF ModifyDeployment, TypeInv
  <2>2. PICK object \in
          {[deployment[t] EXCEPT !.progress = @ \cup {s}] :
               s \in {u \in Solve : u.key \notin Keys(deployment[t].progress)}}
          \cup {deployment[t], [deployment[t] EXCEPT !.ready = ~@]} :
          deployment' = [deployment EXCEPT ![t] = object] /\ Publish("modified", t, object)
    BY <1>2 DEF ModifyDeployment
  <2>3. object \in Deployed
    <3>1. CASE object = deployment[t]
      BY <2>1, <3>1
    <3>2. CASE object = [deployment[t] EXCEPT !.ready = ~@]
      BY <2>1, <3>2 DEF Deployed, Deployment
    <3>3. ASSUME NEW s \in Solve, object = [deployment[t] EXCEPT !.progress = @ \cup {s}]
          PROVE  object \in Deployed
      <4>1. deployment[t].progress \cup {s} \in SUBSET Solve /\ IsFiniteSet(deployment[t].progress \cup {s})
        BY <2>1, FS_AddElement DEF Deployed, Deployment
      <4> QED
        BY <2>1, <3>3, <4>1 DEF Deployed, Deployment
    <3> QED
      BY <2>2, <3>1, <3>2, <3>3
  <2> QED
    BY <1>2, <2>2, <2>3 DEF ModifyDeployment
<1>3. CASE DeleteDeployment(t)
  <2>1. deployment[t] \in Deployed
    BY <1>3 DEF DeleteDeployment, TypeInv
  <2> QED
    BY <1>3, <2>1 DEF DeleteDeployment
<1> QED
  BY <1>1, <1>2, <1>3

\* What an edit adds to the queues.
EventOf(type, t, object) == [type |-> type, team |-> t, object |-> object]

LEMMA PublishIs ==
  ASSUME TypeInv, NEW type \in {"added", "modified", "deleted"}, NEW t \in Teams, NEW object \in Deployed,
         Publish(type, t, object)
  PROVE  /\ queue' \in [Replicas -> Seq(Told)]
         /\ \A r \in Replicas : queue'[r] = IF phase[r] = "watching"
                                            THEN Append(queue[r], EventOf(type, t, object)) ELSE queue[r]
<1>1. EventOf(type, t, object) \in Told
  BY DEF EventOf, Told
<1>2. queue' = [r \in Replicas |-> IF phase[r] = "watching"
                                   THEN Append(queue[r], EventOf(type, t, object)) ELSE queue[r]]
  BY DEF Publish, EventOf
<1>3. \A r \in Replicas : queue[r] \in Seq(Told)
  BY DEF TypeInv
<1>4. \A r \in Replicas : Append(queue[r], EventOf(type, t, object)) \in Seq(Told)
  BY <1>1, <1>3
<1> QED
  BY <1>2, <1>3, <1>4

\* The events a watch begins with: one for each deployment.
Existing(q) ==
    /\ q \in Seq(Told)
    /\ \A i \in DOMAIN q : /\ deployment[q[i].team] # Absent
                           /\ q[i].type = "added" /\ q[i].object = deployment[q[i].team]
    /\ \A t \in Teams : deployment[t] # Absent => \E i \in DOMAIN q : q[i].team = t
    /\ \A i, j \in DOMAIN q : q[i].team = q[j].team => i = j

LEMMA SetToSeqIs ==
  ASSUME NEW S, IsFiniteSet(S)
  PROVE  /\ Cardinality(S) \in Nat /\ SetToSeq(S) \in [1 .. Cardinality(S) -> S]
         /\ \A i, j \in 1 .. Cardinality(S) : SetToSeq(S)[i] = SetToSeq(S)[j] => i = j
         /\ \A x \in S : \E i \in 1 .. Cardinality(S) : SetToSeq(S)[i] = x
<1> DEFINE n == Cardinality(S)
           seq == SetToSeq(S)
<1>1. n \in Nat /\ ExistsBijection(1 .. n, S)
  BY FS_CardinalityType
<1>2. \E f \in [1 .. n -> S] : IsInjective(f)
  BY <1>1 DEF ExistsBijection, Bijection, Injection
<1>3. seq \in [1 .. n -> S] /\ IsInjective(seq)
  BY <1>2 DEF SetToSeq
<1> HIDE DEF seq
<1>4. \A i, j \in 1 .. n : seq[i] = seq[j] => i = j
  BY <1>3 DEF IsInjective
<1>5. seq \in Surjection(1 .. n, S)
  <2>1. seq \in Injection(1 .. n, S)
    BY <1>3, <1>4 DEF Injection, IsInjective
  <2>2. IsFiniteSet(1 .. n) /\ Cardinality(1 .. n) = n
    BY <1>1, FS_Interval
  <2> QED
    BY <2>1, <2>2, FS_Injection
<1>6. \A x \in S : \E i \in 1 .. n : seq[i] = x
  BY <1>5 DEF Surjection
<1> QED
  BY <1>1, <1>3, <1>4, <1>6 DEF seq

LEMMA StartWatcherIs ==
  ASSUME TypeInv, NEW r \in Replicas, StartWatcher(r)
  PROVE  /\ queue' \in [Replicas -> Seq(Told)] /\ Existing(queue'[r])
         /\ \A q \in Replicas \ {r} : queue'[q] = queue[q]
<1> DEFINE S == {t \in Teams : deployment[t] # Absent}
           n == Cardinality(S)
           seq == SetToSeq(S)
           events == [i \in DOMAIN seq |->
               [type |-> "added", team |-> seq[i], object |-> deployment[seq[i]]]]
<1>1. IsFiniteSet(S) /\ \A t \in S : t \in Teams /\ deployment[t] \in Deployed
  BY TeamsAssumption, FS_Subset DEF TypeInv
<1>2. queue' = [queue EXCEPT ![r] = events]
  BY DEF StartWatcher
<1>3. /\ n \in Nat /\ seq \in [1 .. n -> S]
      /\ \A i, j \in 1 .. n : seq[i] = seq[j] => i = j
      /\ \A x \in S : \E i \in 1 .. n : seq[i] = x
  <2> HIDE DEF S
  <2> QED
    BY <1>1, SetToSeqIs
<1> HIDE DEF seq, S, n
<1>4. DOMAIN seq = 1 .. n /\ \A i \in 1 .. n : seq[i] \in S
  BY <1>3
<1>5. events \in [1 .. n -> Told]
  BY <1>1, <1>4 DEF Told
<1>6. events \in Seq(Told) /\ DOMAIN events = 1 .. n
  <2> HIDE DEF events
  <2> QED
    BY <1>3, <1>5, SeqDef
<1>7. \A i \in 1 .. n : events[i].team = seq[i] /\ events[i].type = "added" /\ events[i].object = deployment[seq[i]]
  BY <1>4
<1> HIDE DEF events
<1>8. \A t \in Teams : deployment[t] # Absent => t \in S
  BY DEF S
<1>9. \A t \in S : deployment[t] # Absent
  BY DEF S
<1>10. Existing(events)
  BY <1>3, <1>4, <1>6, <1>7, <1>8, <1>9 DEF Existing
<1>11. queue \in [Replicas -> Seq(Told)]
  BY DEF TypeInv
<1> QED
  BY <1>2, <1>6, <1>10, <1>11

\* The list a replica starts with.
LEMMA FirstRowsAreRanked ==
  ASSUME TypeInv,
         NEW rows \in Resorted([t \in Teams |->
             IF deployment[t] = Absent THEN Absent ELSE CalculateScore(deployment[t], now)])
  PROVE  /\ CacheOK(rows)
         /\ \A t \in Teams : rows[t] # Absent =>
               /\ deployment[t] # Absent
               /\ Same(rows[t], CalculateScore(deployment[t], now))
<1> DEFINE fresh == [t \in Teams |->
             IF deployment[t] = Absent THEN Absent ELSE CalculateScore(deployment[t], now)]
<1>1. now \in Nat /\ \A t \in Teams : deployment[t] # Absent => deployment[t] \in Deployed
  BY DEF TypeInv
<1>2. ASSUME NEW t \in Teams, deployment[t] # Absent
      PROVE  fresh[t] \in Row /\ fresh[t] # Absent /\ IsFiniteSet(fresh[t].progress)
  <2>1. fresh[t] = CalculateScore(deployment[t], now)
    BY <1>2
  <2> HIDE DEF fresh
  <2> QED
    BY <1>1, <1>2, <2>1, CalculateScoreIs
<1>3. \A t \in Teams : deployment[t] = Absent => fresh[t] = Absent
  OBVIOUS
<1>4. fresh = [t \in Teams |-> fresh[t]]
  OBVIOUS
<1>5. \A t \in Listed(fresh) : t \in Teams /\ deployment[t] # Absent
                               /\ fresh[t] = CalculateScore(deployment[t], now)
  BY DEF Listed
<1>6. rows \in Resorted(fresh)
  OBVIOUS
<1> HIDE DEF fresh
<1>7. RowsOK(fresh)
  <2>1. \A t \in Teams : fresh[t] \in {Absent} \cup Row
    BY <1>2, <1>3
  <2>2. fresh \in [Teams -> {Absent} \cup Row]
    BY <1>4, <2>1
  <2>3. \A t \in Listed(fresh) : IsFiniteSet(fresh[t].progress)
    BY <1>2, <1>5
  <2> QED
    BY <2>2, <2>3 DEF RowsOK
<1>8. /\ CacheOK(rows)
      /\ \A t \in Teams : fresh[t] = Absent <=> rows[t] = Absent
      /\ \A t \in Listed(fresh) : Same(rows[t], fresh[t])
  BY <1>6, <1>7, ResortedAreRanked DEF CacheOK
<1> QED
  BY <1>5, <1>8 DEF Listed

LEMMA TypeKept == TypeInv /\ [Next]_vars => TypeInv'
<1> SUFFICES ASSUME TypeInv, [Next]_vars PROVE TypeInv'
  OBVIOUS
<1>1. ASSUME NEW t \in Teams, CreateDeployment(t) \/ ModifyDeployment(t) \/ DeleteDeployment(t)
      PROVE  TypeInv'
  <2>1. UNCHANGED <<phase, scores, now>>
    BY <1>1, EditIs
  <2>2. PICK type \in {"added", "modified", "deleted"}, object \in Deployed :
               /\ Publish(type, t, object)
               /\ deployment' = [deployment EXCEPT ![t] = IF type = "deleted" THEN Absent ELSE object]
    BY <1>1, EditIs
  <2>3. queue' \in [Replicas -> Seq(Told)]
    BY <2>2, PublishIs
  <2>4. deployment' \in [Teams -> {Absent} \cup Deployed]
    BY <2>2 DEF TypeInv
  <2> QED
    BY <2>1, <2>3, <2>4 DEF TypeInv
<1>2. ASSUME NEW r \in Replicas, CalculateAndCacheScoreBoard(r) PROVE TypeInv'
  <2>1. /\ UNCHANGED <<deployment, queue, now>> /\ phase' = [phase EXCEPT ![r] = "serving"]
    BY <1>2 DEF CalculateAndCacheScoreBoard
  <2>2. CASE UNCHANGED scores
    BY <2>1, <2>2 DEF TypeInv
  <2>3. ASSUME NEW rows \in Resorted([t \in Teams |->
             IF deployment[t] = Absent THEN Absent ELSE CalculateScore(deployment[t], now)]),
               scores' = [scores EXCEPT ![r] = rows]
        PROVE  TypeInv'
    <3>1. CacheOK(rows)
      BY FirstRowsAreRanked
    <3>2. DOMAIN scores' = Replicas /\ (\A q \in Replicas : CacheOK(scores'[q]))
          /\ scores' = [q \in Replicas |-> scores'[q]]
      BY <2>3, <3>1, CacheChanged
    <3> QED
      BY <2>1, <3>2 DEF TypeInv
  <2> QED
    BY <1>2, <2>2, <2>3 DEF CalculateAndCacheScoreBoard
<1>3. ASSUME NEW r \in Replicas, StartWatcher(r) PROVE TypeInv'
  <2>1. queue' \in [Replicas -> Seq(Told)]
    BY <1>3, StartWatcherIs
  <2> QED
    BY <1>3, <2>1 DEF StartWatcher, TypeInv
<1>4. ASSUME NEW r \in Replicas, ReadEvent(r) PROVE TypeInv'
  <2>1. /\ UNCHANGED <<deployment, phase>> /\ queue[r] # <<>> /\ Head(queue[r]) \in Told
        /\ queue' = [queue EXCEPT ![r] = Tail(queue[r])]
    BY <1>4, ReadEventIs
  <2>2. PICK time \in NextTimes :
               LET row == RowOf(Head(queue[r]), time) IN
               /\ UpdateRow(r, Head(queue[r]).team, row, time)
               /\ row = Absent \/ (row \in Row /\ IsFiniteSet(row.progress))
    BY <1>4, ReadEventIs
  <2>3. Head(queue[r]).team \in Teams
    BY <2>1 DEF Told
  <2>4. /\ DOMAIN scores' = Replicas /\ (\A q \in Replicas : CacheOK(scores'[q]))
        /\ scores' = [q \in Replicas |-> scores'[q]]
    BY <2>2, <2>3, UpdateRowIs
  <2>5. now' \in Nat
    BY <2>2, NextTimesAre DEF UpdateRow, TypeInv
  <2>6. Tail(queue[r]) \in Seq(Told)
    BY <2>1 DEF TypeInv
  <2>7. queue' \in [Replicas -> Seq(Told)]
    BY <2>1, <2>6 DEF TypeInv
  <2> QED
    BY <2>1, <2>4, <2>5, <2>7 DEF TypeInv
<1>5. ASSUME NEW r \in Replicas, CloseWatcher(r) PROVE TypeInv'
  BY <1>5 DEF CloseWatcher, TypeInv
<1>6. ASSUME NEW r \in Replicas, CrashReplica(r) PROVE TypeInv'
  <2>1. DOMAIN scores' = Replicas /\ (\A q \in Replicas : CacheOK(scores'[q]))
        /\ scores' = [q \in Replicas |-> scores'[q]]
    BY <1>6, NoRows, CacheChanged DEF CrashReplica
  <2>2. now' \in Nat
    BY <1>6 DEF CrashReplica, TypeInv
  <2>3. /\ deployment' = deployment
        /\ phase' = [phase EXCEPT ![r] = "booting"] /\ queue' = [queue EXCEPT ![r] = <<>>]
    BY <1>6 DEF CrashReplica
  <2> QED
    BY <2>1, <2>2, <2>3 DEF TypeInv
<1>7. ASSUME NEW c \in Clients, PollStep(c) \/ \E r \in Replicas : Poll(c, r)
      PROVE  TypeInv'
  BY <1>7 DEF PollStep, WaitEnds, TimeOut, Respond, Poll, TypeInv
<1>8. ASSUME UNCHANGED vars PROVE TypeInv'
  BY <1>8 DEF vars, TypeInv
<1> QED
  BY <1>1, <1>2, <1>3, <1>4, <1>5, <1>6, <1>7, <1>8 DEF Next, EditStep, CacheStep

\* Type correctness, of the deployments, the events of each replica's watch and the
\* rows of its cache (TeamScore), whose positions are ranks.
THEOREM TypeCorrect == Spec => []TypeInv
<1>1. Init => TypeInv
  BY TypeAtStart
<1>2. TypeInv /\ [Next]_vars => TypeInv'
  BY TypeKept
<1> QED
  BY <1>1, <1>2, PTL DEF Spec

\* On every replica a team's position is one more than the number of teams with more
\* points, however many there are and whatever was inserted, removed or rescored
\* (sortTeamsByScoreAndCalculatePositions, after each change of the cache).
THEOREM PositionsHold == Spec => []PositionsAreRanks
<1>1. TypeInv => PositionsAreRanks
  BY DEF TypeInv, CacheOK, Ranked, Above, PositionsAreRanks
<1> QED
  BY <1>1, TypeCorrect, PTL

\* No event is found to change nothing.
NoEventIsSkipped ==
    \A r \in Replicas, t \in Teams, object \in Deployed, time \in Nat :
        scores[r][t] # Absent => ~EqualsIgnoringLastUpdate(scores[r][t], CalculateScore(object, time))

\* The check that is to skip an event whose score has not changed never holds: the row
\* of the cache has a position, the one just calculated none yet (EqualsIgnoringLastUpdate
\* in startScoringWatcher).  So each event of a deployment is an update and wakes every poll.
THEOREM EventsAreUpdates == Spec => []NoEventIsSkipped
<1>1. TypeInv => NoEventIsSkipped
  BY EveryEventUpdates DEF NoEventIsSkipped
<1> QED
  BY <1>1, TypeCorrect, PTL

(***************************************************************************)
(* Rows are current.  The last a watch has still to tell of a team, or its *)
(* row when there is nothing, is its deployment.                           *)
(***************************************************************************)
IsLast(q, i, t) == q[i].team = t /\ \A j \in DOMAIN q : j > i => q[j].team # t

ToldOf(q, rows, t, object) ==
    \/ /\ \A i \in DOMAIN q : q[i].team # t
       /\ rows[t] # Absent /\ Tells(rows[t], object)
    \/ \E i \in DOMAIN q : IsLast(q, i, t) /\ q[i].type # "deleted" /\ q[i].object = object

CurrentInv ==
    \A r \in Replicas :
        /\ phase[r] # "watching" => queue[r] = <<>>
        /\ phase[r] = "watching" =>
              \A t \in Teams : deployment[t] # Absent => ToldOf(queue[r], scores[r], t, deployment[t])

LEMMA ToldMore ==
  ASSUME NEW q \in Seq(Told), NEW e \in Told, NEW rows, NEW t \in Teams, NEW object
  PROVE  /\ e.team # t /\ ToldOf(q, rows, t, object) => ToldOf(Append(q, e), rows, t, object)
         /\ e.team = t /\ e.type # "deleted" => ToldOf(Append(q, e), rows, t, e.object)
<1> DEFINE p == Append(q, e)
           n == Len(q)
<1>1. /\ n \in Nat /\ DOMAIN q = 1 .. n /\ DOMAIN p = 1 .. n + 1 /\ p[n + 1] = e
      /\ \A i \in 1 .. n : p[i] = q[i]
  OBVIOUS
<1> HIDE DEF p, n
<1>2. ASSUME e.team # t, ToldOf(q, rows, t, object) PROVE ToldOf(p, rows, t, object)
  <2>1. CASE (\A i \in DOMAIN q : q[i].team # t) /\ rows[t] # Absent /\ Tells(rows[t], object)
    <3>1. \A i \in DOMAIN p : p[i].team # t
      <4>1. \A i \in 1 .. n + 1 : i \in 1 .. n \/ i = n + 1
        BY <1>1
      <4> QED
        BY <1>1, <1>2, <2>1, <4>1
    <3> QED
      BY <2>1, <3>1 DEF ToldOf
  <2>2. ASSUME NEW i \in DOMAIN q, IsLast(q, i, t), q[i].type # "deleted", q[i].object = object
        PROVE  ToldOf(p, rows, t, object)
    <3>1. i \in DOMAIN p /\ p[i] = q[i]
      BY <1>1
    <3>2. ASSUME NEW j \in DOMAIN p, j > i PROVE p[j].team # t
      <4>1. j \in 1 .. n \/ j = n + 1
        BY <1>1
      <4> QED
        BY <1>1, <1>2, <2>2, <3>2, <4>1 DEF IsLast
    <3> QED
      BY <2>2, <3>1, <3>2 DEF ToldOf, IsLast
  <2> QED
    BY <1>2, <2>1, <2>2 DEF ToldOf
<1>3. ASSUME e.team = t, e.type # "deleted" PROVE ToldOf(p, rows, t, e.object)
  <2>1. n + 1 \in DOMAIN p /\ \A j \in DOMAIN p : ~(j > n + 1)
    BY <1>1
  <2> QED
    BY <1>1, <1>3, <2>1 DEF ToldOf, IsLast
<1> QED
  BY <1>2, <1>3 DEF p

LEMMA ToldLess ==
  ASSUME NEW q \in Seq(Told), q # <<>>, NEW rows, NEW new, NEW t \in Teams, NEW object,
         ToldOf(q, rows, t, object),
         Head(q).team # t /\ rows[t] # Absent => new[t] # Absent /\ Same(new[t], rows[t]),
         Head(q).team = t /\ Head(q).type # "deleted" =>
             new[t] # Absent /\ Tells(new[t], Head(q).object)
  PROVE  ToldOf(Tail(q), new, t, object)
<1> DEFINE p == Tail(q)
           n == Len(q)
<1>1. /\ n \in Nat /\ n >= 1 /\ DOMAIN q = 1 .. n /\ DOMAIN p = 1 .. n - 1 /\ Head(q) = q[1]
      /\ \A i \in 1 .. n - 1 : p[i] = q[i + 1]
  OBVIOUS
<1> HIDE DEF p, n
<1>2. CASE (\A i \in DOMAIN q : q[i].team # t) /\ rows[t] # Absent /\ Tells(rows[t], object)
  <2>1. Head(q).team # t
    BY <1>1, <1>2
  <2>2. new[t] # Absent /\ Tells(new[t], object)
    BY <1>2, <2>1 DEF Same, Tells
  <2>3. \A i \in DOMAIN p : i + 1 \in DOMAIN q /\ p[i] = q[i + 1]
    BY <1>1
  <2> QED
    BY <1>2, <2>2, <2>3 DEF ToldOf, p
<1>3. ASSUME NEW i \in DOMAIN q, IsLast(q, i, t), q[i].type # "deleted", q[i].object = object
      PROVE  ToldOf(p, new, t, object)
  <2>1. CASE i = 1
    <3>1. Head(q).team = t
      BY <1>1, <1>3, <2>1 DEF IsLast
    <3>2. new[t] # Absent /\ Tells(new[t], object)
      BY <1>1, <1>3, <2>1, <3>1
    <3>3. \A j \in DOMAIN p : j + 1 \in DOMAIN q /\ j + 1 > 1 /\ p[j] = q[j + 1]
      BY <1>1
    <3> QED
      BY <1>3, <2>1, <3>2, <3>3 DEF ToldOf, IsLast
  <2>2. CASE i # 1
    <3>1. i - 1 \in DOMAIN p /\ p[i - 1] = q[i]
      <4>1. i - 1 \in 1 .. n - 1 /\ (i - 1) + 1 = i
        BY <1>1, <2>2
      <4> QED
        BY <1>1, <4>1
    <3>2. ASSUME NEW j \in DOMAIN p, j > i - 1 PROVE p[j].team # t
      <4>1. j + 1 \in DOMAIN q /\ j + 1 > i /\ p[j] = q[j + 1]
        BY <1>1, <3>2
      <4> QED
        BY <1>3, <4>1 DEF IsLast
    <3> QED
      BY <1>3, <3>1, <3>2 DEF ToldOf, IsLast
  <2> QED
    BY <2>1, <2>2
<1> QED
  BY <1>2, <1>3 DEF ToldOf, p

LEMMA CurrentKept == TypeInv /\ CurrentInv /\ [Next]_vars => CurrentInv'
<1> SUFFICES ASSUME TypeInv, CurrentInv, [Next]_vars PROVE CurrentInv'
  OBVIOUS
<1>0. \A r \in Replicas : queue[r] \in Seq(Told)
  BY DEF TypeInv
<1>1. ASSUME NEW t \in Teams, CreateDeployment(t) \/ ModifyDeployment(t) \/ DeleteDeployment(t)
      PROVE  CurrentInv'
  <2>1. UNCHANGED <<phase, scores>>
    BY <1>1, EditIs
  <2>2. PICK type \in {"added", "modified", "deleted"}, object \in Deployed :
               /\ Publish(type, t, object)
               /\ deployment' = [deployment EXCEPT ![t] = IF type = "deleted" THEN Absent ELSE object]
    BY <1>1, EditIs
  <2> DEFINE e == EventOf(type, t, object)
  <2>3. \A r \in Replicas : queue'[r] = IF phase[r] = "watching" THEN Append(queue[r], e) ELSE queue[r]
    BY <2>2, PublishIs
  <2>4. e \in Told /\ e.team = t /\ e.type = type /\ e.object = object
    BY DEF EventOf, Told
  <2> HIDE DEF e
  <2>5. deployment \in [Teams -> {Absent} \cup Deployed]
    BY DEF TypeInv
  <2>6. ASSUME NEW r \in Replicas, phase[r] = "watching", NEW u \in Teams, deployment'[u] # Absent
        PROVE  ToldOf(Append(queue[r], e), scores[r], u, deployment'[u])
    <3>1. CASE u = t
      <4>1. type # "deleted" /\ deployment'[u] = e.object
        BY <2>2, <2>4, <2>5, <2>6, <3>1
      <4> QED
        BY <1>0, <2>4, <3>1, <4>1, ToldMore
    <3>2. CASE u # t
      <4>1. deployment'[u] = deployment[u] /\ e.team # u
        BY <2>2, <2>4, <2>5, <3>2
      <4>2. ToldOf(queue[r], scores[r], u, deployment[u])
        BY <2>6, <4>1 DEF CurrentInv
      <4> QED
        BY <1>0, <2>4, <4>1, <4>2, ToldMore
    <3> QED
      BY <3>1, <3>2
  <2> QED
    BY <2>1, <2>3, <2>6 DEF CurrentInv
<1>2. ASSUME NEW r \in Replicas, CalculateAndCacheScoreBoard(r) PROVE CurrentInv'
  <2>1. /\ UNCHANGED <<deployment, queue>> /\ phase' = [phase EXCEPT ![r] = "serving"]
        /\ phase[r] = "booting"
        /\ \A q \in Replicas \ {r} : scores'[q] = scores[q]
    BY <1>2 DEF CalculateAndCacheScoreBoard, TypeInv
  <2> QED
    BY <2>1 DEF CurrentInv, TypeInv
<1>3. ASSUME NEW r \in Replicas, StartWatcher(r) PROVE CurrentInv'
  <2>1. /\ Existing(queue'[r]) /\ \A q \in Replicas \ {r} : queue'[q] = queue[q]
    BY <1>3, StartWatcherIs
  <2>2. UNCHANGED <<deployment, scores>> /\ phase' = [phase EXCEPT ![r] = "watching"]
    BY <1>3 DEF StartWatcher
  <2>3. ASSUME NEW t \in Teams, deployment[t] # Absent
        PROVE  ToldOf(queue'[r], scores[r], t, deployment[t])
    <3>1. PICK i \in DOMAIN queue'[r] : queue'[r][i].team = t
      BY <2>1, <2>3 DEF Existing
    <3>2. queue'[r][i].type = "added" /\ queue'[r][i].object = deployment[t]
      BY <2>1, <3>1 DEF Existing
    <3>3. ASSUME NEW j \in DOMAIN queue'[r], j > i PROVE queue'[r][j].team # t
      <4>1. queue'[r] \in Seq(Told)
        BY <2>1 DEF Existing
      <4>2. j # i
        BY <3>3, <4>1
      <4> QED
        BY <2>1, <3>1, <4>2 DEF Existing
    <3> QED
      BY <3>1, <3>2, <3>3 DEF ToldOf, IsLast
  <2>4. \A q \in Replicas : phase'[q] = IF q = r THEN "watching" ELSE phase[q]
    BY <2>2 DEF TypeInv
  <2> QED
    BY <2>1, <2>2, <2>3, <2>4 DEF CurrentInv
<1>4. ASSUME NEW r \in Replicas, ReadEvent(r) PROVE CurrentInv'
  <2>1. /\ UNCHANGED <<deployment, phase>> /\ phase[r] = "watching"
        /\ queue[r] # <<>> /\ Head(queue[r]) \in Told
        /\ queue' = [queue EXCEPT ![r] = Tail(queue[r])]
    BY <1>4, ReadEventIs
  <2> DEFINE event == Head(queue[r])
  <2>2. PICK time \in NextTimes :
               LET row == RowOf(event, time) IN
               /\ UpdateRow(r, event.team, row, time)
               /\ row = Absent \/ (row \in Row /\ IsFiniteSet(row.progress))
    BY <1>4, ReadEventIs
  <2>3. event.team \in Teams /\ event.object \in Deployed
    BY <2>1 DEF Told
  <2>4. Updated(r, event.team, RowOf(event, time))
    BY <2>2, <2>3, UpdateRowIs
  <2>5. event.type # "deleted" =>
           /\ RowOf(event, time) # Absent /\ Tells(RowOf(event, time), event.object)
    BY <2>3, NextTimesAre, CalculateScoreIs DEF RowOf, TypeInv
  <2> HIDE DEF event
  <2>6. ASSUME NEW t \in Teams, deployment[t] # Absent
        PROVE  ToldOf(Tail(queue[r]), scores'[r], t, deployment[t])
    <3>1. ToldOf(queue[r], scores[r], t, deployment[t])
      BY <2>1, <2>6 DEF CurrentInv
    <3>2. event.team # t /\ scores[r][t] # Absent => scores'[r][t] # Absent /\ Same(scores'[r][t], scores[r][t])
      BY <2>4 DEF Updated
    <3>3. event.team = t /\ event.type # "deleted" =>
             scores'[r][t] # Absent /\ Tells(scores'[r][t], event.object)
      BY <2>4, <2>5 DEF Updated, Same, Tells
    <3> QED
      BY <1>0, <2>1, <3>1, <3>2, <3>3, ToldLess DEF event
  <2>7. queue'[r] = Tail(queue[r]) /\ \A q \in Replicas \ {r} : queue'[q] = queue[q]
    BY <2>1 DEF TypeInv
  <2>8. \A q \in Replicas \ {r} : scores'[q] = scores[q]
    BY <2>4 DEF Updated
  <2> QED
    BY <2>1, <2>6, <2>7, <2>8 DEF CurrentInv
<1>5. ASSUME NEW r \in Replicas, CloseWatcher(r) PROVE CurrentInv'
  <2>1. /\ UNCHANGED <<deployment, scores>>
        /\ phase' = [phase EXCEPT ![r] = "serving"] /\ queue' = [queue EXCEPT ![r] = <<>>]
    BY <1>5 DEF CloseWatcher
  <2> QED
    BY <2>1 DEF CurrentInv, TypeInv
<1>6. ASSUME NEW r \in Replicas, CrashReplica(r) PROVE CurrentInv'
  <2>1. /\ UNCHANGED deployment
        /\ phase' = [phase EXCEPT ![r] = "booting"] /\ queue' = [queue EXCEPT ![r] = <<>>]
        /\ \A q \in Replicas \ {r} : scores'[q] = scores[q]
    BY <1>6 DEF CrashReplica, TypeInv
  <2> QED
    BY <2>1 DEF CurrentInv, TypeInv
<1>7. ASSUME NEW c \in Clients, PollStep(c) \/ \E r \in Replicas : Poll(c, r)
      PROVE  CurrentInv'
  BY <1>7 DEF PollStep, WaitEnds, TimeOut, Respond, Poll, CurrentInv
<1>8. ASSUME UNCHANGED vars PROVE CurrentInv'
  BY <1>8 DEF vars, CurrentInv
<1> QED
  BY <1>1, <1>2, <1>3, <1>4, <1>5, <1>6, <1>7, <1>8 DEF Next, EditStep, CacheStep

\* A replica that has read every event of its watch has a row for every deployment,
\* with its score, solves and readiness (startScoringWatcher: the watch begins with
\* the deployments that are there, and an event that changes nothing is skipped).
THEOREM RowsAreCurrent == Spec => []DeployedTeamsAreCurrent
<1>1. Init => TypeInv /\ CurrentInv
  BY TypeAtStart DEF Init, CurrentInv
<1>2. TypeInv /\ CurrentInv /\ [Next]_vars => TypeInv' /\ CurrentInv'
  BY TypeKept, CurrentKept
<1>3. CurrentInv => DeployedTeamsAreCurrent
  BY DEF CurrentInv, ToldOf, DeployedTeamsAreCurrent
<1> QED
  BY <1>1, <1>2, <1>3, PTL DEF Spec

(***************************************************************************)
(* Polls.  Rows that are the cache's own are as they are in the cache.     *)
(***************************************************************************)
OwnRows(taken, rows) == \A i \in DOMAIN taken : taken[i].mine => taken[i].row = rows[taken[i].team]

TakenOK(state, caches) ==
    /\ state.pc # "reply" => state.taken = <<>>
    /\ OwnRows(state.taken, caches[state.replica])

ClientInv ==
    /\ want \in [Clients -> Teams \cup {Board}]
    /\ lastUpdate \in [Replicas -> Nat]
    /\ coincided \in [Replicas -> SUBSET (Teams \cup {Board})]
    /\ client \in [Clients -> ClientState]
    /\ \A c \in Clients : TakenOK(client[c], scores)
    /\ \A c \in Clients : phase[client[c].replica] = "booting" => client[c].pc = "idle"

\* The rows of all other teams are the same, but for their positions.
OthersSame(t, new, old) ==
    \A u \in Teams \ {t} : old[u] # Absent => new[u] \in Row /\ Same(new[u], old[u])

LEMMA RepositionedIs ==
  ASSUME NEW taken \in Seq(Taken), NEW t \in Teams, NEW old, NEW new,
         OwnRows(taken, old), OthersSame(t, new, old)
  PROVE  /\ Repositioned(taken, t, new) \in Seq(Taken)
         /\ DOMAIN Repositioned(taken, t, new) = DOMAIN taken
         /\ Len(Repositioned(taken, t, new)) = Len(taken)
         /\ \A i \in DOMAIN taken :
               LET a == Repositioned(taken, t, new)[i] IN
               /\ a.team = taken[i].team /\ Same(a.row, taken[i].row)
               /\ a.mine => a.row = new[a.team]
<1> DEFINE re == Repositioned(taken, t, new)
           n == Len(taken)
<1>1. n \in Nat /\ DOMAIN taken = 1 .. n /\ \A i \in 1 .. n : taken[i] \in Taken
  OBVIOUS
<1>2. re = [i \in 1 .. n |->
        IF taken[i].team = t \/ ~taken[i].mine THEN [taken[i] EXCEPT !.mine = FALSE]
        ELSE [taken[i] EXCEPT !.row = new[taken[i].team]]]
  BY <1>1 DEF Repositioned
<1> HIDE DEF re, n
<1>3. ASSUME NEW i \in 1 .. n
      PROVE  /\ re[i] \in Taken /\ re[i].team = taken[i].team /\ Same(re[i].row, taken[i].row)
             /\ re[i].mine => re[i].row = new[re[i].team]
  <2>1. taken[i] \in Taken
    BY <1>1
  <2>2. CASE taken[i].team = t \/ ~taken[i].mine
    <3>1. re[i] = [taken[i] EXCEPT !.mine = FALSE]
      BY <1>2, <2>2
    <3> QED
      BY <2>1, <3>1 DEF Taken, Same
  <2>3. CASE ~(taken[i].team = t \/ ~taken[i].mine)
    <3>1. re[i] = [taken[i] EXCEPT !.row = new[taken[i].team]]
      BY <1>2, <2>3
    <3>2. taken[i].team \in Teams \ {t} /\ taken[i].row \in Row /\ taken[i].row = old[taken[i].team]
      BY <1>1, <2>1, <2>3 DEF Taken, OwnRows
    <3>3. new[taken[i].team] \in Row /\ Same(new[taken[i].team], taken[i].row)
      BY <3>2, AbsentAssumption DEF OthersSame
    <3> QED
      BY <2>1, <3>1, <3>3 DEF Taken
  <2> QED
    BY <2>2, <2>3
<1>4. re \in [1 .. n -> Taken]
  BY <1>2, <1>3
<1>5. re \in Seq(Taken) /\ Len(re) = n /\ DOMAIN re = 1 .. n
  BY <1>1, <1>4, SeqDef
<1> QED
  BY <1>1, <1>3, <1>5 DEF re, n

\* An update leaves what a client sees, and the rows it is to see but for their positions.
SameAnswer(state, old) ==
    /\ state.pc = old.pc /\ state.replica = old.replica /\ state.stamp = old.stamp
    /\ state.view = old.view /\ state.seen = old.seen /\ state.source = old.source
    /\ DOMAIN state.taken = DOMAIN old.taken /\ Len(state.taken) = Len(old.taken)
    /\ \A i \in DOMAIN old.taken :
          state.taken[i].team = old.taken[i].team /\ Same(state.taken[i].row, old.taken[i].row)

LEMMA UpdateKeepsAnswers ==
  ASSUME TypeInv, ClientInv, NEW r \in Replicas, NEW t \in Teams, NEW row, NEW time,
         row = Absent \/ (row \in Row /\ IsFiniteSet(row.progress)),
         UpdateRow(r, t, row, time)
  PROVE  /\ client' \in [Clients -> ClientState]
         /\ \A c \in Clients : /\ TakenOK(client'[c], scores') /\ SameAnswer(client'[c], client[c])
                               /\ client[c].replica # r => client'[c] = client[c]
<1>1. PICK rows :
         /\ scores' = [scores EXCEPT ![r] = rows]
         /\ client' = [c \in Clients |->
               IF client[c].replica = r
               THEN [client[c] EXCEPT !.taken = Repositioned(@, t, rows)] ELSE client[c]]
  BY DEF UpdateRow
<1>2. rows = scores'[r] /\ \A q \in Replicas \ {r} : scores'[q] = scores[q]
  BY <1>1 DEF TypeInv
<1>3. Updated(r, t, row) /\ CacheOK(scores'[r])
  BY UpdateRowIs
<1>4. \A u \in Teams \ {t} : scores[r][u] # Absent =>
         scores'[r][u] \in Row /\ Same(scores'[r][u], scores[r][u])
  BY <1>3 DEF Updated, CacheOK, RowsOK
<1>5. ASSUME NEW c \in Clients
      PROVE  /\ client'[c] \in ClientState /\ TakenOK(client'[c], scores') /\ SameAnswer(client'[c], client[c])
             /\ client[c].replica # r => client'[c] = client[c]
  <2>1. client[c] \in ClientState /\ TakenOK(client[c], scores)
    BY DEF ClientInv
  <2>2. CASE client[c].replica # r
    <3>1. client'[c] = client[c]
      BY <1>1, <2>2
    <3>2. scores'[client[c].replica] = scores[client[c].replica]
      BY <1>2, <2>1, <2>2 DEF ClientState
    <3> QED
      BY <2>1, <3>1, <3>2 DEF TakenOK, SameAnswer, Same
  <2>3. CASE client[c].replica = r
    <3> DEFINE taken == client[c].taken
               re == Repositioned(taken, t, rows)
    <3>1. client'[c] = [client[c] EXCEPT !.taken = re]
      BY <1>1, <2>3
    <3>2. taken \in Seq(Taken) /\ OwnRows(taken, scores[r])
      BY <2>1, <2>3 DEF ClientState, TakenOK
    <3>3. /\ re \in Seq(Taken) /\ DOMAIN re = DOMAIN taken /\ Len(re) = Len(taken)
          /\ \A i \in DOMAIN taken :
               /\ re[i].team = taken[i].team /\ Same(re[i].row, taken[i].row)
               /\ re[i].mine => re[i].row = rows[re[i].team]
      <4>1. OthersSame(t, rows, scores[r])
        BY <1>2, <1>4 DEF OthersSame
      <4> QED
        BY <3>2, <4>1, RepositionedIs
    <3> HIDE DEF re
    <3>4. /\ client'[c] \in ClientState /\ client'[c].taken = re
          /\ client'[c].pc = client[c].pc /\ client'[c].replica = client[c].replica
          /\ client'[c].stamp = client[c].stamp /\ client'[c].view = client[c].view
          /\ client'[c].seen = client[c].seen /\ client'[c].source = client[c].source
      BY <2>1, <3>1, <3>3 DEF ClientState
    <3>5. client'[c].pc # "reply" => re = <<>>
      <4>1. client'[c].pc # "reply" => Len(taken) = 0
        BY <2>1, <3>4 DEF TakenOK
      <4>2. Len(re) = 0 => re = <<>>
        BY <3>3, EmptySeq
      <4> QED
        BY <3>3, <4>1, <4>2
    <3>6. TakenOK(client'[c], scores')
      BY <1>2, <2>3, <3>3, <3>4, <3>5 DEF TakenOK, OwnRows
    <3>7. SameAnswer(client'[c], client[c])
      BY <3>3, <3>4 DEF SameAnswer
    <3> QED
      BY <2>3, <3>4, <3>6, <3>7
  <2> QED
    BY <2>2, <2>3
<1>6. client' = [c \in Clients |-> client'[c]]
  BY <1>1
<1>7. client' \in [Clients -> ClientState]
  <2>1. \A c \in Clients : client'[c] \in ClientState
    BY <1>5
  <2> QED
    BY <1>6, <2>1
<1> QED
  BY <1>5, <1>7

\* The rows of the whole board.
BoardTaken(rows) ==
    [i \in 1 .. Len(Sorted(rows)) |-> Take(Sorted(rows)[i], rows[Sorted(rows)[i]])]

LEMMA BoardTakenIs ==
  ASSUME NEW rows, RowsOK(rows)
  PROVE  /\ BoardTaken(rows) \in Seq(Taken) /\ OwnRows(BoardTaken(rows), rows)
         /\ Len(BoardTaken(rows)) = Len(Sorted(rows)) /\ DOMAIN BoardTaken(rows) = 1 .. Len(Sorted(rows))
         /\ Sorted(rows) \in Seq(Teams)
<1> DEFINE order == Sorted(rows)
           n == Len(order)
<1>1. IsInOrder(rows, order)
  BY SortedIsSorted
<1> HIDE DEF order
<1>2. n \in Nat /\ order \in [1 .. n -> Listed(rows)]
  BY <1>1, SortedIsBijection DEF IsInOrder
<1>3. \A t \in Listed(rows) : t \in Teams /\ rows[t] \in Row
  BY DEF Listed, RowsOK
<1>4. BoardTaken(rows) = [i \in 1 .. n |-> Take(order[i], rows[order[i]])]
  BY DEF BoardTaken, order
<1>5. BoardTaken(rows) \in [1 .. n -> Taken]
  BY <1>2, <1>3, <1>4 DEF Take, Taken
<1>6. order \in [1 .. n -> Teams]
  BY <1>2, <1>3
<1>7. BoardTaken(rows) \in Seq(Taken) /\ Len(BoardTaken(rows)) = n /\ DOMAIN BoardTaken(rows) = 1 .. n
      /\ order \in Seq(Teams)
  BY <1>2, <1>5, <1>6, SeqDef
<1>8. OwnRows(BoardTaken(rows), rows)
  BY <1>4, <1>7 DEF OwnRows, Take
<1> QED
  BY <1>7, <1>8 DEF order

LEMMA AnswerIs ==
  ASSUME TypeInv, ClientInv, NEW c \in Clients, NEW r \in Replicas, HasNews(c, r)
  PROVE  /\ Answer(c, r) \in ClientState /\ TakenOK(Answer(c, r), scores)
         /\ Answer(c, r).pc = "reply" /\ Answer(c, r).replica = r
         /\ Answer(c, r).view = client[c].view /\ Answer(c, r).seen = client[c].seen
         /\ Answer(c, r).source = client[c].source
         /\ want[c] = Board => /\ Answer(c, r).taken = BoardTaken(scores[r])
                               /\ Answer(c, r).stamp = lastUpdate[r]
         /\ want[c] # Board => /\ scores[r][want[c]] \in Row
                               /\ Answer(c, r).taken = <<Take(want[c], scores[r][want[c]])>>
                               /\ Answer(c, r).stamp = scores[r][want[c]].stamp
<1>1. client[c] \in ClientState /\ want[c] \in Teams \cup {Board} /\ lastUpdate[r] \in Nat
  BY DEF ClientInv
<1>2. RowsOK(scores[r])
  BY DEF TypeInv, CacheOK
<1>3. CASE want[c] = Board
  <2> DEFINE taken == BoardTaken(scores[r])
  <2>1. Answer(c, r) = [client[c] EXCEPT !.pc = "reply", !.replica = r, !.stamp = lastUpdate[r], !.taken = taken]
    BY <1>3 DEF Answer, BoardTaken
  <2>2. taken \in Seq(Taken) /\ OwnRows(taken, scores[r])
    BY <1>2, BoardTakenIs
  <2> HIDE DEF taken
  <2>3. /\ Answer(c, r) \in ClientState /\ Answer(c, r).taken = taken
        /\ Answer(c, r).pc = "reply" /\ Answer(c, r).replica = r /\ Answer(c, r).stamp = lastUpdate[r]
        /\ Answer(c, r).view = client[c].view /\ Answer(c, r).seen = client[c].seen
        /\ Answer(c, r).source = client[c].source
    BY <1>1, <2>1, <2>2 DEF ClientState
  <2> QED
    BY <1>3, <2>2, <2>3 DEF TakenOK, taken
<1>4. CASE want[c] # Board
  <2> DEFINE t == want[c]
             row == scores[r][t]
             taken == <<Take(t, row)>>
  <2>1. t \in Teams /\ row \in Row
    BY <1>1, <1>2, <1>4 DEF HasNews, RowsOK
  <2>2. Answer(c, r) = [client[c] EXCEPT !.pc = "reply", !.replica = r, !.stamp = row.stamp, !.taken = taken]
    BY <1>4 DEF Answer
  <2> HIDE DEF t
  <2>3. taken \in Seq(Taken) /\ OwnRows(taken, scores[r])
    BY <2>1 DEF Take, Taken, OwnRows
  <2>4. row.stamp \in Nat
    BY <2>1 DEF Row
  <2> HIDE DEF taken, row
  <2>5. /\ Answer(c, r) \in ClientState /\ Answer(c, r).taken = taken
        /\ Answer(c, r).pc = "reply" /\ Answer(c, r).replica = r /\ Answer(c, r).stamp = row.stamp
        /\ Answer(c, r).view = client[c].view /\ Answer(c, r).seen = client[c].seen
        /\ Answer(c, r).source = client[c].source
    BY <1>1, <2>2, <2>3, <2>4 DEF ClientState
  <2> QED
    BY <1>4, <2>1, <2>3, <2>5 DEF TakenOK, taken, row, t
<1> QED
  BY <1>3, <1>4

LEMMA IdleIs ==
  ASSUME ClientInv, NEW c \in Clients, NEW caches
  PROVE  /\ Idle(c) \in ClientState /\ TakenOK(Idle(c), caches)
         /\ Idle(c).pc = "idle" /\ Idle(c).replica = client[c].replica /\ Idle(c).stamp = 0
         /\ Idle(c).view = client[c].view /\ Idle(c).seen = client[c].seen
         /\ Idle(c).source = client[c].source
<1>1. client[c] \in ClientState /\ <<>> \in Seq(Taken)
  BY DEF ClientInv
<1>2. /\ Idle(c) \in ClientState /\ Idle(c).taken = <<>>
      /\ Idle(c).pc = "idle" /\ Idle(c).replica = client[c].replica /\ Idle(c).stamp = 0
      /\ Idle(c).view = client[c].view /\ Idle(c).seen = client[c].seen
      /\ Idle(c).source = client[c].source
  BY <1>1 DEF Idle, ClientState
<1> QED
  BY <1>2 DEF TakenOK, OwnRows

\* What a client shows of an answer.
ShownLen(taken) == IF Len(taken) > TopTeams THEN TopTeams ELSE Len(taken)
ShownOf(taken) == [i \in 1 .. ShownLen(taken) |-> [team |-> taken[i].team, row |-> taken[i].row]]

LEMMA RespondIs ==
  ASSUME ClientInv, NEW c \in Clients, Respond(c), NEW caches
  PROVE  LET state == TakeAnswer(c, ShownOf(client[c].taken)) IN
         /\ client[c].pc = "reply" /\ client' = [client EXCEPT ![c] = state]
         /\ state \in ClientState /\ TakenOK(state, caches) /\ state.pc = "idle"
         /\ state.replica = client[c].replica /\ state.stamp = 0 /\ state.source = client[c].replica
         /\ state.seen = client[c].stamp /\ state.view = ShownOf(client[c].taken)
         /\ Len(state.view) = ShownLen(client[c].taken)
<1> DEFINE taken == client[c].taken
           n == ShownLen(taken)
           rows == ShownOf(taken)
           state == TakeAnswer(c, rows)
<1>1. client[c] \in ClientState /\ taken \in Seq(Taken) /\ client[c].stamp \in Nat
  BY DEF ClientInv, ClientState
<1>2. client[c].pc = "reply" /\ client' = [client EXCEPT ![c] = state]
  BY DEF Respond, ShownOf, ShownLen
<1>3. n \in Nat /\ n <= Len(taken) /\ Len(taken) \in Nat
  BY <1>1, BoundsAssumption DEF ShownLen
<1> HIDE DEF n
<1>4. \A i \in 1 .. n : taken[i] \in Taken
  <2>1. \A i \in 1 .. n : i \in 1 .. Len(taken)
    BY <1>3
  <2> QED
    BY <1>1, <2>1
<1>5. rows = [i \in 1 .. n |-> [team |-> taken[i].team, row |-> taken[i].row]]
  BY DEF ShownOf, n
<1> HIDE DEF rows
<1>6. rows \in [1 .. n -> Shown]
  BY <1>4, <1>5 DEF Taken, Shown
<1>7. rows \in Seq(Shown) /\ Len(rows) = n
  BY <1>3, <1>6, SeqDef
<1>8. state = [Idle(c) EXCEPT !.seen = client[c].stamp, !.view = rows, !.source = client[c].replica]
  BY DEF TakeAnswer
<1>9. /\ Idle(c) \in ClientState /\ Idle(c).taken = <<>>
      /\ Idle(c).pc = "idle" /\ Idle(c).replica = client[c].replica /\ Idle(c).stamp = 0
  BY IdleIs DEF TakenOK
<1> HIDE DEF state
<1>10. /\ state \in ClientState /\ state.taken = <<>> /\ state.pc = "idle"
       /\ state.replica = client[c].replica /\ state.stamp = 0 /\ state.source = client[c].replica
       /\ state.seen = client[c].stamp /\ state.view = rows
  BY <1>1, <1>7, <1>8, <1>9 DEF ClientState
<1>11. TakenOK(state, caches)
  BY <1>10 DEF TakenOK, OwnRows
<1> QED
  BY <1>2, <1>7, <1>10, <1>11 DEF state, rows, n

LEMMA ClientAtStart == Init => ClientInv
<1> SUFFICES ASSUME Init PROVE ClientInv
  OBVIOUS
<1>1. want \in [Clients -> Teams \cup {Board}]
  BY InitialAssumption DEF Init
<1>2. PICK home \in [Clients -> Replicas] :
         client = [c \in Clients |-> [pc |-> "idle", replica |-> home[c], taken |-> <<>>, stamp |-> 0,
                                      view |-> <<>>, seen |-> 0, source |-> home[c]]]
  BY DEF Init
<1>3. ASSUME NEW c \in Clients PROVE client[c] \in ClientState /\ TakenOK(client[c], scores)
  <2>1. /\ home[c] \in Replicas
        /\ client[c] = [pc |-> "idle", replica |-> home[c], taken |-> <<>>, stamp |-> 0,
                        view |-> <<>>, seen |-> 0, source |-> home[c]]
    BY <1>2
  <2>2. <<>> \in Seq(Taken) /\ <<>> \in Seq(Shown)
    OBVIOUS
  <2>3. client[c] \in ClientState
    BY <2>1, <2>2 DEF ClientState
  <2> QED
    BY <2>1, <2>3 DEF TakenOK, OwnRows
<1>4. client \in [Clients -> ClientState]
  BY <1>2, <1>3
<1>5. \A c \in Clients : client[c].pc = "idle"
  BY <1>2
<1>6. /\ lastUpdate \in [Replicas -> Nat]
      /\ coincided \in [Replicas -> SUBSET (Teams \cup {Board})]
  BY DEF Init
<1> QED
  BY <1>1, <1>3, <1>4, <1>5, <1>6 DEF ClientInv

\* One client's state changes.
LEMMA ClientChanged ==
  ASSUME ClientInv, NEW c \in Clients, NEW state \in ClientState, TakenOK(state, scores),
         phase[state.replica] = "booting" => state.pc = "idle",
         client' = [client EXCEPT ![c] = state], UNCHANGED <<scores, phase, want, lastUpdate, coincided>>
  PROVE  /\ ClientInv' /\ client'[c] = state
         /\ \A d \in Clients \ {c} : client'[d] = client[d]
<1>1. client' \in [Clients -> ClientState]
  BY DEF ClientInv
<1>2. client'[c] = state /\ \A d \in Clients \ {c} : client'[d] = client[d]
  BY DEF ClientInv
<1>3. \A d \in Clients : TakenOK(client'[d], scores)
  BY <1>2 DEF ClientInv
<1>4. \A d \in Clients : TakenOK(client'[d], scores')
  BY <1>3
<1>5. \A d \in Clients : phase'[client'[d].replica] = "booting" => client'[d].pc = "idle"
  BY <1>2 DEF ClientInv
<1> QED
  BY <1>1, <1>2, <1>4, <1>5 DEF ClientInv

\* What a step of a poll does: the client waits or gives up, is answered, or shows.
Waiting(c, state) ==
    /\ state.pc \in {"idle", "waiting"} /\ state.replica \in Replicas /\ state.stamp <= client[c].stamp
    /\ state.view = client[c].view /\ state.seen = client[c].seen /\ state.source = client[c].source
    /\ phase[state.replica] = "booting" => state.pc = "idle"

Answered(c, r, state) ==
    phase[r] # "booting" /\ HasNews(c, r) /\ state = Answer(c, r)

Showing(c, state) ==
    /\ client[c].pc = "reply" /\ state.pc = "idle" /\ state.replica = client[c].replica
    /\ state.stamp = 0 /\ state.source = client[c].replica
    /\ state.seen = client[c].stamp /\ state.view = ShownOf(client[c].taken)
    /\ Len(state.view) = ShownLen(client[c].taken)

LEMMA PollIs ==
  ASSUME TypeInv, ClientInv, NEW c \in Clients, PollStep(c) \/ \E r \in Replicas : Poll(c, r)
  PROVE  /\ UNCHANGED <<deployment, phase, queue, scores, lastUpdate, coincided, now, want>>
         /\ \E state \in ClientState :
               /\ client' = [client EXCEPT ![c] = state] /\ TakenOK(state, scores)
               /\ phase[state.replica] = "booting" => state.pc = "idle"
               /\ \/ Waiting(c, state)
                  \/ \E r \in Replicas : Answered(c, r, state)
                  \/ Showing(c, state)
<1>1. /\ client[c] \in ClientState /\ TakenOK(client[c], scores)
      /\ client[c].replica \in Replicas /\ client[c].stamp \in Nat
      /\ client \in [Clients -> ClientState]
  BY DEF ClientInv, ClientState
<1>2. CASE WaitEnds(c)
  <2> DEFINE r == client[c].replica
             state == Answer(c, r)
  <2>1. HasNews(c, r) /\ client[c].pc = "waiting" /\ client' = [client EXCEPT ![c] = state]
        /\ UNCHANGED <<deployment, phase, queue, scores, lastUpdate, coincided, now, want>>
    BY <1>2 DEF WaitEnds
  <2>2. phase[r] # "booting"
    BY <2>1 DEF ClientInv
  <2>3. state \in ClientState /\ TakenOK(state, scores) /\ state.replica = r
    BY <1>1, <2>1, AnswerIs
  <2>4. Answered(c, r, state)
    BY <2>1, <2>2 DEF Answered
  <2> HIDE DEF state, r
  <2> QED
    BY <1>1, <2>1, <2>2, <2>3, <2>4 DEF r
<1>3. CASE TimeOut(c)
  <2> DEFINE state == Idle(c)
  <2>1. client' = [client EXCEPT ![c] = state]
        /\ UNCHANGED <<deployment, phase, queue, scores, lastUpdate, coincided, now, want>>
    BY <1>3 DEF TimeOut
  <2>2. /\ state \in ClientState /\ TakenOK(state, scores)
        /\ state.pc = "idle" /\ state.replica = client[c].replica /\ state.stamp = 0
        /\ state.view = client[c].view /\ state.seen = client[c].seen /\ state.source = client[c].source
    BY IdleIs
  <2> HIDE DEF state
  <2>3. Waiting(c, state)
    BY <1>1, <2>2 DEF Waiting
  <2> QED
    BY <2>1, <2>2, <2>3
<1>4. CASE Respond(c)
  <2> DEFINE state == TakeAnswer(c, ShownOf(client[c].taken))
  <2>1. /\ client' = [client EXCEPT ![c] = state] /\ state \in ClientState /\ TakenOK(state, scores)
        /\ Showing(c, state) /\ state.pc = "idle"
    BY <1>4, RespondIs DEF Showing
  <2>2. UNCHANGED <<deployment, phase, queue, scores, lastUpdate, coincided, now, want>>
    BY <1>4 DEF Respond
  <2> HIDE DEF state
  <2> QED
    BY <2>1, <2>2
<1>5. ASSUME NEW r \in Replicas, Poll(c, r)
      PROVE  /\ UNCHANGED <<deployment, phase, queue, scores, lastUpdate, coincided, now, want>>
             /\ \E state \in ClientState :
                   /\ client' = [client EXCEPT ![c] = state] /\ TakenOK(state, scores)
                   /\ phase[state.replica] = "booting" => state.pc = "idle"
                   /\ Waiting(c, state) \/ \E q \in Replicas : Answered(c, q, state)
  <2>0. client[c].pc = "idle" /\ phase[r] # "booting"
        /\ UNCHANGED <<deployment, phase, queue, scores, lastUpdate, coincided, now, want>>
    BY <1>5 DEF Poll
  <2>1. CASE HasNews(c, r) /\ client' = [client EXCEPT ![c] = Answer(c, r)]
    <3>1. Answered(c, r, Answer(c, r))
      BY <2>0, <2>1 DEF Answered
    <3> QED
      BY <2>0, <2>1, <3>1, AnswerIs
  <2>2. CASE client' = [client EXCEPT ![c].pc = "waiting", ![c].replica = r]
    <3> DEFINE state == [client[c] EXCEPT !.pc = "waiting", !.replica = r]
    <3>1. client' = [client EXCEPT ![c] = state]
      BY <1>1, <2>2
    <3>2. /\ state \in ClientState /\ state.pc = "waiting" /\ state.replica = r
          /\ state.stamp = client[c].stamp /\ state.view = client[c].view /\ state.seen = client[c].seen
          /\ state.taken = client[c].taken /\ state.source = client[c].source
      BY <1>1 DEF ClientState
    <3>3. state.taken = <<>> /\ state.stamp <= client[c].stamp
      BY <1>1, <2>0, <3>2 DEF TakenOK, ClientState
    <3> HIDE DEF state
    <3>4. TakenOK(state, scores) /\ Waiting(c, state)
      BY <2>0, <3>2, <3>3 DEF TakenOK, OwnRows, Waiting
    <3> QED
      BY <2>0, <3>1, <3>2, <3>4
  <2>3. CASE UNCHANGED client
    <3>1. client' = [client EXCEPT ![c] = client[c]]
      BY <1>1, <2>3
    <3>2. Waiting(c, client[c])
      BY <1>1, <2>0 DEF Waiting, ClientState
    <3> QED
      BY <1>1, <2>0, <3>1, <3>2
  <2> QED
    BY <1>5, <2>1, <2>2, <2>3 DEF Poll
<1> QED
  BY <1>2, <1>3, <1>4, <1>5 DEF PollStep

LEMMA ClientKept == TypeInv /\ ClientInv /\ [Next]_vars => ClientInv'
<1> SUFFICES ASSUME TypeInv, ClientInv, [Next]_vars PROVE ClientInv'
  OBVIOUS
<1>1. ASSUME UNCHANGED <<want, lastUpdate, coincided, client, scores>>,
             \A r \in Replicas : phase'[r] = "booting" => phase[r] = "booting"
      PROVE ClientInv'
  BY <1>1 DEF ClientInv, ClientState
<1>2. ASSUME NEW t \in Teams, CreateDeployment(t) \/ ModifyDeployment(t) \/ DeleteDeployment(t)
      PROVE  ClientInv'
  BY <1>1, <1>2, EditIs
<1>3. ASSUME NEW r \in Replicas, StartWatcher(r) \/ CloseWatcher(r) PROVE ClientInv'
  <2>1. \A q \in Replicas : phase'[q] = "booting" => phase[q] = "booting"
    BY <1>3 DEF StartWatcher, CloseWatcher, TypeInv
  <2> QED
    BY <1>1, <1>3, <2>1 DEF StartWatcher, CloseWatcher
<1>4. ASSUME NEW r \in Replicas, CrashReplica(r) PROVE ClientInv'
  <2>1. /\ lastUpdate' = [lastUpdate EXCEPT ![r] = now + 1]
        /\ coincided' = [coincided EXCEPT ![r] = {}]
    BY <1>4 DEF CrashReplica
  <2>2. lastUpdate' \in [Replicas -> Nat] /\ coincided' \in [Replicas -> SUBSET (Teams \cup {Board})]
    BY <2>1 DEF ClientInv, TypeInv
  <2>3. /\ client' = [c \in Clients |-> IF client[c].replica = r THEN Idle(c) ELSE client[c]]
        /\ \A q \in Replicas \ {r} : scores'[q] = scores[q]
        /\ want' = want
    BY <1>4 DEF CrashReplica, TypeInv
  <2>4. ASSUME NEW c \in Clients PROVE client'[c] \in ClientState /\ TakenOK(client'[c], scores')
    <3>1. CASE client[c].replica = r
      <4>1. client'[c] = Idle(c)
        BY <2>3, <3>1
      <4>2. PICK caches : caches = scores'
        OBVIOUS
      <4>3. Idle(c) \in ClientState /\ TakenOK(Idle(c), caches)
        BY IdleIs
      <4> QED
        BY <4>1, <4>2, <4>3
    <3>2. CASE client[c].replica # r
      <4>1. client'[c] = client[c] /\ client[c] \in ClientState /\ TakenOK(client[c], scores)
        BY <2>3, <3>2 DEF ClientInv
      <4>2. scores'[client[c].replica] = scores[client[c].replica]
        BY <2>3, <3>2, <4>1 DEF ClientState
      <4> QED
        BY <4>1, <4>2 DEF TakenOK
    <3> QED
      BY <3>1, <3>2
  <2>5. client' \in [Clients -> ClientState]
    <3>1. client' = [c \in Clients |-> client'[c]]
      BY <2>3
    <3> QED
      BY <2>4, <3>1
  <2>6. ASSUME NEW c \in Clients, phase'[client'[c].replica] = "booting" PROVE client'[c].pc = "idle"
    <3>1. CASE client[c].replica = r
      BY <2>3, <3>1, IdleIs
    <3>2. CASE client[c].replica # r
      <4>1. client'[c] = client[c] /\ phase'[client[c].replica] = phase[client[c].replica]
        BY <1>4, <2>3, <3>2 DEF CrashReplica, TypeInv, ClientInv, ClientState
      <4> QED
        BY <2>6, <4>1 DEF ClientInv
    <3> QED
      BY <3>1, <3>2
  <2> QED
    BY <2>2, <2>3, <2>4, <2>5, <2>6 DEF ClientInv
<1>5. ASSUME NEW r \in Replicas, ReadEvent(r) PROVE ClientInv'
  <2>1. UNCHANGED <<want, phase>> /\ Head(queue[r]).team \in Teams
    BY <1>5, ReadEventIs DEF Told
  <2>2. PICK time \in NextTimes :
               LET row == RowOf(Head(queue[r]), time) IN
               /\ UpdateRow(r, Head(queue[r]).team, row, time)
               /\ row = Absent \/ (row \in Row /\ IsFiniteSet(row.progress))
    BY <1>5, ReadEventIs
  <2>3. /\ client' \in [Clients -> ClientState]
        /\ \A c \in Clients : TakenOK(client'[c], scores') /\ SameAnswer(client'[c], client[c])
    BY <2>1, <2>2, UpdateKeepsAnswers
  <2>4. lastUpdate' \in [Replicas -> Nat]
    BY <2>2, NextTimesAre DEF UpdateRow, ClientInv, TypeInv
  <2>5. coincided' \in [Replicas -> SUBSET (Teams \cup {Board})]
    <3> DEFINE t == Head(queue[r]).team
               more == {w \in {Board, t} : StampOf(r, w) = time}
    <3>1. coincided' = [coincided EXCEPT ![r] = (coincided[r] \ {Board, t}) \cup more]
      BY <2>2 DEF UpdateRow
    <3>2. more \in SUBSET (Teams \cup {Board})
      BY <2>1
    <3> HIDE DEF more, t
    <3> QED
      BY <3>1, <3>2 DEF ClientInv
  <2> QED
    BY <2>1, <2>3, <2>4, <2>5 DEF ClientInv, SameAnswer
<1>6. ASSUME NEW c \in Clients, PollStep(c) \/ \E r \in Replicas : Poll(c, r)
      PROVE  ClientInv'
  BY <1>6, PollIs, ClientChanged
<1>7. ASSUME UNCHANGED vars PROVE ClientInv'
  BY <1>1, <1>7 DEF vars
<1>8. ASSUME NEW r \in Replicas, CalculateAndCacheScoreBoard(r) PROVE ClientInv'
  <2>1. /\ UNCHANGED <<want, lastUpdate, coincided, client>> /\ phase[r] = "booting"
        /\ phase' = [phase EXCEPT ![r] = "serving"]
        /\ \A q \in Replicas \ {r} : scores'[q] = scores[q]
    BY <1>8 DEF CalculateAndCacheScoreBoard, TypeInv
  <2>2. ASSUME NEW c \in Clients PROVE TakenOK(client[c], scores')
    <3>1. client[c] \in ClientState /\ TakenOK(client[c], scores)
      BY DEF ClientInv
    <3>2. CASE client[c].replica = r
      <4>1. client[c].taken = <<>>
        BY <2>1, <3>1, <3>2 DEF ClientInv, TakenOK
      <4> QED
        BY <4>1 DEF TakenOK, OwnRows
    <3>3. CASE client[c].replica # r
      <4>1. scores'[client[c].replica] = scores[client[c].replica]
        BY <2>1, <3>1, <3>3 DEF ClientState
      <4> QED
        BY <3>1, <4>1 DEF TakenOK
    <3> QED
      BY <3>2, <3>3
  <2>3. \A q \in Replicas : phase'[q] = "booting" => phase[q] = "booting"
    BY <2>1 DEF TypeInv
  <2> QED
    BY <2>1, <2>2, <2>3 DEF ClientInv, ClientState
<1> QED
  BY <1>2, <1>3, <1>4, <1>5, <1>6, <1>7, <1>8 DEF Next, EditStep, CacheStep

(***************************************************************************)
(* Polls of a replica.  An answer that carries the time of the last update *)
(* carries what is in the cache, and so does the view of a client that has *)
(* seen that time: the next update is later, or it coincides.              *)
(***************************************************************************)
TimesOK(r) ==
    /\ lastUpdate[r] >= 1 /\ lastUpdate[r] <= now
    /\ \A t \in Listed(scores[r]) : scores[r][t].stamp <= now

SeenOK(c, r) ==
    /\ client[c].source = r => client[c].seen <= StampOf(r, want[c])
    /\ client[c].source = r /\ phase[r] = "booting" => client[c].seen < lastUpdate[r]
    /\ client[c].replica = r /\ client[c].pc = "reply" => client[c].stamp <= StampOf(r, want[c])

\* A row that is no newer than the answer is the answer's.
RowAnswered(row, answer, stamp) ==
    row # Absent /\ row.stamp <= stamp => row.stamp = stamp /\ Tells(answer, row)

AnswerOK(c, r) ==
    client[c].pc = "reply" /\ client[c].replica = r =>
        IF want[c] = Board
        THEN want[c] \notin coincided[r] /\ lastUpdate[r] <= client[c].stamp =>
                client[c].taken = BoardTaken(scores[r])
        ELSE /\ Len(client[c].taken) = 1
             /\ client[c].taken[1].team = want[c] /\ client[c].taken[1].row.stamp = client[c].stamp
             /\ want[c] \notin coincided[r] =>
                   RowAnswered(scores[r][want[c]], client[c].taken[1].row, client[c].stamp)

ViewOK(c, r) ==
    client[c].source = r /\ client[c].seen # 0 /\ ~HasNews(c, r) /\ want[c] \notin coincided[r] =>
        UpToDate(c, r)

PollOK(c, r) == SeenOK(c, r) /\ AnswerOK(c, r) /\ ViewOK(c, r)

PollInv == \A r \in Replicas : TimesOK(r) /\ \A c \in Clients : PollOK(c, r)

\* What the first rows of an answer show is what the board is.
LEMMA BoardShown ==
  ASSUME NEW r \in Replicas, RowsOK(scores[r])
  PROVE  ShownOf(BoardTaken(scores[r])) = BoardOf(r)
<1> DEFINE order == Sorted(scores[r])
           taken == BoardTaken(scores[r])
           n == IF Len(order) < TopTeams THEN Len(order) ELSE TopTeams
<1>1. /\ order \in Seq(Teams) /\ Len(taken) = Len(order)
      /\ taken = [i \in 1 .. Len(order) |-> Take(order[i], scores[r][order[i]])]
  BY BoardTakenIs DEF BoardTaken
<1> HIDE DEF order, taken
<1>2. Len(order) \in Nat /\ TopTeams \in Nat
  BY <1>1, BoundsAssumption
<1>3. n \in 0 .. Len(order) /\ ShownLen(taken) = n
  BY <1>1, <1>2 DEF ShownLen
<1>4. First(order, TopTeams) = SubSeq(order, 1, n)
  BY DEF First
<1>5. Len(SubSeq(order, 1, n)) = n
  <2> HIDE DEF n
  <2> QED
    BY <1>1, <1>2, <1>3
<1> HIDE DEF n
<1>6. BoardOf(r) = [i \in 1 .. n |-> [team |-> order[i], row |-> scores[r][order[i]]]]
  BY <1>4, <1>5 DEF BoardOf, order
<1>7. \A i \in 1 .. n : taken[i].team = order[i] /\ taken[i].row = scores[r][order[i]]
  BY <1>1, <1>2, <1>3 DEF Take
<1>8. ShownOf(taken) = [i \in 1 .. n |-> [team |-> taken[i].team, row |-> taken[i].row]]
  BY <1>3 DEF ShownOf
<1> QED
  BY <1>6, <1>7, <1>8 DEF taken

\* Times and what the cache has are numbers.
LEMMA StampIsNat ==
  ASSUME TypeInv, ClientInv, NEW r \in Replicas, NEW w \in Teams \cup {Board}
  PROVE  StampOf(r, w) \in Nat
<1>1. lastUpdate[r] \in Nat
  BY DEF ClientInv
<1>2. CASE w = Board \/ scores[r][w] = Absent
  BY <1>1, <1>2 DEF StampOf
<1>3. CASE w # Board /\ scores[r][w] # Absent
  <2>1. w \in Teams /\ scores[r][w] \in Row
    BY <1>3 DEF TypeInv, CacheOK, RowsOK
  <2> QED
    BY <1>3, <2>1 DEF StampOf, Row
<1> QED
  BY <1>2, <1>3

LEMMA StampIsPast ==
  ASSUME TypeInv, ClientInv, NEW r \in Replicas, TimesOK(r), NEW w \in Teams \cup {Board}
  PROVE  StampOf(r, w) <= now
<1>1. CASE w = Board \/ scores[r][w] = Absent
  BY <1>1 DEF StampOf, TimesOK
<1>2. CASE w # Board /\ scores[r][w] # Absent
  <2>1. w \in Listed(scores[r])
    BY <1>2 DEF Listed
  <2> QED
    BY <1>2, <2>1 DEF StampOf, TimesOK
<1> QED
  BY <1>1, <1>2

\* A step of one client's poll.
LEMMA PollStepKeeps ==
  ASSUME TypeInv, ClientInv, PollInv,
         NEW c \in Clients, PollStep(c) \/ \E r \in Replicas : Poll(c, r)
  PROVE  PollInv'
<1>1. UNCHANGED <<phase, scores, lastUpdate, coincided, now, want>>
  BY PollIs
<1>2. PICK state \in ClientState :
         /\ client' = [client EXCEPT ![c] = state] /\ TakenOK(state, scores)
         /\ phase[state.replica] = "booting" => state.pc = "idle"
         /\ \/ Waiting(c, state)
            \/ \E r \in Replicas : Answered(c, r, state)
            \/ Showing(c, state)
  BY PollIs
<1>3. client'[c] = state /\ \A d \in Clients \ {c} : client'[d] = client[d]
  BY <1>1, <1>2, ClientChanged
<1>4. /\ client[c] \in ClientState /\ client[c].seen \in Nat /\ client[c].stamp \in Nat
      /\ state.seen \in Nat /\ state.stamp \in Nat /\ want[c] \in Teams \cup {Board}
  BY DEF ClientInv, ClientState
<1> SUFFICES ASSUME NEW r \in Replicas
             PROVE  TimesOK(r)' /\ \A d \in Clients : PollOK(d, r)'
  BY DEF PollInv
<1>5. TimesOK(r) /\ SeenOK(c, r) /\ AnswerOK(c, r) /\ ViewOK(c, r)
  BY DEF PollInv, PollOK
<1>6. lastUpdate[r] \in Nat /\ now \in Nat
  BY DEF ClientInv, TypeInv
<1>7. RowsOK(scores[r])
  BY DEF TypeInv, CacheOK
<1>8. ASSUME NEW d \in Clients \ {c} PROVE PollOK(d, r)'
  <2>1. PollOK(d, r)
    BY DEF PollInv
  <2>2. client'[d] = client[d]
    BY <1>3
  <2> QED
    BY <1>1, <2>1, <2>2 DEF PollOK, SeenOK, StampOf, AnswerOK, ViewOK, HasNews, UpToDate, BoardOf
<1>9. TimesOK(r)'
  BY <1>1, <1>5 DEF TimesOK
<1>10. CASE Waiting(c, state)
  <2>1. /\ state.seen = client[c].seen /\ state.view = client[c].view /\ state.source = client[c].source
        /\ state.pc # "reply"
    BY <1>10 DEF Waiting
  <2>2. PollOK(c, r)'
    BY <1>1, <1>3, <1>5, <2>1 DEF PollOK, SeenOK, StampOf, AnswerOK, ViewOK, HasNews, UpToDate, BoardOf
  <2> QED
    BY <1>8, <1>9, <2>2
<1>11. ASSUME NEW q \in Replicas, Answered(c, q, state) PROVE PollOK(c, r)'
  <2>1. /\ state.pc = "reply" /\ state.replica = q
        /\ state.view = client[c].view /\ state.seen = client[c].seen /\ state.source = client[c].source
        /\ want[c] = Board => state.taken = BoardTaken(scores[q]) /\ state.stamp = lastUpdate[q]
        /\ want[c] # Board => /\ scores[q][want[c]] \in Row
                              /\ state.taken = <<Take(want[c], scores[q][want[c]])>>
                              /\ state.stamp = scores[q][want[c]].stamp
    BY <1>11, AnswerIs DEF Answered
  <2>2. SeenOK(c, r)'
    <3>1. q = r => state.stamp = StampOf(r, want[c])
      BY <2>1, AbsentAssumption DEF StampOf
    <3>2. StampOf(r, want[c])' = StampOf(r, want[c]) /\ StampOf(r, want[c]) \in Nat
      BY <1>1, <1>4, StampIsNat DEF StampOf
    <3> QED
      BY <1>1, <1>3, <1>5, <2>1, <3>1, <3>2 DEF SeenOK
  <2>3. AnswerOK(c, r)'
    <3> SUFFICES ASSUME q = r PROVE AnswerOK(c, r)'
      BY <1>3, <2>1 DEF AnswerOK
    <3>1. CASE want[c] = Board
      <4>1. state.taken = BoardTaken(scores[r])
        BY <2>1, <3>1
      <4>2. BoardTaken(scores[r])' = BoardTaken(scores[r])
        BY <1>1
      <4> QED
        BY <1>1, <1>3, <3>1, <4>1, <4>2 DEF AnswerOK
    <3>2. CASE want[c] # Board
      <4>1. /\ Len(state.taken) = 1 /\ state.taken[1].team = want[c]
            /\ state.taken[1].row = scores[r][want[c]]
        <5> DEFINE own == Take(want[c], scores[r][want[c]])
        <5>1. state.taken = <<own>>
          BY <2>1, <3>2
        <5>2. own.team = want[c] /\ own.row = scores[r][want[c]]
          BY DEF Take
        <5> HIDE DEF own
        <5>3. Len(<<own>>) = 1 /\ <<own>>[1] = own
          OBVIOUS
        <5> QED
          BY <5>1, <5>2, <5>3
      <4>2. RowAnswered(scores[r][want[c]], state.taken[1].row, state.stamp)
        BY <2>1, <3>2, <4>1 DEF RowAnswered, Tells
      <4>3. state.taken[1].row.stamp = state.stamp
        BY <2>1, <3>2, <4>1
      <4>4. /\ client'[c].taken = state.taken /\ client'[c].stamp = state.stamp
            /\ want'[c] = want[c] /\ scores'[r] = scores[r]
        BY <1>1, <1>3
      <4> QED
        BY <3>2, <4>1, <4>2, <4>3, <4>4 DEF AnswerOK
    <3> QED
      BY <3>1, <3>2
  <2>4. ViewOK(c, r)'
    BY <1>1, <1>3, <1>5, <2>1 DEF ViewOK, HasNews, UpToDate, BoardOf
  <2> QED
    BY <2>2, <2>3, <2>4 DEF PollOK
<1>12. CASE Showing(c, state)
  <2>1. /\ client[c].pc = "reply" /\ state.pc = "idle" /\ state.replica = client[c].replica
        /\ state.source = client[c].replica
        /\ state.stamp = 0 /\ state.seen = client[c].stamp /\ state.view = ShownOf(client[c].taken)
        /\ Len(state.view) = ShownLen(client[c].taken)
    BY <1>12 DEF Showing
  <2>2. client[c].replica = r => phase[r] # "booting"
    BY <2>1 DEF ClientInv
  <2>3. SeenOK(c, r)'
    <3>1. StampOf(r, want[c])' = StampOf(r, want[c])
      BY <1>1 DEF StampOf
    <3> QED
      BY <1>1, <1>3, <1>5, <2>1, <2>2, <3>1 DEF SeenOK
  <2>4. AnswerOK(c, r)'
    BY <1>3, <2>1 DEF AnswerOK
  <2>5. ViewOK(c, r)'
    <3> SUFFICES ASSUME client[c].replica = r, want[c] \notin coincided[r] PROVE ViewOK(c, r)'
      BY <1>1, <1>3, <2>1 DEF ViewOK
    <3>1. CASE want[c] = Board
      <4>1. ASSUME ~(lastUpdate[r] > client[c].stamp) PROVE state.view = BoardOf(r)
        <5>1. client[c].taken = BoardTaken(scores[r])
          BY <1>4, <1>5, <1>6, <2>1, <3>1, <4>1 DEF AnswerOK
        <5> QED
          BY <1>7, <2>1, <5>1, BoardShown
      <4> QED
        BY <1>1, <1>3, <2>1, <3>1, <4>1 DEF ViewOK, HasNews, UpToDate, BoardOf
    <3>2. CASE want[c] # Board
      <4> DEFINE row == scores[r][want[c]]
                 answer == client[c].taken[1]
      <4>1. /\ Len(client[c].taken) = 1 /\ answer.row.stamp = client[c].stamp
            /\ RowAnswered(row, answer.row, client[c].stamp)
        BY <1>5, <2>1, <3>2 DEF AnswerOK
      <4>2. ShownLen(client[c].taken) = 1
        BY <4>1, BoundsAssumption DEF ShownLen
      <4>3. Len(state.view) = 1 /\ state.view[1].row = answer.row
        BY <2>1, <4>2 DEF ShownOf
      <4>4. row # Absent => row.stamp \in Nat
        BY <1>7, <3>2 DEF RowsOK, ClientInv, Row
      <4> HIDE DEF row, answer
      <4>5. row # Absent /\ ~(row.stamp > client[c].stamp) =>
               /\ Len(state.view) = 1 /\ state.view[1].row.stamp = row.stamp
               /\ Tells(state.view[1].row, row)
        BY <1>4, <4>1, <4>3, <4>4 DEF RowAnswered
      <4> QED
        BY <1>1, <1>3, <2>1, <3>2, <4>5 DEF ViewOK, HasNews, UpToDate, row
    <3> QED
      BY <3>1, <3>2
  <2>6. PollOK(c, r)'
    BY <2>3, <2>4, <2>5 DEF PollOK
  <2> QED
    BY <1>8, <1>9, <2>6
<1> QED
  BY <1>2, <1>8, <1>9, <1>10, <1>11, <1>12

\* An update is later than all that was answered or seen of its replica, or it
\* coincides with the last one of what is wanted.
LEMMA UpdateKeepsPolls ==
  ASSUME TypeInv, ClientInv, PollInv, NEW r \in Replicas, ReadEvent(r)
  PROVE  PollInv'
<1>1. /\ UNCHANGED <<phase, want>> /\ phase[r] = "watching" /\ Head(queue[r]) \in Told
  BY ReadEventIs
<1> DEFINE t == Head(queue[r]).team
<1>2. t \in Teams /\ Head(queue[r]).object \in Deployed
  BY <1>1 DEF Told
<1>3. PICK time \in NextTimes :
         LET row == RowOf(Head(queue[r]), time) IN
         /\ UpdateRow(r, t, row, time)
         /\ row = Absent \/ (row \in Row /\ IsFiniteSet(row.progress))
  BY ReadEventIs
<1> DEFINE row == RowOf(Head(queue[r]), time)
<1>4. time \in Nat /\ time >= now /\ now \in Nat /\ lastUpdate[r] \in Nat
  BY NextTimesAre DEF TypeInv, ClientInv
<1>5. /\ lastUpdate'[r] = time /\ now' = time
      /\ coincided'[r] = (coincided[r] \ {Board, t}) \cup {w \in {Board, t} : StampOf(r, w) = time}
      /\ \A q \in Replicas \ {r} : lastUpdate'[q] = lastUpdate[q] /\ coincided'[q] = coincided[q]
  BY <1>3 DEF UpdateRow, ClientInv
<1>6. row # Absent => row.stamp = time
  BY <1>2, <1>4, CalculateScoreIs DEF RowOf
<1>7. Updated(r, t, row) /\ \A q \in Replicas : CacheOK(scores'[q])
  BY <1>2, <1>3, UpdateRowIs
<1>8. \A c \in Clients : /\ SameAnswer(client'[c], client[c])
                         /\ client[c].replica # r => client'[c] = client[c]
  BY <1>2, <1>3, UpdateKeepsAnswers
<1>9. TimesOK(r)
  BY DEF PollInv
<1> HIDE DEF row, t
<1>10. \A u \in Teams : scores'[r][u] # Absent =>
         IF u = t THEN scores'[r][u].stamp = time
         ELSE scores[r][u] # Absent /\ Same(scores'[r][u], scores[r][u])
  BY <1>6, <1>7 DEF Updated, Same
<1>11. \A u \in Teams : scores[r][u] # Absent => scores[r][u].stamp \in Nat
  BY DEF TypeInv, CacheOK, RowsOK, Row
<1>12. ASSUME NEW q \in Replicas \ {r} PROVE TimesOK(q)' /\ \A c \in Clients : PollOK(c, q)'
  <2>1. /\ scores'[q] = scores[q] /\ lastUpdate'[q] = lastUpdate[q] /\ coincided'[q] = coincided[q]
        /\ phase'[q] = phase[q] /\ want' = want /\ lastUpdate[q] \in Nat
    BY <1>1, <1>5, <1>7 DEF Updated, ClientInv
  <2>2. TimesOK(q) /\ \A c \in Clients : PollOK(c, q)
    BY DEF PollInv
  <2>3. \A u \in Teams : scores[q][u] # Absent => scores[q][u].stamp \in Nat
    BY DEF TypeInv, CacheOK, RowsOK, Row
  <2>4. TimesOK(q)'
    BY <1>4, <1>5, <2>1, <2>2, <2>3 DEF TimesOK, Listed
  <2>5. ASSUME NEW c \in Clients PROVE PollOK(c, q)'
    <3>1. /\ SameAnswer(client'[c], client[c])
          /\ client[c].replica # r => client'[c] = client[c]
          /\ PollOK(c, q)
      BY <1>8, <2>2
    <3>2. StampOf(q, want[c])' = StampOf(q, want[c])
      BY <2>1 DEF StampOf
    <3>3. SeenOK(c, q)'
      BY <2>1, <3>1, <3>2 DEF PollOK, SeenOK, SameAnswer
    <3>4. AnswerOK(c, q)'
      <4> SUFFICES ASSUME client[c].replica = q PROVE AnswerOK(c, q)'
        BY <3>1 DEF AnswerOK, SameAnswer
      <4>1. client'[c] = client[c]
        BY <3>1
      <4>2. BoardTaken(scores[q])' = BoardTaken(scores[q])
        BY <2>1 DEF BoardTaken
      <4> QED
        BY <2>1, <3>1, <4>1, <4>2 DEF PollOK, AnswerOK
    <3>5. ViewOK(c, q)'
      BY <2>1, <3>1 DEF PollOK, ViewOK, HasNews, UpToDate, BoardOf, SameAnswer
    <3> QED
      BY <3>3, <3>4, <3>5 DEF PollOK
  <2> QED
    BY <2>4, <2>5
<1>13. TimesOK(r)'
  <2>1. time >= 1 /\ time <= now'
    BY <1>4, <1>5, <1>9 DEF TimesOK
  <2>2. ASSUME NEW u \in Listed(scores'[r]) PROVE scores'[r][u].stamp <= now'
    <3>1. u \in Teams /\ scores'[r][u] # Absent
      BY DEF Listed
    <3>2. CASE u = t
      BY <1>4, <1>5, <1>10, <3>1, <3>2
    <3>3. CASE u # t
      <4>1. scores[r][u] # Absent /\ scores'[r][u].stamp = scores[r][u].stamp
        BY <1>10, <3>1, <3>3 DEF Same
      <4>2. scores[r][u].stamp <= now
        BY <1>9, <3>1, <4>1 DEF TimesOK, Listed
      <4> QED
        BY <1>4, <1>5, <1>11, <3>1, <4>1, <4>2
    <3> QED
      BY <3>2, <3>3
  <2> QED
    BY <1>5, <2>1, <2>2 DEF TimesOK
<1>14. ASSUME NEW c \in Clients PROVE PollOK(c, r)'
  <2> DEFINE w == want[c]
  <2>1. /\ SeenOK(c, r) /\ AnswerOK(c, r) /\ ViewOK(c, r) /\ SameAnswer(client'[c], client[c])
        /\ want'[c] = w
    BY <1>1, <1>8 DEF PollInv, PollOK
  <2>2. client[c].seen \in Nat /\ client[c].stamp \in Nat /\ w \in Teams \cup {Board}
    BY DEF ClientInv, ClientState
  <2>3. StampOf(r, w) \in Nat /\ StampOf(r, w) <= time
    <3>1. StampOf(r, w) \in Nat /\ StampOf(r, w) <= now
      BY <1>9, <2>2, StampIsNat, StampIsPast
    <3> QED
      BY <1>4, <3>1
  <2>4. /\ StampOf(r, w)' \in Nat /\ StampOf(r, w) <= StampOf(r, w)'
    <3>1. CASE w = Board \/ scores'[r][w] = Absent
      <4>1. StampOf(r, w)' = time
        BY <1>5, <2>1, <3>1 DEF StampOf
      <4> QED
        BY <1>4, <2>3, <4>1
    <3>2. CASE w # Board /\ scores'[r][w] # Absent
      <4>1. StampOf(r, w)' = scores'[r][w].stamp
        BY <2>1, <3>2 DEF StampOf
      <4>2. CASE w = t
        BY <1>4, <1>10, <2>2, <2>3, <3>2, <4>1, <4>2
      <4>3. CASE w # t
        <5>1. StampOf(r, w) = StampOf(r, w)'
          BY <1>10, <2>2, <3>2, <4>1, <4>3 DEF StampOf, Same
        <5> QED
          BY <2>3, <5>1
      <4> QED
        BY <4>2, <4>3
    <3> QED
      BY <3>1, <3>2
  <2>5. SeenOK(c, r)'
    BY <1>1, <2>1, <2>2, <2>3, <2>4 DEF SeenOK, SameAnswer
  <2>6. ASSUME w \in {Board, t}, w \notin coincided'[r]
        PROVE  /\ client[c].source = r => client[c].seen < time
               /\ client[c].replica = r /\ client[c].pc = "reply" => client[c].stamp < time
    <3>1. StampOf(r, w) # time
      BY <1>5, <2>6
    <3> QED
      BY <1>4, <2>1, <2>2, <2>3, <3>1 DEF SeenOK
  <2>7. w \notin {Board, t} => (w \in coincided'[r] <=> w \in coincided[r])
    BY <1>5
  <2>8. CASE w = Board
    <3>1. AnswerOK(c, r)'
      BY <1>4, <1>5, <2>1, <2>2, <2>6, <2>8 DEF AnswerOK, SameAnswer
    <3>2. ViewOK(c, r)'
      BY <1>4, <1>5, <2>1, <2>2, <2>6, <2>8 DEF ViewOK, HasNews, SameAnswer
    <3> QED
      BY <2>5, <3>1, <3>2 DEF PollOK
  <2>9. CASE w # Board
    <3>1. w \in Teams
      BY <2>2, <2>9
    <3>2. AnswerOK(c, r)'
      <4> SUFFICES ASSUME client[c].pc = "reply", client[c].replica = r
                   PROVE  /\ Len(client'[c].taken) = 1 /\ client'[c].taken[1].team = w
                          /\ client'[c].taken[1].row.stamp = client[c].stamp
                          /\ w \notin coincided'[r] =>
                                RowAnswered(scores'[r][w], client'[c].taken[1].row, client[c].stamp)
        BY <2>1, <2>9 DEF AnswerOK, SameAnswer
      <4>1. /\ Len(client[c].taken) = 1
            /\ client[c].taken[1].team = w /\ client[c].taken[1].row.stamp = client[c].stamp
            /\ w \notin coincided[r] =>
                  RowAnswered(scores[r][w], client[c].taken[1].row, client[c].stamp)
        BY <2>1, <2>9 DEF AnswerOK
      <4>2. 1 \in DOMAIN client[c].taken
        BY <4>1 DEF ClientInv, ClientState
      <4>3. /\ Len(client'[c].taken) = 1 /\ client'[c].taken[1].team = w
            /\ Same(client'[c].taken[1].row, client[c].taken[1].row)
        BY <2>1, <4>1, <4>2 DEF SameAnswer
      <4>4. ASSUME w \notin coincided'[r], w = t
            PROVE  RowAnswered(scores'[r][w], client'[c].taken[1].row, client[c].stamp)
        BY <1>4, <1>10, <2>2, <2>6, <3>1, <4>4 DEF RowAnswered
      <4>5. ASSUME w \notin coincided'[r], w # t
            PROVE  RowAnswered(scores'[r][w], client'[c].taken[1].row, client[c].stamp)
        BY <1>10, <2>7, <2>9, <3>1, <4>1, <4>3, <4>5 DEF RowAnswered, Same, Tells
      <4> QED
        BY <4>1, <4>3, <4>4, <4>5 DEF Same
    <3>3. ViewOK(c, r)'
      <4> SUFFICES ASSUME client[c].source = r, client[c].seen # 0, w \notin coincided'[r],
                          scores'[r][w] # Absent, ~(scores'[r][w].stamp > client[c].seen)
                   PROVE  /\ Len(client[c].view) = 1
                          /\ client[c].view[1].row.stamp = scores'[r][w].stamp
                          /\ Tells(client[c].view[1].row, scores'[r][w])
        BY <2>1, <2>9 DEF ViewOK, HasNews, UpToDate, SameAnswer, Tells
      <4>1. w # t
        BY <1>4, <1>10, <2>2, <2>6, <3>1
      <4>2. /\ scores[r][w] # Absent /\ Same(scores'[r][w], scores[r][w])
            /\ w \notin coincided[r]
        BY <1>10, <2>7, <2>9, <3>1, <4>1
      <4>3. /\ Len(client[c].view) = 1
            /\ client[c].view[1].row.stamp = scores[r][w].stamp
            /\ Tells(client[c].view[1].row, scores[r][w])
        BY <2>1, <2>9, <4>2 DEF ViewOK, HasNews, UpToDate, Same
      <4> QED
        BY <4>2, <4>3 DEF Same, Tells
    <3> QED
      BY <2>5, <3>2, <3>3 DEF PollOK
  <2> QED
    BY <2>8, <2>9
<1> QED
  BY <1>12, <1>13, <1>14 DEF PollInv

\* A crash leaves what was seen behind, and nothing in the cache.
LEMMA CrashKeepsPolls ==
  ASSUME TypeInv, ClientInv, PollInv, NEW r \in Replicas, CrashReplica(r)
  PROVE  PollInv'
<1>1. /\ now' = now + 1 /\ now \in Nat /\ lastUpdate'[r] = now + 1 /\ lastUpdate[r] \in Nat
      /\ want' = want /\ \A t \in Teams : scores'[r][t] = Absent
      /\ \A q \in Replicas \ {r} : /\ scores'[q] = scores[q] /\ lastUpdate'[q] = lastUpdate[q]
                                   /\ coincided'[q] = coincided[q] /\ phase'[q] = phase[q]
  BY DEF CrashReplica, TypeInv, ClientInv
<1>2. \A c \in Clients : /\ client[c].replica = r => client'[c] = Idle(c)
                         /\ client[c].replica # r => client'[c] = client[c]
  BY DEF CrashReplica
<1>3. ASSUME NEW c \in Clients
      PROVE  /\ client'[c].replica = client[c].replica /\ client'[c].view = client[c].view
             /\ client'[c].seen = client[c].seen /\ client'[c].source = client[c].source
             /\ client[c].replica = r => client'[c].pc = "idle"
             /\ client[c].seen \in Nat /\ want[c] \in Teams \cup {Board}
  BY <1>2, IdleIs DEF ClientInv, ClientState
<1>4. ASSUME NEW q \in Replicas, q # r PROVE TimesOK(q)' /\ \A c \in Clients : PollOK(c, q)'
  <2>1. /\ scores'[q] = scores[q] /\ lastUpdate'[q] = lastUpdate[q] /\ coincided'[q] = coincided[q]
        /\ phase'[q] = phase[q] /\ want' = want /\ lastUpdate[q] \in Nat
    BY <1>1, <1>4 DEF ClientInv
  <2>2. TimesOK(q) /\ \A c \in Clients : PollOK(c, q)
    BY DEF PollInv
  <2>3. \A u \in Teams : scores[q][u] # Absent => scores[q][u].stamp \in Nat
    BY DEF TypeInv, CacheOK, RowsOK, Row
  <2>4. TimesOK(q)'
    BY <1>1, <2>1, <2>2, <2>3 DEF TimesOK, Listed
  <2>5. ASSUME NEW c \in Clients PROVE PollOK(c, q)'
    <3>1. PollOK(c, q)
      BY <2>2
    <3>2. StampOf(q, want[c])' = StampOf(q, want[c])
      BY <2>1 DEF StampOf
    <3>3. CASE client[c].replica = r
      <4>1. /\ client'[c].replica # q /\ client'[c].view = client[c].view
            /\ client'[c].seen = client[c].seen /\ client'[c].source = client[c].source
        BY <1>3, <1>4, <3>3
      <4>2. SeenOK(c, q)' /\ AnswerOK(c, q)'
        BY <2>1, <3>1, <3>2, <4>1 DEF PollOK, SeenOK, AnswerOK
      <4>3. ViewOK(c, q)'
        BY <2>1, <3>1, <4>1 DEF PollOK, ViewOK, HasNews, UpToDate, BoardOf
      <4> QED
        BY <4>2, <4>3 DEF PollOK
    <3>4. CASE client[c].replica # r
      <4>1. client'[c] = client[c]
        BY <1>2, <3>4
      <4>2. BoardTaken(scores[q])' = BoardTaken(scores[q])
        BY <2>1 DEF BoardTaken
      <4>3. SeenOK(c, q)' /\ AnswerOK(c, q)'
        BY <2>1, <3>1, <3>2, <4>1, <4>2 DEF PollOK, SeenOK, AnswerOK
      <4>4. ViewOK(c, q)'
        BY <2>1, <3>1, <4>1 DEF PollOK, ViewOK, HasNews, UpToDate, BoardOf
      <4> QED
        BY <4>3, <4>4 DEF PollOK
    <3> QED
      BY <3>3, <3>4
  <2> QED
    BY <2>4, <2>5
<1>5. TimesOK(r)'
  BY <1>1 DEF TimesOK, Listed
<1>6. ASSUME NEW c \in Clients PROVE PollOK(c, r)'
  <2>1. client[c].source = r => client[c].seen <= now
    <3>1. SeenOK(c, r) /\ TimesOK(r)
      BY DEF PollInv, PollOK
    <3>2. StampOf(r, want[c]) \in Nat /\ StampOf(r, want[c]) <= now
      BY <1>3, <3>1, StampIsNat, StampIsPast
    <3> QED
      BY <1>1, <1>3, <3>1, <3>2 DEF SeenOK
  <2>2. StampOf(r, want[c])' = now + 1
    BY <1>1, <1>3 DEF StampOf
  <2>3. client'[c].replica = r => client'[c].pc = "idle"
    BY <1>3
  <2>4. SeenOK(c, r)' /\ AnswerOK(c, r)'
    BY <1>1, <1>3, <2>1, <2>2, <2>3 DEF SeenOK, AnswerOK
  <2>5. CASE want[c] = Board
    <3>1. client'[c].source = r => lastUpdate'[r] > client'[c].seen
      BY <1>1, <1>3, <2>1
    <3> QED
      BY <1>1, <2>4, <2>5, <3>1 DEF PollOK, ViewOK, HasNews
  <2>6. CASE want[c] # Board
    <3>1. scores'[r][want[c]] = Absent
      BY <1>1, <1>3, <2>6
    <3> QED
      BY <1>1, <2>4, <2>6, <3>1 DEF PollOK, ViewOK, UpToDate
  <2> QED
    BY <2>5, <2>6
<1> QED
  BY <1>4, <1>5, <1>6 DEF PollInv

\* The first rows of a replica are newer than all that was seen of it before.
LEMMA BootKeepsPolls ==
  ASSUME TypeInv, ClientInv, PollInv, NEW r \in Replicas, CalculateAndCacheScoreBoard(r),
         NEW rows \in Resorted([t \in Teams |->
             IF deployment[t] = Absent THEN Absent ELSE CalculateScore(deployment[t], now)]),
         scores' = [scores EXCEPT ![r] = rows]
  PROVE  PollInv'
<1>1. /\ phase[r] = "booting" /\ phase' = [phase EXCEPT ![r] = "serving"]
      /\ UNCHANGED <<want, lastUpdate, coincided, client, now>>
  BY DEF CalculateAndCacheScoreBoard
<1>2. /\ phase'[r] = "serving" /\ TimesOK(r) /\ now \in Nat /\ lastUpdate[r] \in Nat
      /\ scores'[r] = rows
      /\ \A q \in Replicas \ {r} : phase'[q] = phase[q] /\ scores'[q] = scores[q]
  BY <1>1 DEF TypeInv, ClientInv, PollInv
<1>3. \A t \in Teams : rows[t] # Absent => rows[t].stamp = now
  <2> SUFFICES ASSUME NEW t \in Teams, rows[t] # Absent PROVE rows[t].stamp = now
    OBVIOUS
  <2>1. deployment[t] # Absent /\ Same(rows[t], CalculateScore(deployment[t], now))
    BY FirstRowsAreRanked
  <2>2. deployment[t] \in Deployed
    BY <2>1 DEF TypeInv
  <2> QED
    BY <1>2, <2>1, <2>2, CalculateScoreIs DEF Same
<1>4. TimesOK(r)'
  BY <1>1, <1>2, <1>3 DEF TimesOK, Listed
<1>5. ASSUME NEW q \in Replicas, q # r PROVE TimesOK(q)' /\ \A c \in Clients : PollOK(c, q)'
  <2>1. scores'[q] = scores[q] /\ phase'[q] = phase[q]
    BY <1>2, <1>5
  <2>2. TimesOK(q) /\ \A c \in Clients : PollOK(c, q)
    BY DEF PollInv
  <2>3. BoardTaken(scores[q])' = BoardTaken(scores[q])
    BY <2>1 DEF BoardTaken
  <2> QED
    BY <1>1, <2>1, <2>2, <2>3
       DEF TimesOK, PollOK, SeenOK, StampOf, AnswerOK, ViewOK, HasNews, UpToDate, BoardOf
<1>6. ASSUME NEW c \in Clients PROVE PollOK(c, r)'
  <2>1. /\ client[c].replica = r => client[c].pc = "idle"
        /\ client[c].source = r => client[c].seen < lastUpdate[r]
        /\ client[c].seen \in Nat /\ want[c] \in Teams \cup {Board}
    BY <1>1 DEF ClientInv, ClientState, PollInv, PollOK, SeenOK
  <2>2. lastUpdate[r] <= now
    BY <1>2 DEF TimesOK
  <2>3. client[c].source = r => client[c].seen < StampOf(r, want[c])'
    <3>1. StampOf(r, want[c])' \in {lastUpdate[r], now}
      BY <1>1, <1>2, <1>3, <2>1 DEF StampOf
    <3> QED
      BY <1>2, <2>1, <2>2, <3>1
  <2>4. StampOf(r, want[c])' \in Nat
    BY <1>1, <1>2, <1>3, <2>1 DEF StampOf
  <2>5. SeenOK(c, r)' /\ AnswerOK(c, r)'
    BY <1>1, <1>2, <2>1, <2>3, <2>4 DEF SeenOK, AnswerOK
  <2>6. CASE want[c] = Board
    BY <1>1, <1>2, <2>1, <2>5, <2>6 DEF PollOK, ViewOK, HasNews
  <2>7. CASE want[c] # Board
    <3>1. want[c] \in Teams
      BY <2>1, <2>7
    <3>2. client[c].source = r /\ rows[want[c]] # Absent => rows[want[c]].stamp > client[c].seen
      BY <1>2, <1>3, <2>1, <2>2, <3>1
    <3> QED
      BY <1>1, <1>2, <2>5, <2>7, <3>2 DEF PollOK, ViewOK, HasNews, UpToDate
  <2> QED
    BY <2>6, <2>7
<1> QED
  BY <1>4, <1>5, <1>6 DEF PollInv

LEMMA PollKept == TypeInv /\ ClientInv /\ PollInv /\ [Next]_vars => PollInv'
<1> SUFFICES ASSUME TypeInv, ClientInv, PollInv, [Next]_vars PROVE PollInv'
  OBVIOUS
<1>1. ASSUME UNCHANGED <<want, lastUpdate, coincided, client, scores, now>>,
             \A r \in Replicas : phase'[r] = "booting" => phase[r] = "booting"
      PROVE  PollInv'
  BY <1>1 DEF PollInv, TimesOK, PollOK, SeenOK, StampOf, AnswerOK, ViewOK, HasNews, UpToDate, BoardOf
<1>2. ASSUME NEW t \in Teams, CreateDeployment(t) \/ ModifyDeployment(t) \/ DeleteDeployment(t)
      PROVE  PollInv'
  <2>1. UNCHANGED <<phase, want, lastUpdate, coincided, client, scores, now>>
    BY <1>2, EditIs
  <2> QED
    BY <1>1, <2>1
<1>3. ASSUME NEW r \in Replicas, StartWatcher(r) \/ CloseWatcher(r) PROVE PollInv'
  <2>1. \A q \in Replicas : phase'[q] = "booting" => phase[q] = "booting"
    BY <1>3 DEF StartWatcher, CloseWatcher, TypeInv
  <2>2. UNCHANGED <<want, lastUpdate, coincided, client, scores, now>>
    BY <1>3 DEF StartWatcher, CloseWatcher
  <2> QED
    BY <1>1, <2>1, <2>2
<1>4. ASSUME NEW r \in Replicas, CrashReplica(r) PROVE PollInv'
  BY <1>4, CrashKeepsPolls
<1>5. ASSUME NEW r \in Replicas, CalculateAndCacheScoreBoard(r) PROVE PollInv'
  <2>1. /\ phase' = [phase EXCEPT ![r] = "serving"]
        /\ UNCHANGED <<want, lastUpdate, coincided, client, now>>
    BY <1>5 DEF CalculateAndCacheScoreBoard
  <2>2. CASE UNCHANGED scores
    <3>1. \A q \in Replicas : phase'[q] = "booting" => phase[q] = "booting"
      BY <2>1 DEF TypeInv
    <3> QED
      BY <1>1, <2>1, <2>2, <3>1
  <2> QED
    BY <1>5, <2>2, BootKeepsPolls DEF CalculateAndCacheScoreBoard
<1>6. ASSUME NEW r \in Replicas, ReadEvent(r) PROVE PollInv'
  BY <1>6, UpdateKeepsPolls
<1>7. ASSUME NEW c \in Clients, PollStep(c) \/ \E r \in Replicas : Poll(c, r)
      PROVE  PollInv'
  BY <1>7, PollStepKeeps
<1>8. ASSUME UNCHANGED vars PROVE PollInv'
  BY <1>1, <1>8 DEF vars
<1> QED
  BY <1>2, <1>3, <1>4, <1>5, <1>6, <1>7, <1>8 DEF Next, EditStep, CacheStep

\* Whatever the number of replicas and the times of their updates, no update falls
\* between an answer and the next poll: a browser that a replica has answered and for
\* which WaitForUpdatesNewerThanWithTimestamp or WaitForTeamUpdatesNewerThan would wait
\* there has been shown what it has, but for an update in the millisecond of another.
THEOREM PollsMissNothing == Spec => []NoMissedUpdate
<1>1. Init => TypeInv /\ ClientInv /\ PollInv
  <2> SUFFICES ASSUME Init PROVE TypeInv /\ ClientInv /\ PollInv
    OBVIOUS
  <2>1. TypeInv /\ ClientInv
    BY TypeAtStart, ClientAtStart
  <2>2. ASSUME NEW c \in Clients
        PROVE  client[c].pc = "idle" /\ client[c].seen = 0 /\ client[c].stamp = 0
    BY DEF Init
  <2>3. ASSUME NEW r \in Replicas
        PROVE  /\ lastUpdate[r] = 1 /\ now = 1
               /\ \A t \in Teams : scores[r][t] = Absent
    BY DEF Init
  <2>4. ASSUME NEW r \in Replicas, NEW c \in Clients PROVE PollOK(c, r)
    <3>1. StampOf(r, want[c]) = 1
      BY <2>1, <2>3 DEF StampOf, ClientInv
    <3> QED
      BY <2>2, <2>3, <3>1 DEF PollOK, SeenOK, AnswerOK, ViewOK
  <2>5. ASSUME NEW r \in Replicas PROVE TimesOK(r)
    BY <2>3 DEF TimesOK, Listed
  <2> QED
    BY <2>1, <2>4, <2>5 DEF PollInv
<1>2. TypeInv /\ ClientInv /\ PollInv /\ [Next]_vars => TypeInv' /\ ClientInv' /\ PollInv'
  BY TypeKept, ClientKept, PollKept
<1>3. TypeInv /\ ClientInv /\ PollInv => NoMissedUpdate
  <2> SUFFICES ASSUME ClientInv, PollInv, NEW c \in Clients
               PROVE  LET r == client[c].source IN
                      client[c].seen # 0 /\ ~HasNews(c, r) /\ want[c] \notin coincided[r] => UpToDate(c, r)
    BY DEF NoMissedUpdate
  <2>1. client[c].source \in Replicas
    BY DEF ClientInv, ClientState
  <2> QED
    BY <2>1 DEF PollInv, PollOK, ViewOK
<1> QED
  BY <1>1, <1>2, <1>3, PTL DEF Spec
====
