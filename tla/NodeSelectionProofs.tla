------------------------- MODULE NodeSelectionProofs -------------------------
(***************************************************************************)
(* What the operators of NodeSelection return, for any nodes and zones.    *)
(***************************************************************************)
EXTENDS NodeSelection, FiniteSetTheorems, TLAPS

LEMMA CountType ==
  ASSUME NEW S \in SUBSET Nodes
  PROVE  IsFiniteSet(S) /\ Cardinality(S) \in Nat
  BY NodesAssumption, FS_Subset, FS_CardinalityType

\* What fails for some number fails for a least one: it stands in for induction.
LEMMA Least ==
  ASSUME NEW S \in SUBSET Nat, S # {}
  PROVE  \E m \in S : \A n \in S : m <= n
  <1>1. PICK m \in S : \A n \in S : <<n, m>> \notin OpToRel(<, Nat)
    BY WFMin, NatLessThanWellFounded
  <1>2. ASSUME NEW n \in S
        PROVE  m <= n
    <2>1. m \in Nat /\ n \in Nat /\ ~(n < m)
      BY <1>1, <1>2 DEF OpToRel
    <2> QED
      BY <2>1
  <1> QED
    BY <1>2

-----------------------------------------------------------------------------
(***************************************************************************)
(* Positions in a sorted list.                                             *)
(***************************************************************************)

LEMMA PositionType ==
  ASSUME NEW S \in SUBSET Nodes, NEW n
  PROVE  Position(n, S) \in Nat
  BY CountType DEF Position

LEMMA PositionGrows ==
  ASSUME NEW S \in SUBSET Nodes, NEW m \in S, NEW n \in S, m < n
  PROVE  Position(m, S) < Position(n, S)
  <1> DEFINE before(k) == {l \in S : l < k}
  <1>1. S \subseteq Nat
    BY NodesAssumption
  <1>2. before(m) \subseteq before(n) /\ before(m) # before(n)
    <2>1. m \in before(n) /\ m \notin before(m)
      BY <1>1
    <2>2. \A l \in S : l < m => l < n
      BY <1>1
    <2> QED
      BY <2>1, <2>2
  <1>3. IsFiniteSet(before(n))
    BY NodesAssumption, FS_Subset
  <1>4. Cardinality(before(m)) <= Cardinality(before(n)) /\ Cardinality(before(m)) # Cardinality(before(n))
    BY <1>2, <1>3, FS_Subset
  <1>5. Cardinality(before(m)) \in Nat /\ Cardinality(before(n)) \in Nat
    BY CountType
  <1> HIDE DEF before
  <1>6. Cardinality(before(m)) < Cardinality(before(n))
    BY <1>4, <1>5
  <1> QED
    BY <1>6 DEF Position, before

\* No two nodes have the same position, so the first ones are as many as asked
\* for at most.
LEMMA FirstBound ==
  ASSUME NEW S \in SUBSET Nodes, NEW count \in Nat
  PROVE  /\ First(count, S) \in SUBSET S /\ IsFiniteSet(First(count, S))
         /\ Cardinality(First(count, S)) \in Nat
         /\ Cardinality(First(count, S)) <= count
  <1>1. First(count, S) \in SUBSET S
    BY DEF First
  <1> DEFINE f == [n \in First(count, S) |-> Position(n, S)]
  <1>2. f \in [First(count, S) -> 0..(count - 1)]
    BY PositionType DEF First
  <1>3. ASSUME NEW m \in First(count, S), NEW n \in First(count, S), f[m] = f[n]
        PROVE  m = n
    <2>1. m \in S /\ n \in S /\ m \in Nat /\ n \in Nat
      BY <1>1, NodesAssumption
    <2>2. Position(m, S) = Position(n, S) /\ Position(m, S) \in Nat
      BY <1>3, PositionType
    <2>3. ~(m < n) /\ ~(n < m)
      BY <2>1, <2>2, PositionGrows
    <2> QED
      BY <2>1, <2>3
  <1>4. f \in Injection(First(count, S), 0..(count - 1))
    BY <1>2, <1>3 DEF Injection, IsInjective
  <1>5. /\ IsFiniteSet(0..(count - 1))
        /\ Cardinality(0..(count - 1)) = IF 0 > count - 1 THEN 0 ELSE count - 1 - 0 + 1
    BY FS_Interval
  <1>6. Cardinality(First(count, S)) <= Cardinality(0..(count - 1))
    BY <1>4, <1>5, FS_Injection
  <1>7. Cardinality(First(count, S)) \in Nat /\ IsFiniteSet(First(count, S))
    BY <1>1, CountType, NodesAssumption, FS_Subset
  <1>8. Cardinality(0..(count - 1)) = count
    BY <1>5
  <1> QED
    BY <1>1, <1>6, <1>7, <1>8

\* And if some are left they are not fewer.
LEMMA FirstCount ==
  ASSUME NEW S \in SUBSET Nodes, NEW count \in Nat
  PROVE  First(count, S) = S \/ Cardinality(First(count, S)) = count
  <1> SUFFICES ASSUME First(count, S) # S PROVE Cardinality(First(count, S)) = count
    OBVIOUS
  <1>1. First(count, S) \in SUBSET S /\ S \subseteq Nat /\ S \ First(count, S) # {}
    BY NodesAssumption DEF First
  <1>2. PICK n \in S \ First(count, S) : \A m \in S \ First(count, S) : n <= m
    BY <1>1, Least
  <1>3. {m \in S : m < n} \in SUBSET First(count, S)
    <2> SUFFICES ASSUME NEW m \in S, m < n, m \notin First(count, S) PROVE FALSE
      OBVIOUS
    <2>1. n <= m /\ m \in Nat /\ n \in Nat
      BY <1>1, <1>2
    <2> QED
      BY <2>1
  <1>4. Position(n, S) <= Cardinality(First(count, S))
    BY <1>3, FirstBound, FS_Subset DEF Position
  <1>5. ~(Position(n, S) < count)
    BY <1>2 DEF First
  <1> QED
    BY <1>4, <1>5, FirstBound, PositionType

-----------------------------------------------------------------------------
(***************************************************************************)
(* The two loops of selectNodesByReplicas.                                 *)
(***************************************************************************)

LEMMA KeepType ==
  ASSUME NEW previous, NEW ready \in SUBSET Nodes, NEW replicas \in Nat
  PROVE  LET kept == KeepSelected(previous, ready, replicas)
         IN  /\ kept \in SUBSET (previous \cap ready)
             /\ Cardinality(kept) \in 0..replicas
             /\ kept = previous \cap ready \/ Cardinality(kept) = replicas
  <1>1. previous \cap ready \in SUBSET Nodes
    OBVIOUS
  <1> QED
    BY <1>1, FirstBound, FirstCount DEF KeepSelected

LEMMA ScoreType ==
  ASSUME NEW n, NEW S \in SUBSET Nodes
  PROVE  scoreNode(n, S) \in Nat
  BY CountType DEF scoreNode

LEMMA ScoreGrows ==
  ASSUME NEW n, NEW S \in SUBSET Nodes, NEW T \in SUBSET S
  PROVE  scoreNode(n, T) <= scoreNode(n, S)
  <1>1. {m \in T : Zone[m] = Zone[n]} \in SUBSET {m \in S : Zone[m] = Zone[n]}
    OBVIOUS
  <1>2. IsFiniteSet({m \in S : Zone[m] = Zone[n]})
    BY CountType
  <1> QED
    BY <1>1, <1>2, FS_Subset DEF scoreNode

LEMMA ScoreSame ==
  ASSUME NEW n, NEW m, Zone[m] = Zone[n], NEW S
  PROVE  scoreNode(m, S) = scoreNode(n, S)
  BY DEF scoreNode

\* There is a candidate as long as a ready node is left.
LEMMA CandidateExists ==
  ASSUME NEW ready \in SUBSET Nodes, NEW S \in SUBSET ready, S # ready
  PROVE  Candidates(ready, S) # {}
  <1> DEFINE scores == {scoreNode(n, S) : n \in ready \ S}
  <1>1. scores \in SUBSET Nat /\ scores # {}
    BY ScoreType
  <1>2. PICK least \in scores : \A score \in scores : least <= score
    BY <1>1, Least
  <1>3. PICK n \in ready \ S : least = scoreNode(n, S)
    OBVIOUS
  <1> QED
    BY <1>2, <1>3 DEF Candidates

\* An order stops nowhere short of its end, and each round adds one node.
LEMMA AfterCount ==
  ASSUME NEW ready \in SUBSET Nodes, NEW kept \in SUBSET ready, NEW missing \in Nat,
         NEW order \in Orders(kept, ready, missing), NEW i \in 0..missing
  PROVE  /\ After(kept, order, i) \in SUBSET ready
         /\ Cardinality(After(kept, order, i)) = Cardinality(kept) + i
  <1>1. /\ order \in [1..missing -> ready \ kept]
        /\ \A j \in 1..missing : order[j] \in Candidates(ready, After(kept, order, j - 1))
    BY DEF Orders
  <1>2. ASSUME NEW j \in 0..missing
        PROVE  After(kept, order, j) \in SUBSET ready
    BY <1>1 DEF After
  <1> DEFINE Wrong == {j \in 0..missing :
                          Cardinality(After(kept, order, j)) # Cardinality(kept) + j}
  <1>3. ASSUME Wrong # {}
        PROVE  FALSE
    <2>0. Wrong \in SUBSET Nat
      OBVIOUS
    <2>1. PICK j \in Wrong : \A k \in Wrong : j <= k
      <3> HIDE DEF Wrong
      <3> QED
        BY <1>3, <2>0, Least
    <2>2. j # 0
      <3>1. After(kept, order, 0) = kept
        BY DEF After
      <3>2. Cardinality(kept) \in Nat
        BY CountType
      <3> QED
        BY <2>1, <3>1, <3>2
    <2>3. j \in 1..missing /\ j - 1 \in 0..missing /\ j - 1 \notin Wrong
      BY <2>1, <2>2
    <2>4. After(kept, order, j) = After(kept, order, j - 1) \cup {order[j]}
      <3>1. 1..j = (1..(j - 1)) \cup {j}
        BY <2>3
      <3> QED
        BY <3>1 DEF After
    <2>5. order[j] \notin After(kept, order, j - 1)
      BY <1>1, <2>3 DEF Candidates
    <2>6. IsFiniteSet(After(kept, order, j - 1))
      BY <1>2, <2>3, CountType
    <2>7. Cardinality(After(kept, order, j)) = Cardinality(After(kept, order, j - 1)) + 1
      BY <2>4, <2>5, <2>6, FS_AddElement
    <2>8. Cardinality(kept) \in Nat
      BY CountType
    <2> HIDE DEF Wrong
    <2>9. Cardinality(After(kept, order, j - 1)) = Cardinality(kept) + (j - 1)
      BY <2>3 DEF Wrong
    <2>10. Cardinality(After(kept, order, j)) = Cardinality(kept) + j
      BY <2>3, <2>7, <2>8, <2>9
    <2> QED
      BY <2>1, <2>10 DEF Wrong
  <1>4. i \notin Wrong
    BY <1>3
  <1> QED
    BY <1>2, <1>4

\* The second loop finds all the nodes that are missing if there are enough.
LEMMA OrderExists ==
  ASSUME NEW ready \in SUBSET Nodes, NEW kept \in SUBSET ready, NEW missing \in Nat,
         Cardinality(kept) + missing <= Cardinality(ready)
  PROVE  Orders(kept, ready, missing) # {}
  <1> DEFINE Stuck == {k \in 0..missing : Orders(kept, ready, k) = {}}
  <1>1. ASSUME Stuck # {}
        PROVE  FALSE
    <2>0. Stuck \in SUBSET Nat
      OBVIOUS
    <2>1. PICK k \in Stuck : \A l \in Stuck : k <= l
      <3> HIDE DEF Stuck
      <3> QED
        BY <1>1, <2>0, Least
    <2>2. k # 0
      <3> DEFINE none == [j \in 1..0 |-> 0]
      <3>1. none \in Orders(kept, ready, 0)
        BY DEF Orders
      <3> QED
        BY <2>1, <3>1
    <2>3. k \in 1..missing /\ k - 1 \in Nat /\ k - 1 \notin Stuck
      BY <2>1, <2>2
    <2>4. PICK order \in Orders(kept, ready, k - 1) : TRUE
      BY <2>3
    <2>5. /\ After(kept, order, k - 1) \in SUBSET ready
          /\ Cardinality(After(kept, order, k - 1)) = Cardinality(kept) + (k - 1)
      BY <2>3, AfterCount
    <2>6. After(kept, order, k - 1) # ready
      BY <2>3, <2>5, CountType
    <2>7. PICK n \in Candidates(ready, After(kept, order, k - 1)) : TRUE
      BY <2>5, <2>6, CandidateExists
    <2>8. n \in ready \ kept
      BY <2>7 DEF Candidates, After
    <2> DEFINE longer == [j \in 1..k |-> IF j = k THEN n ELSE order[j]]
    <2>9. order \in [1..(k - 1) -> ready \ kept]
      BY <2>4 DEF Orders
    <2>10. longer \in [1..k -> ready \ kept]
      BY <2>3, <2>8, <2>9
    <2>11. ASSUME NEW j \in 1..k
           PROVE  longer[j] \in Candidates(ready, After(kept, longer, j - 1))
      <3>1. \A l \in 1..(j - 1) : longer[l] = order[l]
        BY <2>3
      <3>2. After(kept, longer, j - 1) = After(kept, order, j - 1)
        BY <3>1 DEF After
      <3>3. CASE j = k
        BY <2>7, <3>2, <3>3
      <3>4. CASE j # k
        <4>1. j \in 1..(k - 1) /\ longer[j] = order[j]
          BY <2>3, <3>4
        <4> QED
          BY <2>4, <3>2, <4>1 DEF Orders
      <3> QED
        BY <3>3, <3>4
    <2>12. longer \in Orders(kept, ready, k)
      BY <2>10, <2>11 DEF Orders
    <2> QED
      BY <2>1, <2>12
  <1>2. missing \notin Stuck
    BY <1>1
  <1> QED
    BY <1>2

-----------------------------------------------------------------------------
(***************************************************************************)
(* The selection.                                                          *)
(***************************************************************************)

\* Nothing but ready nodes is selected.
LEMMA SelectionReady ==
  ASSUME NEW previous, NEW ready, NEW replicas,
         NEW s \in selectNodesByReplicas(previous, ready, replicas)
  PROVE  s \subseteq ready
  <1> DEFINE kept == KeepSelected(previous, ready, replicas)
             missing == replicas - Cardinality(kept)
  <1>1. kept \subseteq ready
    BY DEF KeepSelected, First
  <1>2. PICK order \in Orders(kept, ready, missing) : s = After(kept, order, missing)
    BY DEF selectNodesByReplicas
  <1> HIDE DEF kept, missing
  <1>3. \A i \in 1..missing : order[i] \in ready
    BY DEF Orders
  <1> QED
    BY <1>1, <1>2, <1>3 DEF After

\* What was selected and is ready stays, unless fewer nodes are asked for.
Sticks(previous, ready, s) == previous \cap ready \subseteq s \/ s \subseteq previous

LEMMA SelectionSound ==
  ASSUME NEW previous, NEW ready \in SUBSET Nodes, NEW replicas \in Nat,
         NEW s \in selectNodesByReplicas(previous, ready, replicas)
  PROVE  /\ s \in SUBSET ready /\ Cardinality(s) = replicas
         /\ KeepSelected(previous, ready, replicas) \subseteq s
         /\ Sticks(previous, ready, s)
  <1> DEFINE kept == KeepSelected(previous, ready, replicas)
             missing == replicas - Cardinality(kept)
  <1>1. /\ kept \in SUBSET (previous \cap ready) /\ Cardinality(kept) \in 0..replicas
        /\ kept = previous \cap ready \/ Cardinality(kept) = replicas
    BY KeepType
  <1>2. PICK order \in Orders(kept, ready, missing) : s = After(kept, order, missing)
    BY DEF selectNodesByReplicas
  <1> HIDE DEF kept
  <1>3. kept \in SUBSET ready /\ missing \in Nat /\ missing \in 0..missing
    BY <1>1
  <1>4. s \in SUBSET ready /\ Cardinality(s) = Cardinality(kept) + missing
    BY <1>2, <1>3, AfterCount
  <1>5. Cardinality(s) = replicas
    BY <1>1, <1>4
  <1>6. kept \subseteq s
    BY <1>2 DEF After
  <1>7. s \subseteq previous \/ kept = previous \cap ready
    <2> SUFFICES ASSUME Cardinality(kept) = replicas PROVE s = kept
      BY <1>1
    <2>1. IsFiniteSet(s)
      BY <1>4, CountType
    <2> QED
      BY <1>5, <1>6, <2>1, FS_Subset
  <1> QED
    BY <1>4, <1>5, <1>6, <1>7 DEF kept, Sticks

\* There is a selection whenever there are nodes enough.
LEMMA SelectionExists ==
  ASSUME NEW previous, NEW ready \in SUBSET Nodes, NEW replicas \in Nat,
         Cardinality(ready) >= replicas
  PROVE  selectNodesByReplicas(previous, ready, replicas) # {}
  <1> DEFINE kept == KeepSelected(previous, ready, replicas)
             missing == replicas - Cardinality(kept)
  <1>1. kept \in SUBSET ready /\ Cardinality(kept) \in 0..replicas
    BY KeepType
  <1> HIDE DEF kept
  <1>2. missing \in Nat /\ Cardinality(kept) + missing <= Cardinality(ready)
    BY <1>1, CountType
  <1>3. Orders(kept, ready, missing) # {}
    BY <1>1, <1>2, OrderExists
  <1>4. ~(Cardinality(ready) < replicas)
    BY CountType
  <1> QED
    BY <1>3, <1>4 DEF selectNodesByReplicas, kept

\* A selection that is complete and ready would be found again.
LEMMA SelectionStays ==
  ASSUME NEW ready \in SUBSET Nodes, NEW previous \in SUBSET ready,
         NEW replicas \in Nat, Cardinality(previous) = replicas
  PROVE  previous \in selectNodesByReplicas(previous, ready, replicas)
  <1>1. Cardinality(ready) >= replicas
    BY CountType, FS_Subset
  <1>2. PICK s : s \in selectNodesByReplicas(previous, ready, replicas)
    BY <1>1, SelectionExists
  <1>3. Cardinality(s) = replicas /\ Sticks(previous, ready, s)
    BY <1>2, SelectionSound
  <1>4. IsFiniteSet(s) /\ IsFiniteSet(previous)
    BY <1>2, SelectionReady, CountType
  <1>5. s = previous
    <2>1. CASE previous \subseteq s
      BY <1>3, <1>4, <2>1, FS_Subset
    <2>2. CASE s \subseteq previous
      BY <1>3, <1>4, <2>2, FS_Subset
    <2> QED
      BY <1>3, <2>1, <2>2 DEF Sticks
  <1> QED
    BY <1>2, <1>5

=============================================================================
