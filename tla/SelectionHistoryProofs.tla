------------------------ MODULE SelectionHistoryProofs ------------------------
(***************************************************************************)
(* The selections of an ImagePrefetch stick to nodes and spread over zones *)
(* as evenly as any, for any nodes, zones and numbers of replicas.         *)
(***************************************************************************)
EXTENDS SelectionHistory, NodeSelectionProofs

TypeInv ==
    /\ ready \in SUBSET Nodes /\ replicas \in Nat \ {0}
    /\ selected \in SUBSET Nodes /\ observed \in BOOLEAN

\* The selection is for the number of replicas it was reported for.
Complete == observed /\ selected # {} => Cardinality(selected) = replicas

HistoryInv == TypeInv /\ Complete

LEMMA HistoryInit == Init => HistoryInv
  <1> SUFFICES ASSUME Init PROVE HistoryInv
    OBVIOUS
  <1>1. ready \in SUBSET Nodes /\ replicas \in Nat \ {0} /\ selected \in SUBSET Nodes
    BY DEF Init
  <1>2. observed \in BOOLEAN /\ ~observed
    BY DEF Init
  <1> QED
    BY <1>1, <1>2 DEF HistoryInv, TypeInv, Complete

LEMMA InputType ==
  ASSUME HistoryInv, Next
  PROVE  ready' \in SUBSET Nodes /\ replicas' \in Nat \ {0} /\ Reconcile
  BY ReplicasAssumption
  DEF HistoryInv, TypeInv, Next, NodeReady, NodeNotReady, Scale

\* selectTargetNodes saves itself a selection that would change nothing.
LEMMA ReconcileSelects ==
  ASSUME HistoryInv, Next
  PROVE  \/ selected' \in selectNodesByReplicas(selected, ready', replicas') /\ observed'
         \/ /\ selected' = selected /\ observed' = (observed /\ replicas' = replicas)
            /\ ~(Cardinality(ready') >= replicas')
  <1> DEFINE results == selectNodesByReplicas(selected, ready', replicas')
  <1>1. ready' \in SUBSET Nodes /\ replicas' \in Nat \ {0} /\ Reconcile
    BY InputType
  <1>2. /\ ~Object.allNodes /\ Object.replicas = replicas' /\ Object.selected = selected
        /\ Object.observed = Object.generation => observed /\ replicas' = replicas
    BY DEF Object
  <1>3. CASE isNeedNodeSelection(Object, ready')
    <2>1. selectTargetNodes(Object, ready') = results
      BY <1>1, <1>2, <1>3 DEF selectTargetNodes
    <2>2. results = {} => ~(Cardinality(ready') >= replicas')
      BY <1>1, SelectionExists
    <2> QED
      BY <1>1, <2>1, <2>2 DEF Reconcile
  <1>4. CASE ~isNeedNodeSelection(Object, ready')
    <2>1. selected' = selected /\ observed'
      BY <1>1, <1>2, <1>4 DEF Reconcile, selectTargetNodes
    <2>2. selected \in SUBSET ready' /\ Cardinality(selected) = replicas'
      BY <1>2, <1>4 DEF isNeedNodeSelection, HistoryInv, Complete
    <2>3. selected \in results
      BY <1>1, <2>2, SelectionStays
    <2> QED
      BY <2>1, <2>3
  <1> QED
    BY <1>3, <1>4

LEMMA HistoryStep == HistoryInv /\ [Next]_vars => HistoryInv'
  <1> SUFFICES ASSUME HistoryInv, Next PROVE HistoryInv'
    BY DEF HistoryInv, TypeInv, Complete, vars
  <1>1. ready' \in SUBSET Nodes /\ replicas' \in Nat \ {0}
    BY InputType
  <1>2. ASSUME selected' \in selectNodesByReplicas(selected, ready', replicas')
        PROVE  selected' \in SUBSET Nodes /\ Cardinality(selected') = replicas'
    BY <1>1, <1>2, SelectionSound
  <1>3. observed' \in BOOLEAN
    BY DEF Next, NodeReady, NodeNotReady, Scale, Reconcile
  <1>4. selected' \in SUBSET Nodes /\ Complete'
    BY <1>2, ReconcileSelects DEF HistoryInv, TypeInv, Complete
  <1> QED
    BY <1>1, <1>3, <1>4 DEF HistoryInv, TypeInv

(***************************************************************************)
(* Whenever there are ready nodes enough selectTargetNodes finds as many   *)
(* as asked for, whatever order its sort puts them in, and no node it had  *)
(* selected before makes room for another one.                             *)
(***************************************************************************)
THEOREM SelectionSticks == Spec => SelectionSticky
  <1>1. ASSUME HistoryInv, Next, Cardinality(ready') >= replicas'
        PROVE  /\ selected' \subseteq ready' /\ Cardinality(selected') = replicas'
               /\ selected \cap ready' \subseteq selected' \/ selected' \subseteq selected
    BY <1>1, InputType, ReconcileSelects, SelectionSound DEF Sticks
  <1> QED
    BY <1>1, HistoryInit, HistoryStep, PTL DEF Spec, SelectionSticky

-----------------------------------------------------------------------------
(***************************************************************************)
(* What the candidates' order is for: no node that was added is in a zone  *)
(* that is used more than one over that of a node left out.                *)
(***************************************************************************)

Even(s, kept, nodes) ==
    \A a \in s \ kept, b \in nodes \ s : scoreNode(a, s) <= scoreNode(b, s) + 1

LEMMA SelectionEven ==
  ASSUME NEW nodes \in SUBSET Nodes, NEW kept \in SUBSET nodes, NEW missing \in Nat,
         NEW order \in Orders(kept, nodes, missing)
  PROVE  Even(After(kept, order, missing), kept, nodes)
  <1> DEFINE s == After(kept, order, missing)
  <1> SUFFICES ASSUME NEW a \in s \ kept, NEW b \in nodes \ s
               PROVE  scoreNode(a, s) <= scoreNode(b, s) + 1
    BY DEF Even
  <1>1. /\ order \in [1..missing -> nodes \ kept]
        /\ \A j \in 1..missing : order[j] \in Candidates(nodes, After(kept, order, j - 1))
    BY DEF Orders
  \* The last round that took a node of a's zone.
  <1> DEFINE Back == {k \in Nat : /\ missing - k \in 1..missing
                                  /\ Zone[order[missing - k]] = Zone[a]}
  <1>2. Back \in SUBSET Nat /\ Back # {}
    <2>1. PICK j \in 1..missing : a = order[j]
      BY DEF After
    <2>2. missing - j \in Back
      BY <2>1
    <2> QED
      BY <2>2
  <1>3. PICK k \in Back : \A l \in Back : k <= l
    <2> HIDE DEF Back
    <2> QED
      BY <1>2, Least
  <1> DEFINE i == missing - k
             before == After(kept, order, i - 1)
             zone(S) == {m \in S : Zone[m] = Zone[a]}
  <1>4. i \in 1..missing /\ Zone[order[i]] = Zone[a]
    BY <1>3
  <1>5. ASSUME NEW j \in 1..missing, i < j
        PROVE  Zone[order[j]] # Zone[a]
    <2> SUFFICES ASSUME Zone[order[j]] = Zone[a] PROVE FALSE
      OBVIOUS
    <2>1. missing - j \in Back
      BY <1>5
    <2>2. k <= missing - j /\ k \in Nat
      BY <1>3, <2>1
    <2> QED
      BY <1>5, <2>2
  <1> HIDE DEF Back
  <1>6. zone(s) = zone(before) \cup {order[i]}
    <2>1. ASSUME NEW m \in s, Zone[m] = Zone[a], m # order[i]
          PROVE  m \in before
      <3>1. CASE m \in kept
        BY <3>1 DEF After
      <3>2. CASE m \notin kept
        <4>1. PICK j \in 1..missing : m = order[j]
          BY <3>2 DEF After
        <4>2. j \in 1..(i - 1)
          BY <1>4, <1>5, <2>1, <4>1
        <4> QED
          BY <4>1, <4>2 DEF After
      <3> QED
        BY <3>1, <3>2
    <2>2. before \subseteq s /\ order[i] \in s
      BY <1>4 DEF After
    <2> QED
      BY <1>4, <2>1, <2>2
  <1>7. order[i] \in Candidates(nodes, before) /\ before \in SUBSET nodes /\ before \subseteq s
    <2>1. i - 1 \in 0..missing
      BY <1>4
    <2>2. before \in SUBSET nodes
      BY <2>1, AfterCount
    <2>3. before \subseteq s
      BY <1>4 DEF After
    <2> QED
      BY <1>1, <1>4, <2>2, <2>3
  <1>8. scoreNode(a, s) = scoreNode(a, before) + 1
    <2>1. order[i] \notin zone(before)
      BY <1>7 DEF Candidates
    <2>2. zone(before) \in SUBSET Nodes
      BY <1>7
    <2>3. Cardinality(zone(before) \cup {order[i]}) = Cardinality(zone(before)) + 1
      BY <2>1, <2>2, CountType, FS_AddElement
    <2> QED
      BY <1>6, <2>3 DEF scoreNode
  <1>9. scoreNode(a, before) = scoreNode(order[i], before)
    BY <1>4 DEF scoreNode
  <1>10. scoreNode(order[i], before) <= scoreNode(b, before)
    <2>1. b \in nodes \ before
      BY <1>7
    <2> QED
      BY <1>7, <2>1 DEF Candidates
  <1>11. scoreNode(b, before) <= scoreNode(b, s)
    <2>1. missing \in 0..missing
      OBVIOUS
    <2>2. s \in SUBSET Nodes
      BY <2>1, AfterCount
    <2> QED
      BY <1>7, <2>2, ScoreGrows
  <1>12. /\ scoreNode(a, before) \in Nat /\ scoreNode(order[i], before) \in Nat
         /\ scoreNode(b, before) \in Nat /\ scoreNode(b, s) \in Nat
    <2>1. missing \in 0..missing
      OBVIOUS
    <2>2. s \in SUBSET Nodes
      BY <2>1, AfterCount
    <2> QED
      BY <1>7, <2>2, ScoreType
  <1> HIDE DEF s, i, before
  <1> QED
    BY <1>8, <1>9, <1>10, <1>11, <1>12

-----------------------------------------------------------------------------
(***************************************************************************)
(* Why that is best: any selection can be turned into such a one, a node   *)
(* at a time, without becoming less even.                                  *)
(***************************************************************************)

LEMMA PairsType ==
  ASSUME NEW S \in SUBSET Nodes
  PROVE  IsFiniteSet(ZonePairs(S)) /\ Imbalance(S) \in Nat
  <1>1. IsFiniteSet(S \X S)
    BY CountType, FS_Product
  <1>2. IsFiniteSet(ZonePairs(S))
    BY <1>1, FS_Subset DEF ZonePairs
  <1> QED
    BY <1>2, FS_CardinalityType DEF Imbalance

LEMMA DisjointCount ==
  ASSUME NEW S, NEW T, IsFiniteSet(S), IsFiniteSet(T), S \cap T = {}
  PROVE  IsFiniteSet(S \cup T) /\ Cardinality(S \cup T) = Cardinality(S) + Cardinality(T)
  <1>1. /\ IsFiniteSet(S \cup T)
        /\ Cardinality(S \cup T) = Cardinality(S) + Cardinality(T) - Cardinality(S \cap T)
    BY FS_Union
  <1>2. Cardinality(S \cap T) = 0 /\ Cardinality(S) \in Nat /\ Cardinality(T) \in Nat
    BY FS_EmptySet, FS_CardinalityType
  <1> QED
    BY <1>1, <1>2

\* A node that is added pairs with those of its zone, both ways, and with itself.
LEMMA AddedPairs ==
  ASSUME NEW S \in SUBSET Nodes, NEW n \in Nodes \ S
  PROVE  Imbalance(S \cup {n}) = Imbalance(S) + 2 * scoreNode(n, S) + 1
  <1> DEFINE same == {m \in S : Zone[m] = Zone[n]}
             to   == same \X {n}
             from == {n} \X (same \cup {n})
  <1>1. ZonePairs(S \cup {n}) = (ZonePairs(S) \cup to) \cup from
    <2>1. ASSUME NEW pair \in ZonePairs(S \cup {n})
          PROVE  pair \in (ZonePairs(S) \cup to) \cup from
      <3>1. PICK k \in S \cup {n}, l \in S \cup {n} : pair = <<k, l>> /\ Zone[k] = Zone[l]
        BY DEF ZonePairs
      <3>2. CASE k = n
        BY <3>1, <3>2
      <3>3. CASE k # n /\ l = n
        BY <3>1, <3>3
      <3>4. CASE k # n /\ l # n
        BY <3>1, <3>4 DEF ZonePairs
      <3> QED
        BY <3>2, <3>3, <3>4
    <2>2. ASSUME NEW pair \in (ZonePairs(S) \cup to) \cup from
          PROVE  pair \in ZonePairs(S \cup {n})
      BY DEF ZonePairs
    <2> QED
      BY <2>1, <2>2
  <1>2. ZonePairs(S) \cap to = {} /\ (ZonePairs(S) \cup to) \cap from = {}
    BY DEF ZonePairs
  <1>3. IsFiniteSet(same) /\ Cardinality(same) \in Nat
    BY CountType
  <1>4. Cardinality(same \cup {n}) = Cardinality(same) + 1 /\ IsFiniteSet(same \cup {n})
    BY <1>3, FS_AddElement
  <1>5. IsFiniteSet({n}) /\ Cardinality({n}) = 1
    BY FS_Singleton
  <1>6. IsFiniteSet(ZonePairs(S)) /\ Cardinality(ZonePairs(S)) \in Nat
    BY PairsType DEF Imbalance
  <1> HIDE DEF same
  <1>7. IsFiniteSet(to) /\ Cardinality(to) = Cardinality(same) * 1
    BY <1>3, <1>5, FS_Product
  <1>8. IsFiniteSet(from) /\ Cardinality(from) = 1 * (Cardinality(same) + 1)
    <2>1. IsFiniteSet(from) /\ Cardinality(from) = Cardinality({n}) * Cardinality(same \cup {n})
      BY <1>4, <1>5, FS_Product
    <2> QED
      BY <1>4, <1>5, <2>1
  <1> HIDE DEF to, from
  <1>9. /\ IsFiniteSet(ZonePairs(S) \cup to)
        /\ Cardinality(ZonePairs(S) \cup to) = Cardinality(ZonePairs(S)) + Cardinality(to)
    BY <1>2, <1>6, <1>7, DisjointCount
  <1>10. Cardinality(ZonePairs(S \cup {n})) = Cardinality(ZonePairs(S) \cup to) + Cardinality(from)
    BY <1>1, <1>2, <1>8, <1>9, DisjointCount
  <1>11. scoreNode(n, S) = Cardinality(same)
    BY DEF scoreNode, same
  <1> QED
    BY <1>3, <1>6, <1>7, <1>8, <1>9, <1>10, <1>11 DEF Imbalance

\* A node is exchanged for one of its zone, or of a zone used less.
LEMMA Exchange ==
  ASSUME NEW t \in SUBSET Nodes, NEW a \in Nodes \ t, NEW b \in t,
         Zone[a] = Zone[b] \/ scoreNode(a, t) + 1 <= scoreNode(b, t)
  PROVE  Imbalance((t \ {b}) \cup {a}) <= Imbalance(t)
  <1> DEFINE u == t \ {b}
  <1>1. u \in SUBSET Nodes /\ a \in Nodes \ u /\ b \in Nodes \ u /\ t = u \cup {b}
    OBVIOUS
  <1>2. /\ scoreNode(a, u) \in Nat /\ scoreNode(b, u) \in Nat
        /\ scoreNode(a, t) \in Nat /\ Imbalance(u) \in Nat
    BY <1>1, ScoreType, PairsType
  <1>3. scoreNode(a, u) <= scoreNode(b, u)
    <2>1. CASE Zone[a] = Zone[b]
      BY <1>2, <2>1 DEF scoreNode
    <2>2. CASE scoreNode(a, t) + 1 <= scoreNode(b, t)
      <3>1. scoreNode(a, u) <= scoreNode(a, t)
        BY ScoreGrows
      <3>2. {m \in t : Zone[m] = Zone[b]} = {m \in u : Zone[m] = Zone[b]} \cup {b}
        OBVIOUS
      <3>3. IsFiniteSet({m \in u : Zone[m] = Zone[b]}) /\ b \notin {m \in u : Zone[m] = Zone[b]}
        BY CountType
      <3>4. scoreNode(b, t) = scoreNode(b, u) + 1
        BY <3>2, <3>3, FS_AddElement DEF scoreNode
      <3> QED
        BY <1>2, <2>2, <3>1, <3>4
    <2> QED
      BY <2>1, <2>2
  <1> HIDE DEF u
  <1>4. /\ Imbalance(u \cup {b}) = Imbalance(u) + 2 * scoreNode(b, u) + 1
        /\ Imbalance(u \cup {a}) = Imbalance(u) + 2 * scoreNode(a, u) + 1
    BY <1>1, AddedPairs
  <1>5. Imbalance(u \cup {a}) <= Imbalance(u \cup {b})
    BY <1>2, <1>3, <1>4
  <1> QED
    BY <1>1, <1>5 DEF u

\* Of two selections, one of them even, there is such an exchange in the other.
LEMMA Exchangeable ==
  ASSUME NEW nodes \in SUBSET Nodes, NEW kept \in SUBSET nodes,
         NEW s \in SUBSET nodes, NEW t \in SUBSET nodes, kept \subseteq s, kept \subseteq t,
         Even(s, kept, nodes), Cardinality(s) = Cardinality(t), s # t
  PROVE  \E a \in s \ t, b \in t \ s :
            Zone[a] = Zone[b] \/ scoreNode(a, t) + 1 <= scoreNode(b, t)
  <1>1. PICK a \in s \ t : TRUE
    BY CountType, FS_Subset
  <1>2. PICK b \in t \ s : TRUE
    BY CountType, FS_Subset
  <1>3. CASE \E c \in s \ t, d \in t \ s : Zone[c] = Zone[d]
    BY <1>3
  <1>4. CASE \A c \in s \ t, d \in t \ s : Zone[c] # Zone[d]
    <2> DEFINE zone(n, S) == {m \in S : Zone[m] = Zone[n]}
    <2>1. scoreNode(a, t) + 1 <= scoreNode(a, s)
      <3>1. zone(a, t) \cup {a} \in SUBSET zone(a, s) /\ a \notin zone(a, t)
        BY <1>4
      <3>2. IsFiniteSet(zone(a, t)) /\ IsFiniteSet(zone(a, s))
        BY CountType
      <3>3. Cardinality(zone(a, t) \cup {a}) = Cardinality(zone(a, t)) + 1
        BY <3>1, <3>2, FS_AddElement
      <3>4. Cardinality(zone(a, t) \cup {a}) <= Cardinality(zone(a, s))
        BY <3>1, <3>2, FS_Subset
      <3> QED
        BY <3>3, <3>4 DEF scoreNode
    <2>2. scoreNode(b, s) + 1 <= scoreNode(b, t)
      <3>1. zone(b, s) \cup {b} \in SUBSET zone(b, t) /\ b \notin zone(b, s)
        BY <1>4
      <3>2. IsFiniteSet(zone(b, s)) /\ IsFiniteSet(zone(b, t))
        BY CountType
      <3>3. Cardinality(zone(b, s) \cup {b}) = Cardinality(zone(b, s)) + 1
        BY <3>1, <3>2, FS_AddElement
      <3>4. Cardinality(zone(b, s) \cup {b}) <= Cardinality(zone(b, t))
        BY <3>1, <3>2, FS_Subset
      <3> QED
        BY <3>3, <3>4 DEF scoreNode
    <2>3. scoreNode(a, s) <= scoreNode(b, s) + 1
      BY <1>1, <1>2 DEF Even
    <2>4. /\ scoreNode(a, s) \in Nat /\ scoreNode(b, s) \in Nat
          /\ scoreNode(a, t) \in Nat /\ scoreNode(b, t) \in Nat
      BY ScoreType
    <2>5. scoreNode(a, t) + 1 <= scoreNode(b, t)
      BY <2>1, <2>2, <2>3, <2>4
    <2> QED
      BY <2>5
  <1> QED
    BY <1>3, <1>4

LEMMA EvenIsBest ==
  ASSUME NEW nodes \in SUBSET Nodes, NEW kept \in SUBSET nodes,
         NEW s \in SUBSET nodes, kept \subseteq s, Even(s, kept, nodes),
         NEW t \in SUBSET nodes, kept \subseteq t, Cardinality(s) = Cardinality(t)
  PROVE  Imbalance(s) <= Imbalance(t)
  <1> DEFINE Better == {u \in SUBSET nodes : /\ kept \subseteq u
                                             /\ Cardinality(s) = Cardinality(u)
                                             /\ ~(Imbalance(s) <= Imbalance(u))}
             Distances == {Cardinality(u \ s) : u \in Better}
  <1>1. ASSUME Better # {}
        PROVE  FALSE
    <2>1. Distances \in SUBSET Nat /\ Distances # {}
      BY <1>1, CountType
    <2>2. PICK distance \in Distances : \A other \in Distances : distance <= other
      <3> HIDE DEF Distances
      <3> QED
        BY <2>1, Least
    <2>3. PICK u \in Better : distance = Cardinality(u \ s)
      OBVIOUS
    <2>4. u # s
      BY <2>3, PairsType
    <2>5. PICK a \in s \ u, b \in u \ s :
             Zone[a] = Zone[b] \/ scoreNode(a, u) + 1 <= scoreNode(b, u)
      BY <2>3, <2>4, Exchangeable
    <2> DEFINE v == (u \ {b}) \cup {a}
    <2>6. v \in SUBSET nodes /\ kept \subseteq v
      BY <2>3, <2>5
    <2>7. Cardinality(v) = Cardinality(u)
      <3>1. IsFiniteSet(u) /\ Cardinality(u) \in Nat
        BY <2>3, CountType
      <3>2. IsFiniteSet(u \ {b}) /\ Cardinality(u \ {b}) = Cardinality(u) - 1
        BY <2>5, <3>1, FS_RemoveElement
      <3>3. Cardinality(v) = Cardinality(u \ {b}) + 1
        BY <2>5, <3>2, FS_AddElement
      <3> QED
        BY <3>1, <3>2, <3>3
    <2>8. ~(Imbalance(s) <= Imbalance(v))
      <3>1. Imbalance(v) <= Imbalance(u)
        BY <2>3, <2>5, Exchange
      <3>2. Imbalance(v) \in Nat /\ Imbalance(u) \in Nat /\ Imbalance(s) \in Nat
        BY <2>3, <2>6, PairsType
      <3>3. ~(Imbalance(s) <= Imbalance(u))
        BY <2>3
      <3> HIDE DEF v
      <3> QED
        BY <3>1, <3>2, <3>3
    <2>9. v \in Better
      BY <2>3, <2>6, <2>7, <2>8
    <2>10. Cardinality(v \ s) = Cardinality(u \ s) - 1 /\ Cardinality(u \ s) \in Nat
      <3> DEFINE far == u \ s
      <3>1. v \ s = far \ {b} /\ b \in far
        BY <2>5
      <3>2. IsFiniteSet(far) /\ Cardinality(far) \in Nat
        BY <2>3, CountType
      <3> HIDE DEF far, v
      <3>3. Cardinality(far \ {b}) = Cardinality(far) - 1
        BY <3>1, <3>2, FS_RemoveElement
      <3> QED
        BY <3>1, <3>2, <3>3 DEF far
    <2>11. distance <= Cardinality(v \ s)
      BY <2>2, <2>9
    <2> HIDE DEF v
    <2> QED
      BY <2>3, <2>10, <2>11
  <1>2. t \notin Better
    BY <1>1
  <1> QED
    BY <1>2

(***************************************************************************)
(* The selections of selectNodesByReplicas are as evenly spread over the   *)
(* zones as any that keep the same nodes: taking nodes one at a time, each *)
(* from a zone that is used least then, never takes a wrong one.           *)
(***************************************************************************)
THEOREM ZonesAreBalanced == Spec => ZonesBalanced
  <1>1. ASSUME HistoryInv, Next, Cardinality(ready') >= replicas',
               NEW t \in Alternatives(KeepSelected(selected, ready', replicas'))
        PROVE  Imbalance(selected') <= Imbalance(t)
    <2> DEFINE kept == KeepSelected(selected, ready', replicas')
               missing == replicas' - Cardinality(kept)
    <2>1. /\ ready' \in SUBSET Nodes /\ replicas' \in Nat
          /\ selected' \in selectNodesByReplicas(selected, ready', replicas')
      BY <1>1, InputType, ReconcileSelects
    <2>2. /\ selected' \in SUBSET ready' /\ Cardinality(selected') = replicas'
          /\ kept \subseteq selected'
      BY <2>1, SelectionSound
    <2>3. PICK order \in Orders(kept, ready', missing) : selected' = After(kept, order, missing)
      BY <2>1 DEF selectNodesByReplicas
    <2>4. kept \in SUBSET ready' /\ missing \in Nat
      <3>1. kept \in SUBSET ready' /\ Cardinality(kept) \in 0..replicas'
        BY <2>1, KeepType
      <3> HIDE DEF kept
      <3> QED
        BY <2>1, <3>1
    <2>5. Even(selected', kept, ready')
      <3> HIDE DEF kept, missing
      <3> QED
        BY <2>1, <2>3, <2>4, SelectionEven
    <2>6. t \in SUBSET ready' /\ kept \subseteq t /\ Cardinality(t) = replicas'
      BY <1>1 DEF Alternatives
    <2> HIDE DEF kept
    <2> QED
      BY <2>1, <2>2, <2>4, <2>5, <2>6, EvenIsBest
  <1>2. ASSUME HistoryInv, Next, Cardinality(ready') >= replicas'
        PROVE  LET kept == KeepSelected(selected, ready', replicas')
               IN  \A s \in Alternatives(kept) : Imbalance(selected') <= Imbalance(s)
    BY <1>1, <1>2
  <1> QED
    BY <1>2, HistoryInit, HistoryStep, PTL DEF Spec, ZonesBalanced

=============================================================================
