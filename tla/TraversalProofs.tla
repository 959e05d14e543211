---------------------------- MODULE TraversalProofs ----------------------------
(***************************************************************************)
(* Relationship.neighbors returns exactly the nodes within reach and refuses *)
(* exactly what exceeds its budgets, for every finite graph, depth, budget    *)
(* and chunk size, and however another client changes the graph while the    *)
(* scope reads a snapshot.                                                   *)
(*                                                                         *)
(* The invariant compares the traversal with the recursive function Within:   *)
(* PastInv says what the finished hops have found, HopInv what the chunks of   *)
(* the hop in progress have, BudgetInv what both have spent.                  *)
(***************************************************************************)
EXTENDS Traversal, FiniteSetTheorems, WellFoundedInduction, TLAPS

-----------------------------------------------------------------------------
(* Induction over the naturals, from the least counterexample.              *)
LEMMA Least ==
  ASSUME NEW T, T \subseteq Nat, T # {}
  PROVE  \E n \in T : \A m \in T : n <= m
<1> DEFINE R == OpToRel(<, Nat)
<1>1. \A a, b \in Nat : a < b => <<a, b>> \in R
  BY DEF OpToRel
<1>2. IsWellFoundedOn(R, Nat)
  BY NatLessThanWellFounded
<1> HIDE DEF R
<1>3. PICK n \in T : \A m \in T : <<m, n>> \notin R
  BY <1>2, WFMin
<1>4. \A m \in T : n <= m
  <2> TAKE m \in T
  <2>1. m \in Nat /\ n \in Nat OBVIOUS
  <2>2. ~(m < n) BY <1>1, <1>3, <2>1
  <2> QED BY <2>1, <2>2
<1> QED BY <1>4

LEMMA Induction ==
  ASSUME NEW S, 0 \in S, \A n \in Nat : n \in S => n + 1 \in S
  PROVE  Nat \subseteq S
<1> DEFINE T == Nat \ S
<1> SUFFICES ASSUME T # {} PROVE FALSE OBVIOUS
<1>1. T \subseteq Nat OBVIOUS
<1> HIDE DEF T
<1>2. PICK n \in T : \A m \in T : n <= m BY <1>1, Least
<1>3. n \in Nat /\ n # 0 /\ n - 1 \in Nat /\ n - 1 \in S BY <1>2 DEF T
<1> QED BY <1>3 DEF T

-----------------------------------------------------------------------------
(* The reference: what is within k edges of the origin.                     *)

(* The nodes that the edges leaving some nodes lead to.                     *)
Targets(ids) == {e[2] : e \in Leaving(view, ids)}

(* The recursive function satisfies its equation.                           *)
LEMMA WithinUnfolds ==
  ASSUME Hops \in Nat
  PROVE  /\ DOMAIN Within = 0..Hops
         /\ \A k \in 0..Hops : Within[k] = IF k = 0 THEN {call.origin}
                                ELSE Within[k - 1] \cup Targets(Within[k - 1])
<1> DEFINE Body(r, k) == IF k = 0 THEN {call.origin}
                         ELSE r[k - 1] \cup Targets(r[k - 1])
           Solves(r, n) == r = [k \in 0..n |-> Body(r, k)]
           S == {n \in Nat : \E r : Solves(r, n)}
<1>1. 0 \in S
  <2> DEFINE r == [k \in 0..0 |-> {call.origin}]
  <2>1. Solves(r, 0) OBVIOUS
  <2> QED BY <2>1
<1>2. \A n \in Nat : n \in S => n + 1 \in S
  <2> SUFFICES ASSUME NEW n \in Nat, n \in S PROVE n + 1 \in S
    OBVIOUS
  <2>0. PICK r : Solves(r, n) OBVIOUS
  <2> DEFINE s == [k \in 0..(n + 1) |-> IF k = n + 1 THEN r[n] \cup Targets(r[n]) ELSE r[k]]
  <2>1. \A k \in 0..n : s[k] = r[k] OBVIOUS
  <2>2. \A k \in 0..n : r[k] = Body(r, k)  BY <2>0
  <2>3. \A k \in 0..(n + 1) : s[k] = Body(s, k)
    <3> TAKE k \in 0..(n + 1)
    <3> HIDE DEF Solves, s
    <3>1. CASE k = n + 1
      BY <3>1, <2>1 DEF s
    <3>2. CASE k \in 0..n
      <4>1. s[k] = Body(r, k) BY <3>2, <2>1, <2>2
      <4>2. k # 0 => k - 1 \in 0..n BY <3>2
      <4> QED BY <4>1, <4>2, <2>1
    <3> QED BY <3>1, <3>2
  <2>4. s = [k \in 0..(n + 1) |-> s[k]] OBVIOUS
  <2> HIDE DEF s, Body
  <2>5. Solves(s, n + 1) BY <2>3, <2>4
  <2> HIDE DEF Solves
  <2> QED BY <2>5
<1> HIDE DEF S
<1>3. Hops \in S BY <1>1, <1>2, Induction
<1>4. \E r : Solves(r, Hops) BY <1>3 DEF S
<1>5. Within = CHOOSE r : Solves(r, Hops) BY Zenon DEF Within, Targets
<1>6. Solves(Within, Hops) BY <1>4, <1>5, Zenon
<1> QED BY <1>6

(* The same function of a graph, an origin and a number of hops: as long as   *)
(* these stay so does the reference.                                        *)
WithinOf(g, o, h) ==
  LET reached[k \in 0..h] ==
        IF k = 0 THEN {o}
        ELSE reached[k - 1] \cup {e[2] : e \in Leaving(g, reached[k - 1])}
  IN reached

LEMMA WithinStable ==
  ASSUME view' = view, call' = call
  PROVE  Within' = Within /\ Hops' = Hops /\ Reachable' = Reachable
<1>1. Hops' = Hops BY DEF Hops
<1>2. Within = WithinOf(view, call.origin, Hops) BY Zenon DEF Within, WithinOf
<1>3. Within' = WithinOf(view', call'.origin, Hops') BY Zenon DEF Within, WithinOf
<1>4. Within' = Within BY <1>1, <1>2, <1>3
<1>5. Reachable' = Reachable BY <1>1, <1>4 DEF Reachable, Leaving
<1> QED BY <1>1, <1>4, <1>5

-----------------------------------------------------------------------------
LEMMA HopsType == TypeOK => Hops \in Nat \ {0}
BY TraversalAssumption DEF TypeOK, Hops

LEMMA WithinType ==
  ASSUME TypeOK
  PROVE  \A k \in 0..Hops : Within[k] \subseteq Nodes /\ call.origin \in Within[k]
<1> DEFINE S == {k \in Nat : k \in 0..Hops => Within[k] \subseteq Nodes /\ call.origin \in Within[k]}
<1>1. \A ids : Targets(ids) \subseteq Nodes
  BY DEF Targets, Leaving, TypeOK, Graph
<1>2. 0 \in S /\ \A n \in Nat : n \in S => n + 1 \in S
  <2>1. call.origin \in Nodes BY DEF TypeOK
  <2>2. 0 \in S BY <2>1, WithinUnfolds, HopsType
  <2>3. ASSUME NEW n \in Nat, n \in S, n + 1 \in 0..Hops
        PROVE  Within[n + 1] \subseteq Nodes /\ call.origin \in Within[n + 1]
    <3>1. n \in 0..Hops /\ Within[n] \subseteq Nodes /\ call.origin \in Within[n]
      BY <2>3, HopsType
    <3>2. Within[n + 1] = Within[n] \cup Targets(Within[n])
      BY <2>3, WithinUnfolds, HopsType
    <3> QED BY <3>1, <3>2, <1>1
  <2> QED BY <2>2, <2>3
<1> HIDE DEF S
<1>3. Nat \subseteq S BY <1>2, Induction
<1> QED BY <1>3, HopsType DEF S

(* The next hop adds the targets of this one.                               *)
LEMMA WithinNext ==
  ASSUME TypeOK, NEW k \in 1..Hops
  PROVE  Within[k] = Within[k - 1] \cup Targets(Within[k - 1])
BY WithinUnfolds, HopsType

LEMMA WithinGrows ==
  ASSUME TypeOK, NEW k \in 0..Hops
  PROVE  \A j \in k..Hops : Within[k] \subseteq Within[j]
<1> DEFINE S == {i \in Nat : k + i <= Hops => Within[k] \subseteq Within[k + i]}
<1>1. 0 \in S OBVIOUS
<1>2. \A n \in Nat : n \in S => n + 1 \in S
  <2> SUFFICES ASSUME NEW n \in Nat, n \in S, k + (n + 1) <= Hops
               PROVE  Within[k] \subseteq Within[k + (n + 1)]
    OBVIOUS
  <2>1. Within[k] \subseteq Within[k + n] BY HopsType
  <2>2. k + (n + 1) \in 1..Hops /\ (k + (n + 1)) - 1 = k + n BY HopsType
  <2>3. Within[k + (n + 1)] = Within[k + n] \cup Targets(Within[k + n])
    BY <2>2, WithinNext
  <2> QED BY <2>1, <2>3
<1> HIDE DEF S
<1>3. Nat \subseteq S BY <1>1, <1>2, Induction
<1>4. ASSUME NEW j \in k..Hops PROVE Within[k] \subseteq Within[j]
  <2>1. j - k \in S /\ k + (j - k) = j BY <1>3, HopsType
  <2> QED BY <2>1, HopsType DEF S
<1> QED BY <1>4

(* A hop that finds nothing new is the last one to find anything.            *)
LEMMA WithinSettles ==
  ASSUME TypeOK, NEW k \in 0..Hops, Targets(Within[k]) \subseteq Within[k]
  PROVE  \A j \in k..Hops : Within[j] = Within[k]
<1> DEFINE S == {i \in Nat : k + i <= Hops => Within[k + i] = Within[k]}
<1>1. 0 \in S OBVIOUS
<1>2. \A n \in Nat : n \in S => n + 1 \in S
  <2> SUFFICES ASSUME NEW n \in Nat, n \in S, k + (n + 1) <= Hops
               PROVE  Within[k + (n + 1)] = Within[k]
    OBVIOUS
  <2>1. Within[k + n] = Within[k] BY HopsType
  <2>2. k + (n + 1) \in 1..Hops /\ (k + (n + 1)) - 1 = k + n BY HopsType
  <2>3. Within[k + (n + 1)] = Within[k + n] \cup Targets(Within[k + n])
    BY <2>2, WithinNext
  <2> QED BY <2>1, <2>3
<1> HIDE DEF S
<1>3. Nat \subseteq S BY <1>1, <1>2, Induction
<1>4. ASSUME NEW j \in k..Hops PROVE Within[j] = Within[k]
  <2>1. j - k \in S /\ k + (j - k) = j BY <1>3, HopsType
  <2> QED BY <2>1, HopsType DEF S
<1> QED BY <1>4

-----------------------------------------------------------------------------
(* The nodes whose edges have been examined while the level-th hop is walked. *)
Expanded == Within[level - 1] \ frontier

(* What a hop does not find again: with one store, what earlier ones did.    *)
Excluded == IF call.homogeneous THEN Within[level - 1] ELSE {}

PhaseInv ==
  /\ pc = "done" <=> outcome # "none"
  /\ view.records = Nodes
  /\ ~call.homogeneous => level = 1
  /\ pc = "walk" => missing = {}

WorkInv == WorkBounded /\ (pc = "walk" => examined <= call.maxEdges)

(* A hop in progress has found the targets of the nodes it has expanded.     *)
HopInv ==
  stable /\ pc = "walk" =>
    /\ level \in 1..Hops /\ frontier \subseteq Within[level - 1]
    /\ next = Targets(Expanded) \ Excluded
    /\ \A n \in Nodes : found[n] <= level /\ (found[n] = level <=> n \in next)

(* The hops before it have found every node at its distance.                 *)
PastInv ==
  stable /\ pc = "walk" =>
    \A n \in Nodes :
      /\ found[n] \in 1..(level - 1) <=> n \in Within[level - 1] \ {call.origin}
      /\ found[n] \in 1..(level - 1) => n \in Within[found[n]] \ Within[found[n] - 1]

BudgetInv ==
  stable /\ pc = "walk" =>
    examined = Cardinality(Leaving(view, Expanded)) /\ Cardinality(Found) + 1 <= call.maxNodes

WithinBudgets ==
  /\ Cardinality(Leaving(view, Within[Hops - 1])) <= call.maxEdges
  /\ Cardinality(Reachable) + 1 <= call.maxNodes

ResultInv ==
  stable /\ (pc = "retrieve" \/ outcome \in {"neighbors", "key_error"}) =>
    /\ Found = Reachable /\ WithinBudgets /\ missing = {} /\ outcome # "key_error"
    /\ call.homogeneous => \A n \in Found : n \in Within[found[n]] \ Within[found[n] - 1]

LimitInv == stable /\ outcome = "limit" => ~WithinBudgets

TInv == TypeOK /\ PhaseInv /\ WorkInv /\ HopInv /\ PastInv /\ BudgetInv /\ ResultInv /\ LimitInv

(* Finitely many edges leave any nodes; of disjoint sets of them the sum.     *)
LEMMA LeavingFinite ==
  ASSUME NEW g \in Graph, NEW ids
  PROVE  /\ IsFiniteSet(Leaving(g, ids)) /\ Cardinality(Leaving(g, ids)) \in Nat
<1>1. IsFiniteSet(Nodes \X Nodes) BY FS_Product, TraversalAssumption
<1>2. Leaving(g, ids) \subseteq Nodes \X Nodes BY DEF Leaving, Graph
<1> QED BY <1>1, <1>2, FS_Subset, FS_CardinalityType

LEMMA LeavingAdds ==
  ASSUME NEW g \in Graph, NEW a, NEW b, a \cap b = {}
  PROVE  Cardinality(Leaving(g, a \cup b)) = Cardinality(Leaving(g, a)) + Cardinality(Leaving(g, b))
<1>1. Leaving(g, a \cup b) = Leaving(g, a) \cup Leaving(g, b) BY DEF Leaving
<1>2. Leaving(g, a) \cap Leaving(g, b) = {} BY DEF Leaving
<1>3. Cardinality(Leaving(g, a) \cap Leaving(g, b)) = 0 BY <1>2, FS_EmptySet
<1>4. Cardinality(Leaving(g, a \cup b))
        = Cardinality(Leaving(g, a)) + Cardinality(Leaving(g, b))
          - Cardinality(Leaving(g, a) \cap Leaving(g, b))
  BY <1>1, LeavingFinite, FS_Union
<1> QED BY <1>3, <1>4, LeavingFinite

LEMMA LeavingGrows ==
  ASSUME NEW g \in Graph, NEW a, NEW b, a \subseteq b
  PROVE  Cardinality(Leaving(g, a)) <= Cardinality(Leaving(g, b))
<1>1. Leaving(g, a) \subseteq Leaving(g, b) BY DEF Leaving
<1> QED BY <1>1, LeavingFinite, FS_Subset

LEMMA NodesFinite ==
  ASSUME NEW a, a \subseteq Nodes
  PROVE  /\ IsFiniteSet(a) /\ Cardinality(a) \in Nat
         /\ \A b \in SUBSET a : Cardinality(b) <= Cardinality(a)
BY FS_Subset, FS_CardinalityType, TraversalAssumption

LEMMA TInit == Init => TInv
<1> SUFFICES ASSUME Init PROVE TInv OBVIOUS
<1>1. TypeOK
  BY TraversalAssumption DEF Init, TypeOK, Graph
<1>2. Hops \in Nat \ {0} /\ Within[0] = {call.origin}
  BY <1>1, HopsType, WithinUnfolds
<1>3. Expanded = {} /\ Targets(Expanded) = {} /\ Leaving(view, Expanded) = {} /\ Found = {}
  BY <1>2 DEF Init, Expanded, Targets, Leaving, Found
<1>4. PhaseInv /\ WorkInv /\ ResultInv /\ LimitInv
  BY <1>1, TraversalAssumption DEF Init, PhaseInv, WorkInv, WorkBounded, ResultInv, LimitInv, TypeOK
<1>5. HopInv /\ PastInv
  BY <1>2, <1>3 DEF Init, HopInv, PastInv
<1>6. BudgetInv
  <2>1. Cardinality(Leaving(view, Expanded)) = 0 /\ Cardinality(Found) = 0
    BY <1>3, FS_EmptySet
  <2>2. call.maxNodes \in Nat \ {0} BY <1>1, TraversalAssumption DEF TypeOK
  <2> QED BY <2>1, <2>2 DEF Init, BudgetInv
<1> QED BY <1>1, <1>4, <1>5, <1>6 DEF TInv

-----------------------------------------------------------------------------

Rows(chunk) == Leaving(Visible, chunk)

Fetched(chunk) == IF Cardinality(Rows(chunk)) < RowLimit THEN Cardinality(Rows(chunk)) ELSE RowLimit

New(chunk) == {e[2] : e \in Rows(chunk)} \ Seen

Examined(chunk) ==
  /\ chunk \subseteq frontier /\ pc = "walk" /\ examined' = examined + Fetched(chunk)
  /\ UNCHANGED <<graph, changes, stable, view, call, level, retrieved, missing>>

GivesUp(chunk) ==
  /\ examined' > call.maxEdges \/ (New(chunk) # {} /\ Cardinality(Found \cup New(chunk)) + 1 > call.maxNodes)
  /\ pc' = "done" /\ outcome' = "limit" /\ UNCHANGED <<frontier, next, found>>

GoesOn(chunk) ==
  /\ ~(examined' > call.maxEdges)
  /\ New(chunk) = {} \/ ~(Cardinality(Found \cup New(chunk)) + 1 > call.maxNodes)
  /\ found' = [n \in Nodes |-> IF n \in New(chunk) THEN level ELSE found[n]]
  /\ next' = next \cup New(chunk) /\ frontier' = frontier \ chunk
  /\ UNCHANGED <<pc, outcome>>

(* The cases of a chunk: its rows exceed a budget, or the hop goes on.       *)
LEMMA ExamineCases ==
  ASSUME ExamineChunk
  PROVE  \E chunk : Examined(chunk) /\ (GivesUp(chunk) \/ GoesOn(chunk))
BY DEF ExamineChunk, Examined, GivesUp, GoesOn, Fetched, New, Rows, HopOf, Finish, Chunks

(* Everything found so far is what the reference has at the hops before and    *)
(* the targets of this one.                                                 *)
LEMMA FoundSoFar ==
  ASSUME TInv, stable, pc = "walk"
  PROVE  /\ level \in 1..Hops /\ Hops \in Nat \ {0}
         /\ Within[level - 1] \subseteq Nodes /\ call.origin \in Within[level - 1]
         /\ Within[level] = Within[level - 1] \cup Targets(Within[level - 1])
         /\ ~call.homogeneous => Within[level - 1] = {call.origin} /\ level = 1
         /\ Found = (Within[level - 1] \ {call.origin}) \cup next
<1>1. TypeOK /\ level \in 1..Hops /\ Hops \in Nat \ {0} /\ \A n \in Nodes : found[n] \in Nat
  BY HopsType DEF TInv, TypeOK, HopInv
<1>2. level - 1 \in 0..Hops BY <1>1
<1>3. /\ Within[level - 1] \subseteq Nodes /\ call.origin \in Within[level - 1]
      /\ Within[level] = Within[level - 1] \cup Targets(Within[level - 1])
  BY <1>1, <1>2, WithinType, WithinNext
<1>4. ~call.homogeneous => Within[level - 1] = {call.origin} /\ level = 1
  BY <1>1, WithinUnfolds DEF TInv, PhaseInv
<1>5. \A n \in Nodes : found[n] > 0 <=> found[n] \in 1..(level - 1) \/ found[n] = level
  BY <1>1 DEF TInv, HopInv
<1>6. Found = (Within[level - 1] \ {call.origin}) \cup next
  BY <1>1, <1>3, <1>5 DEF TInv, TypeOK, HopInv, PastInv, Found
<1> QED BY <1>1, <1>3, <1>4, <1>6

(* The LIMIT cuts a statement short only when the budget is exceeded.         *)
LEMMA FetchedBounded ==
  ASSUME TInv, NEW chunk, Examined(chunk)
  PROVE  /\ Cardinality(Rows(chunk)) \in Nat /\ New(chunk) \subseteq Nodes
         /\ examined' \in Nat /\ examined' <= call.maxEdges + 1
         /\ examined' <= call.maxEdges => examined' = examined + Cardinality(Rows(chunk))
         /\ examined' > call.maxEdges => examined + Cardinality(Rows(chunk)) > call.maxEdges
<1>1. Cardinality(Rows(chunk)) \in Nat /\ New(chunk) \subseteq Nodes
  <2>1. Visible \in Graph BY DEF Visible, TInv, TypeOK
  <2> QED BY <2>1, LeavingFinite DEF Leaving, Graph, Rows, New
<1>2. call.maxEdges \in Nat /\ examined \in Nat /\ examined <= call.maxEdges
  BY TraversalAssumption DEF TInv, TypeOK, WorkInv, Examined
<1>3. RowLimit \in Nat /\ examined + RowLimit = call.maxEdges + 1 BY <1>2 DEF RowLimit
<1>4. examined' = examined + Fetched(chunk) BY DEF Examined
<1>5. \/ Fetched(chunk) = Cardinality(Rows(chunk)) /\ Cardinality(Rows(chunk)) < RowLimit
      \/ Fetched(chunk) = RowLimit /\ Cardinality(Rows(chunk)) >= RowLimit
  BY <1>1, <1>3 DEF Fetched
<1> QED BY <1>1, <1>2, <1>3, <1>4, <1>5

(* A chunk keeps the types and the bound on the work, whatever graph it reads. *)
LEMMA ExamineType ==
  ASSUME TInv, NEW chunk, Examined(chunk), GivesUp(chunk) \/ GoesOn(chunk)
  PROVE  TypeOK' /\ PhaseInv' /\ WorkInv'
<1>1. New(chunk) \subseteq Nodes /\ examined' \in Nat /\ examined' <= call.maxEdges + 1
  BY FetchedBounded
<1>2. call.maxEdges \in Nat /\ call.depth \in Nat \ {0} /\ level \in 0..call.depth
  BY TraversalAssumption DEF TInv, TypeOK
<1>3. CASE GivesUp(chunk)
  BY <1>1, <1>2, <1>3 DEF TInv, TypeOK, PhaseInv, WorkInv, WorkBounded, Examined, GivesUp
<1>4. CASE GoesOn(chunk)
  <2>1. found' \in [Nodes -> 0..call.depth]
    <3>1. found \in [Nodes -> 0..call.depth] BY DEF TInv, TypeOK
    <3> QED BY <1>4, <1>2, <3>1 DEF GoesOn
  <2> QED BY <1>1, <1>2, <1>4, <2>1 DEF TInv, TypeOK, PhaseInv, WorkInv, WorkBounded, Examined, GoesOn
<1> QED BY <1>3, <1>4

(* The chunk is disjoint from what was expanded, and joins it.               *)
LEMMA ExaminedMore ==
  ASSUME TInv, stable, NEW chunk, Examined(chunk)
  PROVE  /\ Rows(chunk) = Leaving(view, chunk)
         /\ New(chunk) = Targets(chunk) \ Seen
         /\ Seen = Excluded \cup next
         /\ Excluded \cap next = {}
         /\ Targets(Expanded \cup chunk) = Targets(Expanded) \cup Targets(chunk)
         /\ Expanded \cup chunk \subseteq Within[level - 1]
         /\ Cardinality(Leaving(view, Expanded \cup chunk)) = examined + Cardinality(Rows(chunk))
         /\ Found \cap next = next /\ next \subseteq Found
<1>1. Rows(chunk) = Leaving(view, chunk) BY DEF Rows, Visible
<1>2. New(chunk) = Targets(chunk) \ Seen BY <1>1 DEF New, Targets
<1>3. pc = "walk" /\ chunk \subseteq frontier BY DEF Examined
<1>4. Found = (Within[level - 1] \ {call.origin}) \cup next
  BY <1>3, FoundSoFar
<1>5. Seen = Excluded \cup next
  BY <1>3, <1>4, FoundSoFar DEF Seen, Excluded
<1>6. Targets(Expanded \cup chunk) = Targets(Expanded) \cup Targets(chunk)
  BY DEF Targets, Leaving
<1>7. Expanded \cup chunk \subseteq Within[level - 1] /\ Expanded \cap chunk = {}
  BY <1>3 DEF TInv, HopInv, Expanded
<1>8. Cardinality(Leaving(view, Expanded \cup chunk)) = examined + Cardinality(Rows(chunk))
  <2>1. view \in Graph BY DEF TInv, TypeOK
  <2> QED BY <1>1, <1>3, <1>7, <2>1, LeavingAdds DEF TInv, BudgetInv
<1> QED BY <1>1, <1>2, <1>3, <1>4, <1>5, <1>6, <1>7, <1>8 DEF TInv, HopInv

LEMMA FoundIsReachable ==
  ASSUME TInv, stable, NEW chunk, Examined(chunk)
  PROVE  /\ Found \cup New(chunk) \subseteq Reachable
         /\ Within[level - 1] \subseteq Within[Hops - 1]
<1>1. /\ pc = "walk" /\ TypeOK /\ level \in 1..Hops /\ Hops \in Nat \ {0}
      /\ call.origin \in Within[level - 1]
      /\ chunk \subseteq Within[level - 1] /\ Expanded \subseteq Within[level - 1]
      /\ next = Targets(Expanded) \ Excluded
      /\ Within[level] = Within[level - 1] \cup Targets(Within[level - 1])
      /\ Found = (Within[level - 1] \ {call.origin}) \cup next
  BY FoundSoFar DEF TInv, HopInv, Examined, Expanded
<1>2. /\ Within[level] \subseteq Within[Hops] /\ Within[level - 1] \subseteq Within[Hops - 1]
  <2>1. level \in 0..Hops /\ level - 1 \in 0..Hops /\ Hops \in level..Hops /\ Hops - 1 \in (level - 1)..Hops
    BY <1>1
  <2> QED BY <1>1, <2>1, WithinGrows
<1>3. /\ New(chunk) \subseteq Targets(Within[level - 1]) /\ next \subseteq Targets(Within[level - 1])
      /\ New(chunk) \cap Seen = {}
  <2>1. New(chunk) = Targets(chunk) \ Seen BY ExaminedMore
  <2>2. \A ids : ids \subseteq Within[level - 1] => Targets(ids) \subseteq Targets(Within[level - 1])
    BY DEF Targets, Leaving
  <2> QED BY <1>1, <2>1, <2>2
<1>4. CASE call.homogeneous
  BY <1>1, <1>2, <1>3, <1>4 DEF Reachable, Seen, Excluded
<1>5. CASE ~call.homogeneous
  <2>1. Within[level - 1] = {call.origin}
    BY <1>1, <1>5, FoundSoFar
  <2> QED BY <1>1, <1>2, <1>3, <1>5, <2>1 DEF Reachable, Targets
<1> QED BY <1>2, <1>4, <1>5

LEMMA GivesUpStep ==
  ASSUME TInv, NEW chunk, Examined(chunk), GivesUp(chunk)
  PROVE  TInv'
<1>1. TypeOK' /\ PhaseInv' /\ WorkInv' BY ExamineType
<1>2. HopInv' /\ PastInv' /\ BudgetInv' /\ ResultInv'
  BY DEF GivesUp, HopInv, PastInv, BudgetInv, ResultInv
<1>3. ASSUME stable PROVE ~WithinBudgets
  <2>1. /\ call.maxEdges \in Nat /\ call.maxNodes \in Nat /\ examined \in Nat /\ view \in Graph
        /\ TypeOK /\ Hops \in Nat \ {0} /\ Reachable \subseteq Nodes
    <3>1. TypeOK BY DEF TInv
    <3>2. Reachable \subseteq Nodes
      BY <3>1, HopsType, WithinType DEF Reachable, TypeOK, Graph, Leaving
    <3> QED BY <3>1, <3>2, HopsType, TraversalAssumption DEF TypeOK
  <2>2. CASE examined' > call.maxEdges
    <3>1. Cardinality(Leaving(view, Expanded \cup chunk)) > call.maxEdges
      BY <1>3, <2>1, <2>2, FetchedBounded, ExaminedMore
    <3>2. Expanded \cup chunk \subseteq Within[Hops - 1]
      BY <1>3, ExaminedMore, FoundIsReachable
    <3> QED BY <2>1, <3>1, <3>2, LeavingGrows, LeavingFinite DEF WithinBudgets
  <2>3. CASE Cardinality(Found \cup New(chunk)) + 1 > call.maxNodes
    BY <1>3, <2>1, <2>3, FoundIsReachable, NodesFinite DEF WithinBudgets
  <2> QED BY <2>2, <2>3 DEF GivesUp
<1>4. LimitInv'
  <2>1. Within' = Within /\ Hops' = Hops /\ Reachable' = Reachable
    BY WithinStable DEF Examined
  <2>2. WithinBudgets' = WithinBudgets
    BY <2>1 DEF WithinBudgets, Leaving, Examined
  <2> QED BY <1>3, <2>2 DEF LimitInv, Examined
<1> QED BY <1>1, <1>2, <1>4 DEF TInv

LEMMA GoesOnStep ==
  ASSUME TInv, NEW chunk, Examined(chunk), GoesOn(chunk)
  PROVE  TInv'
<1>1. TypeOK' /\ PhaseInv' /\ WorkInv' BY ExamineType
<1>2. ResultInv' /\ LimitInv'
  BY DEF GoesOn, Examined, ResultInv, LimitInv, TInv, PhaseInv
<1>3. Within' = Within /\ Hops' = Hops /\ pc = "walk" /\ UNCHANGED <<stable, view, call, level, pc>>
  BY WithinStable DEF Examined, GoesOn
<1>4. ASSUME stable
      PROVE  HopInv' /\ PastInv' /\ BudgetInv'
  <2>1. /\ level \in 1..Hops /\ frontier \subseteq Within[level - 1]
        /\ next = Targets(Expanded) \ Excluded
        /\ \A n \in Nodes : found[n] \in Nat /\ found[n] <= level /\ (found[n] = level <=> n \in next)
    BY <1>3, <1>4 DEF TInv, TypeOK, HopInv
  <2>2. Expanded' = Expanded \cup chunk /\ Excluded' = Excluded
    BY <1>3, <2>1 DEF Expanded, Excluded, Examined, GoesOn
  <2>3. \A ids : Targets(ids)' = Targets(ids)
    BY <1>3 DEF Targets, Leaving
  <2>4. next' = Targets(Expanded \cup chunk) \ Excluded
    BY <1>4, <2>1, ExaminedMore DEF GoesOn
  <2>5. New(chunk) \cap Found = {} /\ New(chunk) \subseteq Nodes
    BY FetchedBounded DEF New, Seen
  <2>6. \A n \in Nodes : found'[n] = IF n \in New(chunk) THEN level ELSE found[n]
    BY DEF GoesOn
  <2>7. HopInv'
    <3>1. (Targets(Expanded))' = Targets(Expanded \cup chunk) BY <2>2, <1>3 DEF Targets, Leaving
    <3>2. \A n \in Nodes : found'[n] <= level /\ (found'[n] = level <=> n \in next')
      BY <2>1, <2>6 DEF GoesOn
    <3> QED BY <1>3, <2>1, <2>2, <2>4, <3>1, <3>2 DEF HopInv, GoesOn
  <2>8. PastInv'
    <3>1. \A n \in Nodes : (found'[n] \in 1..(level - 1) <=> found[n] \in 1..(level - 1))
                           /\ (found'[n] \in 1..(level - 1) => found'[n] = found[n])
      <4> TAKE n \in Nodes
      <4>1. n \in New(chunk) => found[n] = 0 BY <2>1, <2>5 DEF Found
      <4> QED BY <2>1, <2>6, <4>1
    <3> QED BY <1>3, <1>4, <3>1 DEF PastInv, TInv
  <2>9. BudgetInv'
    <3>1. examined' = Cardinality(Leaving(view, Expanded \cup chunk))
      <4>1. examined' <= call.maxEdges
        <5>1. examined' \in Nat /\ call.maxEdges \in Nat
          BY FetchedBounded, TraversalAssumption DEF TInv, TypeOK
        <5> QED BY <5>1 DEF GoesOn
      <4> QED BY <1>4, <4>1, FetchedBounded, ExaminedMore
    <3>2. Found' = Found \cup New(chunk)
      BY <2>1, <2>5, <2>6 DEF Found
    <3>3. Cardinality(Found \cup New(chunk)) + 1 <= call.maxNodes
      <4>1. Cardinality(Found \cup New(chunk)) \in Nat /\ call.maxNodes \in Nat
        BY <2>5, NodesFinite, TraversalAssumption DEF Found, TInv, TypeOK
      <4>2. CASE New(chunk) = {}
        BY <1>3, <1>4, <4>2 DEF TInv, BudgetInv
      <4>3. CASE New(chunk) # {}
        BY <4>1, <4>3 DEF GoesOn
      <4> QED BY <4>2, <4>3
    <3> QED BY <1>3, <2>2, <3>1, <3>2, <3>3 DEF BudgetInv, Leaving
  <2> QED BY <2>7, <2>8, <2>9
<1>5. ~stable => HopInv' /\ PastInv' /\ BudgetInv'
  BY <1>3 DEF HopInv, PastInv, BudgetInv
<1> QED BY <1>1, <1>2, <1>4, <1>5 DEF TInv

-----------------------------------------------------------------------------
LEMMA NextHopStep ==
  ASSUME TInv, pc = "walk", frontier = {}, call.homogeneous, AnotherHop,
         level' = level + 1, frontier' = next, next' = {}, UNCHANGED pc,
         UNCHANGED <<graph, changes, stable, view, call, found, examined, retrieved, missing, outcome>>
  PROVE  TInv'
<1>1. TypeOK' /\ PhaseInv' /\ WorkInv' /\ ResultInv' /\ LimitInv'
  <2>1. level' \in 1..call.depth
    BY TraversalAssumption DEF TInv, TypeOK, AnotherHop
  <2> QED BY <2>1 DEF TInv, TypeOK, PhaseInv, WorkInv, WorkBounded, ResultInv, LimitInv
<1>2. Within' = Within /\ Hops' = Hops /\ \A ids : Targets(ids)' = Targets(ids)
  BY WithinStable DEF Targets, Leaving
<1>3. ASSUME stable PROVE HopInv' /\ PastInv' /\ BudgetInv'
  <2>1. /\ Expanded = Within[level - 1] /\ next = Targets(Within[level - 1]) \ Within[level - 1]
        /\ Hops = call.depth /\ level + 1 \in 1..Hops /\ level \in Nat \ {0}
        /\ \A n \in Nodes : found[n] \in Nat /\ found[n] <= level /\ (found[n] = level <=> n \in next)
    BY <1>3, TraversalAssumption DEF TInv, TypeOK, HopInv, Expanded, Excluded, Hops, AnotherHop
  <2>2. /\ Within[level] = Within[level - 1] \cup next /\ call.origin \in Within[level - 1]
        /\ Within[level] \ next = Within[level - 1]
    BY <1>3, <2>1, FoundSoFar
  <2>3. Expanded' = Within[level - 1] /\ Excluded' = Within[level] /\ level' - 1 = level
    BY <1>2, <2>1, <2>2 DEF Expanded, Excluded
  <2>4. HopInv'
    <3>1. (Targets(Expanded))' = Targets(Within[level - 1]) BY <1>2, <2>3 DEF Targets, Leaving
    <3>2. (Targets(Expanded))' \ Excluded' = {} BY <2>1, <2>2, <2>3, <3>1
    <3>3. \A n \in Nodes : found[n] <= level + 1 /\ found[n] # level + 1 BY <2>1
    <3> QED BY <1>2, <2>1, <2>2, <2>3, <3>2, <3>3 DEF HopInv
  <2>5. PastInv'
    <3>1. ASSUME NEW n \in Nodes
          PROVE  /\ found[n] \in 1..level <=> n \in Within[level] \ {call.origin}
                 /\ found[n] \in 1..level => n \in Within[found[n]] \ Within[found[n] - 1]
      <4>1. found[n] \in 1..level <=> found[n] \in 1..(level - 1) \/ n \in next BY <2>1
      <4>2. n \in next => n \in Within[level] \ Within[level - 1] /\ found[n] = level
        BY <2>1, <2>2
      <4>3. /\ found[n] \in 1..(level - 1) <=> n \in Within[level - 1] \ {call.origin}
            /\ found[n] \in 1..(level - 1) => n \in Within[found[n]] \ Within[found[n] - 1]
        BY <1>3 DEF TInv, PastInv
      <4> QED BY <2>2, <4>1, <4>2, <4>3
    <3> QED BY <1>2, <2>3, <3>1 DEF PastInv
  <2>6. BudgetInv'
    BY <1>3, <2>1, <2>3 DEF TInv, BudgetInv, Leaving, Found
  <2> QED BY <2>4, <2>5, <2>6
<1>4. ~stable => HopInv' /\ PastInv' /\ BudgetInv'
  BY DEF HopInv, PastInv, BudgetInv
<1> QED BY <1>1, <1>3, <1>4 DEF TInv

(* When no hop follows, what has been found is what is in reach.             *)
LEMMA LastHop ==
  ASSUME TInv, stable, pc = "walk", frontier = {}, ~(next # {} /\ call.homogeneous /\ AnotherHop)
  PROVE  /\ Found = Reachable /\ WithinBudgets
         /\ call.homogeneous => \A n \in Found : n \in Within[found[n]] \ Within[found[n] - 1]
<1>1. /\ TypeOK /\ level \in 1..Hops /\ Hops \in Nat \ {0} /\ Expanded = Within[level - 1]
      /\ next = Targets(Within[level - 1]) \ Excluded
      /\ Within[level] = Within[level - 1] \cup Targets(Within[level - 1])
      /\ call.origin \in Within[level - 1]
      /\ Found = (Within[level - 1] \ {call.origin}) \cup next
      /\ examined = Cardinality(Leaving(view, Within[level - 1]))
      /\ examined <= call.maxEdges /\ Cardinality(Found) + 1 <= call.maxNodes
      /\ \A n \in Nodes : found[n] \in Nat /\ found[n] <= level /\ (found[n] = level <=> n \in next)
  BY FoundSoFar DEF TInv, TypeOK, HopInv, BudgetInv, WorkInv, Expanded
<1>2. Found = Reachable /\ Within[Hops - 1] = Within[level - 1]
  <2>1. CASE ~call.homogeneous
    <3>1. Within[level - 1] = {call.origin} /\ level = 1 /\ Hops = 1
      BY <1>1, <2>1, FoundSoFar DEF Hops
    <3> QED BY <1>1, <2>1, <3>1 DEF Reachable, Excluded, Targets
  <2>2. CASE call.homogeneous /\ next = {}
    <3>1. Targets(Within[level - 1]) \subseteq Within[level - 1] BY <1>1, <2>2 DEF Excluded
    <3>2. level - 1 \in 0..Hops /\ Hops \in (level - 1)..Hops /\ Hops - 1 \in (level - 1)..Hops
      BY <1>1
    <3>3. Within[Hops] = Within[level - 1] /\ Within[Hops - 1] = Within[level - 1]
      BY <1>1, <3>1, <3>2, WithinSettles
    <3> QED BY <1>1, <2>2, <3>3 DEF Reachable
  <2>3. CASE call.homogeneous /\ ~AnotherHop
    <3>1. level = Hops BY <1>1, <2>3, TraversalAssumption DEF Hops, AnotherHop, TypeOK
    <3> QED BY <1>1, <2>3, <3>1 DEF Reachable, Excluded
  <2> QED BY <2>1, <2>2, <2>3
<1>3. WithinBudgets BY <1>1, <1>2 DEF WithinBudgets
<1>4. ASSUME call.homogeneous, NEW n \in Found
      PROVE  n \in Within[found[n]] \ Within[found[n] - 1]
  <2>1. n \in Nodes /\ found[n] \in Nat /\ found[n] > 0 BY <1>1 DEF Found
  <2>2. CASE found[n] = level BY <1>1, <1>4, <2>1, <2>2 DEF Excluded
  <2>3. CASE found[n] \in 1..(level - 1) BY <2>1, <2>3 DEF TInv, PastInv
  <2> QED BY <1>1, <2>1, <2>2, <2>3
<1> QED BY <1>2, <1>3, <1>4

LEMMA FinishHopStep ==
  ASSUME TInv, FinishHop
  PROVE  TInv'
<1>1. /\ pc = "walk" /\ frontier = {}
      /\ UNCHANGED <<graph, changes, stable, view, call, found, examined, retrieved, missing, outcome>>
  BY DEF FinishHop
<1>2. CASE next # {} /\ call.homogeneous /\ AnotherHop
  BY <1>1, <1>2, NextHopStep DEF FinishHop
<1>3. CASE ~(next # {} /\ call.homogeneous /\ AnotherHop)
  <2>1. pc' = "retrieve" /\ UNCHANGED <<level, frontier, next>>
    BY <1>3 DEF FinishHop
  <2>2. TypeOK' /\ PhaseInv' /\ WorkInv' /\ HopInv' /\ PastInv' /\ BudgetInv' /\ LimitInv'
    BY <1>1, <2>1 DEF TInv, TypeOK, PhaseInv, WorkInv, WorkBounded, HopInv, PastInv, BudgetInv, LimitInv
  <2>3. ResultInv'
    <3>1. Within' = Within /\ Hops' = Hops /\ Reachable' = Reachable
      BY <1>1, WithinStable
    <3>2. Found' = Found /\ WithinBudgets' = WithinBudgets
      BY <1>1, <3>1 DEF Found, WithinBudgets, Leaving
    <3> QED BY <1>1, <1>3, <3>1, <3>2, LastHop DEF ResultInv, TInv, PhaseInv
  <2> QED BY <2>2, <2>3 DEF TInv
<1> QED BY <1>2, <1>3

(* What a result says does not depend on the steps that follow it.           *)
LEMMA ResultStays ==
  ASSUME UNCHANGED <<view, call, found>>
  PROVE  /\ Within' = Within /\ Hops' = Hops /\ Reachable' = Reachable
         /\ Found' = Found /\ WithinBudgets' = WithinBudgets
BY WithinStable DEF Found, WithinBudgets, Leaving

LEMMA RetrieveChunkStep ==
  ASSUME TInv, RetrieveChunk
  PROVE  TInv'
<1>1. PICK chunk \in Chunks(Found \ retrieved) :
        retrieved' = retrieved \cup chunk /\ missing' = missing \cup (chunk \ Visible.records)
  BY DEF RetrieveChunk
<1>2. /\ pc = "retrieve"
      /\ UNCHANGED <<graph, changes, stable, view, call, pc, level, frontier, next, found,
                     examined, outcome>>
  BY DEF RetrieveChunk
<1>3. chunk \subseteq Nodes BY <1>1 DEF Chunks, Found
<1>4. TypeOK' /\ PhaseInv' /\ WorkInv' /\ HopInv' /\ PastInv' /\ BudgetInv' /\ LimitInv'
  <2>1. TypeOK' BY <1>1, <1>2, <1>3 DEF TInv, TypeOK
  <2>2. PhaseInv' /\ WorkInv' /\ HopInv' /\ PastInv' /\ BudgetInv'
    BY <1>2 DEF TInv, PhaseInv, WorkInv, WorkBounded, HopInv, PastInv, BudgetInv
  <2>3. LimitInv' BY <1>2, ResultStays DEF TInv, LimitInv
  <2> QED BY <2>1, <2>2, <2>3
<1>5. ResultInv'
  <2>1. stable => missing' = missing
    BY <1>1, <1>3 DEF Visible, TInv, PhaseInv
  <2> QED BY <1>2, <2>1, ResultStays DEF TInv, ResultInv
<1> QED BY <1>4, <1>5 DEF TInv

LEMMA AnswerStep ==
  ASSUME TInv, Answer
  PROVE  TInv'
<1>1. /\ pc = "retrieve" /\ pc' = "done"
      /\ outcome' = IF missing = {} THEN "neighbors" ELSE "key_error"
      /\ UNCHANGED <<graph, changes, stable, view, call, level, frontier, next, found,
                     examined, retrieved, missing>>
  BY DEF Answer, Finish
<1>2. TypeOK' /\ PhaseInv' /\ WorkInv' /\ HopInv' /\ PastInv' /\ BudgetInv' /\ LimitInv'
  BY <1>1 DEF TInv, TypeOK, PhaseInv, WorkInv, WorkBounded, HopInv, PastInv, BudgetInv, LimitInv
<1>3. ResultInv'
  BY <1>1, ResultStays DEF TInv, ResultInv
<1> QED BY <1>2, <1>3 DEF TInv

(* A step that leaves the traversal alone.                                  *)
LEMMA QuietStep ==
  ASSUME TInv, TypeOK',
         UNCHANGED <<stable, view, call, pc, level, frontier, next, found, examined,
                     retrieved, missing, outcome>>
  PROVE  TInv'
<1>1. PhaseInv' /\ WorkInv' BY DEF TInv, PhaseInv, WorkInv, WorkBounded
<1>2. Within' = Within /\ Hops' = Hops /\ Expanded' = Expanded /\ Excluded' = Excluded
  BY ResultStays DEF Expanded, Excluded
<1>3. (Targets(Expanded))' = Targets(Expanded) /\ Leaving(view, Expanded)' = Leaving(view, Expanded)
  BY <1>2 DEF Targets, Leaving
<1>4. HopInv' /\ PastInv' BY <1>2, <1>3 DEF TInv, HopInv, PastInv
<1>5. BudgetInv' /\ ResultInv' /\ LimitInv'
  BY <1>3, ResultStays DEF TInv, BudgetInv, ResultInv, LimitInv
<1> QED BY <1>1, <1>4, <1>5 DEF TInv

(* The scope's snapshot is beyond the reach of the other client.             *)
LEMMA ChangeStep ==
  ASSUME TInv, NEW g \in Graph, Change(g)
  PROVE  TInv'
<1>1. /\ UNCHANGED <<stable, view, call, pc, level, frontier, next, found, examined,
                     retrieved, missing, outcome>>
      /\ graph' = g /\ changes' \in 0..MaxChanges
  BY TraversalAssumption DEF Change, TInv, TypeOK
<1>2. TypeOK' BY <1>1 DEF TInv, TypeOK
<1> QED BY <1>1, <1>2, QuietStep

LEMMA TStep == TInv /\ [Next]_vars => TInv'
<1> SUFFICES ASSUME TInv, [Next]_vars PROVE TInv' OBVIOUS
<1>1. CASE ExamineChunk BY <1>1, ExamineCases, GivesUpStep, GoesOnStep
<1>2. CASE FinishHop BY <1>2, FinishHopStep
<1>3. CASE RetrieveChunk BY <1>3, RetrieveChunkStep
<1>4. CASE Answer BY <1>4, AnswerStep
<1>5. ASSUME NEW n \in Nodes, DeleteRecord(n) PROVE TInv'
  <2> DEFINE g == [records |-> graph.records \ {n},
                   edges |-> {e \in graph.edges : e[2] # n /\ (call.homogeneous => e[1] # n)}]
  <2>1. g \in Graph BY DEF TInv, TypeOK, Graph
  <2>2. Change(g) BY <1>5 DEF DeleteRecord
  <2> QED BY <2>1, <2>2, ChangeStep
<1>6. ASSUME NEW n \in Nodes, NEW m \in Nodes, Connect(n, m) PROVE TInv'
  <2> DEFINE g == [graph EXCEPT !.edges = @ \cup {<<n, m>>}]
  <2>1. g \in Graph BY DEF TInv, TypeOK, Graph
  <2>2. Change(g) BY <1>6 DEF Connect
  <2> QED BY <2>1, <2>2, ChangeStep
<1>7. CASE UNCHANGED vars
  BY <1>7, QuietStep DEF vars, TInv, TypeOK
<1> QED BY <1>1, <1>2, <1>3, <1>4, <1>5, <1>6, <1>7 DEF Next

-----------------------------------------------------------------------------
LEMMA Traversed == Spec => []TInv
BY TInit, TStep, PTL DEF Spec

(* The variables of the traversal keep their types; no level lies beyond the  *)
(* depth the caller asked for.                                              *)
THEOREM TypeCorrect == Spec => []TypeOK
<1>1. TInv => TypeOK BY DEF TInv
<1> QED BY <1>1, Traversed, PTL

(* Whatever is inserted meanwhile, a traversal fetches at most one row more    *)
(* than max_edges, since each statement has what is left as its LIMIT.        *)
THEOREM WorkIsBounded == Spec => []WorkBounded
<1>1. TInv => WorkBounded BY DEF TInv, WorkInv
<1> QED BY <1>1, Traversed, PTL

(* In a scope with a snapshot the traversal answers with exactly the nodes   *)
(* within the depth, each with its distance, and never raises KeyError.       *)
THEOREM NeighborsAreExact == Spec => []NeighborsExact
<1>1. TInv => NeighborsExact
  BY DEF TInv, TypeOK, PhaseInv, ResultInv, NeighborsExact
<1> QED BY <1>1, Traversed, PTL

(* In a scope with a snapshot TraversalLimitError is raised if and only if the *)
(* edges examined before the last hop, or the nodes in reach, exceed what the *)
(* caller allowed, however frontiers are cut into chunks.                     *)
THEOREM BudgetsAreExact == Spec => []BudgetsExact
<1>1. TInv => BudgetsExact
  <2> SUFFICES ASSUME TInv, stable, pc = "done"
               PROVE  outcome = "limit" <=>
                        \/ Cardinality(Leaving(view, Within[Hops - 1])) > call.maxEdges
                        \/ Cardinality(Reachable) + 1 > call.maxNodes
    BY DEF BudgetsExact
  <2>1. /\ Cardinality(Leaving(view, Within[Hops - 1])) \in Nat
        /\ Cardinality(Reachable) \in Nat /\ call.maxEdges \in Nat /\ call.maxNodes \in Nat
    <3>1. TypeOK /\ view \in Graph BY DEF TInv, TypeOK
    <3>2. Reachable \subseteq Nodes
      BY <3>1, HopsType, WithinType DEF Reachable, TypeOK, Graph, Leaving
    <3> QED BY <3>1, <3>2, NodesFinite, LeavingFinite, TraversalAssumption DEF TypeOK
  <2> QED BY <2>1 DEF TInv, TypeOK, PhaseInv, ResultInv, LimitInv, WithinBudgets
<1> QED BY <1>1, Traversed, PTL
===============================================================================
