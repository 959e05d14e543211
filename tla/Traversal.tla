------------------------------- MODULE Traversal -------------------------------
(***************************************************************************)
(* Relationship.neighbors: breadth-first reachability in statements over     *)
(* chunks of the frontier, under budgets on examined edges and visited       *)
(* nodes, then the retrieval of the records found.  Another client deletes   *)
(* and connects records meanwhile; whether the traversal sees that depends   *)
(* on the scope it runs in.                                                 *)
(*                                                                         *)
(* Edges point the way the call walks them: a call with direction "in" is    *)
(* the same on the reversed relationship.                                   *)
(***************************************************************************)
EXTENDS Naturals, FiniteSets

CONSTANTS
  Nodes,                   \* the record IDs
  Depths, NodeBudgets, EdgeBudgets,      \* what callers ask for
  ChunkSize,               \* IDs per statement, 400 in the code
  MaxChanges,              \* bound on the other client's commits
  SnapshotScopes           \* whether the scope reads a snapshot: {TRUE} on
                           \* SQLite, FALSE in a write scope of PostgreSQL

ASSUME TraversalAssumption ==
  /\ Depths \cup NodeBudgets \cup EdgeBudgets \subseteq Nat \ {0}
  /\ ChunkSize \in Nat \ {0} /\ MaxChanges \in Nat
  /\ SnapshotScopes \subseteq BOOLEAN /\ IsFiniteSet(Nodes)

VARIABLES
  graph,           \* the committed target records and relationship rows
  changes,         \* how often the other client committed
  stable, view,    \* whether the scope keeps the graph of its first statement
  call,            \* the arguments, and whether both endpoints are one store
  pc, level,
  frontier, next,  \* what is left of the frontier of this hop, and the next one
  found,           \* per node: the hop it was found at, 0 when it was not
  examined,        \* the rows fetched
  retrieved,       \* the found records looked up
  missing,         \* those that were not there
  outcome

vars == <<graph, changes, stable, view, call, pc, level, frontier, next, found,
          examined, retrieved, missing, outcome>>

Graph == [records : SUBSET Nodes, edges : SUBSET (Nodes \X Nodes)]

TypeOK ==
  /\ graph \in Graph /\ view \in Graph /\ changes \in 0..MaxChanges
  /\ stable \in BOOLEAN
  /\ call \in [origin : Nodes, homogeneous : BOOLEAN, depth : Depths,
               maxNodes : NodeBudgets, maxEdges : EdgeBudgets]
  /\ pc \in {"walk", "retrieve", "done"} /\ level \in 1..call.depth
  /\ frontier \subseteq Nodes /\ next \subseteq Nodes
  /\ found \in [Nodes -> 0..call.depth] /\ examined \in Nat
  /\ missing \subseteq retrieved /\ retrieved \subseteq Nodes
  /\ outcome \in {"none", "neighbors", "limit", "key_error"}

-----------------------------------------------------------------------------
(* Forms of the definitions below that a mistake in the code would give;    *)
(* no specification uses them.                                              *)

CurrentGraph == graph

RowsPerStatement == call.maxEdges + 1

OriginNotSeen == {n \in Nodes : found[n] > 0}

-----------------------------------------------------------------------------
(* A relationship within one store also allows its origin among its targets. *)
Init ==
  /\ \E e \in SUBSET (Nodes \X Nodes) : graph = [records |-> Nodes, edges |-> e]
  /\ view = graph /\ changes = 0 /\ stable \in SnapshotScopes
  /\ call \in [origin : Nodes, homogeneous : BOOLEAN, depth : Depths,
               maxNodes : NodeBudgets, maxEdges : EdgeBudgets]
  /\ pc = "walk" /\ level = 1
  /\ frontier = {call.origin} /\ next = {}
  /\ found = [n \in Nodes |-> 0] /\ examined = 0
  /\ retrieved = {} /\ missing = {} /\ outcome = "none"

(* The graph a statement of the traversal reads.                            *)
Visible == IF stable THEN view ELSE graph

Found == {n \in Nodes : found[n] > 0}

(* The nodes not to be found again: with one store, the origin is one.      *)
Seen == IF call.homogeneous THEN Found \cup {call.origin} ELSE Found

(* The LIMIT of the next statement: one row beyond the budget tells.        *)
RowLimit == call.maxEdges - examined + 1

Chunks(ids) ==
  {c \in SUBSET ids : Cardinality(c) = IF Cardinality(ids) < ChunkSize
                                       THEN Cardinality(ids) ELSE ChunkSize}

Leaving(g, ids) == {e \in g.edges : e[1] \in ids}

Finish(how) == pc' = "done" /\ outcome' = how

(* Whether another hop follows the one just finished.                       *)
AnotherHop == level < call.depth

HopOf(n) == level

-----------------------------------------------------------------------------
(* The frontier is walked in the order its nodes were found; which chunk     *)
(* comes first decides the error raised at most.                            *)
ExamineChunk ==
  /\ pc = "walk" /\ frontier # {}
  /\ \E chunk \in Chunks(frontier) :
       LET rows == Leaving(Visible, chunk)
           fetched == IF Cardinality(rows) < RowLimit THEN Cardinality(rows) ELSE RowLimit
           new == {e[2] : e \in rows} \ Seen
       IN /\ examined' = examined + fetched
          /\ IF examined' > call.maxEdges \/ (new # {} /\ Cardinality(Found \cup new) + 1 > call.maxNodes)
               THEN Finish("limit") /\ UNCHANGED <<frontier, next, found>>
               ELSE /\ found' = [n \in Nodes |-> IF n \in new THEN HopOf(n) ELSE found[n]]
                    /\ next' = next \cup new
                    /\ frontier' = frontier \ chunk
                    /\ UNCHANGED <<pc, outcome>>
  /\ UNCHANGED <<graph, changes, stable, view, call, level, retrieved, missing>>

FinishHop ==
  /\ pc = "walk" /\ frontier = {}
  /\ IF next # {} /\ call.homogeneous /\ AnotherHop
       THEN level' = level + 1 /\ frontier' = next /\ next' = {} /\ UNCHANGED pc
       ELSE pc' = "retrieve" /\ UNCHANGED <<level, frontier, next>>
  /\ UNCHANGED <<graph, changes, stable, view, call, found, examined, retrieved, missing, outcome>>

RetrieveChunk ==
  /\ pc = "retrieve" /\ retrieved # Found
  /\ \E chunk \in Chunks(Found \ retrieved) :
       /\ retrieved' = retrieved \cup chunk
       /\ missing' = missing \cup (chunk \ Visible.records)
  /\ UNCHANGED <<graph, changes, stable, view, call, pc, level, frontier, next, found,
                 examined, outcome>>

(* The list of neighbors looks every found ID up among the records.         *)
Answer ==
  /\ pc = "retrieve" /\ retrieved = Found
  /\ Finish(IF missing = {} THEN "neighbors" ELSE "key_error")
  /\ UNCHANGED <<graph, changes, stable, view, call, level, frontier, next, found,
                 examined, retrieved, missing>>

-----------------------------------------------------------------------------
(* The other client.  A record is deleted with its incident links, which     *)
(* cascade or were disconnected before.                                     *)
Change(g) ==
  /\ changes < MaxChanges /\ changes' = changes + 1
  /\ pc # "done" /\ graph' = g
  /\ UNCHANGED <<stable, view, call, pc, level, frontier, next, found, examined,
                 retrieved, missing, outcome>>

DeleteRecord(n) ==
  /\ n \in graph.records
  /\ Change([records |-> graph.records \ {n},
             edges |-> {e \in graph.edges : e[2] # n /\ (call.homogeneous => e[1] # n)}])

Connect(source, target) ==
  /\ target \in graph.records /\ (call.homogeneous => source \in graph.records)
  /\ <<source, target>> \notin graph.edges
  /\ Change([graph EXCEPT !.edges = @ \cup {<<source, target>>}])

-----------------------------------------------------------------------------
Next ==
  \/ ExamineChunk
  \/ FinishHop
  \/ RetrieveChunk
  \/ Answer
  \/ \E n \in Nodes : DeleteRecord(n)
  \/ \E n, m \in Nodes : Connect(n, m)

Spec == Init /\ [][Next]_vars

-----------------------------------------------------------------------------
(* The reference: the nodes within k hops of the origin in the graph of the  *)
(* scope's snapshot.  With two stores the second hop has nowhere to start.   *)
Hops == IF call.homogeneous THEN call.depth ELSE 1

Within == LET reached[k \in 0..Hops] ==
                IF k = 0 THEN {call.origin}
                ELSE reached[k - 1] \cup {e[2] : e \in Leaving(view, reached[k - 1])}
          IN reached

Reachable == IF call.homogeneous THEN Within[Hops] \ {call.origin}
             ELSE {e[2] : e \in Leaving(view, {call.origin})}

(* neighbors returns exactly the nodes reachable within the depth in one     *)
(* snapshot, each once at its least distance and with its record, cycles,    *)
(* self-links, chunks and concurrent commits notwithstanding.               *)
NeighborsExact ==
  stable /\ pc = "done" /\ outcome # "limit" =>
    /\ outcome = "neighbors" /\ Found = Reachable
    /\ call.homogeneous => \A n \in Found : n \in Within[found[n]] \ Within[found[n] - 1]

(* TraversalLimitError is raised exactly when the nodes within the depth and  *)
(* the origin, or the edges leaving the nodes the depth makes it expand, are  *)
(* more than the budget; a budget reached exactly is enough.                *)
BudgetsExact ==
  stable /\ pc = "done" =>
    (outcome = "limit" <=>
       \/ Cardinality(Leaving(view, Within[Hops - 1])) > call.maxEdges
       \/ Cardinality(Reachable) + 1 > call.maxNodes)

(* Whatever the graph, a call fetches one row beyond its budget at most.     *)
WorkBounded == examined <= call.maxEdges + 1

(* Every neighbor found is answered with its record: the call does not end   *)
(* in a KeyError.                                                           *)
EveryNeighborHasItsRecord == outcome # "key_error"
=============================================================================
