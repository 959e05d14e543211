--------------------------------- MODULE Records ---------------------------------
(***************************************************************************)
(* The rows of one table and the relationships between them, under several   *)
(* clients with transaction scopes: partial updates, deletion with its        *)
(* cascades and refusals, connect, disconnect and replace_properties, on      *)
(* SQLite and on PostgreSQL.                                                *)
(*                                                                         *)
(* Each operation is one statement, and one step.  Waiting for a lock is a    *)
(* step that is not enabled; an error poisons the scope, which then can only  *)
(* roll back.                                                               *)
(***************************************************************************)
EXTENDS Naturals

CONSTANTS
  Clients, Ids, Columns,
  Values,          \* of a column or of an edge's properties
  Blank,           \* the value of a column not given, and of no properties
  Cascading,       \* the relationships declared on_delete="cascade"
  Restricting,     \* and those declared "restrict"
  Plain,           \* the relationships declared without properties
  Pairs,           \* the links to consider
  MaxWrites,       \* bound on the statements that write in a scope
  Absent,          \* no row, no edge
  Untouched        \* a scope has not written here

Rels == Cascading \cup Restricting

ASSUME RecordsAssumption ==
  /\ Cascading \cap Restricting = {} /\ Plain \subseteq Rels
  /\ Pairs \subseteq Ids \X Ids
  /\ Blank \in Values /\ MaxWrites \in Nat
  /\ Absent # Untouched /\ {Absent, Untouched} \cap (Values \cup [Columns -> Values]) = {}

VARIABLES
  pg,              \* whether the backend is PostgreSQL
  rows,            \* committed: per ID a row or Absent
  edges,           \* committed: per relationship and pair its properties
  scope,           \* the clients in a write scope
  failed,          \* those whose scope is poisoned
  myRows, myEdges, \* per client: what its scope wrote
  writes           \* per client: statements of its scope that wrote

(* History: what the open scopes were asked to change.                      *)
VARIABLES
  assigned,        \* per client: the columns it set, with their rows
  unlinked         \* per client: the edges it disconnected

db == <<rows, edges>>
vars == <<pg, rows, edges, scope, failed, myRows, myEdges, writes, assigned, unlinked>>

Row == [Columns -> Values]
Links == Rels \X Pairs
NoRows == [i \in Ids |-> Untouched]
NoEdges == [l \in Links |-> Untouched]

TypeOK ==
  /\ pg \in BOOLEAN
  /\ rows \in [Ids -> Row \cup {Absent}] /\ edges \in [Links -> Values \cup {Absent}]
  /\ failed \subseteq scope /\ scope \subseteq Clients
  /\ ~pg => \A c, d \in scope : c = d
  /\ myRows \in [Clients -> [Ids -> Row \cup {Absent, Untouched}]]
  /\ myEdges \in [Clients -> [Links -> Values \cup {Absent, Untouched}]]
  /\ writes \in [Clients -> 0..MaxWrites]
  /\ assigned \in [Clients -> SUBSET (Ids \X Columns)] /\ unlinked \in [Clients -> SUBSET Links]

-----------------------------------------------------------------------------
(* Forms of the definitions below that a mistake in the code would give;    *)
(* no specification uses them.                                              *)

SourceOnly(pair) == {pair[1]}

AlwaysCascades(relationship) == "cascade"

WholeRow(old, changes) ==
  [col \in Columns |-> IF col \in DOMAIN changes THEN changes[col] ELSE Blank]

-----------------------------------------------------------------------------
Init ==
  /\ pg \in BOOLEAN
  /\ rows = [i \in Ids |-> Absent] /\ edges = [l \in Links |-> Absent]
  /\ scope = {} /\ failed = {}
  /\ myRows = [c \in Clients |-> NoRows] /\ myEdges = [c \in Clients |-> NoEdges]
  /\ writes = [c \in Clients |-> 0]
  /\ assigned = [c \in Clients |-> {}] /\ unlinked = [c \in Clients |-> {}]

Others(c) == Clients \ {c}

(* The write lock of SQLite; a write scope of PostgreSQL needs none and is   *)
(* READ COMMITTED.                                                          *)
MayBegin(c) == pg \/ scope = {}

RowSeen(c, i) == IF myRows[c][i] = Untouched THEN rows[i] ELSE myRows[c][i]
EdgeSeen(c, l) == IF myEdges[c][l] = Untouched THEN edges[l] ELSE myEdges[c][l]

(* The endpoints whose foreign keys the relationship's table declares.       *)
Endpoints(pair) == {pair[1], pair[2]}

Touches(l, i) == i \in Endpoints(l[2])

(* The row locks of PostgreSQL: a written row is locked; an edge that is      *)
(* inserted holds its endpoints against deletion.                           *)
RowFree(c, i) == \A d \in Others(c) : myRows[d][i] = Untouched
NotHeld(c, i) ==
  \A d \in Others(c), l \in Links : myEdges[d][l] \in {Absent, Untouched} \/ ~Touches(l, i)
EdgeFree(c, l) == \A d \in Others(c) : myEdges[d][l] = Untouched
NotGoing(c, i) == \A d \in Others(c) : myRows[d][i] # Absent

(* ON DELETE, as the foreign keys of the relationship have it.              *)
OnDelete(relationship) == IF relationship \in Cascading THEN "cascade" ELSE "restrict"

(* The edges that touch a record, of the relationships with this policy.     *)
Attached(c, i, policy) ==
  {l \in Links : OnDelete(l[1]) = policy /\ Touches(l, i) /\ EdgeSeen(c, l) # Absent}

(* UPDATE names the changed columns and no other.                           *)
Updated(old, changes) ==
  [col \in Columns |-> IF col \in DOMAIN changes THEN changes[col] ELSE old[col]]

Changes == UNION {[cols -> Values] : cols \in SUBSET Columns}

(* A statement that writes, in a scope that is open and sound.              *)
Writes(c) ==
  /\ c \in scope \ failed /\ writes[c] < MaxWrites
  /\ writes' = [writes EXCEPT ![c] = @ + 1]
  /\ UNCHANGED <<pg, db, scope>>

Fail(c) == failed' = failed \cup {c} /\ UNCHANGED <<myRows, myEdges, assigned, unlinked>>

PutRow(c, i, row, columns) ==
  /\ myRows' = [myRows EXCEPT ![c][i] = row]
  /\ assigned' = [assigned EXCEPT ![c] = @ \cup {i} \X columns]
  /\ UNCHANGED <<failed, myEdges, unlinked>>

-----------------------------------------------------------------------------
Begin(c) ==
  /\ c \notin scope /\ MayBegin(c)
  /\ scope' = scope \cup {c}
  /\ UNCHANGED <<pg, db, failed, myRows, myEdges, writes, assigned, unlinked>>

(* Table.insert, with any of the columns.                                   *)
Insert(c, i, given) ==
  /\ Writes(c) /\ RowFree(c, i)
  /\ IF RowSeen(c, i) # Absent THEN Fail(c)
     ELSE PutRow(c, i, Updated([col \in Columns |-> Blank], given), Columns)

Update(c, i, changes) ==
  /\ Writes(c) /\ RowFree(c, i)
  /\ IF DOMAIN changes = {} \/ RowSeen(c, i) = Absent THEN Fail(c)
     ELSE PutRow(c, i, Updated(RowSeen(c, i), changes), DOMAIN changes)

(* Store.delete: the row, and the edges of cascading relationships that       *)
(* touch it, unless a restricting relationship has one.                     *)
Delete(c, i) ==
  LET gone == Attached(c, i, "cascade")
  IN /\ Writes(c) /\ RowFree(c, i) /\ NotHeld(c, i)
     /\ \A l \in gone : EdgeFree(c, l)
     /\ IF Attached(c, i, "restrict") # {} THEN Fail(c)
        ELSE /\ myRows' = [myRows EXCEPT ![c][i] = IF RowSeen(c, i) = Absent THEN @ ELSE Absent]
             /\ myEdges' = [myEdges EXCEPT ![c] = [l \in Links |-> IF l \in gone THEN Absent ELSE @[l]]]
             /\ UNCHANGED <<failed, assigned, unlinked>>

(* Relationship.connect.                                                    *)
Connect(c, l, properties) ==
  /\ Writes(c) /\ EdgeFree(c, l)
  /\ \A i \in Endpoints(l[2]) : NotGoing(c, i)
  /\ IF \/ EdgeSeen(c, l) # Absent
        \/ \E i \in Endpoints(l[2]) : RowSeen(c, i) = Absent
        \/ l[1] \in Plain /\ properties # Blank
       THEN Fail(c)
       ELSE /\ myEdges' = [myEdges EXCEPT ![c][l] = properties]
            /\ UNCHANGED <<failed, myRows, assigned, unlinked>>

Disconnect(c, l) ==
  /\ Writes(c) /\ EdgeFree(c, l)
  /\ EdgeSeen(c, l) # Absent
  /\ myEdges' = [myEdges EXCEPT ![c][l] = Absent]
  /\ unlinked' = [unlinked EXCEPT ![c] = @ \cup {l}]
  /\ UNCHANGED <<failed, myRows, assigned>>

ReplaceProperties(c, l, properties) ==
  /\ Writes(c) /\ EdgeFree(c, l)
  /\ IF l[1] \in Plain /\ properties # Blank THEN Fail(c)
     ELSE /\ EdgeSeen(c, l) # Absent
          /\ myEdges' = [myEdges EXCEPT ![c][l] = properties]
          /\ UNCHANGED <<failed, myRows, assigned, unlinked>>

Forget(c) ==
  /\ scope' = scope \ {c} /\ failed' = failed \ {c}
  /\ myRows' = [myRows EXCEPT ![c] = NoRows] /\ myEdges' = [myEdges EXCEPT ![c] = NoEdges]
  /\ writes' = [writes EXCEPT ![c] = 0]
  /\ assigned' = [assigned EXCEPT ![c] = {}] /\ unlinked' = [unlinked EXCEPT ![c] = {}]
  /\ UNCHANGED pg

Commit(c) ==
  /\ c \in scope \ failed /\ Forget(c)
  /\ rows' = [i \in Ids |-> RowSeen(c, i)]
  /\ edges' = [l \in Links |-> EdgeSeen(c, l)]

(* An error, a lock that is not granted in time, the body, or the process.   *)
Rollback(c) == c \in scope /\ Forget(c) /\ UNCHANGED db

Next ==
  \E c \in Clients :
    \/ Begin(c) \/ Commit(c) \/ Rollback(c)
    \/ \E i \in Ids :
         Delete(c, i) \/ \E changes \in Changes : Insert(c, i, changes) \/ Update(c, i, changes)
    \/ \E l \in Links :
         Disconnect(c, l) \/ \E v \in Values : Connect(c, l, v) \/ ReplaceProperties(c, l, v)

Spec == Init /\ [][Next]_vars

-----------------------------------------------------------------------------
(* Every committed edge has both its endpoints, however deletions and new    *)
(* links of several clients cross.                                          *)
NoDanglingEdge ==
  \A l \in Links : edges[l] # Absent => rows[l[2][1]] # Absent /\ rows[l[2][2]] # Absent

(* A restricting link goes only by being disconnected.                      *)
RestrictKeepsLinks ==
  [][\A l \in Restricting \X Pairs : edges[l] # Absent /\ edges'[l] = Absent =>
       \E c \in Clients : l \in unlinked[c]]_vars

(* A column changes only by a commit of a scope that set it: partial updates  *)
(* of different columns do not undo each other.                             *)
OtherColumnsKept ==
  [][\A i \in Ids, col \in Columns :
       rows[i] # Absent /\ rows'[i] # Absent /\ rows'[i][col] # rows[i][col] =>
         \E c \in Clients : scope' = scope \ {c} /\ <<i, col>> \in assigned[c]]_vars
=============================================================================
