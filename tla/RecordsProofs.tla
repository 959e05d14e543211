----------------------------- MODULE RecordsProofs -----------------------------
(***************************************************************************)
(* The records and links of any number of clients: the locks keep every       *)
(* scope's view free of dangling edges, and what a commit changes was asked   *)
(* for.                                                                     *)
(***************************************************************************)
EXTENDS Records, TLAPS

Written == {Absent, Untouched}

(* No two scopes have written one row, or one edge.                          *)
RowLocks ==
  \A c, d \in Clients, i \in Ids : c # d /\ myRows[c][i] # Untouched => myRows[d][i] = Untouched

EdgeLocks ==
  \A c, d \in Clients, l \in Links : c # d /\ myEdges[c][l] # Untouched => myEdges[d][l] = Untouched

(* A scope that deletes a record and one that links it exclude each other.    *)
Holds ==
  \A c, d \in Clients, l \in Links : \A i \in Endpoints(l[2]) :
    c # d /\ myRows[c][i] = Absent => myEdges[d][l] \in Written

(* Each scope sees the endpoints of every edge it sees.                      *)
ViewSound(c) ==
  \A l \in Links : \A i \in Endpoints(l[2]) : EdgeSeen(c, l) # Absent => RowSeen(c, i) # Absent

Views == \A c \in Clients : ViewSound(c)

(* What a scope is about to take away or to change was asked for.             *)
Unlinks ==
  \A c \in Clients, l \in Restricting \X Pairs : myEdges[c][l] = Absent => l \in unlinked[c]

Assigns ==
  \A c \in Clients, i \in Ids, col \in Columns :
    myRows[c][i] \notin Written /\ rows[i] # Absent /\ <<i, col>> \notin assigned[c] =>
      myRows[c][i][col] = rows[i][col]

RInv ==
  /\ TypeOK /\ RowLocks /\ EdgeLocks /\ Holds /\ Views /\ NoDanglingEdge /\ Unlinks /\ Assigns

-----------------------------------------------------------------------------
LEMMA Outside ==
  /\ Absent # Untouched
  /\ \A v \in Values : v \notin Written
  /\ \A row \in Row : row \notin Written
BY RecordsAssumption DEF Written, Row

LEMMA LinkParts ==
  ASSUME NEW l \in Links
  PROVE  l[1] \in Rels /\ l[2] \in Pairs /\ Endpoints(l[2]) \subseteq Ids
BY RecordsAssumption DEF Links, Endpoints

LEMMA UpdatedRow ==
  ASSUME NEW old \in Row, NEW changes \in Changes
  PROVE  /\ Updated(old, changes) \in Row
         /\ \A col \in Columns \ DOMAIN changes : Updated(old, changes)[col] = old[col]
         /\ DOMAIN changes \subseteq Columns
BY DEF Updated, Changes, Row

LEMMA RInit == Init => RInv
<1> SUFFICES ASSUME Init PROVE RInv
  OBVIOUS
<1> USE RecordsAssumption DEF Init, NoRows, NoEdges
<1>1. TypeOK BY DEF TypeOK
<1>2. RowLocks /\ EdgeLocks BY DEF RowLocks, EdgeLocks
<1>3. Holds BY DEF Holds, Written
<1>3a. Unlinks BY DEF Unlinks, Links, Rels
<1>3b. NoDanglingEdge BY DEF NoDanglingEdge
<1>4. Views BY DEF Views, ViewSound, EdgeSeen
<1>5. Assigns BY DEF Assigns
<1> QED BY <1>1, <1>2, <1>3, <1>3a, <1>3b, <1>4, <1>5 DEF RInv

-----------------------------------------------------------------------------
(* A statement of one scope, by what it writes under which locks.            *)
LEMMA OwnStep ==
  ASSUME RInv, NEW c \in Clients, NEW r, NEW e, UNCHANGED db,
         myRows' = [myRows EXCEPT ![c] = r], myEdges' = [myEdges EXCEPT ![c] = e],
         \A i \in Ids : r[i] = myRows[c][i] \/ RowFree(c, i),
         \A l \in Links : e[l] = myEdges[c][l] \/ EdgeFree(c, l),
         \A i \in Ids : r[i] = Absent /\ myRows[c][i] # Absent => NotHeld(c, i),
         \A l \in Links : e[l] \notin Written /\ myEdges[c][l] \in Written =>
           \A i \in Endpoints(l[2]) : NotGoing(c, i),
         ViewSound(c)'
  PROVE  RowLocks' /\ EdgeLocks' /\ Holds' /\ Views' /\ NoDanglingEdge'
<1>1. /\ myRows'[c] = r /\ myEdges'[c] = e /\ rows' = rows /\ edges' = edges
      /\ \A d \in Others(c) : myRows'[d] = myRows[d] /\ myEdges'[d] = myEdges[d]
  BY DEF RInv, TypeOK, db, Others
<1>2. RowLocks'
  <2> SUFFICES ASSUME NEW a \in Clients, NEW b \in Clients, NEW i \in Ids,
                      a # b, myRows'[a][i] # Untouched
               PROVE  myRows'[b][i] = Untouched
    BY DEF RowLocks
  <2>1. RowLocks BY DEF RInv
  <2>2. r[i] = myRows[c][i] \/ \A d \in Others(c) : myRows[d][i] = Untouched
    BY DEF RowFree
  <2> QED BY <1>1, <2>1, <2>2 DEF RowLocks, Others
<1>3. EdgeLocks'
  <2> SUFFICES ASSUME NEW a \in Clients, NEW b \in Clients, NEW l \in Links,
                      a # b, myEdges'[a][l] # Untouched
               PROVE  myEdges'[b][l] = Untouched
    BY DEF EdgeLocks
  <2>1. EdgeLocks BY DEF RInv
  <2>2. e[l] = myEdges[c][l] \/ \A d \in Others(c) : myEdges[d][l] = Untouched
    BY DEF EdgeFree
  <2> QED BY <1>1, <2>1, <2>2 DEF EdgeLocks, Others
<1>4. Holds'
  <2> SUFFICES ASSUME NEW a \in Clients, NEW b \in Clients, NEW l \in Links,
                      NEW i \in Endpoints(l[2]), a # b, myRows'[a][i] = Absent
               PROVE  myEdges'[b][l] \in Written
    BY DEF Holds
  <2>1. i \in Ids BY LinkParts
  <2>2. Holds BY DEF RInv
  <2>3. CASE a = c
    <3>1. b \in Others(c) /\ r[i] = Absent BY <1>1, <2>3 DEF Others
    <3>2. CASE myRows[c][i] = Absent BY <1>1, <2>2, <2>3, <3>1, <3>2 DEF Holds, Others
    <3>3. CASE myRows[c][i] # Absent
      BY <1>1, <2>1, <3>1, <3>3 DEF NotHeld, Touches, Written
    <3> QED BY <3>2, <3>3
  <2>4. CASE b = c
    <3>1. a \in Others(c) /\ myRows[a][i] = Absent BY <1>1, <2>4 DEF Others
    <3>2. ~NotGoing(c, i) BY <3>1 DEF NotGoing
    <3>3. myEdges[c][l] \in Written BY <2>2, <2>4, <3>1 DEF Holds
    <3> QED BY <1>1, <2>4, <3>2, <3>3
  <2>5. CASE a # c /\ b # c
    BY <1>1, <2>2, <2>5 DEF Holds, Others
  <2> QED BY <2>3, <2>4, <2>5
<1>5. Views'
  <2> SUFFICES ASSUME NEW d \in Others(c) PROVE ViewSound(d)'
    BY DEF Views, Others
  <2>1. ViewSound(d) BY DEF RInv, Views, Others
  <2> QED BY <1>1, <2>1 DEF ViewSound, EdgeSeen, RowSeen
<1>6. NoDanglingEdge' BY <1>1 DEF NoDanglingEdge, RInv
<1> QED BY <1>2, <1>3, <1>4, <1>5, <1>6
-----------------------------------------------------------------------------
(* What every statement that writes leaves alone.                           *)
LEMMA WritesType ==
  ASSUME TypeOK, NEW c \in Clients, Writes(c)
  PROVE  /\ c \in scope /\ c \notin failed /\ UNCHANGED <<pg, rows, edges, scope>>
         /\ writes' \in [Clients -> 0..MaxWrites]
BY RecordsAssumption DEF TypeOK, Writes, db

LEMMA FailStep ==
  ASSUME RInv, NEW c \in Clients, Writes(c), Fail(c)
  PROVE  RInv'
<1>1. TypeOK' BY WritesType DEF RInv, TypeOK, Fail
<1>2. UNCHANGED <<rows, edges, myRows, myEdges, assigned, unlinked>>
  BY WritesType DEF Fail, RInv
<1>3. RowLocks' /\ EdgeLocks' /\ Holds' /\ NoDanglingEdge' /\ Unlinks' /\ Assigns'
  BY <1>2 DEF RInv, RowLocks, EdgeLocks, Holds, NoDanglingEdge, Unlinks, Assigns
<1>4. Views'
  BY <1>2 DEF RInv, Views, ViewSound, EdgeSeen, RowSeen
<1> QED BY <1>1, <1>3, <1>4 DEF RInv

(* Insert and Update.                                                       *)
LEMMA PutRowStep ==
  ASSUME RInv, NEW c \in Clients, NEW i \in Ids, NEW row \in Row, NEW columns \in SUBSET Columns,
         Writes(c), RowFree(c, i), PutRow(c, i, row, columns),
         \A col \in Columns \ columns : RowSeen(c, i) # Absent /\ row[col] = RowSeen(c, i)[col]
  PROVE  RInv'
<1> DEFINE r == [myRows[c] EXCEPT ![i] = row]
<1>1. UNCHANGED <<pg, db, scope>> /\ writes' \in [Clients -> 0..MaxWrites]
  BY WritesType DEF RInv, db
<1>2. /\ myRows' = [myRows EXCEPT ![c] = r] /\ myEdges' = [myEdges EXCEPT ![c] = myEdges[c]]
      /\ assigned' = [assigned EXCEPT ![c] = @ \cup {i} \X columns]
      /\ failed' = failed /\ unlinked' = unlinked
  BY DEF PutRow, RInv, TypeOK
<1>3. /\ \A j \in Ids : r[j] = IF j = i THEN row ELSE myRows[c][j]
      /\ row # Absent /\ row # Untouched /\ row \notin Written
      /\ myRows'[c] = r /\ myEdges'[c] = myEdges[c]
  BY <1>2, Outside DEF RInv, TypeOK, Written
<1>4. r \in [Ids -> Row \cup {Absent, Untouched}]
  BY DEF RInv, TypeOK
<1> HIDE DEF r
<1>5. TypeOK'
  <2>1. myRows' \in [Clients -> [Ids -> Row \cup {Absent, Untouched}]] /\ UNCHANGED myEdges
    BY <1>2, <1>4 DEF RInv, TypeOK
  <2>2. assigned' \in [Clients -> SUBSET (Ids \X Columns)]
    BY <1>2 DEF RInv, TypeOK
  <2> QED BY <1>1, <1>2, <2>1, <2>2 DEF RInv, TypeOK, db
<1>6. ViewSound(c)'
  <2>1. ViewSound(c) BY DEF RInv, Views
  <2> QED BY <1>1, <1>3, <2>1, LinkParts DEF ViewSound, EdgeSeen, RowSeen, db
<1>7. RowLocks' /\ EdgeLocks' /\ Holds' /\ Views' /\ NoDanglingEdge'
  <2>1. \A j \in Ids : r[j] = myRows[c][j] \/ RowFree(c, j) BY <1>3
  <2>2. \A j \in Ids : r[j] = Absent /\ myRows[c][j] # Absent => NotHeld(c, j) BY <1>3
  <2> QED BY <1>1, <1>2, <1>6, <2>1, <2>2, OwnStep
<1>8. Unlinks'
  BY <1>2 DEF RInv, TypeOK, Unlinks
<1>9. Assigns'
  <2> SUFFICES ASSUME NEW d \in Clients, NEW j \in Ids, NEW col \in Columns,
                      myRows'[d][j] \notin Written, rows[j] # Absent, <<j, col>> \notin assigned'[d]
               PROVE  myRows'[d][j][col] = rows[j][col]
    BY <1>1 DEF Assigns, db
  <2>1. Assigns BY DEF RInv
  <2>2. CASE d = c /\ j = i
    <3>1. col \notin columns /\ <<i, col>> \notin assigned[c]
      BY <1>2, <2>2 DEF RInv, TypeOK
    <3>2. myRows'[c][i][col] = RowSeen(c, i)[col] /\ RowSeen(c, i) # Absent
      BY <1>3, <3>1
    <3> QED BY <2>1, <2>2, <3>1, <3>2 DEF Assigns, RowSeen, Written
  <2>3. CASE d = c /\ j # i
    <3>1. <<j, col>> \notin assigned[c] BY <1>2, <2>3 DEF RInv, TypeOK
    <3> QED BY <1>3, <2>1, <2>3, <3>1 DEF Assigns
  <2>4. CASE d # c
    BY <1>2, <2>1, <2>4 DEF Assigns, RInv, TypeOK
  <2> QED BY <2>2, <2>3, <2>4
<1> QED BY <1>5, <1>7, <1>8, <1>9 DEF RInv
(* A statement on one edge.                                                 *)
LEMMA PutEdgeStep ==
  ASSUME RInv, NEW c \in Clients, NEW l \in Links, NEW v \in Values \cup {Absent},
         Writes(c), EdgeFree(c, l),
         myEdges' = [myEdges EXCEPT ![c][l] = v], UNCHANGED <<failed, myRows, assigned>>,
         unlinked' \in [Clients -> SUBSET Links],
         \A d \in Clients : unlinked[d] \subseteq unlinked'[d],
         v = Absent => l \in unlinked'[c],
         v # Absent => \A i \in Endpoints(l[2]) : RowSeen(c, i) # Absent /\ NotGoing(c, i)
  PROVE  RInv'
<1> DEFINE e == [myEdges[c] EXCEPT ![l] = v]
<1>1. UNCHANGED <<pg, db, scope>> /\ writes' \in [Clients -> 0..MaxWrites]
  BY WritesType DEF RInv, db
<1>2. myEdges' = [myEdges EXCEPT ![c] = e] /\ myRows' = [myRows EXCEPT ![c] = myRows[c]]
  BY DEF RInv, TypeOK
<1>3. /\ \A k \in Links : e[k] = IF k = l THEN v ELSE myEdges[c][k]
      /\ v # Untouched /\ myEdges'[c] = e
      /\ e \in [Links -> Values \cup {Absent, Untouched}]
  BY <1>2, Outside DEF RInv, TypeOK, Written
<1> HIDE DEF e
<1>4. TypeOK'
  <2>1. myEdges' \in [Clients -> [Links -> Values \cup {Absent, Untouched}]]
    BY <1>2, <1>3 DEF RInv, TypeOK
  <2> QED BY <1>1, <2>1 DEF RInv, TypeOK, db
<1>5. ViewSound(c)'
  <2>1. ViewSound(c) BY DEF RInv, Views
  <2> QED BY <1>1, <1>3, <2>1 DEF ViewSound, EdgeSeen, RowSeen, db
<1>6. RowLocks' /\ EdgeLocks' /\ Holds' /\ Views' /\ NoDanglingEdge'
  <2>1. \A k \in Links : e[k] = myEdges[c][k] \/ EdgeFree(c, k) BY <1>3
  <2>2. \A k \in Links : e[k] \notin Written /\ myEdges[c][k] \in Written =>
          \A i \in Endpoints(k[2]) : NotGoing(c, i)
    BY <1>3 DEF Written
  <2> QED BY <1>1, <1>2, <1>5, <2>1, <2>2, OwnStep
<1>7. Unlinks'
  <2> SUFFICES ASSUME NEW d \in Clients, NEW k \in Restricting \X Pairs, myEdges'[d][k] = Absent
               PROVE  k \in unlinked'[d]
    BY DEF Unlinks
  <2>1. k \in Links BY DEF Links, Rels
  <2>2. CASE d = c /\ k = l BY <1>3, <2>1, <2>2
  <2>3. CASE ~(d = c /\ k = l)
    <3>1. myEdges[d][k] = Absent BY <1>2, <1>3, <2>1, <2>3 DEF RInv, TypeOK
    <3> QED BY <3>1 DEF RInv, Unlinks
  <2> QED BY <2>2, <2>3
<1>8. Assigns'
  BY <1>1 DEF RInv, Assigns, db
<1> QED BY <1>4, <1>6, <1>7, <1>8 DEF RInv

LEMMA ConnectStep ==
  ASSUME RInv, NEW c \in Clients, NEW l \in Links, NEW v \in Values, Connect(c, l, v)
  PROVE  RInv'
<1>1. Writes(c) /\ EdgeFree(c, l) /\ \A i \in Endpoints(l[2]) : NotGoing(c, i)
  BY DEF Connect
<1>2. CASE Fail(c) BY <1>1, <1>2, FailStep
<1>3. CASE ~Fail(c)
  <2>1. /\ \A i \in Endpoints(l[2]) : RowSeen(c, i) # Absent
        /\ myEdges' = [myEdges EXCEPT ![c][l] = v]
        /\ UNCHANGED <<failed, myRows, assigned, unlinked>>
    BY <1>3 DEF Connect
  <2>2. v # Absent BY Outside DEF Written
  <2> QED BY <1>1, <2>1, <2>2, PutEdgeStep DEF RInv, TypeOK
<1> QED BY <1>2, <1>3

LEMMA DisconnectStep ==
  ASSUME RInv, NEW c \in Clients, NEW l \in Links, Disconnect(c, l)
  PROVE  RInv'
<1>1. /\ Writes(c) /\ EdgeFree(c, l) /\ UNCHANGED <<failed, myRows, assigned>>
      /\ myEdges' = [myEdges EXCEPT ![c][l] = Absent]
      /\ unlinked' = [unlinked EXCEPT ![c] = @ \cup {l}]
  BY DEF Disconnect
<1>2. /\ unlinked' \in [Clients -> SUBSET Links] /\ l \in unlinked'[c]
      /\ \A d \in Clients : unlinked[d] \subseteq unlinked'[d]
  BY <1>1 DEF RInv, TypeOK
<1> QED BY <1>1, <1>2, PutEdgeStep

(* That nobody else deletes an endpoint of an edge this scope sees follows    *)
(* from the views, not from a lock.                                         *)
LEMMA ReplacePropertiesStep ==
  ASSUME RInv, NEW c \in Clients, NEW l \in Links, NEW v \in Values, ReplaceProperties(c, l, v)
  PROVE  RInv'
<1>1. Writes(c) /\ EdgeFree(c, l)
  BY DEF ReplaceProperties
<1>2. CASE Fail(c) BY <1>1, <1>2, FailStep
<1>3. CASE ~Fail(c)
  <2>1. /\ EdgeSeen(c, l) # Absent
        /\ myEdges' = [myEdges EXCEPT ![c][l] = v]
        /\ UNCHANGED <<failed, myRows, assigned, unlinked>>
    BY <1>3 DEF ReplaceProperties
  <2>2. \A i \in Endpoints(l[2]) : RowSeen(c, i) # Absent
    BY <2>1 DEF RInv, Views, ViewSound
  <2>3. ASSUME NEW i \in Endpoints(l[2]), NEW d \in Others(c), myRows[d][i] = Absent PROVE FALSE
    <3>1. myEdges[d][l] = Untouched BY <1>1, <2>3 DEF EdgeFree
    <3>2. myEdges[c][l] \in Written BY <2>3 DEF RInv, Holds, Others
    <3>3. edges[l] # Absent BY <2>1, <3>2 DEF EdgeSeen, Written
    <3>4. RowSeen(d, i) # Absent BY <2>3, <3>1, <3>3 DEF RInv, Views, ViewSound, EdgeSeen, Others
    <3> QED BY <2>3, <3>4, Outside DEF RowSeen
  <2>4. v # Absent BY Outside DEF Written
  <2> QED BY <1>1, <2>1, <2>2, <2>3, <2>4, PutEdgeStep DEF RInv, TypeOK, NotGoing
<1> QED BY <1>2, <1>3
LEMMA InsertStep ==
  ASSUME RInv, NEW c \in Clients, NEW i \in Ids, NEW given \in Changes, Insert(c, i, given)
  PROVE  RInv'
<1> DEFINE blank == [col \in Columns |-> Blank]
           row == Updated(blank, given)
<1>1. CASE Fail(c) BY <1>1, FailStep DEF Insert
<1>2. CASE ~Fail(c)
  <2>1. blank \in Row BY RecordsAssumption DEF Row
  <2>2. row \in Row BY <2>1, UpdatedRow
  <2>3. Writes(c) /\ RowFree(c, i) /\ PutRow(c, i, row, Columns)
    BY <1>2 DEF Insert
  <2> HIDE DEF row
  <2> QED BY <2>2, <2>3, PutRowStep
<1> QED BY <1>1, <1>2

LEMMA UpdateStep ==
  ASSUME RInv, NEW c \in Clients, NEW i \in Ids, NEW changes \in Changes, Update(c, i, changes)
  PROVE  RInv'
<1> DEFINE old == RowSeen(c, i)
           row == Updated(old, changes)
<1>1. CASE Fail(c) BY <1>1, FailStep DEF Update
<1>2. CASE ~Fail(c)
  <2>1. /\ Writes(c) /\ RowFree(c, i) /\ PutRow(c, i, row, DOMAIN changes)
        /\ old # Absent
    BY <1>2 DEF Update
  <2>2. old \in Row BY <2>1 DEF RInv, TypeOK, RowSeen
  <2>3. /\ row \in Row /\ DOMAIN changes \subseteq Columns
        /\ \A col \in Columns \ DOMAIN changes : row[col] = old[col]
    BY <2>2, UpdatedRow
  <2> HIDE DEF row
  <2> QED BY <2>1, <2>3, PutRowStep
<1> QED BY <1>1, <1>2

LEMMA DeleteStep ==
  ASSUME RInv, NEW c \in Clients, NEW i \in Ids, Delete(c, i)
  PROVE  RInv'
<1> DEFINE gone == Attached(c, i, "cascade")
           r == [myRows[c] EXCEPT ![i] = IF RowSeen(c, i) = Absent THEN @ ELSE Absent]
           e == [l \in Links |-> IF l \in gone THEN Absent ELSE myEdges[c][l]]
<1>1. /\ Writes(c) /\ RowFree(c, i) /\ NotHeld(c, i) /\ \A l \in gone : EdgeFree(c, l)
  BY DEF Delete
<1>2. CASE Fail(c) BY <1>1, <1>2, FailStep
<1>3. CASE ~Fail(c)
  <2>1. UNCHANGED <<pg, db, scope>> /\ writes' \in [Clients -> 0..MaxWrites]
    BY <1>1, WritesType DEF RInv, db
  <2>2. /\ Attached(c, i, "restrict") = {} /\ UNCHANGED <<failed, assigned, unlinked>>
        /\ myRows' = [myRows EXCEPT ![c] = r] /\ myEdges' = [myEdges EXCEPT ![c] = e]
    BY <1>3 DEF Delete, RInv, TypeOK
  <2>3. /\ r \in [Ids -> Row \cup {Absent, Untouched}]
        /\ e \in [Links -> Values \cup {Absent, Untouched}]
    BY DEF RInv, TypeOK
  <2>4. /\ \A j \in Ids : r[j] = myRows[c][j] \/ (j = i /\ r[j] = Absent)
        /\ \A l \in Links : e[l] = myEdges[c][l] \/ (l \in gone /\ e[l] = Absent)
        /\ \A l \in gone : e[l] = Absent /\ l \in Links /\ l[1] \notin Restricting
        /\ myRows'[c] = r /\ myEdges'[c] = e
    <3>1. \A l \in gone : l \in Links /\ l[1] \in Cascading
      BY DEF Attached, OnDelete
    <3> QED BY <2>2, <3>1, RecordsAssumption DEF RInv, TypeOK
  <2>5. \A l \in Links : Touches(l, i) /\ EdgeSeen(c, l) # Absent => l \in gone
    <3>1. \A l \in Links : OnDelete(l[1]) \in {"cascade", "restrict"} BY DEF OnDelete
    <3> QED BY <2>2, <3>1 DEF Attached
  <2>6. ViewSound(c)'
    <3> SUFFICES ASSUME NEW l \in Links, NEW j \in Endpoints(l[2]), EdgeSeen(c, l)' # Absent
                 PROVE  RowSeen(c, j)' # Absent
      BY DEF ViewSound
    <3>1. EdgeSeen(c, l) # Absent /\ l \notin gone
      BY <2>1, <2>4, Outside DEF EdgeSeen, db
    <3>2. RowSeen(c, j) # Absent /\ j # i /\ j \in Ids
      BY <2>5, <3>1, LinkParts DEF RInv, Views, ViewSound, Touches
    <3> QED BY <2>1, <2>4, <3>2 DEF RowSeen, db
  <2> HIDE DEF r, e
  <2>7. RowLocks' /\ EdgeLocks' /\ Holds' /\ Views' /\ NoDanglingEdge'
    <3>1. \A j \in Ids : r[j] = myRows[c][j] \/ RowFree(c, j) BY <1>1, <2>4
    <3>2. \A l \in Links : e[l] = myEdges[c][l] \/ EdgeFree(c, l) BY <1>1, <2>4
    <3>3. \A j \in Ids : r[j] = Absent /\ myRows[c][j] # Absent => NotHeld(c, j) BY <1>1, <2>4
    <3>4. \A l \in Links : e[l] \notin Written /\ myEdges[c][l] \in Written =>
            \A j \in Endpoints(l[2]) : NotGoing(c, j)
      BY <2>4 DEF Written
    <3> QED BY <2>1, <2>2, <2>6, <3>1, <3>2, <3>3, <3>4, OwnStep
  <2>8. TypeOK'
    <3>1. /\ myRows' \in [Clients -> [Ids -> Row \cup {Absent, Untouched}]]
          /\ myEdges' \in [Clients -> [Links -> Values \cup {Absent, Untouched}]]
      BY <2>2, <2>3 DEF RInv, TypeOK
    <3> QED BY <2>1, <2>2, <3>1 DEF RInv, TypeOK, db
  <2>9. Unlinks'
    <3> SUFFICES ASSUME NEW d \in Clients, NEW l \in Restricting \X Pairs, myEdges'[d][l] = Absent
                 PROVE  l \in unlinked[d]
      BY <2>2 DEF Unlinks
    <3>1. l \in Links /\ l[1] \in Restricting BY DEF Links, Rels
    <3>2. myEdges[d][l] = Absent BY <2>2, <2>4, <3>1 DEF RInv, TypeOK
    <3> QED BY <3>2 DEF RInv, Unlinks
  <2>10. Assigns'
    BY <2>1, <2>2, <2>4 DEF RInv, TypeOK, Assigns, Written, db
  <2> QED BY <2>7, <2>8, <2>9, <2>10 DEF RInv
<1> QED BY <1>2, <1>3

LEMMA BeginStep ==
  ASSUME RInv, NEW c \in Clients, Begin(c)
  PROVE  RInv'
<1>1. TypeOK' BY DEF RInv, TypeOK, Begin, MayBegin, db
<1>2. UNCHANGED <<rows, edges, myRows, myEdges, assigned, unlinked>>
  BY DEF Begin, db
<1>3. RowLocks' /\ EdgeLocks' /\ Holds' /\ NoDanglingEdge' /\ Unlinks' /\ Assigns'
  BY <1>2 DEF RInv, RowLocks, EdgeLocks, Holds, NoDanglingEdge, Unlinks, Assigns
<1>4. Views'
  BY <1>2 DEF RInv, Views, ViewSound, EdgeSeen, RowSeen
<1> QED BY <1>1, <1>3, <1>4 DEF RInv
(* The end of a scope: what it wrote is forgotten, and the committed state    *)
(* is one that keeps every other scope's view sound.                        *)
LEMMA EndStep ==
  ASSUME RInv, NEW c \in Clients, Forget(c),
         rows' \in [Ids -> Row \cup {Absent}], edges' \in [Links -> Values \cup {Absent}],
         NoDanglingEdge', \A d \in Others(c) : ViewSound(d)',
         \A d \in Others(c), i \in Ids : myRows[d][i] # Untouched => rows'[i] = rows[i]
  PROVE  RInv'
<1>1. /\ scope' = scope \ {c} /\ failed' = failed \ {c} /\ pg' = pg
      /\ myRows' = [myRows EXCEPT ![c] = NoRows] /\ myEdges' = [myEdges EXCEPT ![c] = NoEdges]
      /\ writes' = [writes EXCEPT ![c] = 0]
      /\ assigned' = [assigned EXCEPT ![c] = {}] /\ unlinked' = [unlinked EXCEPT ![c] = {}]
  BY DEF Forget
<1>2. /\ \A i \in Ids : myRows'[c][i] = Untouched
      /\ \A l \in Links : myEdges'[c][l] = Untouched
      /\ \A d \in Others(c) : /\ myRows'[d] = myRows[d] /\ myEdges'[d] = myEdges[d]
                              /\ assigned'[d] = assigned[d] /\ unlinked'[d] = unlinked[d]
  BY <1>1 DEF RInv, TypeOK, NoRows, NoEdges, Others
<1>3. TypeOK'
  <2>1. /\ myRows' \in [Clients -> [Ids -> Row \cup {Absent, Untouched}]]
        /\ myEdges' \in [Clients -> [Links -> Values \cup {Absent, Untouched}]]
    BY <1>1 DEF RInv, TypeOK, NoRows, NoEdges
  <2>2. writes' \in [Clients -> 0..MaxWrites]
    BY <1>1, RecordsAssumption DEF RInv, TypeOK
  <2> QED BY <1>1, <2>1, <2>2 DEF RInv, TypeOK
<1>4. RowLocks' BY <1>2 DEF RInv, RowLocks, Others
<1>5. EdgeLocks' BY <1>2 DEF RInv, EdgeLocks, Others
<1>6. Holds'
  <2> SUFFICES ASSUME NEW a \in Clients, NEW b \in Clients, NEW l \in Links,
                      NEW i \in Endpoints(l[2]), a # b, myRows'[a][i] = Absent
               PROVE  myEdges'[b][l] \in Written
    BY DEF Holds
  <2>1. i \in Ids BY LinkParts
  <2>2. a # c BY <1>2, <2>1, Outside
  <2>3. CASE b = c BY <1>2, <2>3 DEF Written
  <2>4. CASE b # c BY <1>2, <2>2, <2>4 DEF RInv, Holds, Others
  <2> QED BY <2>3, <2>4
<1>7. ViewSound(c)'
  <2> SUFFICES ASSUME NEW l \in Links, NEW i \in Endpoints(l[2]), EdgeSeen(c, l)' # Absent
               PROVE  RowSeen(c, i)' # Absent
    BY DEF ViewSound
  <2>1. i \in Ids /\ (i = l[2][1] \/ i = l[2][2]) BY LinkParts DEF Endpoints
  <2>2. edges'[l] # Absent BY <1>2 DEF EdgeSeen
  <2> QED BY <1>2, <2>1, <2>2 DEF NoDanglingEdge, RowSeen
<1>8. Views' BY <1>7 DEF Views, Others
<1>9. Unlinks'
  <2> SUFFICES ASSUME NEW d \in Clients, NEW l \in Restricting \X Pairs, myEdges'[d][l] = Absent
               PROVE  l \in unlinked'[d]
    BY DEF Unlinks
  <2>1. l \in Links BY DEF Links, Rels
  <2>2. d \in Others(c) BY <1>2, <2>1, Outside DEF Others
  <2> QED BY <1>2, <2>2 DEF RInv, Unlinks, Others
<1>10. Assigns'
  <2> SUFFICES ASSUME NEW d \in Clients, NEW i \in Ids, NEW col \in Columns,
                      myRows'[d][i] \notin Written, rows'[i] # Absent, <<i, col>> \notin assigned'[d]
               PROVE  myRows'[d][i][col] = rows'[i][col]
    BY DEF Assigns
  <2>1. d \in Others(c) BY <1>2 DEF Others, Written
  <2>2. rows'[i] = rows[i] BY <1>2, <2>1 DEF Written
  <2> QED BY <1>2, <2>1, <2>2 DEF RInv, Assigns, Others
<1> QED BY <1>3, <1>4, <1>5, <1>6, <1>8, <1>9, <1>10 DEF RInv

LEMMA CommitStep ==
  ASSUME RInv, NEW c \in Clients, Commit(c)
  PROVE  RInv'
<1>1. /\ Forget(c) /\ \A i \in Ids : rows'[i] = RowSeen(c, i)
      /\ \A l \in Links : edges'[l] = EdgeSeen(c, l)
  BY DEF Commit
<1>2. rows' \in [Ids -> Row \cup {Absent}] /\ edges' \in [Links -> Values \cup {Absent}]
  BY DEF Commit, RInv, TypeOK, RowSeen, EdgeSeen
<1>3. \A d \in Others(c) : myRows'[d] = myRows[d] /\ myEdges'[d] = myEdges[d]
  BY <1>1 DEF Forget, RInv, TypeOK, Others
<1>4. NoDanglingEdge'
  <2>1. ViewSound(c) BY DEF RInv, Views
  <2> QED BY <1>1, <2>1, LinkParts DEF NoDanglingEdge, ViewSound, Endpoints
<1>5. \A d \in Others(c), i \in Ids : myRows[d][i] # Untouched => rows'[i] = rows[i]
  BY <1>1 DEF RInv, RowLocks, RowSeen, Others
<1>6. ASSUME NEW d \in Others(c) PROVE ViewSound(d)'
  <2> SUFFICES ASSUME NEW l \in Links, NEW i \in Endpoints(l[2]), EdgeSeen(d, l)' # Absent
               PROVE  RowSeen(d, i)' # Absent
    BY DEF ViewSound
  <2>1. i \in Ids /\ d \in Clients /\ d # c BY LinkParts DEF Others
  <2>2. /\ EdgeSeen(d, l) # Absent => RowSeen(d, i) # Absent
        /\ EdgeSeen(c, l) # Absent => RowSeen(c, i) # Absent
    BY <2>1 DEF RInv, Views, ViewSound
  <2>3. /\ myRows[c][i] = Absent => myEdges[d][l] \in Written
        /\ myRows[d][i] = Absent => myEdges[c][l] \in Written
    BY <2>1 DEF RInv, Holds
  <2>4. myRows[d][i] # Untouched => myRows[c][i] = Untouched
    BY <2>1 DEF RInv, RowLocks
  <2>5. /\ EdgeSeen(d, l)' = IF myEdges[d][l] = Untouched THEN EdgeSeen(c, l) ELSE myEdges[d][l]
        /\ RowSeen(d, i)' = IF myRows[d][i] = Untouched THEN RowSeen(c, i) ELSE myRows[d][i]
    BY <1>1, <1>3, <2>1 DEF EdgeSeen, RowSeen
  <2>6. CASE myEdges[d][l] = Untouched
    BY <2>2, <2>3, <2>4, <2>5, <2>6, Outside DEF EdgeSeen, RowSeen, Written
  <2>7. CASE myEdges[d][l] # Untouched
    BY <2>2, <2>3, <2>4, <2>5, <2>7, Outside DEF EdgeSeen, RowSeen, Written
  <2> QED BY <2>6, <2>7
<1> QED BY <1>1, <1>2, <1>4, <1>5, <1>6, EndStep

LEMMA RollbackStep ==
  ASSUME RInv, NEW c \in Clients, Rollback(c)
  PROVE  RInv'
<1>1. Forget(c) /\ rows' = rows /\ edges' = edges BY DEF Rollback, db
<1>2. \A d \in Others(c) : myRows'[d] = myRows[d] /\ myEdges'[d] = myEdges[d]
  BY <1>1 DEF Forget, RInv, TypeOK, Others
<1>3. \A d \in Others(c) : ViewSound(d)'
  BY <1>1, <1>2 DEF RInv, Views, ViewSound, EdgeSeen, RowSeen, Others
<1>4. NoDanglingEdge' BY <1>1 DEF RInv, NoDanglingEdge
<1>5. rows \in [Ids -> Row \cup {Absent}] /\ edges \in [Links -> Values \cup {Absent}]
  BY DEF RInv, TypeOK
<1> QED BY <1>1, <1>3, <1>4, <1>5, EndStep

LEMMA RStep == RInv /\ [Next]_vars => RInv'
<1> SUFFICES ASSUME RInv, [Next]_vars PROVE RInv'
  OBVIOUS
<1>1. ASSUME NEW c \in Clients, Begin(c) PROVE RInv' BY <1>1, BeginStep
<1>2. ASSUME NEW c \in Clients, Commit(c) PROVE RInv' BY <1>2, CommitStep
<1>3. ASSUME NEW c \in Clients, Rollback(c) PROVE RInv' BY <1>3, RollbackStep
<1>4. ASSUME NEW c \in Clients, NEW i \in Ids, Delete(c, i) PROVE RInv' BY <1>4, DeleteStep
<1>5. ASSUME NEW c \in Clients, NEW i \in Ids, NEW changes \in Changes,
             Insert(c, i, changes) \/ Update(c, i, changes)
      PROVE  RInv'
  BY <1>5, InsertStep, UpdateStep
<1>6. ASSUME NEW c \in Clients, NEW l \in Links, Disconnect(c, l) PROVE RInv'
  BY <1>6, DisconnectStep
<1>7. ASSUME NEW c \in Clients, NEW l \in Links, NEW v \in Values,
             Connect(c, l, v) \/ ReplaceProperties(c, l, v)
      PROVE  RInv'
  BY <1>7, ConnectStep, ReplacePropertiesStep
<1>8. CASE UNCHANGED vars
  <2>1. UNCHANGED <<pg, rows, edges, scope, failed, myRows, myEdges, writes, assigned, unlinked>>
    BY <1>8 DEF vars
  <2>2. TypeOK' BY <2>1 DEF RInv, TypeOK
  <2>3. RowLocks' /\ EdgeLocks' /\ Holds' /\ NoDanglingEdge' /\ Unlinks' /\ Assigns'
    BY <2>1 DEF RInv, RowLocks, EdgeLocks, Holds, NoDanglingEdge, Unlinks, Assigns
  <2>4. Views' BY <2>1 DEF RInv, Views, ViewSound, EdgeSeen, RowSeen
  <2> QED BY <2>2, <2>3, <2>4 DEF RInv
<1> QED BY <1>1, <1>2, <1>3, <1>4, <1>5, <1>6, <1>7, <1>8 DEF Next

LEMMA RInvariant == Spec => []RInv
BY RInit, RStep, PTL DEF Spec

-----------------------------------------------------------------------------
(* Rows and edges keep their types, and on SQLite one scope at a time writes  *)
(* (Table, Relationship, Backend.begin).                                    *)
THEOREM RecordTypes == Spec => []TypeOK
<1>1. RInv => TypeOK BY DEF RInv
<1> QED BY RInvariant, <1>1, PTL

(* However deletions and new links of any number of clients cross, every      *)
(* committed edge has both its endpoints (Store.delete, Relationship.connect). *)
THEOREM EndpointsExist == Spec => []NoDanglingEdge
<1>1. RInv => NoDanglingEdge BY DEF RInv
<1> QED BY RInvariant, <1>1, PTL

(* Only a commit changes the committed state.                               *)
LEMMA OnlyCommits ==
  ASSUME [Next]_vars, ~UNCHANGED db
  PROVE  \E c \in Clients : Commit(c)
BY DEF Next, vars, db, Begin, Rollback, Delete, Insert, Update, Disconnect, Connect,
       ReplaceProperties, Writes

(* A link of a restricting relationship goes only by a scope that             *)
(* disconnected it (Store.delete, Relationship.disconnect).                  *)
THEOREM RestrictsHold == Spec => RestrictKeepsLinks
<1>1. RInv /\ [Next]_vars =>
        [\A l \in Restricting \X Pairs : edges[l] # Absent /\ edges'[l] = Absent =>
           \E c \in Clients : l \in unlinked[c]]_vars
  <2> SUFFICES ASSUME RInv, [Next]_vars, NEW l \in Restricting \X Pairs,
                      edges[l] # Absent, edges'[l] = Absent
               PROVE  \E c \in Clients : l \in unlinked[c]
    OBVIOUS
  <2>1. PICK c \in Clients : Commit(c) BY OnlyCommits DEF db
  <2>2. l \in Links BY DEF Links, Rels
  <2>3. myEdges[c][l] = Absent BY <2>1, <2>2 DEF Commit, EdgeSeen
  <2> QED BY <2>3 DEF RInv, Unlinks
<1> QED BY <1>1, RInvariant, PTL DEF Spec, RestrictKeepsLinks

(* A column of a row that stays changes only by a scope that set it           *)
(* (Table.update).                                                          *)
THEOREM ColumnsKept == Spec => OtherColumnsKept
<1> DEFINE Asked(i, col) == \E c \in Clients : scope' = scope \ {c} /\ <<i, col>> \in assigned[c]
<1>1. RInv /\ [Next]_vars =>
        [\A i \in Ids, col \in Columns :
           rows[i] # Absent /\ rows'[i] # Absent /\ rows'[i][col] # rows[i][col] => Asked(i, col)]_vars
  <2> SUFFICES ASSUME RInv, [Next]_vars, NEW i \in Ids, NEW col \in Columns,
                      rows[i] # Absent, rows'[i] # Absent, rows'[i][col] # rows[i][col]
               PROVE  Asked(i, col)
    OBVIOUS
  <2>1. PICK c \in Clients : Commit(c) BY OnlyCommits DEF db
  <2>2. rows'[i] = RowSeen(c, i) /\ scope' = scope \ {c} BY <2>1 DEF Commit, Forget
  <2>3. myRows[c][i] \notin Written /\ rows'[i] = myRows[c][i] BY <2>2 DEF RowSeen, Written
  <2> QED BY <2>2, <2>3 DEF RInv, Assigns
<1> QED BY <1>1, RInvariant, PTL DEF Spec, OtherColumnsKept
=============================================================================
