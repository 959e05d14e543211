------------------------------- MODULE Documents -------------------------------
(***************************************************************************)
(* The documents of one collection under several clients, each with its own *)
(* database handle: insert, get, replace and delete with optional expected   *)
(* versions, inside transaction scopes, on SQLite in WAL or DELETE journal   *)
(* mode and on PostgreSQL.                                                  *)
(*                                                                         *)
(* A statement is one step, and a write is at least two: the operation looks *)
(* for the declaration of the collection and sends its statement, and the    *)
(* database runs it when the lock it needs is free.  In between the client    *)
(* waits.                                                                   *)
(***************************************************************************)
EXTENDS Naturals, FiniteSets

CONSTANTS
  Clients, Ids,
  Modes,           \* the backends to consider, a subset of AllModes
  MaxVersion,      \* the last version of a document, 2^63-1 in the code
  MaxWrites,       \* bound on the bodies of one document
  Loads,           \* bound on those of all: each gives every document its share
  ReuseIds,        \* whether a deleted explicit ID is ever inserted again
  Absent,          \* no document
  Untouched,       \* a scope has not written the document
  Unread           \* a scope has not read, and has no snapshot

AllModes == {"wal", "delete", "pg"}

ASSUME DocumentsAssumption ==
  /\ Modes \subseteq AllModes
  /\ MaxVersion \in Nat \ {0} /\ MaxWrites \in Nat
  /\ Loads \subseteq [Ids -> 0..MaxWrites]
  /\ ReuseIds \in BOOLEAN
  /\ Absent # Untouched
  /\ {Absent, Untouched} \cap [version : 1..MaxVersion, body : 1..MaxWrites] = {}
  /\ Unread \notin [Ids -> [version : 1..MaxVersion, body : 1..MaxWrites] \cup {Absent}]

VARIABLES
  mode,            \* the backend
  made,            \* whether the collection is declared, committed
  docs,            \* the committed documents
  scope,           \* per client: its open transaction scope
  failed,          \* the clients whose scope is poisoned
  snap,            \* per client: the snapshot its statements read
  mine,            \* per client: what its scope wrote and locked
  making,          \* the clients whose scope declares the collection
  between,         \* per client: the statement it sent and waits for
  basis            \* per client: the documents it was last handed

(* History and bounds.                                                      *)
VARIABLES
  stamp,           \* per document: bodies asked for so far; a body is its number
  retired,         \* the IDs whose deletion was asked for
  published,       \* all the documents ever committed
  looked,          \* the clients whose read scope has read something
  said             \* per client: the error its scope was given

db == <<mode, made, docs>>
client == <<scope, failed, snap, mine, making, between, basis>>
history == <<stamp, retired, published, looked, said>>
vars == <<mode, made, docs, scope, failed, snap, mine, making, between, basis,
          stamp, retired, published, looked, said>>

Doc == [version : 1..MaxVersion, body : 1..MaxWrites]
Nowhere == [i \in Ids |-> Untouched]
Nothing == [i \in Ids |-> Absent]
Idle == <<"none">>
Statements == {"look", "create", "insert", "replace", "diagnose", "delete"}
Errors == {"none", "exists", "declared", "conflict", "missing", "exhausted", "busy", "read_only"}

TypeOK ==
  /\ mode \in AllModes /\ made \in BOOLEAN
  /\ docs \in [Ids -> Doc \cup {Absent}]
  /\ scope \in [Clients -> {"none", "read", "write"}]
  /\ failed \subseteq Clients /\ making \subseteq Clients
  /\ snap \in [Clients -> [Ids -> Doc \cup {Absent}] \cup {Unread}]
  /\ mine \in [Clients -> [Ids -> Doc \cup {Absent, Untouched}]]
  /\ between \in [Clients -> {Idle} \cup (Statements \X Ids \X (0..MaxWrites) \X (0..MaxVersion))]
  /\ basis \in [Clients -> [Ids -> Doc \cup {Absent}]]
  /\ stamp \in [Ids -> 0..MaxWrites] /\ retired \subseteq Ids
  /\ published \subseteq Ids \X Doc /\ looked \subseteq Clients
  /\ said \in [Clients -> Errors]

-----------------------------------------------------------------------------
(* Forms of the definitions below that a mistake in the code would give;    *)
(* no specification uses them.                                              *)

BeginPlain(c, kind) == TRUE

ReadsCommittedAlways(c) == mode = "pg"

NeverExhausted(doc) == TRUE

VersionKept(old) == old.version

MatchesAnyVersion(doc, expected) == doc # Absent

WaitsForever(c) == FALSE

-----------------------------------------------------------------------------
Init ==
  /\ mode \in Modes /\ made = FALSE /\ docs = Nothing
  /\ scope = [c \in Clients |-> "none"] /\ failed = {} /\ making = {}
  /\ snap = [c \in Clients |-> Unread] /\ mine = [c \in Clients |-> Nowhere]
  /\ between = [c \in Clients |-> Idle] /\ basis = [c \in Clients |-> Nothing]
  /\ stamp = [i \in Ids |-> 0] /\ retired = {} /\ published = {} /\ looked = {}
  /\ said = [c \in Clients |-> "none"]

Others(c) == Clients \ {c}

(* BEGIN IMMEDIATE gets SQLite's one write lock or raises; BEGIN does not   *)
(* ask for a lock.                                                          *)
MayBegin(c, kind) ==
  kind = "write" /\ mode # "pg" => \A d \in Others(c) : scope[d] # "write"

(* A scope keeps the snapshot of its first statement: SQLite always,        *)
(* PostgreSQL for the REPEATABLE READ of its read scopes.  A write scope of *)
(* PostgreSQL is READ COMMITTED.                                            *)
ReadsCommitted(c) == mode = "pg" /\ scope[c] = "write"

SnapOf(c) == IF snap[c] = Unread THEN docs ELSE snap[c]

Seen(c, i) == IF mine[c][i] = Untouched THEN SnapOf(c)[i] ELSE mine[c][i]

(* PostgreSQL's row locks; on SQLite the write lock already excludes others.*)
Lockable(c, i) == \A d \in Others(c) : mine[d][i] = Untouched

(* The statements find the scope open, unfailed, and no operation half done.*)
Ready(c) == scope[c] # "none" /\ c \notin failed /\ between[c] = Idle
Writing(c) == Ready(c) /\ scope[c] = "write"

(* What Database._spec of the collection finds in this scope.               *)
Declared(c) == made \/ c \in making

(* The client waits for this statement about this document; its body and      *)
(* expected_version come with it.                                           *)
Half(c, statement, i) == between[c] # Idle /\ between[c][1] = statement /\ between[c][2] = i
Body(c) == between[c][3]
Expected(c) == between[c][4]
Inserting(c, i) == \E statement \in {"look", "create", "insert"} : Half(c, statement, i)

Any == 0                           \* no expected_version
Held(c, i, conditional) == IF conditional THEN basis[c][i].version ELSE Any

Send(c, statement, i, body, expected) ==
  between' = [between EXCEPT ![c] = <<statement, i, body, expected>>]

Fail(c, error) ==
  /\ failed' = failed \cup {c}
  /\ said' = [said EXCEPT ![c] = error]
  /\ between' = [between EXCEPT ![c] = Idle]
  /\ UNCHANGED <<db, scope, snap, mine, making, basis, stamp, retired, published, looked>>

(* A statement writes a document, or its absence, and hands it back.         *)
Put(c, i, doc) ==
  /\ mine' = [mine EXCEPT ![c][i] = doc]
  /\ basis' = [basis EXCEPT ![c][i] = doc]
  /\ between' = [between EXCEPT ![c] = Idle]
  /\ UNCHANGED <<db, scope, failed, snap, making, history>>

(* The body of the next write that is asked for, as long as there is one.    *)
NewBody(i) == stamp[i] + 1
MoreBodies(i) ==
  \E load \in Loads : NewBody(i) <= load[i] /\ \A j \in Ids : stamp[j] <= load[j]

(* Unless IDs are used again, nobody inserts an ID that somebody deletes.     *)
MayInsert(i) == i \in retired => ReuseIds
MayDelete(i) == ReuseIds \/ \A d \in Clients : ~Inserting(d, i)

BelowLastVersion(doc) == doc.version < MaxVersion

NextVersion(old) == old.version + 1

(* The WHERE clause of a replacement or a deletion.                         *)
Matches(doc, expected) == doc # Absent /\ expected \in {Any, doc.version}

Updates(c, doc) == Matches(doc, Expected(c)) /\ BelowLastVersion(doc)

(* How an unconditional replacement that changed no row is explained, from   *)
(* a second look at the document.                                           *)
Diagnosed(doc) == IF doc = Absent THEN "missing" ELSE "exhausted"

-----------------------------------------------------------------------------
Begin(c, kind) ==
  /\ scope[c] = "none" /\ MayBegin(c, kind)
  /\ scope' = [scope EXCEPT ![c] = kind]
  /\ snap' = [snap EXCEPT ![c] = IF kind = "write" /\ mode # "pg" THEN docs ELSE Unread]
  /\ UNCHANGED <<db, failed, mine, making, between, basis, history>>

Get(c, i) ==
  /\ Ready(c)
  /\ snap' = [snap EXCEPT ![c] = IF ReadsCommitted(c) THEN Unread ELSE SnapOf(c)]
  /\ basis' = [basis EXCEPT ![c][i] = Seen(c, i)]
  /\ looked' = IF scope[c] = "read" THEN looked \cup {c} ELSE looked
  /\ UNCHANGED <<db, scope, failed, mine, making, between, stamp, retired, published, said>>

(* A managed write in a read scope is refused before any statement.         *)
WriteInReadScope(c) == Ready(c) /\ scope[c] = "read" /\ Fail(c, "read_only")

(* Collection.insert looks for the declaration of the collection and makes   *)
(* it if there is none.                                                     *)
Insert(c, i) ==
  /\ Writing(c) /\ MoreBodies(i) /\ MayInsert(i)
  /\ stamp' = [stamp EXCEPT ![i] = NewBody(i)]
  /\ Send(c, IF Declared(c) THEN "insert" ELSE "look", i, NewBody(i), Any)
  /\ UNCHANGED <<db, scope, failed, snap, mine, making, basis, retired, published, looked, said>>

(* create looks again, and leaves a declaration that is there now alone.     *)
Look(c, i) ==
  /\ Half(c, "look", i)
  /\ Send(c, IF Declared(c) THEN "insert" ELSE "create", i, Body(c), Any)
  /\ UNCHANGED <<db, scope, failed, snap, mine, making, basis, history>>

(* The CREATE statements wait for those of other scopes and fail if one has  *)
(* committed.                                                               *)
Create(c, i) ==
  /\ Half(c, "create", i) /\ making = {}
  /\ IF made THEN Fail(c, "declared")
     ELSE /\ making' = making \cup {c}
          /\ Send(c, "insert", i, Body(c), Any)
          /\ UNCHANGED <<db, scope, failed, snap, mine, basis, history>>

InsertRow(c, i) ==
  /\ Half(c, "insert", i) /\ Lockable(c, i)
  /\ IF Seen(c, i) # Absent THEN Fail(c, "exists")
     ELSE Put(c, i, [version |-> 1, body |-> Body(c)])

Replace(c, i, conditional) ==
  /\ Writing(c) /\ MoreBodies(i)
  /\ conditional => basis[c][i] # Absent
  /\ IF Declared(c)
       THEN /\ stamp' = [stamp EXCEPT ![i] = NewBody(i)]
            /\ Send(c, "replace", i, NewBody(i), Held(c, i, conditional))
            /\ UNCHANGED <<db, scope, failed, snap, mine, making, basis, retired, published, looked, said>>
     ELSE Fail(c, IF conditional THEN "conflict" ELSE "missing")

(* The UPDATE takes the lock of a row that its WHERE clause accepts, and      *)
(* looks at the row again when it has waited for it.                        *)
UpdateRow(c, i) ==
  /\ Half(c, "replace", i)
  /\ LET doc == Seen(c, i)
     IN IF Updates(c, doc)
          THEN /\ Lockable(c, i)
               /\ Put(c, i, [version |-> NextVersion(doc), body |-> Body(c)])
        ELSE IF Expected(c) # Any THEN Fail(c, "conflict")
        ELSE /\ Send(c, "diagnose", i, 0, Any)
             /\ UNCHANGED <<db, scope, failed, snap, mine, making, basis, history>>

Diagnose(c, i) ==
  /\ Half(c, "diagnose", i)
  /\ Fail(c, Diagnosed(Seen(c, i)))

(* Without the collection there is nothing to delete.                       *)
Delete(c, i, conditional) ==
  /\ Writing(c) /\ MayDelete(i)
  /\ conditional => basis[c][i] # Absent
  /\ IF Declared(c)
       THEN /\ retired' = retired \cup {i}
            /\ Send(c, "delete", i, 0, Held(c, i, conditional))
            /\ UNCHANGED <<db, scope, failed, snap, mine, making, basis, stamp, published, looked, said>>
     ELSE conditional /\ Fail(c, "conflict")

DeleteRow(c, i) ==
  /\ Half(c, "delete", i)
  /\ IF Matches(Seen(c, i), Expected(c))
       THEN Lockable(c, i) /\ Put(c, i, Absent)
     ELSE IF Expected(c) # Any THEN Fail(c, "conflict")
     ELSE /\ between' = [between EXCEPT ![c] = Idle]
          /\ UNCHANGED <<db, scope, failed, snap, mine, making, basis, history>>

(* The row whose lock a client's statement needs.                           *)
Wants(c, i) ==
  \/ Half(c, "insert", i)
  \/ Half(c, "replace", i) /\ Updates(c, Seen(c, i))
  \/ Half(c, "delete", i) /\ Matches(Seen(c, i), Expected(c))

(* A statement of PostgreSQL that waits for a lock gives up after             *)
(* lock_timeout; the victim of a deadlock takes the same step.              *)
Blocked(c) ==
  \E i \in Ids : (Half(c, "create", i) /\ making # {}) \/ (Wants(c, i) /\ ~Lockable(c, i))

GivesUp(c) == Blocked(c)

LockTimeout(c) == GivesUp(c) /\ Fail(c, "busy")

-----------------------------------------------------------------------------
Forget(c) ==
  /\ scope' = [scope EXCEPT ![c] = "none"]
  /\ failed' = failed \ {c} /\ making' = making \ {c}
  /\ snap' = [snap EXCEPT ![c] = Unread]
  /\ mine' = [mine EXCEPT ![c] = Nowhere]
  /\ between' = [between EXCEPT ![c] = Idle]
  /\ looked' = looked \ {c}
  /\ said' = [said EXCEPT ![c] = "none"]

(* In DELETE mode a commit that writes needs every reader gone, and raises   *)
(* otherwise.                                                               *)
MayCommit(c) ==
  mode = "delete" /\ mine[c] # Nowhere => \A d \in Others(c) : snap[d] = Unread

Commit(c) ==
  /\ Ready(c) /\ MayCommit(c)
  /\ docs' = [i \in Ids |-> IF mine[c][i] = Untouched THEN docs[i] ELSE mine[c][i]]
  /\ made' = (made \/ c \in making)
  /\ published' = published \cup
       {<<i, mine[c][i]>> : i \in {j \in Ids : mine[c][j] \notin {Absent, Untouched}}}
  /\ Forget(c)
  /\ UNCHANGED <<mode, basis, stamp, retired>>

(* The scope ends without a commit: poisoned, by an exception, because       *)
(* COMMIT raised, or with its process.  What it was handed is void.         *)
Rollback(c) ==
  /\ scope[c] # "none" /\ Forget(c)
  /\ basis' = [basis EXCEPT ![c] = Nothing]
  /\ UNCHANGED <<db, stamp, retired, published>>

-----------------------------------------------------------------------------
Operation(c) ==
  \/ WriteInReadScope(c)
  \/ \E i \in Ids : Get(c, i) \/ Insert(c, i)
  \/ \E i \in Ids, conditional \in BOOLEAN : Replace(c, i, conditional) \/ Delete(c, i, conditional)

(* What the database does with a statement that it was sent.                *)
Statement(c) ==
  \/ \E i \in Ids : Look(c, i) \/ Create(c, i) \/ Diagnose(c, i)
  \/ \E i \in Ids : InsertRow(c, i) \/ UpdateRow(c, i) \/ DeleteRow(c, i)
  \/ LockTimeout(c)

Next ==
  \E c \in Clients :
    \/ \E kind \in {"read", "write"} : Begin(c, kind)
    \/ Operation(c) \/ Statement(c)
    \/ Commit(c)
    \/ Rollback(c)

Spec == Init /\ [][Next]_vars

(* The database runs each statement as soon as its lock is free or gives it   *)
(* up; no scope has to end.                                                 *)
FairSpec == Spec /\ \A c \in Clients : WF_vars(Statement(c))

-----------------------------------------------------------------------------
(* A version number names one body of a document for good: two committed     *)
(* documents of one ID and version are the same.  All of optimistic          *)
(* concurrency rests on it.                                                 *)
VersionNamesBody ==
  \A p, q \in published : p[1] = q[1] /\ p[2].version = q[2].version => p = q

(* A conditional replacement or deletion overwrites the document its caller  *)
(* was handed and no other: an update made in between is never lost.        *)
NoLostUpdate ==
  [][\A c \in Clients, i \in Ids :
       (UpdateRow(c, i) \/ DeleteRow(c, i)) /\ Expected(c) # Any /\ mine'[c] # mine[c] =>
         Seen(c, i) = basis[c][i]]_vars

(* Whatever others commit, a read scope that has read something sees one     *)
(* state of the collection.                                                 *)
ReadScopeStable ==
  [][\A c \in Clients : c \in looked /\ c \in looked' =>
       \A i \in Ids : Seen(c, i)' = Seen(c, i)]_vars

(* On SQLite nothing is committed behind the back of a write scope.          *)
WriterSeesLatest ==
  mode # "pg" => \A c \in Clients : scope[c] = "write" => SnapOf(c) = docs

(* A caller told that the version counter is exhausted replaced a document   *)
(* of the last version (the error of Collection.replace).                    *)
ExhaustedIsTrue ==
  [][\A c \in Clients : said'[c] = "exhausted" /\ said[c] # "exhausted" =>
       \E i \in Ids : Seen(c, i) # Absent /\ Seen(c, i).version = MaxVersion]_vars

(* A statement that waits for another scope's lock does not wait for ever.   *)
StatementsEnd ==
  \A c \in Clients : between[c] # Idle ~> between[c] = Idle
=============================================================================
