------------------------------- MODULE Migrations -------------------------------
(***************************************************************************)
(* Clients that migrate one database, create collections implicitly by an    *)
(* insert, and write rows, on SQLite and PostgreSQL.  A statement is a step; *)
(* any of them may fail, and the scope of its call then rolls back.          *)
(*                                                                         *)
(* An operation is a record: a declaration (op one of Kinds, ends the        *)
(* endpoints of a relationship) or a rule, which a row can break.            *)
(***************************************************************************)
EXTENDS Naturals, Sequences, SequencesExt

CONSTANTS
  Clients, Names,
  Requests,        \* what migrate is called with: sequences of revisions
  Implicit,        \* the names an insert may declare as a collection
  Backends,        \* a subset of {"sqlite", "pg"}
  Unrecorded       \* the ID of what is no revision

Kinds == {"collection", "table", "relationship"}

Collection(n) == [op |-> "collection", name |-> n, ends |-> {}]

(* The whole of a call: the revisions of migrate, or the implicit creation   *)
(* as a single one that is not recorded.                                    *)
Creation(n) == <<[id |-> Unrecorded, operations |-> <<Collection(n)>>]>>
Calls == Requests \cup {Creation(n) : n \in Implicit}

Operations == UNION {UNION {ToSet(call[i].operations) : i \in DOMAIN call} : call \in Calls}
Declarations == {o \in Operations : o.op \in Kinds}
RuleOps == Operations \ Declarations
Revisions == UNION {ToSet(request) : request \in Requests}

ASSUME MigrationsAssumption ==
  /\ Backends \subseteq {"sqlite", "pg"} /\ Implicit \subseteq Names
  /\ \A request \in Requests : request # << >> /\ request \in Seq(ToSet(request))
  /\ \A r \in Revisions :
       r.id \in Nat \ {0} /\ r.id # Unrecorded /\ r.operations \in Seq(ToSet(r.operations))
  /\ \A o \in Operations : o.name \in Names

VARIABLES
  backend,
  db,              \* the committed metadata and SQL objects
  rows,            \* the rule operations some committed row would break
  pc,              \* per client: the next statement of its call
  call,            \* per client: its current or last call
  revision, operation,     \* per client: where in the call it is
  mine,            \* per client: the uncommitted additions of its scope
  locker,          \* the clients holding PostgreSQL's lock on the revisions
  told             \* per client: how its last call ended, for the properties

position == <<revision, operation>>
vars == <<backend, db, rows, pc, call, revision, operation, mine, locker, told>>

Schema == [meta : BOOLEAN, tables : SUBSET Names, guards : SUBSET RuleOps,
           objects : SUBSET Declarations, rules : SUBSET RuleOps, log : Seq(Revisions)]

Empty == [meta |-> FALSE, tables |-> {}, guards |-> {}, objects |-> {}, rules |-> {}, log |-> << >>]

TypeOK ==
  /\ backend \in Backends
  /\ db \in Schema /\ mine \in [Clients -> Schema]
  /\ rows \subseteq RuleOps /\ locker \subseteq Clients
  /\ pc \in [Clients -> {"idle", "ensure", "metadata", "lock", "revision", "look", "make",
                         "note", "record", "commit"}]
  /\ call \in [Clients -> Calls \cup {<< >>}]
  /\ revision \in [Clients -> Nat] /\ operation \in [Clients -> Nat]
  /\ told \in [Clients -> {"nothing", "ok", "drift", "order", "duplicate", "failed", "unknown"}]

-----------------------------------------------------------------------------
(* Forms of the definitions below that a mistake in the code would give;    *)
(* no specification uses them.                                              *)

SameName(op, prior) == TRUE

RulesUnnoted(c, op) ==
  IF op.op \in Kinds THEN [mine[c] EXCEPT !.objects = @ \cup {op}] ELSE mine[c]

Unvalidated(op) == FALSE

LocksAtOnce(c) == TRUE

-----------------------------------------------------------------------------
Init ==
  /\ backend \in Backends /\ db = Empty /\ rows = {}
  /\ pc = [c \in Clients |-> "idle"] /\ call = [c \in Clients |-> << >>]
  /\ revision = [c \in Clients |-> 1] /\ operation = [c \in Clients |-> 1]
  /\ mine = [c \in Clients |-> Empty] /\ locker = {}
  /\ told = [c \in Clients |-> "ok"]

Others(c) == Clients \ {c}

Plus(d, m) ==
  [meta |-> d.meta \/ m.meta, tables |-> d.tables \cup m.tables, guards |-> d.guards \cup m.guards,
   objects |-> d.objects \cup m.objects, rules |-> d.rules \cup m.rules, log |-> d.log \o m.log]

(* What the statements of a scope see: PostgreSQL's READ COMMITTED, or the   *)
(* state SQLite's write lock keeps others from changing.                    *)
View(c) == Plus(db, mine[c])

(* SQLite has one write scope at a time, from BEGIN IMMEDIATE on.            *)
MayWrite == backend = "pg" \/ \A c \in Clients : pc[c] = "idle"

This(c) == call[c][revision[c]]
Op(c) == This(c).operations[operation[c]]

(* Evolution is rejected as a whole on PostgreSQL, before any statement.     *)
Supported(c) ==
  backend = "pg" =>
    \A i \in DOMAIN call[c] : \A o \in ToSet(call[c][i].operations) : o.op \in Kinds

Recorded(c) == This(c).id # Unrecorded

Latest(log) == IF log = << >> THEN 0 ELSE Last(log).id

(* Whether the checksum of a recorded revision is another.                  *)
Drifts(old, new) == old # new

Same(op, prior) == op = prior

(* Whether existing rows violate the proposed rule.                         *)
Violated(op) == op \in rows

(* LOCK TABLE ... IN EXCLUSIVE MODE.                                        *)
MayLock(c) == backend = "pg" => locker = {}

(* The declaration, or the rule among the constraints of its store.         *)
Noted(c, op) ==
  IF op.op \in Kinds THEN [mine[c] EXCEPT !.objects = @ \cup {op}]
  ELSE [mine[c] EXCEPT !.rules = @ \cup {op}]

-----------------------------------------------------------------------------
Goto(c, next) == pc' = [pc EXCEPT ![c] = next]

(* The call ends: its scope is gone, and with it the locks.                  *)
End(c, report) ==
  /\ Goto(c, "idle") /\ told' = [told EXCEPT ![c] = report]
  /\ mine' = [mine EXCEPT ![c] = Empty] /\ locker' = locker \ {c}
  /\ UNCHANGED <<backend, rows, call, position>>

Fail(c, report) == End(c, report) /\ UNCHANGED db

(* A statement of the scope that changes nothing but how far it is.          *)
Read(c, next) == Goto(c, next) /\ UNCHANGED <<backend, db, rows, call, position, mine, locker, told>>

Wrote(c, changes, next) ==
  /\ Goto(c, next) /\ mine' = [mine EXCEPT ![c] = changes]
  /\ UNCHANGED <<backend, db, rows, call, position, locker, told>>

(* On to the next operation, and after the last one to the record.           *)
OperationDone(c) ==
  /\ operation' = [operation EXCEPT ![c] = @ + 1]
  /\ Goto(c, IF operation[c] < Len(This(c).operations) THEN "look" ELSE "record")
  /\ UNCHANGED <<backend, db, rows, call, revision, locker, told>>

RevisionDone(c) ==
  /\ revision' = [revision EXCEPT ![c] = @ + 1]
  /\ operation' = [operation EXCEPT ![c] = 1]
  /\ Goto(c, "revision")
  /\ UNCHANGED <<backend, db, rows, call, locker, told>>

-----------------------------------------------------------------------------
Begin(c, request) ==
  /\ pc[c] = "idle" /\ MayWrite
  /\ Goto(c, "ensure")
  /\ call' = [call EXCEPT ![c] = request]
  /\ revision' = [revision EXCEPT ![c] = 1] /\ operation' = [operation EXCEPT ![c] = 1]
  /\ told' = [told EXCEPT ![c] = "nothing"]
  /\ UNCHANGED <<backend, db, rows, mine, locker>>

(* The request is validated, and the metadata tables are looked for.         *)
EnsureMetadata(c) ==
  /\ pc[c] = "ensure"
  /\ IF ~Supported(c) THEN Fail(c, "failed")
     ELSE Read(c, IF View(c).meta THEN "lock" ELSE "metadata")

(* CREATE TABLE waits for another scope's table of the name, and fails once  *)
(* it has committed.                                                        *)
CreateMetadata(c) ==
  /\ pc[c] = "metadata" /\ \A d \in Others(c) : ~mine[d].meta
  /\ IF db.meta THEN Fail(c, "failed")
     ELSE Wrote(c, [mine[c] EXCEPT !.meta = TRUE], "lock")

(* Implicit creation takes no lock.                                         *)
LockRevisions(c) ==
  /\ pc[c] = "lock" /\ (Recorded(c) => MayLock(c))
  /\ locker' = IF Recorded(c) /\ backend = "pg" THEN locker \cup {c} ELSE locker
  /\ Goto(c, IF Recorded(c) THEN "revision" ELSE "look")
  /\ UNCHANGED <<backend, db, rows, call, position, mine, told>>

(* The lock keeps the two queries of a revision from seeing different logs.  *)
LookForRevision(c) ==
  /\ pc[c] = "revision"
  /\ IF revision[c] > Len(call[c]) THEN Read(c, "commit")
     ELSE LET log == View(c).log
              old == {r \in ToSet(log) : r.id = This(c).id}
          IN IF old # {}
               THEN IF \E r \in old : Drifts(r, This(c)) THEN Fail(c, "drift")
                    ELSE RevisionDone(c) /\ UNCHANGED mine
             ELSE IF This(c).id <= Latest(log) THEN Fail(c, "order")
             ELSE Read(c, IF This(c).operations = << >> THEN "record" ELSE "look")

(* A declaration that exists with the same content is passed over, and so is *)
(* a rule; a relationship needs its endpoints, a rule its store and rows     *)
(* that keep it.                                                            *)
LookForObject(c) ==
  /\ pc[c] = "look"
  /\ LET op == Op(c)
         prior == {o \in View(c).objects : o.name = op.name}
         Declared(n) == \E o \in View(c).objects : o.name = n /\ o.op # "relationship"
     IN IF op.op \in Kinds /\ prior # {}
          THEN IF \E o \in prior : Same(op, o) THEN OperationDone(c) /\ UNCHANGED mine
               ELSE Fail(c, "failed")
        ELSE IF op.op \in Kinds
          THEN IF \A n \in op.ends : Declared(n) THEN Read(c, "make") ELSE Fail(c, "failed")
        ELSE IF ~Declared(op.name) THEN Fail(c, "failed")
        ELSE IF op \in View(c).rules THEN OperationDone(c) /\ UNCHANGED mine
        ELSE IF Violated(op) THEN Fail(c, "failed")
        ELSE Read(c, "make")

(* The table, the trigger or the index.                                     *)
MakeObject(c) ==
  /\ pc[c] = "make"
  /\ IF Op(c).op \in Kinds
       THEN /\ \A d \in Others(c) : Op(c).name \notin mine[d].tables
            /\ IF Op(c).name \in db.tables THEN Fail(c, "failed")
               ELSE Wrote(c, [mine[c] EXCEPT !.tables = @ \cup {Op(c).name}], "note")
       ELSE Wrote(c, [mine[c] EXCEPT !.guards = @ \cup {Op(c)}], "note")

NoteObject(c) ==
  /\ pc[c] = "note"
  /\ mine' = [mine EXCEPT ![c] = Noted(c, Op(c))]
  /\ OperationDone(c)

(* The ID is a primary key of the table of revisions.                        *)
RecordRevision(c) ==
  /\ pc[c] = "record"
  /\ IF ~Recorded(c) THEN Read(c, "commit")
     ELSE IF \E r \in ToSet(db.log) : r.id = This(c).id THEN Fail(c, "duplicate")
     ELSE /\ mine' = [mine EXCEPT ![c].log = Append(@, This(c))]
          /\ RevisionDone(c)

(* The commit of the scope, certain or not to have happened.                *)
Commit(c, landed, report) ==
  /\ pc[c] = "commit"
  /\ report \in IF landed THEN {"ok", "unknown"} ELSE {"unknown"}
  /\ db' = IF landed THEN View(c) ELSE db
  /\ End(c, report)

(* A statement fails, or the process dies.                                  *)
Fault(c) == pc[c] # "idle" /\ Fail(c, "failed")

(* Another scope writes a row that breaks a rule that is not yet installed,  *)
(* or repairs all that do.                                                  *)
WriteRow(op) ==
  /\ MayWrite /\ op.name \in db.tables /\ op \notin db.guards
  /\ rows' = rows \cup {op}
  /\ UNCHANGED <<backend, db, pc, call, position, mine, locker, told>>

RepairRows(op) ==
  /\ MayWrite /\ op \in rows /\ rows' = rows \ {op}
  /\ UNCHANGED <<backend, db, pc, call, position, mine, locker, told>>

-----------------------------------------------------------------------------
Statement(c) ==
  \/ EnsureMetadata(c) \/ CreateMetadata(c) \/ LockRevisions(c) \/ LookForRevision(c)
  \/ LookForObject(c) \/ MakeObject(c) \/ NoteObject(c) \/ RecordRevision(c)

Next ==
  \/ \E c \in Clients :
       \/ \E request \in Calls : Begin(c, request)
       \/ Statement(c)
       \/ \E landed \in BOOLEAN, report \in {"ok", "unknown"} : Commit(c, landed, report)
       \/ Fault(c)
  \/ \E op \in RuleOps : WriteRow(op) \/ RepairRows(op)

Spec == Init /\ [][Next]_vars

-----------------------------------------------------------------------------
(* A recorded revision is in effect: each of its operations is declared as   *)
(* the revision says, whatever failed, was retried or was created before.    *)
RecordedIsInstalled ==
  \A r \in ToSet(db.log) : ToSet(r.operations) \subseteq db.objects \cup db.rules

(* The committed metadata and SQL objects agree, name by name and rule by    *)
(* rule, and no relationship has lost an endpoint.                          *)
MetadataMatchesSchema ==
  /\ db.tables = {o.name : o \in db.objects} /\ db.guards = db.rules
  /\ \A o, p \in db.objects : o.name = p.name => o = p
  /\ \A o \in db.objects : o.ends \subseteq db.tables
  /\ db # Empty => db.meta

(* An installed rule holds of every row, those that were written while it    *)
(* was being installed included.                                            *)
RulesHold == db.guards \cap rows = {}

(* migrate implements RevisionLog.  A call that creates implicitly is none   *)
(* of it.                                                                   *)
Asked(c) == IF call[c] \in Requests THEN call[c] ELSE << >>

Promise == INSTANCE RevisionLog WITH
  log <- db.log, asked <- [c \in Clients |-> Asked(c)],
  Requests <- Requests \cup {<< >>}

LogPromise == Promise!Spec
=============================================================================
