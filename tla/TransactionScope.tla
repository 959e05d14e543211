--------------------------- MODULE TransactionScope ---------------------------
(***************************************************************************)
(* One Database handle and its transaction scopes: the owner thread enters *)
(* a scope, runs operations in it and leaves it; the backend connection    *)
(* underneath commits, rolls back, restores query_only, and may fail in     *)
(* any of its calls, before the call took effect or after.                  *)
(*                                                                         *)
(* A standalone operation of the handle is the scope of one operation whose *)
(* error always leaves the body.  Writes stand for what SQL statements do   *)
(* to stored data.                                                          *)
(***************************************************************************)
EXTENDS Naturals

CONSTANTS
  Writes,          \* the effects SQL statements can have, each made once
  ControlVerbs     \* the first words of the raw statements passed to tx.sql
                   \* that end a transaction

CommittingVerbs == {"COMMIT", "COMMIT;", "END", "END;"}
AbortVerbs == {"ABORT", "ABORT;"}
EndingVerbs == CommittingVerbs \cup AbortVerbs \cup {"ROLLBACK", "ROLLBACK;"}

ASSUME ControlAssumption == ControlVerbs \subseteq EndingVerbs

VARIABLES
  pg,              \* Backend.pg: PostgreSQL or SQLite
  readonly,        \* Backend.readonly
  state,           \* Database._state; "closed" also when no handle exists
  active,          \* Database._active is not None
  pc,              \* where the owner thread is in Database.transaction
  write,           \* Transaction._write of the scope
  failed,          \* Transaction._failed of the scope
  saved,           \* Backend._query_only_before
  connTx,          \* the connection: no transaction, open, or aborted (PG)
  queryOnly,       \* the connection's query_only switch (SQLite)
  pending,         \* the writes of the open database transaction
  durable          \* the committed writes

(* History, read by the properties only.                                    *)
VARIABLES
  written,         \* the writes made by the current or the last scope
  raised,          \* whether an operation raised while the body ran
  told             \* how the last scope ended for its caller

handle == <<pg, readonly>>
scope == <<write, failed, raised>>
conn == <<connTx, queryOnly, pending>>
vars == <<pg, readonly, state, active, pc, write, failed, saved, connTx,
          queryOnly, pending, durable, written, raised, told>>

InBody == {"body", "stmt"}
InCleanup == {"cleanup_begin", "cleanup_commit", "cleanup_rollback"}
InScope == InBody \cup {"commit", "rollback", "cleanup_commit", "cleanup_rollback"}
PCs == InScope \cup {"outside", "begin", "recover", "cleanup_begin"}

TypeOK ==
  /\ pg \in BOOLEAN /\ readonly \in BOOLEAN /\ active \in BOOLEAN
  /\ state \in {"idle", "active", "quarantined", "closed"}
  /\ pc \in PCs
  /\ write \in BOOLEAN /\ failed \in BOOLEAN /\ raised \in BOOLEAN
  /\ saved \in {"ON", "OFF", "None"} /\ queryOnly \in {"ON", "OFF"}
  /\ connTx \in {"idle", "open", "error"}
  /\ pending \subseteq Writes /\ durable \subseteq Writes /\ written \subseteq Writes
  /\ told \in {"nothing", "ok", "committed", "raised", "rolled_back", "unknown"}

-----------------------------------------------------------------------------
(* Forms of the definitions below that a mistake in the code would give;    *)
(* no specification uses them.                                              *)

AvailableWhenQuarantined == state # "closed" /\ ~active

ProtectsNothing == FALSE

RestoredAlways == saved

RestoredNever == queryOnly

AlwaysCommits == "commit"

RollbackVerbAllowed == {"BEGIN", "COMMIT", "END", "SAVEPOINT", "RELEASE"}

RaiseUnpoisoned ==
  /\ raised' = TRUE /\ UNCHANGED failed
  /\ pc' \in {"body", "rollback"}

QuarantineKeepsActive(outcome) ==
  /\ state' = "quarantined" /\ told' = outcome
  /\ pc' = "outside" /\ UNCHANGED active

-----------------------------------------------------------------------------
Init ==
  /\ pg \in BOOLEAN /\ readonly \in BOOLEAN
  /\ state = "idle" /\ active = FALSE /\ pc = "outside"
  /\ write = FALSE /\ failed = FALSE /\ saved = "None"
  /\ connTx = "idle" /\ queryOnly = "OFF" /\ pending = {}
  /\ durable = {} /\ written = {} /\ raised = FALSE /\ told = "nothing"

(* Database._available, called by the owner thread.                         *)
Available == state \notin {"closed", "quarantined"} /\ ~active

(* A read scope of SQLite runs under query_only; PostgreSQL has native      *)
(* read-only transactions instead.                                          *)
Protects == ~pg /\ ~write

(* The query_only value finish_transaction leaves behind.                   *)
Restored == IF saved = "None" THEN queryOnly ELSE saved

(* What the database itself lets a statement of this scope write.  READ ONLY *)
(* belongs to the transaction that BEGIN opened on PostgreSQL, and goes with  *)
(* it; query_only belongs to the connection of SQLite.                      *)
Writable == IF pg THEN write \/ connTx = "idle" ELSE queryOnly = "OFF" /\ ~readonly

(* Compared with the first word of the statement, a semicolon after it      *)
(* included.                                                                *)
DeniedVerbs == {"BEGIN", "COMMIT", "ROLLBACK", "END", "SAVEPOINT", "RELEASE"}

(* The scope's outcome is uncertain, or its connection is: the handle only  *)
(* closes from now on.                                                      *)
Quarantine(outcome) ==
  /\ state' = "quarantined" /\ told' = outcome
  /\ pc' = "outside" /\ active' = FALSE

(* An operation raises: the scope is poisoned, and the body catches the     *)
(* error or lets it escape.                                                 *)
Raise ==
  /\ failed' = TRUE /\ raised' = TRUE
  /\ pc' \in {"body", "rollback"}

(* What leaving the body without an error leads to.                         *)
Decision == IF failed THEN "rollback" ELSE "commit"

-----------------------------------------------------------------------------
StartScope(w) ==
  /\ pc = "outside" /\ Available
  /\ w => ~readonly
  /\ pc' = "begin" /\ write' = w /\ failed' = FALSE
  /\ written' = {} /\ raised' = FALSE /\ told' = "nothing"
  /\ UNCHANGED <<handle, state, active, saved, conn, durable>>

(* Backend.begin reached its steps one after the other (1: query_only read, *)
(* 2: switched on and verified, 3: BEGIN took effect), and raised or not.   *)
Begin(reached, raises) ==
  /\ pc = "begin"
  /\ reached < 3 => raises
  /\ saved' = IF Protects /\ reached >= 1 THEN queryOnly ELSE saved
  /\ queryOnly' = IF Protects /\ reached >= 2 THEN "ON" ELSE queryOnly
  /\ connTx' = IF reached = 3 THEN "open" ELSE connTx
  /\ active' = ~raises
  /\ state' = IF raises THEN state ELSE "active"
  /\ pc' = IF raises THEN "recover" ELSE "body"
  /\ UNCHANGED <<handle, scope, pending, durable, written, told>>

(* recover_begin rolls back what BEGIN may have opened.  A rollback that    *)
(* returns with the transaction still open is what its last line checks.    *)
RecoverRollback(ended, raises) ==
  /\ pc = "recover"
  /\ connTx' = IF ended THEN "idle" ELSE connTx
  /\ IF raises THEN Quarantine("unknown")
     ELSE pc' = "cleanup_begin" /\ UNCHANGED <<state, told, active>>
  /\ UNCHANGED <<handle, scope, saved, queryOnly, pending, durable, written>>

(* Backend.finish_transaction: 0 nothing done, 1 the saved value consumed,  *)
(* 2 query_only restored and verified.                                      *)
FinishTransaction(reached, raises) ==
  /\ reached < 2 => raises
  /\ raises => saved # "None"
  /\ saved' = IF reached >= 1 THEN "None" ELSE saved
  /\ queryOnly' = IF reached = 2 THEN Restored ELSE queryOnly

(* What the caller is told after the cleanup, and when the cleanup fails.   *)
Settled == IF pc = "cleanup_commit" THEN "ok" ELSE "raised"
Unsettled == IF pc = "cleanup_commit" THEN "committed"
             ELSE IF pc = "cleanup_rollback" THEN "rolled_back" ELSE "unknown"

Cleanup(reached, raises) ==
  /\ pc \in InCleanup
  /\ FinishTransaction(reached, raises)
  /\ IF raises \/ (pc = "cleanup_begin" /\ connTx # "idle")
       THEN Quarantine(Unsettled)
       ELSE /\ state' = "idle" /\ told' = Settled
            /\ pc' = "outside" /\ active' = FALSE
  /\ UNCHANGED <<handle, scope, connTx, pending, durable, written>>

-----------------------------------------------------------------------------
(* Transaction._operation: entered on an unfailed scope that allows it.     *)
StartOperation(writes) ==
  /\ pc = "body"
  /\ IF failed \/ (writes /\ ~write) THEN Raise
     ELSE pc' = "stmt" /\ UNCHANGED <<failed, raised>>
  /\ UNCHANGED <<handle, state, active, write, saved, conn, durable, written, told>>

(* A statement takes effect in the open transaction, or at once when the    *)
(* connection has none, and its answer arrives or an error does.            *)
Statement(w, raises) ==
  /\ pc = "stmt" /\ Writable /\ connTx # "error"
  /\ w \notin durable \cup written
  /\ pending' = IF connTx = "open" THEN pending \cup {w} ELSE pending
  /\ durable' = IF connTx = "idle" THEN durable \cup {w} ELSE durable
  /\ written' = written \cup {w}
  /\ IF raises THEN Raise ELSE pc' \in InBody /\ UNCHANGED <<failed, raised>>
  /\ UNCHANGED <<handle, state, active, write, saved, connTx, queryOnly, told>>

(* A statement fails: PostgreSQL aborts the transaction, SQLite undoes the  *)
(* statement and for some errors ends the transaction.                      *)
StatementFails(ends) ==
  /\ pc = "stmt"
  /\ connTx' = CASE pg /\ connTx = "open" -> "error"
                 [] ~pg /\ ends           -> "idle"
                 [] OTHER                 -> connTx
  /\ pending' = IF connTx' = "open" THEN pending ELSE {}
  /\ Raise
  /\ UNCHANGED <<handle, state, active, write, saved, queryOnly, durable, written, told>>

(* Raw SQL that ends a transaction: refused by its first word, or executed. *)
(* SQLite has no ABORT statement and needs a transaction to end.            *)
ControlStatement(verb) ==
  /\ pc = "stmt"
  /\ IF verb \in DeniedVerbs \/ (~pg /\ (verb \in AbortVerbs \/ connTx = "idle"))
       THEN Raise /\ UNCHANGED <<connTx, pending, durable>>
       ELSE /\ pc' = "body" /\ connTx' = "idle" /\ pending' = {}
            /\ durable' = IF verb \in CommittingVerbs THEN durable \cup pending ELSE durable
            /\ UNCHANGED <<failed, raised>>
  /\ UNCHANGED <<handle, state, active, write, saved, queryOnly, written, told>>

OperationReturns ==
  /\ pc = "stmt" /\ pc' = "body"
  /\ UNCHANGED <<handle, state, active, scope, saved, conn, durable, written, told>>

(* In the body: an operation or close of the Database handle, a second      *)
(* db.transaction, or tx.transaction().                                     *)
MisuseInBody ==
  /\ pc = "body" /\ Raise
  /\ UNCHANGED <<handle, state, active, write, saved, conn, durable, written, told>>

(* Another thread uses the transaction: it is refused and poisons the scope,*)
(* at any moment.  Only while the body runs is it in time to be seen.       *)
ForeignThreadUse ==
  /\ active
  /\ failed' = TRUE /\ raised' = (raised \/ pc \in InBody)
  /\ UNCHANGED <<handle, state, active, pc, write, saved, conn, durable, written, told>>

ApplicationRaises ==
  /\ pc = "body" /\ pc' = "rollback"
  /\ UNCHANGED <<handle, state, active, scope, saved, conn, durable, written, told>>

LeaveBody ==
  /\ pc = "body" /\ pc' = Decision
  /\ UNCHANGED <<handle, state, active, scope, saved, conn, durable, written, told>>

-----------------------------------------------------------------------------
(* COMMIT lands or not and raises or not.  PostgreSQL accepts it in an      *)
(* aborted transaction, which it rolls back, and without a transaction;     *)
(* SQLite refuses it without one.                                           *)
Commit(landed, raises) ==
  /\ pc = "commit"
  /\ landed => connTx = "open"
  /\ ~landed => raises \/ (pg /\ connTx # "open")
  /\ durable' = IF landed THEN durable \cup pending ELSE durable
  /\ connTx' \in IF landed \/ ~raises THEN {"idle"} ELSE {connTx, "idle"}
  /\ pending' = IF connTx' = "open" THEN pending ELSE {}
  /\ IF raises THEN Quarantine("unknown")
     ELSE pc' = "cleanup_commit" /\ UNCHANGED <<state, told, active>>
  /\ UNCHANGED <<handle, scope, saved, queryOnly, written>>

Rollback(ended, raises) ==
  /\ pc = "rollback"
  /\ ended => connTx # "idle"
  /\ ~ended => raises \/ (pg /\ connTx = "idle")
  /\ connTx' = IF ended THEN "idle" ELSE connTx
  /\ pending' = IF connTx' = "open" THEN pending ELSE {}
  /\ IF raises THEN Quarantine("unknown")
     ELSE pc' = "cleanup_rollback" /\ UNCHANGED <<state, told, active>>
  /\ UNCHANGED <<handle, scope, saved, queryOnly, durable, written>>

-----------------------------------------------------------------------------
(* Closing the connection ends what it had open.                            *)
Close ==
  /\ pc = "outside" /\ state # "closed"
  /\ state' = "closed" /\ connTx' = "idle" /\ pending' = {}
  /\ UNCHANGED <<handle, active, pc, scope, saved, queryOnly, durable, written, told>>

(* The process or its connection is gone; the database keeps what committed.*)
Crash ==
  /\ state # "closed"
  /\ state' = "closed" /\ connTx' = "idle" /\ pending' = {}
  /\ pc' = "outside" /\ active' = FALSE /\ told' = "nothing"
  /\ UNCHANGED <<handle, scope, saved, queryOnly, durable, written>>

(* A new handle on the same database.                                       *)
Open(ro) ==
  /\ state = "closed"
  /\ state' = "idle" /\ readonly' = ro /\ active' = FALSE
  /\ saved' = "None" /\ queryOnly' = "OFF"
  /\ write' = FALSE /\ failed' = FALSE /\ raised' = FALSE
  /\ written' = {} /\ told' = "nothing"
  /\ UNCHANGED <<pg, pc, connTx, pending, durable>>

-----------------------------------------------------------------------------
Next ==
  \/ \E w \in BOOLEAN : StartScope(w)
  \/ \E reached \in 0..3, raises \in BOOLEAN : Begin(reached, raises)
  \/ \E ended, raises \in BOOLEAN : RecoverRollback(ended, raises)
  \/ \E reached \in 0..2, raises \in BOOLEAN : Cleanup(reached, raises)
  \/ \E writes \in BOOLEAN : StartOperation(writes)
  \/ \E w \in Writes, raises \in BOOLEAN : Statement(w, raises)
  \/ \E ends \in BOOLEAN : StatementFails(ends)
  \/ \E verb \in ControlVerbs : ControlStatement(verb)
  \/ OperationReturns
  \/ MisuseInBody
  \/ ForeignThreadUse
  \/ ApplicationRaises
  \/ LeaveBody
  \/ \E landed, raises \in BOOLEAN : Commit(landed, raises)
  \/ \E ended, raises \in BOOLEAN : Rollback(ended, raises)
  \/ Close
  \/ Crash
  \/ \E ro \in BOOLEAN : Open(ro)

Spec == Init /\ [][Next]_vars

(* Driver calls return or raise; the application's body comes to an end.    *)
Fairness ==
  /\ WF_vars(\E reached \in 0..3, raises \in BOOLEAN : Begin(reached, raises))
  /\ WF_vars(\E ended, raises \in BOOLEAN : RecoverRollback(ended, raises))
  /\ WF_vars(\E reached \in 0..2, raises \in BOOLEAN : Cleanup(reached, raises))
  /\ WF_vars(OperationReturns)
  /\ SF_vars(LeaveBody)
  /\ WF_vars(\E landed, raises \in BOOLEAN : Commit(landed, raises))
  /\ WF_vars(\E ended, raises \in BOOLEAN : Rollback(ended, raises))

FairSpec == Spec /\ Fairness

-----------------------------------------------------------------------------
(* What follows is claimed of every reachable state or step of the handle.  *)

(* An idle handle is as a new one: between scopes the connection has no     *)
(* transaction, no uncommitted write and query_only off, whatever failed    *)
(* and recovered before (finish_transaction, recover_begin).                *)
IdleHandleClean ==
  state = "idle" /\ pc = "outside" =>
    /\ connTx = "idle" /\ pending = {} /\ ~active
    /\ queryOnly = "OFF" /\ saved = "None"

(* What the caller of a scope is told is true: success only of writes that  *)
(* are all durable, failure or "rolled_back" only of writes none of which   *)
(* is, whatever call of the backend failed on the way.                      *)
ReportTruthful ==
  /\ told \in {"ok", "committed"} => written \subseteq durable
  /\ told \in {"raised", "rolled_back"} => written \cap durable = {}

(* Once an operation raised in the body, on any thread, the scope never     *)
(* commits, even when the application caught the error and carried on.      *)
PoisonedNeverCommits ==
  raised => pc \notin {"commit", "cleanup_commit"} /\ told \notin {"ok", "committed"}

(* Stored data changes only where a write scope commits, and then by all    *)
(* the scope has written: never in a read scope, half a scope, or outside.  *)
OnlyCommitIsDurable ==
  [][durable' # durable => pc = "commit" /\ write /\ durable' = durable \cup written]_vars

(* Raw SQL does not control transactions: under a running body the database *)
(* transaction ends only together with an error to the body or a crash.     *)
BodyKeepsTransaction ==
  [][connTx = "open" /\ pc \in InBody /\ connTx' # "open" => raised' \/ state' = "closed"]_vars

(* Every scope comes to an end that frees the handle of it.                 *)
ScopeEnds == pc = "begin" ~> pc = "outside" /\ ~active

(* The handle implements the promise of AtomicScope.                        *)
Promise == INSTANCE AtomicScope WITH
  store <- durable, open <- pc # "outside", scope <- written, told <- told,
  usable <- state \in {"idle", "active"}

PromiseKept == Promise!Spec
=============================================================================
